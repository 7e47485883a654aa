--------------------------- MODULE AttachmentUpload ---------------------------
(***************************************************************************)
(* One attachment file on a device that receives it, by the two ways it    *)
(* can come: peers that push it in chunks (pushAttachment against          *)
(* receiveAttachmentUploadChunk), and the device's own session that        *)
(* fetches it whole (syncAttachmentsFrom, writeAttachmentBytes).           *)
(*                                                                         *)
(* The receiver keeps a partial file and a sidecar that says what the      *)
(* partial file will become.  Its handler is cut at the awaits, so that    *)
(* the requests of several senders, and the device's own fetch, meet on    *)
(* the same files, and so that a crash can fall between any two of them.   *)
(*                                                                         *)
(* A byte is a pair of the version it belongs to and its place, so a file  *)
(* is a sequence of such pairs; no file and an empty one are the same.     *)
(***************************************************************************)
EXTENDS Naturals, Sequences

CONSTANTS
  Senders,    \* the peers that push the file
  Versions,   \* the contents the file can have: its sha256
  NoVersion,  \* no sidecar
  Torn,       \* a sidecar cut short by a crash
  Total,      \* the length of the file
  Chunk,      \* attachmentUploadChunkSize
  MaxCrashes, \* bound: restarts of the receiver
  MaxLost,    \* bound: calls that fail or whose answer is lost
  MaxMerges,  \* bound: merges that change the version the receiver lists
  MaxUploads  \* bound: uploads begun, by all senders

ASSUME VersionAssumption == NoVersion \notin Versions /\ Torn \notin Versions \cup {NoVersion}
ASSUME SizeAssumption == Total \in Nat /\ Chunk \in Nat \ {0} /\ Chunk < Total
ASSUME UploadBoundAssumption ==
  MaxCrashes \in Nat /\ MaxLost \in Nat /\ MaxMerges \in Nat /\ MaxUploads \in Nat

VARIABLES
  want,     \* the version the receiver's meta.json lists
  final,    \* attachments/<name>
  part,     \* attachments/.uploading/<name>
  sidecar,  \* attachments/.uploading/<name>.meta.json
  up,       \* up[s]: the upload of s and its request, if one is being handled
  pull,     \* the receiver's own fetch of the file
  overlapped,  \* whether a request ever came while a chunk was being handled
  crashes, lost, merges, uploads  \* how often each has happened

disk == <<final, part, sidecar>>
counts == <<crashes, lost, merges, uploads>>
vars == <<want, disk, up, pull, overlapped, counts>>

Content(v) == [k \in 1..Total |-> <<v, k>>]
Bytes(v, off) ==
  SubSeq(Content(v), off + 1, IF off + Chunk < Total THEN off + Chunk ELSE Total)
Right == final = Content(want)

\* Where an upload is.  In the first line the sender acts, in the others the
\* receiver's handler of the chunk it has sent.
SenderPhases == {"idle", "ask", "send", "reask", "done"}
HandlerPhases == {"check", "measure", "compare", "note", "append", "hash", "unlink",
                  "rename", "tidy"}

\* off: the sender's offset; got: the handler's "received"; deaf: nobody waits for
\* the answer any more.
Uploads == [pc : SenderPhases \cup HandlerPhases, ver : Versions \cup {NoVersion},
            off : Nat, got : Nat, deaf : BOOLEAN]
NoUpload == [pc |-> "idle", ver |-> NoVersion, off |-> 0, got |-> 0, deaf |-> FALSE]
\* In "fill" the file is open and empty, in "unnamed" it is open and has lost its name.
Pulls == [pc : {"idle", "open", "fill", "unnamed", "verify", "delete"},
          ver : Versions \cup {NoVersion}]
NoPull == [pc |-> "idle", ver |-> NoVersion]

Init ==
  /\ want \in Versions
  /\ final = <<>> /\ part = <<>> /\ sidecar = NoVersion
  /\ up = [s \in Senders |-> NoUpload] /\ pull = NoPull
  /\ overlapped = FALSE
  /\ crashes = 0 /\ lost = 0 /\ merges = 0 /\ uploads = 0
-----------------------------------------------------------------------------
(* The sender. *)

Handling == \E r \in Senders : up[r].pc \in HandlerPhases
NoteOverlap == overlapped' = (overlapped \/ Handling)

\* attachmentUploadStatus, when the sidecar can be parsed.
Status == IF Right THEN Total ELSE IF sidecar = NoVersion THEN 0 ELSE Len(part)

\* The sender goes on from an offset: the loop ends at the length of the file.
Resume(s, off) ==
  up' = [up EXCEPT ![s] = [@ EXCEPT !.off = off, !.got = 0,
                           !.pc = IF off < Total THEN "send" ELSE "done"]]
\* Mutant: an upload that is given up keeps its offset.
FailKeeping(s) == up' = [up EXCEPT ![s].pc = "idle"]
Fail(s) == up' = [up EXCEPT ![s] = NoUpload]

Start(s) ==  \* pushAttachment of the version the receiver's meta lists
  /\ up[s].pc = "idle" /\ uploads < MaxUploads
  /\ uploads' = uploads + 1
  /\ up' = [up EXCEPT ![s] = [NoUpload EXCEPT !.pc = "ask", !.ver = want]]
  /\ UNCHANGED <<want, disk, pull, overlapped, crashes, lost, merges>>

Ask(s) ==  \* _fetchUploadOffset
  /\ up[s].pc = "ask"
  /\ IF ~Right /\ sidecar = Torn THEN Fail(s) ELSE Resume(s, Status)
  /\ NoteOverlap
  /\ UNCHANGED <<want, disk, pull, counts>>

Send(s) ==  \* _putUploadChunk
  /\ up[s].pc = "send"
  /\ up' = [up EXCEPT ![s].pc = "check"]
  /\ NoteOverlap
  /\ UNCHANGED <<want, disk, pull, counts>>

Reask(s) ==  \* after a 409: the offset must have moved
  /\ up[s].pc = "reask"
  /\ IF (~Right /\ sidecar = Torn) \/ Status = up[s].off THEN Fail(s)
     ELSE Resume(s, Status)
  /\ NoteOverlap
  /\ UNCHANGED <<want, disk, pull, counts>>

Leave(s) ==
  /\ up[s].pc = "done"
  /\ Fail(s)
  /\ UNCHANGED <<want, disk, pull, overlapped, counts>>
-----------------------------------------------------------------------------
(* The handler of a chunk: receiveAttachmentUploadChunk. *)

\* The answer: an error ends the upload, 409 asks again, success goes on.
ReplyError(s) == Fail(s)
ReplyOffset(s) ==
  IF up[s].deaf THEN Fail(s) ELSE up' = [up EXCEPT ![s].pc = "reask"]
ReplyReceived(s, n) == IF up[s].deaf THEN Fail(s) ELSE Resume(s, n)
Goto(s, pc) == up' = [up EXCEPT ![s].pc = pc]

Check(s) ==
  /\ up[s].pc = "check"
  /\ IF up[s].ver # want THEN ReplyError(s)
     ELSE IF Right THEN ReplyReceived(s, Total)
     ELSE Goto(s, "measure")
  /\ UNCHANGED <<want, disk, pull, overlapped, counts>>

Measure(s) ==
  /\ up[s].pc = "measure"
  /\ up' = [up EXCEPT ![s].got = Len(part), ![s].pc = "compare"]
  /\ UNCHANGED <<want, disk, pull, overlapped, counts>>

\* Mutant: a partial file of another version is kept.
CompareOffsetOnly(s) ==
  /\ up[s].pc = "compare"
  /\ IF sidecar = Torn THEN ReplyError(s)
     ELSE IF up[s].off # up[s].got THEN ReplyOffset(s)
     ELSE Goto(s, "note")
  /\ UNCHANGED <<want, disk, pull, overlapped, counts>>
\* The sidecar decides whether the partial file is ours; then the offset must be
\* where the partial file ends.  An empty chunk cannot come: off < Total.
Compare(s) ==
  LET foreign == sidecar \in Versions /\ sidecar # up[s].ver
      got == IF foreign THEN 0 ELSE up[s].got
  IN
  /\ up[s].pc = "compare"
  /\ part' = IF sidecar # Torn /\ (foreign \/ (got = 0 /\ up[s].off = 0))
             THEN <<>> ELSE part
  /\ sidecar' = IF foreign THEN NoVersion ELSE sidecar
  /\ IF sidecar = Torn THEN ReplyError(s)
     ELSE IF up[s].off # got THEN ReplyOffset(s)
     ELSE IF got + Len(Bytes(up[s].ver, up[s].off)) > Total THEN ReplyError(s)
     ELSE up' = [up EXCEPT ![s].got = got, ![s].pc = "note"]
  /\ UNCHANGED <<want, final, pull, overlapped, counts>>

WriteSidecar(s) ==
  /\ up[s].pc = "note"
  /\ sidecar' = up[s].ver
  /\ Goto(s, "append")
  /\ UNCHANGED <<want, final, part, pull, overlapped, counts>>

\* FileMode.write at the beginning, FileMode.append afterwards.
Appended(s, bytes) == IF up[s].got = 0 THEN bytes ELSE part \o bytes

\* Mutant: the last chunk is answered before the file is put in place.
AppendAnswer(s) ==
  LET bytes == Bytes(up[s].ver, up[s].off)
  IN
  /\ up[s].pc = "append"
  /\ part' = Appended(s, bytes)
  /\ ReplyReceived(s, up[s].got + Len(bytes))
  /\ UNCHANGED <<want, final, sidecar, pull, overlapped, counts>>
AppendChunk(s) ==
  LET bytes == Bytes(up[s].ver, up[s].off)
      got == up[s].got + Len(bytes)
  IN
  /\ up[s].pc = "append"
  /\ part' = Appended(s, bytes)
  /\ IF got < Total THEN ReplyReceived(s, got)
     ELSE up' = [up EXCEPT ![s].got = got, ![s].pc = "hash"]
  /\ UNCHANGED <<want, final, sidecar, pull, overlapped, counts>>

\* A partial file that has gone meanwhile cannot be read: the request fails.
Hash(s) ==
  /\ up[s].pc = "hash"
  /\ IF part = Content(up[s].ver) THEN Goto(s, "unlink") /\ UNCHANGED <<part, sidecar>>
     ELSE IF part = <<>> THEN ReplyError(s) /\ UNCHANGED <<part, sidecar>>
     ELSE ReplyError(s) /\ part' = <<>> /\ sidecar' = NoVersion
  /\ UNCHANGED <<want, final, pull, overlapped, counts>>

\* The name goes to another file: what the fetch has open it fills without effect.
TakeName == pull' = IF pull.pc = "fill" THEN [pull EXCEPT !.pc = "unnamed"] ELSE pull

Unlink(s) ==
  /\ up[s].pc = "unlink"
  /\ final' = <<>> /\ TakeName
  /\ Goto(s, "rename")
  /\ UNCHANGED <<want, part, sidecar, overlapped, counts>>

Rename(s) ==
  /\ up[s].pc = "rename"
  /\ IF part = <<>> THEN ReplyError(s) /\ UNCHANGED <<final, part, pull>>
     ELSE Goto(s, "tidy") /\ final' = part /\ part' = <<>> /\ TakeName
  /\ UNCHANGED <<want, sidecar, overlapped, counts>>

\* A sidecar another request has removed cannot be deleted: the request fails.
Tidy(s) ==
  /\ up[s].pc = "tidy"
  /\ IF sidecar = NoVersion THEN ReplyError(s) ELSE ReplyReceived(s, Total)
  /\ sidecar' = NoVersion
  /\ UNCHANGED <<want, final, part, pull, overlapped, counts>>

Handle(s) ==
  \/ Check(s) \/ Measure(s) \/ Compare(s) \/ WriteSidecar(s) \/ AppendChunk(s)
  \/ Hash(s) \/ Unlink(s) \/ Rename(s) \/ Tidy(s)
-----------------------------------------------------------------------------
(* The receiver's own session: attachmentMatches, fetchAttachment,           *)
(* storeRemoteAttachment.                                                    *)

\* Mutant: a file that exists is not compared with its meta.
PullIfMissing ==
  /\ pull.pc = "idle" /\ final = <<>>
  /\ pull' = [pc |-> "open", ver |-> want]
  /\ UNCHANGED <<want, disk, up, overlapped, counts>>
PullStart ==
  /\ pull.pc = "idle" /\ ~Right
  /\ pull' = [pc |-> "open", ver |-> want]
  /\ UNCHANGED <<want, disk, up, overlapped, counts>>

\* writeAsBytes opens the file, which empties it, and then fills it.
PullOpen ==
  /\ pull.pc = "open"
  /\ final' = <<>>
  /\ pull' = [pull EXCEPT !.pc = "fill"]
  /\ UNCHANGED <<want, part, sidecar, up, overlapped, counts>>

PullFill ==
  /\ pull.pc \in {"fill", "unnamed"}
  /\ final' = IF pull.pc = "fill" THEN Content(pull.ver) ELSE final
  /\ pull' = [pull EXCEPT !.pc = "verify"]
  /\ UNCHANGED <<want, part, sidecar, up, overlapped, counts>>

\* A file that is not what it should be is deleted; one that has gone cannot be read.
PullVerify ==
  /\ pull.pc = "verify"
  /\ pull' = IF final \in {<<>>, Content(pull.ver)} THEN NoPull
             ELSE [pull EXCEPT !.pc = "delete"]
  /\ UNCHANGED <<want, disk, up, overlapped, counts>>

PullDelete ==
  /\ pull.pc = "delete"
  /\ final' = <<>> /\ pull' = NoPull
  /\ UNCHANGED <<want, part, sidecar, up, overlapped, counts>>

PullFault ==
  /\ pull.pc = "open" /\ lost < MaxLost
  /\ lost' = lost + 1 /\ pull' = NoPull
  /\ UNCHANGED <<want, disk, up, overlapped, crashes, merges, uploads>>
-----------------------------------------------------------------------------
(* The environment. *)

Merge ==  \* a merge of the note brings an attachment of this name with other bytes
  /\ merges < MaxMerges /\ merges' = merges + 1
  /\ \E v \in Versions \ {want} : want' = v
  /\ UNCHANGED <<disk, up, pull, overlapped, crashes, lost, uploads>>

\* A call fails before it arrives, or its answer is lost.
Lose(s) ==
  /\ lost < MaxLost /\ lost' = lost + 1
  /\ \/ up[s].pc \in {"ask", "send", "reask"} /\ Fail(s)
     \/ /\ up[s].pc \in HandlerPhases /\ ~up[s].deaf
        /\ up' = [up EXCEPT ![s].deaf = TRUE]
  /\ UNCHANGED <<want, disk, pull, overlapped, crashes, merges, uploads>>

Prefixes(seq) == {SubSeq(seq, 1, k) : k \in 0..Len(seq)}

\* The receiver stops and starts again.  A file that is being written keeps any
\* prefix of what was to be written; the senders' calls fail.
Crash ==
  /\ crashes < MaxCrashes /\ crashes' = crashes + 1
  /\ sidecar' \in {sidecar} \cup (IF \E s \in Senders : up[s].pc = "note"
                                  THEN {Torn} ELSE {})
  /\ part' \in {part} \cup UNION {{Appended(s, b) : b \in Prefixes(Bytes(up[s].ver, up[s].off))} :
                                   s \in {r \in Senders : up[r].pc = "append"}}
  /\ final' \in {final} \cup (IF pull.pc = "fill" THEN Prefixes(Content(pull.ver)) ELSE {})
  /\ up' = [s \in Senders |-> NoUpload] /\ pull' = NoPull
  /\ UNCHANGED <<want, overlapped, lost, merges, uploads>>

Upload(s) == Start(s) \/ Ask(s) \/ Send(s) \/ Reask(s) \/ Leave(s) \/ Handle(s)
Fetch == PullStart \/ PullOpen \/ PullFill \/ PullVerify \/ PullDelete

Next ==
  \/ \E s \in Senders : Upload(s) \/ Lose(s)
  \/ Fetch \/ PullFault
  \/ Merge \/ Crash

Spec == Init /\ [][Next]_vars

\* A handler and a sender that waits for it go on; the receiver's periodic sync looks
\* for missing files again and again.  Nothing makes a sender begin an upload.
FairSpec == /\ Spec
            /\ \A s \in Senders : WF_vars(Ask(s) \/ Send(s) \/ Reask(s) \/ Leave(s) \/ Handle(s))
            /\ WF_vars(Fetch)
-----------------------------------------------------------------------------
(* Properties. *)

\* Every variable keeps its type, and an upload that has ended leaves nothing behind
\* for the next one (the locals of _putAttachmentResumable).
TypeOK ==
  /\ want \in Versions
  /\ final \in Seq(Versions \X (1..Total))
  /\ part \in Seq(Versions \X (1..Total))
  /\ sidecar \in Versions \cup {NoVersion, Torn}
  /\ up \in [Senders -> Uploads]
  /\ \A s \in Senders : up[s].pc = "idle" => up[s] = NoUpload
  /\ pull \in Pulls
  /\ crashes \in 0..MaxCrashes /\ lost \in 0..MaxLost /\ merges \in 0..MaxMerges
  /\ uploads \in 0..MaxUploads /\ overlapped \in BOOLEAN

\* The partial file is a beginning of what the sidecar says it will become, and
\* without a sidecar there is none, whatever crashes and lost answers there have been.
\* Appending at the length of the partial file (attachment_upload.dart:142-153)
\* rests on it.
PartIsPrefix ==
  ~overlapped =>
    /\ sidecar \in Versions => \E k \in 0..Total : part = SubSeq(Content(sidecar), 1, k)
    /\ sidecar = NoVersion => part = <<>>

\* The receiver has the file, or its own fetch has just emptied it, to fill it with the
\* same bytes (attachment_storage.dart:264).
InPlace == Right \/ (pull.pc = "fill" /\ pull.ver = want)

\* A sender that is told its upload is complete can rely on it, while the receiver's
\* meta lists the version it has sent.
DoneMeansStored ==
  [][\A s \in Senders :
       up[s].pc # "done" /\ up'[s].pc = "done" /\ up[s].ver = want => InPlace']_vars

\* ... as long as the receiver is not restarted and keeps to one version.  Lost
\* answers and sessions that break off do no harm; the receiver's own fetch does, but
\* only while it fills the file it has emptied.
DoneMeansStoredUndisturbed ==
  [][\A s \in Senders :
       /\ up[s].pc # "done" /\ up'[s].pc = "done"
       /\ crashes = 0 /\ merges = 0 /\ ~overlapped'
       => InPlace']_vars

\* In the end the receiver has the file its meta lists, by one way or the other.
EventuallyRight == <>[]Right
=============================================================================
