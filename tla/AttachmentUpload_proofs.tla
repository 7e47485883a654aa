------------------------- MODULE AttachmentUpload_proofs -------------------------
(***************************************************************************)
(* Proofs about AttachmentUpload, for any number of senders, restarts,     *)
(* lost answers and merges, and any length of file and chunk: the types,   *)
(* what the partial file is while requests do not overlap, and what a      *)
(* sender may rely on when it is told that its upload is complete.         *)
(***************************************************************************)
EXTENDS AttachmentUpload, SequenceTheorems, TLAPS

File == Seq(Versions \X (1..Total))

IsBeginning(v, file) == \E k \in 0..Total : file = SubSeq(Content(v), 1, k)
-----------------------------------------------------------------------------
(* Contents, their beginnings, and chunks. *)

LEMMA Sizes == Total \in Nat \ {0} /\ Chunk \in Nat \ {0}
  BY SizeAssumption

LEMMA Contents ==
  ASSUME NEW v \in Versions
  PROVE  /\ Content(v) \in File /\ Len(Content(v)) = Total /\ Content(v) # <<>>
         /\ SubSeq(Content(v), 1, Total) = Content(v)
<1>1. Content(v) \in [1..Total -> Versions \X (1..Total)]
  BY DEF Content
<1>2. Content(v) \in File /\ Len(Content(v)) = Total
  BY <1>1, Sizes DEF File
<1>3. Content(v) # <<>>
  BY <1>2, Sizes
<1>4. SubSeq(Content(v), 1, Total) = Content(v)
  BY <1>2, SubSeqFull DEF File
<1> QED
  BY <1>2, <1>3, <1>4

LEMMA Beginnings ==
  ASSUME NEW v \in Versions, NEW k \in 0..Total
  PROVE  /\ SubSeq(Content(v), 1, k) \in File /\ Len(SubSeq(Content(v), 1, k)) = k
         /\ IsBeginning(v, SubSeq(Content(v), 1, k))
<1>1. Content(v) \in Seq(Versions \X (1..Total)) /\ Len(Content(v)) = Total
  BY Contents DEF File
<1>2. 1 \in 1..(Len(Content(v)) + 1) /\ k \in (1 - 1)..Len(Content(v))
  BY <1>1, Sizes
<1>3. /\ SubSeq(Content(v), 1, k) \in Seq(Versions \X (1..Total))
      /\ Len(SubSeq(Content(v), 1, k)) = IF 1 <= k THEN k - 1 + 1 ELSE 0
  BY <1>1, <1>2, SubSeqProperties
<1> QED
  BY <1>3 DEF File, IsBeginning

LEMMA BeginningLength ==
  ASSUME NEW v \in Versions, NEW file, IsBeginning(v, file)
  PROVE  /\ file \in File /\ Len(file) \in 0..Total /\ file = SubSeq(Content(v), 1, Len(file))
         /\ Len(file) = Total => file = Content(v)
BY Beginnings, Contents DEF IsBeginning

LEMMA EmptyBeginning == ASSUME NEW v \in Versions PROVE IsBeginning(v, <<>>) /\ <<>> \in File
<1>1. <<>> \in File
  BY DEF File
<1>2. 0 \in 0..Total
  BY Sizes
<1>3. SubSeq(Content(v), 1, 0) \in File /\ Len(SubSeq(Content(v), 1, 0)) = 0
  BY <1>2, Beginnings
<1>4. SubSeq(Content(v), 1, 0) = <<>>
  BY <1>3, EmptySeq DEF File
<1> QED
  BY <1>1, <1>2, <1>4 DEF IsBeginning

\* A chunk begins where the partial file ends and goes on with it; so does what a crash
\* leaves of a chunk.
LEMMA ChunkBytes ==
  ASSUME NEW v \in Versions, NEW off \in Nat, off < Total
  PROVE  /\ Bytes(v, off) \in File
         /\ Len(Bytes(v, off)) \in 1..Chunk /\ off + Len(Bytes(v, off)) <= Total
         /\ \A j \in 0..Len(Bytes(v, off)) :
              /\ SubSeq(Bytes(v, off), 1, j) \in File
              /\ SubSeq(Content(v), 1, off) \o SubSeq(Bytes(v, off), 1, j)
                   = SubSeq(Content(v), 1, off + j)
         /\ SubSeq(Bytes(v, off), 1, Len(Bytes(v, off))) = Bytes(v, off)
<1> DEFINE C == Content(v)
           m == IF off + Chunk < Total THEN off + Chunk ELSE Total
<1>1. C \in Seq(Versions \X (1..Total)) /\ Len(C) = Total
  BY Contents DEF File
<1>2. m \in Nat /\ off + 1 <= m /\ m <= Total /\ m - off \in 1..Chunk
  BY Sizes
<1>3. off + 1 \in 1..(Len(C) + 1) /\ m \in ((off + 1) - 1)..Len(C)
  BY <1>1, <1>2
<1>4. Bytes(v, off) = SubSeq(C, off + 1, m)
  BY DEF Bytes
<1> HIDE DEF C, m
<1>5. /\ Bytes(v, off) \in Seq(Versions \X (1..Total))
      /\ Len(Bytes(v, off)) = IF off + 1 <= m THEN m - (off + 1) + 1 ELSE 0
  BY <1>1, <1>3, <1>4, SubSeqProperties
<1>6. Len(Bytes(v, off)) = m - off
  BY <1>2, <1>5
<1>7. ASSUME NEW j \in 0..Len(Bytes(v, off))
      PROVE  /\ SubSeq(Bytes(v, off), 1, j) \in File
             /\ SubSeq(C, 1, off) \o SubSeq(Bytes(v, off), 1, j) = SubSeq(C, 1, off + j)
  <2>1. j \in Nat /\ off + j <= m
    BY <1>2, <1>6
  <2>2. SubSeq(SubSeq(C, off + 1, m), 1, j) = SubSeq(C, (off + 1) + 1 - 1, (off + 1) + j - 1)
    <3>1. off + 1 \in 1..(Len(C) + 1) /\ m \in off..Len(C)
      BY <1>1, <1>2
    <3>2. 1 \in 1..(m + 1 - (off + 1) + 1) /\ j \in 0..(m + 1 - (off + 1))
      BY <1>2, <2>1
    <3> QED
      BY <1>1, <3>1, <3>2, SubSeqOfSubSeq
  <2>3. SubSeq(Bytes(v, off), 1, j) = SubSeq(C, off + 1, off + j)
    <3>1. (off + 1) + 1 - 1 = off + 1 /\ (off + 1) + j - 1 = off + j
      BY <2>1
    <3> QED
      BY <1>4, <2>2, <3>1
  <2>4. SubSeq(C, 1, off) \o SubSeq(C, off + 1, off + j) = SubSeq(C, 1, off + j)
    <3>1. 1 \in 1..(Len(C) + 1) /\ off \in (1 - 1)..Len(C) /\ off + j \in off..Len(C)
      BY <1>1, <1>2, <2>1
    <3> QED
      BY <1>1, <3>1, ConcatAdjacentSubSeq
  <2>5. SubSeq(Bytes(v, off), 1, j) \in File
    <3>1. off + 1 \in Int /\ off + j \in Int /\ \A i \in (off + 1)..(off + j) : C[i] \in Versions \X (1..Total)
      BY <1>1, <1>2, <2>1
    <3> QED
      BY <2>3, <3>1, SubSeqProperties DEF File
  <2> QED
    BY <2>3, <2>4, <2>5
<1>8. SubSeq(Bytes(v, off), 1, Len(Bytes(v, off))) = Bytes(v, off)
  BY <1>5, SubSeqFull
<1> QED
  BY <1>2, <1>5, <1>6, <1>7, <1>8 DEF C, File
-----------------------------------------------------------------------------
(* Types. *)

\* An upload that is there has a version, and one that sends is short of the end.
Proper(u) ==
  /\ u \in Uploads
  /\ u.pc = "idle" => u = NoUpload
  /\ u.pc # "idle" => u.ver \in Versions
  /\ u.pc \in {"send"} \cup HandlerPhases => u.off < Total

Typed ==
  /\ TypeOK
  /\ \A s \in Senders : Proper(up[s])
  /\ pull.pc # "idle" => pull.ver \in Versions

LEMMA ProperUploads ==
  /\ Proper(NoUpload)
  /\ \A u : Proper(u) /\ u.pc # "idle" =>
       /\ \A n \in Nat : /\ n < Total => Proper([u EXCEPT !.off = n, !.got = 0, !.pc = "send"])
                         /\ Proper([u EXCEPT !.off = n, !.got = 0, !.pc = "done"])
       /\ \A pc \in HandlerPhases, n \in Nat :
            u.off < Total => /\ Proper([u EXCEPT !.pc = pc])
                             /\ Proper([u EXCEPT !.got = n, !.pc = pc])
       /\ Proper([u EXCEPT !.pc = "reask"]) /\ Proper([u EXCEPT !.deaf = TRUE])
  /\ \A v \in Versions : Proper([NoUpload EXCEPT !.pc = "ask", !.ver = v])
<1>1. Proper(NoUpload)
  BY DEF Proper, NoUpload, Uploads, SenderPhases, HandlerPhases
<1>2. ASSUME NEW u, Proper(u), u.pc # "idle", NEW n \in Nat
      PROVE  /\ n < Total => Proper([u EXCEPT !.off = n, !.got = 0, !.pc = "send"])
             /\ Proper([u EXCEPT !.off = n, !.got = 0, !.pc = "done"])
  BY <1>2 DEF Proper, Uploads, SenderPhases, HandlerPhases
<1>3. ASSUME NEW u, Proper(u), u.pc # "idle", NEW pc \in HandlerPhases, NEW n \in Nat, u.off < Total
      PROVE  Proper([u EXCEPT !.pc = pc]) /\ Proper([u EXCEPT !.got = n, !.pc = pc])
  BY <1>3 DEF Proper, Uploads, SenderPhases, HandlerPhases
<1>4. ASSUME NEW u, Proper(u), u.pc # "idle"
      PROVE  Proper([u EXCEPT !.pc = "reask"]) /\ Proper([u EXCEPT !.deaf = TRUE])
  BY <1>4 DEF Proper, Uploads, SenderPhases, HandlerPhases
<1>5. NoUpload \in Uploads
  BY <1>1 DEF Proper
<1>6. ASSUME NEW u \in Uploads, NEW v \in Versions PROVE Proper([u EXCEPT !.pc = "ask", !.ver = v])
  BY DEF Proper, Uploads, SenderPhases, HandlerPhases
<1> QED
  BY <1>1, <1>2, <1>3, <1>4, <1>5, <1>6

\* What the answers and the next step make of an upload.
LEMMA Answers ==
  ASSUME Typed, NEW s \in Senders, up[s].pc # "idle",
         \/ Fail(s) \/ ReplyError(s) \/ ReplyOffset(s)
         \/ \E n \in Nat : Resume(s, n) \/ ReplyReceived(s, n)
         \/ up[s].off < Total /\ \E pc \in HandlerPhases : Goto(s, pc)
  PROVE  \E u : Proper(u) /\ up' = [up EXCEPT ![s] = u]
<1>1. Proper(up[s])
  BY DEF Typed
<1>2. CASE Fail(s)
  BY <1>2, ProperUploads DEF Fail
<1>3. ASSUME NEW n \in Nat, Resume(s, n) PROVE \E u : Proper(u) /\ up' = [up EXCEPT ![s] = u]
  <2> DEFINE u == [up[s] EXCEPT !.off = n, !.got = 0, !.pc = IF n < Total THEN "send" ELSE "done"]
  <2>1. up' = [up EXCEPT ![s] = u]
    BY <1>3 DEF Resume
  <2>2. Proper(u)
    BY <1>1, ProperUploads
  <2> QED
    BY <2>1, <2>2
<1>4. CASE up' = [up EXCEPT ![s].pc = "reask"]
  BY <1>1, <1>4, ProperUploads
<1>5. CASE up[s].off < Total /\ \E pc \in HandlerPhases : Goto(s, pc)
  <2>1. PICK pc \in HandlerPhases : Goto(s, pc)
    BY <1>5
  <2>2. Proper([up[s] EXCEPT !.pc = pc])
    BY <1>1, <1>5, ProperUploads
  <2> QED
    BY <2>1, <2>2 DEF Goto
<1> QED
  BY <1>2, <1>3, <1>4, <1>5 DEF ReplyError, ReplyOffset, ReplyReceived

\* A step of one upload leaves all of them proper.
LEMMA UploadMoved ==
  ASSUME Typed, NEW s \in Senders, NEW u, Proper(u), up' = [up EXCEPT ![s] = u]
  PROVE  up' \in [Senders -> Uploads] /\ \A r \in Senders : Proper(up'[r])
BY DEF Typed, TypeOK, Proper

\* The upload of a handler that looks at the disk.
LEMMA Handlers ==
  ASSUME Typed, NEW s \in Senders, up[s].pc \in HandlerPhases
  PROVE  /\ up[s].ver \in Versions /\ up[s].off \in Nat /\ up[s].off < Total /\ up[s].got \in Nat
         /\ up[s].pc # "idle"
         /\ Bytes(up[s].ver, up[s].off) \in File /\ Len(Bytes(up[s].ver, up[s].off)) \in Nat
<1>1. /\ up[s].ver \in Versions /\ up[s].off \in Nat /\ up[s].off < Total /\ up[s].got \in Nat
      /\ up[s].pc # "idle"
  BY DEF Typed, Proper, Uploads, HandlerPhases
<1> QED
  BY <1>1, ChunkBytes

LEMMA Files == Typed => /\ final \in File /\ part \in File /\ Len(part) \in Nat /\ <<>> \in File
                        /\ Total \in Nat /\ Status \in Nat
  BY Sizes DEF Typed, TypeOK, File, Status

LEMMA HandlerMoves ==
  ASSUME Typed, NEW s \in Senders, Handle(s)
  PROVE  \E u : Proper(u) /\ up' = [up EXCEPT ![s] = u]
<1> USE DEF disk, counts
<1>1. up[s].pc \in HandlerPhases
  BY DEF Handle, Check, Measure, Compare, WriteSidecar, AppendChunk, Hash, Unlink, Rename, Tidy,
         HandlerPhases
<1>2. /\ up[s].ver \in Versions /\ up[s].off \in Nat /\ up[s].off < Total /\ up[s].got \in Nat
      /\ up[s].pc # "idle"
      /\ Bytes(up[s].ver, up[s].off) \in File /\ Len(Bytes(up[s].ver, up[s].off)) \in Nat
  BY <1>1, Handlers
<1>3. Len(part) \in Nat /\ Total \in Nat
  BY Files
<1>4. CASE \/ ReplyError(s) \/ ReplyOffset(s) \/ \E n \in Nat : ReplyReceived(s, n)
           \/ \E pc \in HandlerPhases : Goto(s, pc)
  BY <1>2, <1>4, Answers
<1>5. CASE \E n \in Nat, pc \in HandlerPhases : up' = [up EXCEPT ![s].got = n, ![s].pc = pc]
  <2>1. PICK n \in Nat, pc \in HandlerPhases : up' = [up EXCEPT ![s].got = n, ![s].pc = pc]
    BY <1>5
  <2>2. Proper([up[s] EXCEPT !.got = n, !.pc = pc])
    BY <1>2, ProperUploads DEF Typed
  <2> QED
    BY <2>1, <2>2
<1>6. /\ \A pc \in {"compare", "note", "hash"} : pc \in HandlerPhases
      /\ \A pc \in {"measure", "append", "unlink", "rename", "tidy"} : pc \in HandlerPhases
  BY DEF HandlerPhases
<1>7. CASE Check(s)
  BY <1>3, <1>4, <1>6, <1>7 DEF Check
<1>8. CASE Measure(s)
  BY <1>3, <1>5, <1>6, <1>8 DEF Measure
<1>9. CASE Compare(s)
  <2>1. PICK got \in Nat : ReplyError(s) \/ ReplyOffset(s) \/ up' = [up EXCEPT ![s].got = got, ![s].pc = "note"]
    BY <1>2, <1>9 DEF Compare
  <2> QED
    BY <1>4, <1>5, <1>6, <2>1
<1>10. CASE AppendChunk(s)
  <2>1. PICK got : got = up[s].got + Len(Bytes(up[s].ver, up[s].off))
    OBVIOUS
  <2>2. got \in Nat
    BY <1>2, <2>1
  <2>3. ReplyReceived(s, got) \/ up' = [up EXCEPT ![s].got = got, ![s].pc = "hash"]
    BY <1>10, <2>1 DEF AppendChunk
  <2> QED
    BY <1>4, <1>5, <1>6, <2>2, <2>3
<1>11. CASE WriteSidecar(s) \/ Hash(s) \/ Unlink(s) \/ Rename(s) \/ Tidy(s)
  BY <1>3, <1>4, <1>6, <1>11 DEF WriteSidecar, Hash, Unlink, Rename, Tidy
<1> QED
  BY <1>7, <1>8, <1>9, <1>10, <1>11 DEF Handle

\* What a handler does to the receiver's fetch: it may take the name of its file.
LEMMA NamesTaken ==
  ASSUME pull \in Pulls, NEW s \in Senders, Handle(s)
  PROVE  /\ pull' \in Pulls /\ pull'.ver = pull.ver /\ (pull'.pc = "idle" <=> pull.pc = "idle")
         /\ pull' = pull \/ (pull.pc = "fill" /\ pull'.pc = "unnamed" /\ (Unlink(s) \/ Rename(s)))
<1>1. TakeName => /\ pull' \in Pulls /\ pull'.ver = pull.ver /\ (pull'.pc = "idle" <=> pull.pc = "idle")
                  /\ pull' = pull \/ (pull.pc = "fill" /\ pull'.pc = "unnamed")
  BY DEF TakeName, Pulls
<1>2. CASE Unlink(s) \/ Rename(s)
  BY <1>1, <1>2 DEF Unlink, Rename
<1>3. CASE ~Unlink(s) /\ ~Rename(s)
  <2>1. pull' = pull
    BY <1>3 DEF Handle, Check, Measure, Compare, WriteSidecar, AppendChunk, Hash, Tidy
  <2> QED
    BY <2>1
<1> QED
  BY <1>2, <1>3

LEMMA HandlerTypes ==
  ASSUME Typed, NEW s \in Senders, Handle(s)
  PROVE  Typed'
<1> USE DEF disk, counts
<1>1. up[s].pc \in HandlerPhases
  BY DEF Handle, Check, Measure, Compare, WriteSidecar, AppendChunk, Hash, Unlink, Rename, Tidy,
         HandlerPhases
<1>2. /\ up[s].ver \in Versions /\ up[s].off \in Nat /\ up[s].off < Total /\ up[s].got \in Nat
      /\ up[s].pc # "idle"
      /\ Bytes(up[s].ver, up[s].off) \in File /\ Len(Bytes(up[s].ver, up[s].off)) \in Nat
  BY <1>1, Handlers
<1>3. final \in File /\ part \in File /\ <<>> \in File /\ Len(part) \in Nat /\ Total \in Nat
  BY Files
<1>4. UNCHANGED <<want, overlapped, counts>>
  BY DEF Handle, Check, Measure, Compare, WriteSidecar, AppendChunk, Hash, Unlink, Rename, Tidy
<1>5. final' \in File
  BY <1>3 DEF Handle, Check, Measure, Compare, WriteSidecar, AppendChunk, Hash, Unlink, Rename, Tidy
<1>6. part' \in File
  <2>1. CASE AppendChunk(s)
    <3>1. part \o Bytes(up[s].ver, up[s].off) \in File
      BY <1>2, <1>3, ConcatProperties DEF File
    <3> QED
      BY <1>2, <2>1, <3>1 DEF AppendChunk, Appended
  <2>2. CASE ~AppendChunk(s)
    BY <1>3, <2>2 DEF Handle, Check, Measure, Compare, WriteSidecar, Hash, Unlink, Rename, Tidy
  <2> QED
    BY <2>1, <2>2
<1>7. sidecar' \in Versions \cup {NoVersion, Torn}
  BY <1>2 DEF Handle, Check, Measure, Compare, WriteSidecar, AppendChunk, Hash, Unlink, Rename, Tidy,
              Typed, TypeOK
<1>8. \E u : Proper(u) /\ up' = [up EXCEPT ![s] = u]
  BY HandlerMoves
<1>9. up' \in [Senders -> Uploads] /\ \A r \in Senders : Proper(up'[r])
  BY <1>8, UploadMoved
<1>10. pull' \in Pulls /\ (pull'.pc # "idle" => pull'.ver \in Versions)
  BY NamesTaken DEF Typed, TypeOK
<1> QED
  BY <1>4, <1>5, <1>6, <1>7, <1>9, <1>10 DEF Typed, TypeOK, File, Proper

\* The sender's steps, and a call that is lost.
LEMMA SenderMoves ==
  ASSUME Typed, NEW s \in Senders,
         Start(s) \/ Ask(s) \/ Send(s) \/ Reask(s) \/ Leave(s) \/ Lose(s)
  PROVE  \E u : Proper(u) /\ up' = [up EXCEPT ![s] = u]
<1> USE DEF disk, counts
<1>1. Proper(up[s]) /\ want \in Versions /\ Status \in Nat
  BY Files DEF Typed, TypeOK
<1>2. CASE Start(s)
  <2>1. Proper([NoUpload EXCEPT !.pc = "ask", !.ver = want])
    BY <1>1, ProperUploads
  <2> QED
    BY <1>2, <2>1 DEF Start
<1>3. CASE Ask(s) \/ Reask(s) \/ Leave(s)
  BY <1>1, <1>3, Answers DEF Ask, Reask, Leave
<1>4. CASE Send(s)
  <2>1. "check" \in HandlerPhases /\ up[s].off < Total /\ up[s].pc # "idle"
    BY <1>1, <1>4 DEF Send, HandlerPhases, Proper
  <2> QED
    BY <1>4, <2>1, Answers DEF Send, Goto
<1>5. CASE Lose(s)
  <2>1. CASE up[s].pc \in {"ask", "send", "reask"} /\ Fail(s)
    BY <2>1, Answers
  <2>2. CASE up[s].pc \in HandlerPhases /\ up' = [up EXCEPT ![s].deaf = TRUE]
    <3>1. Proper([up[s] EXCEPT !.deaf = TRUE])
      BY <1>1, <2>2, ProperUploads DEF HandlerPhases
    <3> QED
      BY <2>2, <3>1
  <2> QED
    BY <1>5, <2>1, <2>2 DEF Lose
<1> QED
  BY <1>2, <1>3, <1>4, <1>5

LEMMA SenderTypes ==
  ASSUME Typed, NEW s \in Senders,
         Start(s) \/ Ask(s) \/ Send(s) \/ Reask(s) \/ Leave(s) \/ Lose(s)
  PROVE  Typed'
<1> USE DEF disk, counts
<1>1. UNCHANGED <<want, disk, pull, crashes, merges>> /\ overlapped' \in BOOLEAN
  BY DEF Start, Ask, Send, Reask, Leave, Lose, NoteOverlap, Handling, Typed, TypeOK
<1>2. lost' \in 0..MaxLost /\ uploads' \in 0..MaxUploads
  BY UploadBoundAssumption DEF Start, Ask, Send, Reask, Leave, Lose, Typed, TypeOK
<1>3. \E u : Proper(u) /\ up' = [up EXCEPT ![s] = u]
  BY SenderMoves
<1>4. up' \in [Senders -> Uploads] /\ \A r \in Senders : Proper(up'[r])
  BY <1>3, UploadMoved
<1> QED
  BY <1>1, <1>2, <1>4 DEF Typed, TypeOK, Proper

\* Prefixes of a file are files.
LEMMA PrefixFiles ==
  ASSUME NEW seq \in File
  PROVE  Prefixes(seq) \in SUBSET File
<1> SUFFICES ASSUME NEW k \in 0..Len(seq) PROVE SubSeq(seq, 1, k) \in File
  BY DEF Prefixes
<1>1. 1 \in Int /\ k \in Int /\ \A i \in 1..k : seq[i] \in Versions \X (1..Total)
  BY DEF File
<1> QED
  BY <1>1, SubSeqProperties DEF File

LEMMA ReceiverTypes ==
  ASSUME Typed, Fetch \/ PullFault \/ Merge \/ Crash
  PROVE  Typed'
<1> USE DEF disk, counts
<1>1. CASE Fetch
  <2>1. UNCHANGED <<want, part, sidecar, up, overlapped, counts>>
    BY <1>1 DEF Fetch, PullStart, PullOpen, PullFill, PullVerify, PullDelete
  <2>2. pull' \in Pulls /\ (pull'.pc # "idle" => pull'.ver \in Versions)
    <3>1. pull \in Pulls /\ (pull.pc # "idle" => pull.ver \in Versions) /\ want \in Versions
      BY DEF Typed, TypeOK
    <3>2. NoPull \in Pulls /\ NoPull.pc = "idle"
      BY DEF NoPull, Pulls
    <3>3. CASE PullStart
      BY <3>1, <3>3 DEF PullStart, Pulls
    <3>4. CASE PullOpen \/ PullFill
      BY <3>1, <3>4 DEF PullOpen, PullFill, Pulls
    <3>5. CASE PullVerify \/ PullDelete
      BY <3>1, <3>2, <3>5 DEF PullVerify, PullDelete, Pulls
    <3> QED
      BY <1>1, <3>3, <3>4, <3>5 DEF Fetch
  <2>3. final' \in File
    BY <1>1, Files, Contents DEF Fetch, PullStart, PullOpen, PullFill, PullVerify, PullDelete, Typed
  <2> QED
    BY <2>1, <2>2, <2>3 DEF Typed, TypeOK, File
<1>2. CASE PullFault
  BY <1>2, UploadBoundAssumption DEF PullFault, Typed, TypeOK, NoPull, Pulls
<1>3. CASE Merge
  BY <1>3, UploadBoundAssumption DEF Merge, Typed, TypeOK
<1>4. CASE Crash
  <2>1. /\ UNCHANGED <<want, overlapped, lost, merges, uploads>> /\ crashes' \in 0..MaxCrashes
        /\ pull' = NoPull /\ sidecar' \in Versions \cup {NoVersion, Torn}
    BY <1>4, UploadBoundAssumption DEF Crash, Typed, TypeOK
  <2>2. up' \in [Senders -> Uploads] /\ \A r \in Senders : Proper(up'[r])
    BY <1>4, ProperUploads DEF Crash, Proper
  <2>3. final' \in File
    <3>1. ASSUME pull.pc = "fill" PROVE Prefixes(Content(pull.ver)) \in SUBSET File
      BY <3>1, Contents, PrefixFiles DEF Typed
    <3> QED
      BY <1>4, <3>1, Files DEF Crash
  <2>4. part' \in File
    <3>1. ASSUME NEW s \in Senders, up[s].pc = "append",
                 NEW b \in Prefixes(Bytes(up[s].ver, up[s].off))
          PROVE  Appended(s, b) \in File
      <4>1. b \in File
        BY <3>1, Handlers, PrefixFiles DEF HandlerPhases
      <4>2. part \o b \in File
        BY <4>1, Files, ConcatProperties DEF File
      <4> QED
        BY <4>1, <4>2 DEF Appended
    <3> QED
      BY <1>4, <3>1, Files DEF Crash
  <2>5. NoPull \in Pulls /\ NoPull.pc = "idle"
    BY DEF NoPull, Pulls
  <2> QED
    BY <2>1, <2>2, <2>3, <2>4, <2>5 DEF Typed, TypeOK, File, Proper
<1> QED
  BY <1>1, <1>2, <1>3, <1>4

LEMMA NextTypes == Typed /\ [Next]_vars => Typed'
<1> SUFFICES ASSUME Typed, [Next]_vars PROVE Typed'
  OBVIOUS
<1>1. CASE UNCHANGED vars
  BY <1>1 DEF vars, disk, counts, Typed, TypeOK
<1> QED
  BY <1>1, HandlerTypes, SenderTypes, ReceiverTypes DEF Next, Upload

LEMMA InitTypes == Init => Typed
<1> SUFFICES ASSUME Init PROVE Typed
  OBVIOUS
<1>1. <<>> \in File
  BY DEF File
<1>2. up \in [Senders -> Uploads] /\ \A s \in Senders : Proper(up[s]) /\ up[s] = NoUpload
  BY ProperUploads DEF Init, Proper
<1>3. pull \in Pulls /\ pull.pc = "idle"
  BY DEF Init, NoPull, Pulls
<1>4. /\ crashes \in 0..MaxCrashes /\ lost \in 0..MaxLost /\ merges \in 0..MaxMerges
      /\ uploads \in 0..MaxUploads
  BY UploadBoundAssumption DEF Init
<1>5. overlapped \in BOOLEAN
  BY DEF Init
<1> QED
  BY <1>1, <1>2, <1>3, <1>4, <1>5 DEF Init, Typed, TypeOK, File

\* Every variable of an upload has its type, and an upload that has ended leaves nothing
\* behind (receiveAttachmentUploadChunk, _putAttachmentResumable).
THEOREM TypeCorrect == Spec => []TypeOK
<1>1. Typed => TypeOK
  BY DEF Typed
<1> QED
  BY <1>1, InitTypes, NextTypes, PTL DEF Spec
-----------------------------------------------------------------------------
(* The partial file, while no request has come during another. *)

\* What the handler of a chunk knows of the disk at each of its steps.
Knows(s) ==
  LET u == up[s]
  IN /\ u.pc = "compare" => u.got = Len(part)
     /\ u.pc \in {"note", "append"} => /\ u.got = u.off /\ Len(part) = u.off
                                       /\ IsBeginning(u.ver, part)
     /\ u.pc \in {"append", "hash", "unlink", "rename"} => sidecar = u.ver
     /\ u.pc \in {"hash", "unlink", "rename"} => part = Content(u.ver)
     /\ u.pc = "tidy" => part = <<>>

\* PartIsPrefix without its condition.
Orderly ==
  /\ sidecar \in Versions => IsBeginning(sidecar, part)
  /\ sidecar = NoVersion => part = <<>>

Alone == \A r, s \in Senders : up[r].pc \in HandlerPhases /\ up[s].pc \in HandlerPhases => r = s

PartInv == ~overlapped => Alone /\ Orderly /\ \A s \in Senders : Knows(s)

\* An upload that no handler works on knows nothing.
LEMMA Idle == \A s \in Senders : up[s].pc \notin HandlerPhases => Knows(s)
  BY DEF Knows, HandlerPhases

\* The phase an upload is in after an answer.
LEMMA AnswerPhases ==
  ASSUME Typed, NEW s \in Senders
  PROVE  /\ \A n : Resume(s, n) \/ ReplyReceived(s, n) => up'[s].pc \notin HandlerPhases
         /\ Fail(s) \/ ReplyError(s) \/ ReplyOffset(s) => up'[s].pc \notin HandlerPhases
         /\ \A n : Resume(s, n) \/ ReplyReceived(s, n) => \A r \in Senders \ {s} : up'[r] = up[r]
         /\ Fail(s) \/ ReplyError(s) \/ ReplyOffset(s) => \A r \in Senders \ {s} : up'[r] = up[r]
<1>1. up[s] \in Uploads /\ up \in [Senders -> Uploads]
  BY DEF Typed, TypeOK
<1>2. Fail(s) => up'[s].pc \notin HandlerPhases /\ \A r \in Senders \ {s} : up'[r] = up[r]
  BY <1>1 DEF Fail, NoUpload, HandlerPhases
<1>3. ASSUME NEW n, Resume(s, n)
      PROVE  up'[s].pc \notin HandlerPhases /\ \A r \in Senders \ {s} : up'[r] = up[r]
  BY <1>1, <1>3 DEF Resume, Uploads, HandlerPhases
<1>4. ASSUME up' = [up EXCEPT ![s].pc = "reask"]
      PROVE  up'[s].pc \notin HandlerPhases /\ \A r \in Senders \ {s} : up'[r] = up[r]
  BY <1>1, <1>4 DEF Uploads, HandlerPhases
<1> QED
  BY <1>2, <1>3, <1>4 DEF ReplyError, ReplyReceived, ReplyOffset

\* Appending a chunk, or a beginning of one, to the partial file its handler has measured.
LEMMA Appending ==
  ASSUME Typed, NEW s \in Senders, up[s].pc = "append", Knows(s)
  PROVE  LET u == up[s]
             bytes == Bytes(u.ver, u.off)
         IN /\ \A b \in Prefixes(bytes) : IsBeginning(u.ver, Appended(s, b))
            /\ IsBeginning(u.ver, Appended(s, bytes))
            /\ u.got + Len(bytes) <= Total /\ Len(Appended(s, bytes)) = u.got + Len(bytes)
            /\ u.got + Len(bytes) = Total => Appended(s, bytes) = Content(u.ver)
<1> DEFINE u == up[s]
           bytes == Bytes(u.ver, u.off)
<1>1. u.ver \in Versions /\ u.off \in Nat /\ u.off < Total
  BY Handlers DEF HandlerPhases
<1>2. u.got = u.off /\ Len(part) = u.off /\ IsBeginning(u.ver, part)
  BY DEF Knows
<1>3. part = SubSeq(Content(u.ver), 1, u.off)
  BY <1>1, <1>2, BeginningLength
<1>4. /\ Len(bytes) \in 1..Chunk /\ u.off + Len(bytes) <= Total /\ bytes \in File
      /\ \A j \in 0..Len(bytes) :
           /\ SubSeq(bytes, 1, j) \in File
           /\ SubSeq(Content(u.ver), 1, u.off) \o SubSeq(bytes, 1, j)
                = SubSeq(Content(u.ver), 1, u.off + j)
      /\ SubSeq(bytes, 1, Len(bytes)) = bytes
  BY <1>1, ChunkBytes
<1> HIDE DEF u, bytes
<1>5. ASSUME NEW j \in 0..Len(bytes)
      PROVE  Appended(s, SubSeq(bytes, 1, j)) = SubSeq(Content(u.ver), 1, u.off + j)
  <2>1. CASE u.got = 0
    <3>1. part = <<>>
      BY <1>2, <2>1, Files, EmptySeq DEF File
    <3>2. <<>> \o SubSeq(bytes, 1, j) = SubSeq(bytes, 1, j)
      BY <1>4, <1>5, ConcatEmptySeq DEF File
    <3> QED
      BY <1>3, <1>4, <2>1, <3>1, <3>2 DEF Appended, u
  <2>2. CASE u.got # 0
    BY <1>3, <1>4, <2>2 DEF Appended, u
  <2> QED
    BY <2>1, <2>2
<1>6. \A j \in 0..Len(bytes) : u.off + j \in 0..Total
  BY <1>1, <1>4, Sizes
<1>7. \A j \in 0..Len(bytes) : IsBeginning(u.ver, Appended(s, SubSeq(bytes, 1, j)))
  BY <1>5, <1>6 DEF IsBeginning
<1>8. Len(bytes) \in 0..Len(bytes)
  BY <1>4
<1>9. Appended(s, bytes) = SubSeq(Content(u.ver), 1, u.off + Len(bytes))
  BY <1>4, <1>5, <1>8
<1>10. u.got + Len(bytes) = Total => Appended(s, bytes) = Content(u.ver)
  BY <1>1, <1>2, <1>9, Contents
<1>11. \A b \in Prefixes(bytes) : IsBeginning(u.ver, Appended(s, b))
  BY <1>7 DEF Prefixes
<1>12. IsBeginning(u.ver, Appended(s, bytes))
  BY <1>4, <1>7, <1>8
<1>13. Len(Appended(s, bytes)) = u.got + Len(bytes)
  BY <1>1, <1>2, <1>6, <1>8, <1>9, Beginnings
<1> QED
  BY <1>1, <1>2, <1>4, <1>10, <1>11, <1>12, <1>13 DEF u, bytes

LEMMA HandlerPart ==
  ASSUME Typed, PartInv, NEW s \in Senders, Handle(s)
  PROVE  PartInv'
<1> SUFFICES ASSUME ~overlapped PROVE Alone' /\ Orderly' /\ \A r \in Senders : Knows(r)'
  <2>1. UNCHANGED overlapped
    BY DEF Handle, Check, Measure, Compare, WriteSidecar, AppendChunk, Hash, Unlink, Rename, Tidy
  <2> QED
    BY <2>1 DEF PartInv
<1> USE DEF disk, counts
<1>1. up[s].pc \in HandlerPhases
  BY DEF Handle, Check, Measure, Compare, WriteSidecar, AppendChunk, Hash, Unlink, Rename, Tidy,
         HandlerPhases
<1>2. Alone /\ Orderly /\ Knows(s)
  BY DEF PartInv
<1>3. up[s] \in Uploads /\ up \in [Senders -> Uploads] /\ up[s].ver \in Versions
  BY <1>1, Handlers DEF Typed, TypeOK
<1>4. /\ up[s].off \in Nat /\ up[s].got \in Nat /\ Len(part) \in Nat /\ part \in File
      /\ NoVersion \notin Versions /\ Torn \notin Versions
  BY <1>1, Handlers, Files, VersionAssumption
<1>5. ASSUME Orderly', Knows(s)', \A r \in Senders \ {s} : up'[r] = up[r]
      PROVE  Alone' /\ Orderly' /\ \A r \in Senders : Knows(r)'
  <2>1. \A r \in Senders \ {s} : up'[r].pc \notin HandlerPhases
    BY <1>1, <1>2, <1>5 DEF Alone
  <2>2. \A r \in Senders \ {s} : Knows(r)'
    BY <2>1 DEF Knows, HandlerPhases
  <2>3. Alone'
    BY <2>1 DEF Alone
  <2> QED
    BY <1>5, <2>2, <2>3
<1>6. ASSUME Orderly',
             \/ ReplyError(s) \/ ReplyOffset(s) \/ \E n : ReplyReceived(s, n)
      PROVE  Alone' /\ Orderly' /\ \A r \in Senders : Knows(r)'
  <2>1. up'[s].pc \notin HandlerPhases /\ \A r \in Senders \ {s} : up'[r] = up[r]
    BY <1>6, AnswerPhases
  <2>2. Knows(s)'
    BY <2>1 DEF Knows, HandlerPhases
  <2> QED
    BY <1>5, <1>6, <2>1, <2>2
<1>7. ASSUME NEW pc, Goto(s, pc)
      PROVE  /\ up'[s].pc = pc /\ up'[s].ver = up[s].ver /\ up'[s].off = up[s].off
             /\ up'[s].got = up[s].got
             /\ \A r \in Senders \ {s} : up'[r] = up[r]
  <2>1. up'[s] = [up[s] EXCEPT !.pc = pc] /\ \A r \in Senders \ {s} : up'[r] = up[r]
    BY <1>3, <1>7 DEF Goto
  <2> QED
    BY <1>3, <2>1 DEF Uploads
<1>8. CASE Check(s)
  <2>1. Orderly'
    BY <1>2, <1>8 DEF Check, Orderly
  <2>2. CASE Goto(s, "measure")
    <3>1. up'[s].pc = "measure" /\ \A r \in Senders \ {s} : up'[r] = up[r]
      BY <1>7, <2>2
    <3> QED
      BY <1>5, <2>1, <3>1 DEF Knows
  <2> QED
    BY <1>6, <1>8, <2>1, <2>2 DEF Check
<1>9. CASE Measure(s)
  <2>1. Orderly' /\ part' = part
    BY <1>2, <1>9 DEF Measure, Orderly
  <2>2. /\ up'[s].pc = "compare" /\ up'[s].got = Len(part)
        /\ \A r \in Senders \ {s} : up'[r] = up[r]
    BY <1>3, <1>9 DEF Measure, Uploads
  <2> QED
    BY <1>5, <2>1, <2>2 DEF Knows
<1>10. CASE Compare(s)
  <2> DEFINE foreign == sidecar \in Versions /\ sidecar # up[s].ver
             got == IF foreign THEN 0 ELSE up[s].got
  <2>1. up[s].got = Len(part) /\ up[s].pc = "compare"
    BY <1>2, <1>10 DEF Compare, Knows
  <2>2. part = <<>> <=> Len(part) = 0
    BY <1>4, EmptySeq DEF File
  <2>3. CASE sidecar = Torn
    <3>1. Orderly'
      BY <1>2, <1>4, <1>10, <2>3 DEF Compare, Orderly
    <3> QED
      BY <1>6, <1>10, <2>3, <3>1 DEF Compare
  <2>4. CASE sidecar # Torn
    <3>1. sidecar' = IF foreign THEN NoVersion ELSE sidecar
      BY <1>10 DEF Compare
    <3>2. part' = IF foreign THEN <<>> ELSE part
      BY <1>10, <2>1, <2>2, <2>4 DEF Compare
    <3>3. Orderly'
      BY <1>2, <1>4, <3>1, <3>2 DEF Orderly
    <3>4. CASE ReplyError(s) \/ ReplyOffset(s)
      BY <1>6, <3>3, <3>4
    <3>5. CASE up[s].off = got /\ up' = [up EXCEPT ![s].got = got, ![s].pc = "note"]
      <4>1. /\ up'[s].pc = "note" /\ up'[s].got = got /\ up'[s].off = up[s].off
            /\ up'[s].ver = up[s].ver
            /\ \A r \in Senders \ {s} : up'[r] = up[r]
        BY <1>3, <3>5 DEF Uploads
      <4>2. Len(part') = got
        BY <2>1, <3>2, EmptySeq
      <4>3. IsBeginning(up[s].ver, part')
        <5>1. CASE foreign \/ sidecar = NoVersion
          BY <1>2, <1>3, <3>2, <5>1, EmptyBeginning DEF Orderly
        <5>2. CASE sidecar = up[s].ver
          BY <1>2, <1>3, <3>2, <5>2 DEF Orderly
        <5>3. sidecar \in Versions \cup {NoVersion}
          BY <2>4 DEF Typed, TypeOK
        <5> QED
          BY <5>1, <5>2, <5>3
      <4> QED
        BY <1>5, <3>3, <3>5, <4>1, <4>2, <4>3 DEF Knows
    <3> QED
      BY <1>10, <2>4, <3>4, <3>5 DEF Compare
  <2> QED
    BY <2>3, <2>4
<1>11. CASE WriteSidecar(s)
  <2>1. /\ up'[s].pc = "append" /\ up'[s].got = up[s].got /\ up'[s].off = up[s].off
        /\ up'[s].ver = up[s].ver /\ sidecar' = up[s].ver /\ part' = part
        /\ \A r \in Senders \ {s} : up'[r] = up[r]
    <3>1. sidecar' = up[s].ver /\ part' = part /\ Goto(s, "append")
      BY <1>11 DEF WriteSidecar
    <3> QED
      BY <1>7, <3>1
  <2>2. up[s].got = up[s].off /\ Len(part) = up[s].off /\ IsBeginning(up[s].ver, part)
    BY <1>2, <1>11 DEF WriteSidecar, Knows
  <2>3. Orderly'
    BY <1>3, <1>4, <2>1, <2>2 DEF Orderly
  <2> QED
    BY <1>5, <2>1, <2>2, <2>3 DEF Knows
<1>12. CASE AppendChunk(s)
  <2> DEFINE bytes == Bytes(up[s].ver, up[s].off)
             got == up[s].got + Len(bytes)
  <2>1. up[s].pc = "append" /\ sidecar = up[s].ver /\ part' = Appended(s, bytes) /\ sidecar' = sidecar
    BY <1>2, <1>12 DEF AppendChunk, Knows
  <2>2. /\ IsBeginning(up[s].ver, Appended(s, bytes)) /\ got <= Total
        /\ got = Total => Appended(s, bytes) = Content(up[s].ver)
    BY <1>2, <2>1, Appending
  <2>3. Orderly'
    BY <1>3, <1>4, <2>1, <2>2 DEF Orderly
  <2>4. CASE ReplyReceived(s, got)
    BY <1>6, <2>3, <2>4
  <2>5. CASE ~(got < Total) /\ up' = [up EXCEPT ![s].got = got, ![s].pc = "hash"]
    <3>1. /\ up'[s].pc = "hash" /\ up'[s].ver = up[s].ver
          /\ \A r \in Senders \ {s} : up'[r] = up[r]
      BY <1>3, <2>5 DEF Uploads
    <3>2. got = Total
      <4>1. Len(bytes) \in Nat
        BY <1>1, Handlers
      <4> QED
        BY <1>4, <2>2, <2>5, <4>1, Sizes
    <3> QED
      BY <1>5, <2>1, <2>2, <2>3, <3>1, <3>2 DEF Knows
  <2> QED
    BY <1>12, <2>4, <2>5 DEF AppendChunk
<1>13. CASE Hash(s)
  <2>1. part = Content(up[s].ver) /\ sidecar = up[s].ver
    BY <1>2, <1>13 DEF Hash, Knows
  <2>2. Goto(s, "unlink") /\ UNCHANGED <<part, sidecar>>
    BY <1>13, <2>1 DEF Hash
  <2>3. up'[s].pc = "unlink" /\ up'[s].ver = up[s].ver /\ \A r \in Senders \ {s} : up'[r] = up[r]
    BY <1>7, <2>2
  <2> QED
    BY <1>2, <1>5, <2>1, <2>2, <2>3 DEF Knows, Orderly
<1>14. CASE Unlink(s)
  <2>1. part = Content(up[s].ver) /\ sidecar = up[s].ver /\ UNCHANGED <<part, sidecar>>
    BY <1>2, <1>14 DEF Unlink, Knows
  <2>2. up'[s].pc = "rename" /\ up'[s].ver = up[s].ver /\ \A r \in Senders \ {s} : up'[r] = up[r]
    <3>1. Goto(s, "rename")
      BY <1>14 DEF Unlink
    <3> QED
      BY <1>7, <3>1
  <2> QED
    BY <1>2, <1>5, <2>1, <2>2 DEF Knows, Orderly
<1>15. CASE Rename(s)
  <2>1. part = Content(up[s].ver) /\ sidecar = up[s].ver
    BY <1>2, <1>15 DEF Rename, Knows
  <2>2. Goto(s, "tidy") /\ part' = <<>> /\ UNCHANGED sidecar
    BY <1>3, <1>15, <2>1, Contents DEF Rename
  <2>3. up'[s].pc = "tidy" /\ \A r \in Senders \ {s} : up'[r] = up[r]
    BY <1>7, <2>2
  <2>4. Orderly'
    BY <1>3, <1>4, <2>1, <2>2, EmptyBeginning DEF Orderly
  <2> QED
    BY <1>5, <2>2, <2>3, <2>4 DEF Knows
<1>16. CASE Tidy(s)
  <2>1. Orderly'
    BY <1>2, <1>4, <1>16 DEF Tidy, Orderly, Knows
  <2> QED
    BY <1>6, <1>16, <2>1 DEF Tidy
<1> QED
  BY <1>8, <1>9, <1>10, <1>11, <1>12, <1>13, <1>14, <1>15, <1>16 DEF Handle

LEMMA SenderPart ==
  ASSUME Typed, PartInv, NEW s \in Senders,
         Start(s) \/ Ask(s) \/ Send(s) \/ Reask(s) \/ Leave(s) \/ Lose(s)
  PROVE  PartInv'
<1> USE DEF disk, counts
<1>1. UNCHANGED <<part, sidecar>>
  BY DEF Start, Ask, Send, Reask, Leave, Lose
<1>2. up \in [Senders -> Uploads] /\ up[s] \in Uploads
  BY DEF Typed, TypeOK
<1>3. \A r \in Senders \ {s} : up'[r] = up[r]
  BY <1>2, AnswerPhases DEF Start, Ask, Send, Reask, Leave, Lose
<1>4. \A r \in Senders \ {s} : Knows(r) => Knows(r)'
  BY <1>1, <1>3 DEF Knows
<1>5. Orderly => Orderly'
  BY <1>1 DEF Orderly
<1>6. CASE up'[s].pc \notin HandlerPhases /\ (overlapped => overlapped')
  <2>1. Knows(s)' /\ (Alone => Alone')
    BY <1>3, <1>6 DEF Knows, HandlerPhases, Alone
  <2> QED
    BY <1>4, <1>5, <1>6, <2>1 DEF PartInv
<1>7. CASE Lose(s) /\ up[s].pc \in HandlerPhases
  <2>1. /\ up' = [up EXCEPT ![s].deaf = TRUE] /\ UNCHANGED overlapped
    BY <1>7 DEF Lose, HandlerPhases
  <2>2. /\ up'[s].pc = up[s].pc /\ up'[s].ver = up[s].ver /\ up'[s].off = up[s].off
        /\ up'[s].got = up[s].got
    BY <1>2, <2>1 DEF Uploads
  <2>3. (Knows(s) => Knows(s)') /\ (Alone => Alone')
    BY <1>1, <1>3, <2>2 DEF Knows, Alone
  <2> QED
    BY <1>4, <1>5, <2>1, <2>3 DEF PartInv
<1>8. CASE Send(s)
  <2>1. up'[s].pc = "check" /\ overlapped' = (overlapped \/ Handling)
    BY <1>2, <1>8 DEF Send, NoteOverlap, Uploads
  <2>2. Knows(s)'
    BY <2>1 DEF Knows
  <2>3. ~overlapped' => Alone'
    BY <1>3, <2>1 DEF Handling, Alone
  <2> QED
    BY <1>4, <1>5, <2>1, <2>2, <2>3 DEF PartInv
<1>9. CASE Start(s)
  <2>1. up'[s].pc = "ask" /\ UNCHANGED overlapped
    BY <1>2, <1>9 DEF Start, NoUpload
  <2> QED
    BY <1>6, <2>1 DEF HandlerPhases
<1>10. CASE Ask(s) \/ Reask(s) \/ Leave(s) \/ (Lose(s) /\ up[s].pc \notin HandlerPhases)
  <2>1. Fail(s) \/ \E n : Resume(s, n)
    BY <1>10 DEF Ask, Reask, Leave, Lose
  <2>2. up'[s].pc \notin HandlerPhases
    BY <2>1, AnswerPhases
  <2>3. overlapped => overlapped'
    BY <1>10 DEF Ask, Reask, Leave, Lose, NoteOverlap
  <2> QED
    BY <1>6, <2>2, <2>3
<1> QED
  BY <1>7, <1>8, <1>9, <1>10

LEMMA ReceiverPart ==
  ASSUME Typed, PartInv, Fetch \/ PullFault \/ Merge \/ Crash
  PROVE  PartInv'
<1> USE DEF disk, counts
<1>1. CASE UNCHANGED <<part, sidecar, up, overlapped>>
  BY <1>1 DEF PartInv, Alone, Orderly, Knows
<1>2. CASE Crash
  <2> SUFFICES ASSUME ~overlapped PROVE Alone' /\ Orderly' /\ \A s \in Senders : Knows(s)'
    BY <1>2 DEF Crash, PartInv
  <2>1. Alone /\ Orderly /\ \A s \in Senders : Knows(s)
    BY DEF PartInv
  <2>2. \A s \in Senders : up'[s].pc \notin HandlerPhases
    BY <1>2 DEF Crash, NoUpload, HandlerPhases
  <2>3. Alone' /\ \A s \in Senders : Knows(s)'
    BY <2>2 DEF Alone, Knows, HandlerPhases
  <2>4. sidecar' = sidecar \/ sidecar' = Torn
    BY <1>2 DEF Crash
  <2>5. CASE part' = part
    BY <2>1, <2>3, <2>4, <2>5, VersionAssumption DEF Orderly
  <2>6. CASE part' # part
    <3>1. PICK s \in Senders : /\ up[s].pc = "append"
                               /\ \E b \in Prefixes(Bytes(up[s].ver, up[s].off)) : part' = Appended(s, b)
      BY <1>2, <2>6 DEF Crash
    <3>2. sidecar = up[s].ver /\ up[s].ver \in Versions
      BY <2>1, <3>1, Handlers DEF Knows, HandlerPhases
    <3>3. IsBeginning(up[s].ver, part')
      BY <2>1, <3>1, Appending
    <3> QED
      BY <2>3, <2>4, <3>2, <3>3, VersionAssumption DEF Orderly
  <2> QED
    BY <2>5, <2>6
<1> QED
  BY <1>1, <1>2 DEF Fetch, PullStart, PullOpen, PullFill, PullVerify, PullDelete, PullFault, Merge

LEMMA NextPart == Typed /\ PartInv /\ [Next]_vars => PartInv'
<1> SUFFICES ASSUME Typed, PartInv, [Next]_vars PROVE PartInv'
  OBVIOUS
<1>1. CASE UNCHANGED vars
  BY <1>1 DEF vars, disk, PartInv, Alone, Orderly, Knows
<1> QED
  BY <1>1, HandlerPart, SenderPart, ReceiverPart DEF Next, Upload

LEMMA InitPart == Init => PartInv
<1> SUFFICES ASSUME Init PROVE PartInv
  OBVIOUS
<1>1. \A s \in Senders : up[s].pc \notin HandlerPhases
  BY DEF Init, NoUpload, HandlerPhases
<1> QED
  BY <1>1, Idle, VersionAssumption DEF Init, PartInv, Alone, Orderly

\* While no request comes during another, the partial file is a beginning of what its
\* sidecar says, through any restarts and lost answers (attachment_upload.dart:142-153).
THEOREM PartStaysPrefix == Spec => []PartIsPrefix
<1>1. PartInv => PartIsPrefix
  BY DEF PartInv, Orderly, PartIsPrefix, IsBeginning
<1>2. Typed /\ PartInv /\ [Next]_vars => (Typed /\ PartInv)'
  BY NextTypes, NextPart
<1> QED
  BY <1>1, <1>2, InitTypes, InitPart, PTL DEF Spec
-----------------------------------------------------------------------------
(* What a finished upload means. *)

Undisturbed == crashes = 0 /\ merges = 0 /\ ~overlapped

\* All are about one version; the file is that or missing, and the fetch has nothing to
\* delete; a whole partial file is in the hands of the handler that will move it, and once
\* it has, the file is in place.
OneVersion ==
  /\ final \in {<<>>, Content(want)}
  /\ \A s \in Senders : up[s].pc # "idle" => up[s].ver = want
  /\ pull.pc # "idle" => pull.ver = want
  /\ Len(part) < Total \/ \E s \in Senders : up[s].pc \in {"hash", "unlink", "rename"}
  /\ \A s \in Senders : up[s].pc = "tidy" => InPlace
  /\ pull.pc # "delete"

DoneInv == Undisturbed => OneVersion

\* The step of one upload that is told of its end.
Told(s) == up[s].pc # "done" /\ up'[s].pc = "done"

\* What an upload is after an answer.
LEMMA AnswerEnds ==
  ASSUME Typed, NEW s \in Senders, up[s].pc # "idle"
  PROVE  /\ \A n : ReplyReceived(s, n) =>
              /\ up'[s].pc \in {"idle", "send", "done"} /\ (up'[s].pc = "done" => ~(n < Total))
              /\ up'[s].pc # "idle" => up'[s].ver = up[s].ver
         /\ ReplyError(s) \/ ReplyOffset(s) =>
              up'[s].pc \in {"idle", "reask"} /\ (up'[s].pc # "idle" => up'[s].ver = up[s].ver)
<1>1. up[s] \in Uploads /\ up \in [Senders -> Uploads]
  BY DEF Typed, TypeOK
<1>2. Fail(s) => up'[s].pc = "idle"
  BY <1>1 DEF Fail, NoUpload
<1>3. ASSUME NEW n, Resume(s, n)
      PROVE  /\ up'[s].pc \in {"send", "done"} /\ (up'[s].pc = "done" => ~(n < Total))
             /\ up'[s].ver = up[s].ver
  BY <1>1, <1>3 DEF Resume, Uploads
<1>4. up' = [up EXCEPT ![s].pc = "reask"] => up'[s].pc = "reask" /\ up'[s].ver = up[s].ver
  BY <1>1 DEF Uploads
<1> QED
  BY <1>2, <1>3, <1>4 DEF ReplyError, ReplyReceived, ReplyOffset

\* An overlap is never forgotten.
LEMMA OverlapStays == [Next]_vars /\ overlapped => overlapped'
  BY DEF Next, Upload, Handle, Start, Ask, Send, Reask, Leave, Lose, Check, Measure, Compare,
         WriteSidecar, AppendChunk, Hash, Unlink, Rename, Tidy, NoteOverlap, Fetch, PullStart,
         PullOpen, PullFill, PullVerify, PullDelete, PullFault, Merge, Crash, vars

LEMMA HandlerDone ==
  ASSUME Typed, PartInv, DoneInv, NEW s \in Senders, Handle(s), Undisturbed
  PROVE  OneVersion' /\ (Told(s) => InPlace')
<1> USE DEF disk, counts
<1>1. up[s].pc \in HandlerPhases /\ UNCHANGED want
  BY DEF Handle, Check, Measure, Compare, WriteSidecar, AppendChunk, Hash, Unlink, Rename, Tidy,
         HandlerPhases
<1>2. Alone /\ Orderly /\ Knows(s) /\ OneVersion
  BY DEF PartInv, DoneInv, Undisturbed
<1>3. up[s] \in Uploads /\ up[s].ver = want /\ want \in Versions /\ up[s].pc # "idle"
  BY <1>1, <1>2, Handlers DEF Typed, TypeOK, OneVersion
<1>4. \A r \in Senders \ {s} : up[r].pc \notin HandlerPhases
  BY <1>1, <1>2 DEF Alone
<1>5. PICK u : Proper(u) /\ up' = [up EXCEPT ![s] = u]
  BY HandlerMoves
<1>6. up'[s] = u /\ \A r \in Senders \ {s} : up'[r] = up[r]
  BY <1>5 DEF Typed, TypeOK
<1>7. ASSUME /\ u.pc # "idle" => u.ver = want
             /\ final' \in {<<>>, Content(want)}
             /\ Len(part') < Total \/ u.pc \in {"hash", "unlink", "rename"}
             /\ u.pc \in {"tidy", "done"} => InPlace'
      PROVE  OneVersion' /\ (Told(s) => InPlace')
  <2>1. \A r \in Senders : up'[r].pc # "idle" => up'[r].ver = want
    BY <1>2, <1>6, <1>7 DEF OneVersion
  <2>2. \A r \in Senders : up'[r].pc = "tidy" => InPlace'
    BY <1>4, <1>6, <1>7 DEF HandlerPhases
  <2>3. Len(part') < Total \/ \E r \in Senders : up'[r].pc \in {"hash", "unlink", "rename"}
    BY <1>6, <1>7
  <2>4. /\ pull'.pc # "idle" => pull'.ver = want'
        /\ pull'.pc # "delete"
    BY <1>1, <1>2, NamesTaken DEF OneVersion, Typed, TypeOK
  <2>5. OneVersion'
    BY <1>1, <1>7, <2>1, <2>2, <2>3, <2>4 DEF OneVersion, Content
  <2> QED
    BY <1>6, <1>7, <2>5 DEF Told
<1>8. final \in {<<>>, Content(want)}
  BY <1>2 DEF OneVersion
<1>9. up[s].pc \notin {"hash", "unlink", "rename"} => Len(part) < Total
  BY <1>2, <1>4 DEF OneVersion, HandlerPhases
<1>10. ASSUME NEW n, ReplyReceived(s, n)
       PROVE  (u.pc # "idle" => u.ver = want) /\ u.pc \in {"idle", "send", "done"}
              /\ (u.pc = "done" => ~(n < Total))
  BY <1>3, <1>6, <1>10, AnswerEnds
<1>11. ASSUME ReplyError(s) \/ ReplyOffset(s)
       PROVE  (u.pc # "idle" => u.ver = want) /\ u.pc \in {"idle", "reask"}
  BY <1>3, <1>6, <1>11, AnswerEnds
<1>12. ASSUME NEW pc, Goto(s, pc) \/ \E got : up' = [up EXCEPT ![s].got = got, ![s].pc = pc]
       PROVE  u.pc = pc /\ u.ver = want
  BY <1>3, <1>6, <1>12 DEF Goto, Typed, TypeOK, Uploads
<1>13. CASE Check(s)
  <2>1. UNCHANGED <<final, part>> /\ up[s].pc = "check" /\ (Right => InPlace')
    BY <1>13 DEF Check, InPlace, Right, Content
  <2>2. CASE Right /\ ReplyReceived(s, Total)
    BY <1>7, <1>8, <1>9, <1>10, <2>1, <2>2
  <2>3. CASE ReplyError(s) \/ Goto(s, "measure")
    BY <1>7, <1>8, <1>9, <1>11, <1>12, <2>1, <2>3
  <2> QED
    BY <1>13, <2>2, <2>3 DEF Check
<1>14. CASE Measure(s)
  <2>1. UNCHANGED <<final, part>> /\ up[s].pc = "measure" /\ u.pc = "compare" /\ u.ver = want
    BY <1>12, <1>14 DEF Measure
  <2> QED
    BY <1>7, <1>8, <1>9, <2>1
<1>15. CASE Compare(s)
  <2>1. UNCHANGED final /\ up[s].pc = "compare" /\ (part' = part \/ part' = <<>>)
    BY <1>15 DEF Compare
  <2>2. Len(part') < Total
    BY <1>9, <2>1, Sizes
  <2>3. \/ ReplyError(s) \/ ReplyOffset(s)
        \/ \E got : up' = [up EXCEPT ![s].got = got, ![s].pc = "note"]
    BY <1>15 DEF Compare
  <2>4. u.pc \in {"idle", "reask", "note"} /\ (u.pc # "idle" => u.ver = want)
    BY <1>11, <1>12, <2>3
  <2> QED
    BY <1>7, <1>8, <2>1, <2>2, <2>4
<1>16. CASE WriteSidecar(s)
  <2>1. UNCHANGED <<final, part>> /\ up[s].pc = "note" /\ u.pc = "append" /\ u.ver = want
    BY <1>12, <1>16 DEF WriteSidecar
  <2> QED
    BY <1>7, <1>8, <1>9, <2>1
<1>17. CASE AppendChunk(s)
  <2> DEFINE bytes == Bytes(up[s].ver, up[s].off)
             got == up[s].got + Len(bytes)
  <2>1. up[s].pc = "append" /\ part' = Appended(s, bytes) /\ UNCHANGED final
    BY <1>17 DEF AppendChunk
  <2>2. Len(part') = got
    BY <1>2, <2>1, Appending
  <2>3. CASE got < Total /\ ReplyReceived(s, got)
    BY <1>7, <1>8, <1>10, <2>1, <2>2, <2>3
  <2>4. CASE up' = [up EXCEPT ![s].got = got, ![s].pc = "hash"]
    <3>1. u.pc = "hash" /\ u.ver = want
      BY <1>12, <2>4
    <3> QED
      BY <1>7, <1>8, <2>1, <3>1
  <2> QED
    BY <1>17, <2>3, <2>4 DEF AppendChunk
<1>18. CASE Hash(s)
  <2>1. Goto(s, "unlink") /\ UNCHANGED final
    BY <1>2, <1>18 DEF Hash, Knows
  <2> QED
    BY <1>7, <1>8, <1>12, <2>1
<1>19. CASE Unlink(s)
  BY <1>7, <1>12, <1>19 DEF Unlink
<1>20. CASE Rename(s)
  <2>1. part = Content(want) /\ part # <<>>
    BY <1>2, <1>3, <1>20, Contents DEF Rename, Knows
  <2>2. Goto(s, "tidy") /\ final' = Content(want) /\ part' = <<>>
    BY <1>20, <2>1 DEF Rename
  <2>3. InPlace' /\ Len(part') < Total
    BY <1>1, <2>2, Sizes DEF InPlace, Right, Content
  <2> QED
    BY <1>7, <1>12, <2>2, <2>3
<1>21. CASE Tidy(s)
  <2>1. UNCHANGED <<final, part, pull>> /\ up[s].pc = "tidy" /\ InPlace
    BY <1>2, <1>21 DEF Tidy, OneVersion
  <2>2. InPlace'
    BY <1>1, <2>1 DEF InPlace, Right, Content
  <2> QED
    BY <1>7, <1>8, <1>9, <1>10, <1>11, <1>21, <2>1, <2>2 DEF Tidy
<1> QED
  BY <1>13, <1>14, <1>15, <1>16, <1>17, <1>18, <1>19, <1>20, <1>21 DEF Handle

LEMMA SenderDone ==
  ASSUME Typed, DoneInv, NEW s \in Senders, Undisturbed, ~overlapped',
         Start(s) \/ Ask(s) \/ Send(s) \/ Reask(s) \/ Leave(s) \/ Lose(s)
  PROVE  OneVersion' /\ (Told(s) => InPlace')
<1> USE DEF disk, counts
<1>1. UNCHANGED <<want, disk, pull>>
  BY DEF Start, Ask, Send, Reask, Leave, Lose
<1>2. OneVersion /\ up \in [Senders -> Uploads] /\ up[s] \in Uploads
  BY DEF DoneInv, Typed, TypeOK
<1>3. InPlace' <=> InPlace
  BY <1>1 DEF InPlace, Right, Content
<1>4. ASSUME NEW u, up' = [up EXCEPT ![s] = u], u.pc # "idle" => u.ver = want,
             \/ /\ u.pc \notin {"hash", "unlink", "rename", "tidy"}
                /\ up[s].pc \notin {"hash", "unlink", "rename"}
             \/ u.pc = up[s].pc,
             u.pc = "done" => InPlace
      PROVE  OneVersion' /\ (Told(s) => InPlace')
  <2>1. up'[s] = u /\ \A r \in Senders \ {s} : up'[r] = up[r]
    BY <1>2, <1>4
  <2>2. \A r \in Senders : up'[r].pc # "idle" => up'[r].ver = want
    BY <1>2, <1>4, <2>1 DEF OneVersion
  <2>3. \A r \in Senders : up'[r].pc = "tidy" => InPlace
    BY <1>2, <1>4, <2>1 DEF OneVersion
  <2>4. Len(part) < Total \/ \E r \in Senders : up'[r].pc \in {"hash", "unlink", "rename"}
    BY <1>2, <1>4, <2>1 DEF OneVersion
  <2>5. OneVersion'
    BY <1>1, <1>2, <1>3, <2>2, <2>3, <2>4 DEF OneVersion, Content
  <2> QED
    BY <1>3, <1>4, <2>1, <2>5 DEF Told
<1>5. up[s].pc # "idle" => up[s].ver = want
  BY <1>2 DEF OneVersion
<1>6. CASE Fail(s) /\ up[s].pc \notin {"hash", "unlink", "rename"}
  BY <1>4, <1>6 DEF Fail, NoUpload
<1>7. CASE Start(s)
  BY <1>4, <1>7 DEF Start, NoUpload
<1>8. CASE Send(s)
  <2>1. PICK u : u = [up[s] EXCEPT !.pc = "check"]
    OBVIOUS
  <2>2. up' = [up EXCEPT ![s] = u] /\ u.pc = "check" /\ u.ver = want /\ up[s].pc = "send"
    BY <1>2, <1>5, <1>8, <2>1 DEF Send, Uploads
  <2> QED
    BY <1>4, <2>2
<1>9. ASSUME Ask(s) \/ Reask(s), Resume(s, Status) PROVE OneVersion' /\ (Told(s) => InPlace')
  <2>1. up[s].pc \in {"ask", "reask"} /\ ~Handling
    BY <1>9 DEF Ask, Reask, NoteOverlap
  <2>2. Len(part) < Total
    BY <1>2, <2>1 DEF OneVersion, Handling, HandlerPhases
  <2>3. Right \/ Status < Total
    BY <2>2, Sizes DEF Status
  <2>4. PICK u : u = [up[s] EXCEPT !.off = Status, !.got = 0,
                                   !.pc = IF Status < Total THEN "send" ELSE "done"]
    OBVIOUS
  <2>5. /\ up' = [up EXCEPT ![s] = u] /\ u.ver = want
        /\ u.pc \in {"send", "done"} /\ (u.pc = "done" => ~(Status < Total))
    BY <1>2, <1>5, <1>9, <2>1, <2>4 DEF Resume, Uploads
  <2> QED
    BY <1>4, <2>1, <2>3, <2>5 DEF InPlace
<1>10. CASE Lose(s) /\ up[s].pc \in HandlerPhases
  <2>1. PICK u : u = [up[s] EXCEPT !.deaf = TRUE]
    OBVIOUS
  <2>2. up' = [up EXCEPT ![s] = u] /\ u.pc = up[s].pc /\ u.ver = want /\ u.pc # "done"
    BY <1>2, <1>5, <1>10, <2>1 DEF Lose, Uploads, HandlerPhases
  <2> QED
    BY <1>4, <2>2
<1>11. CASE Ask(s) \/ Reask(s) \/ Leave(s) \/ (Lose(s) /\ up[s].pc \notin HandlerPhases)
  <2>1. /\ up[s].pc \notin {"hash", "unlink", "rename"}
        /\ Fail(s) \/ ((Ask(s) \/ Reask(s)) /\ Resume(s, Status))
    BY <1>11 DEF Ask, Reask, Leave, Lose
  <2> QED
    BY <1>6, <1>9, <2>1
<1> QED
  BY <1>7, <1>8, <1>10, <1>11

LEMMA ReceiverDone ==
  ASSUME Typed, DoneInv, Fetch \/ PullFault \/ Merge \/ Crash
  PROVE  DoneInv' /\ \A s \in Senders : ~Told(s)
<1> USE DEF disk, counts
<1>1. \A s \in Senders : ~Told(s)
  BY DEF Told, Fetch, PullStart, PullOpen, PullFill, PullVerify, PullDelete, PullFault, Merge, Crash, NoUpload
<1>2. CASE Merge \/ Crash
  <2>1. ~Undisturbed'
    BY <1>2 DEF Merge, Crash, Undisturbed, Typed, TypeOK
  <2> QED
    BY <1>1, <2>1 DEF DoneInv
<1>3. CASE Fetch \/ PullFault
  <2>1. UNCHANGED <<want, part, sidecar, up, overlapped, crashes, merges>>
    BY <1>3 DEF Fetch, PullStart, PullOpen, PullFill, PullVerify, PullDelete, PullFault
  <2> SUFFICES ASSUME OneVersion PROVE OneVersion'
    BY <1>1, <2>1 DEF DoneInv, Undisturbed
  <2>2. want \in Versions
    BY DEF Typed, TypeOK
  <2>3. pull'.pc # "idle" => pull'.ver = want
    BY <1>3 DEF Fetch, PullStart, PullOpen, PullFill, PullVerify, PullDelete, PullFault, OneVersion,
                NoPull, Typed, TypeOK, Pulls
  <2>4. final' \in {<<>>, Content(want)} /\ pull'.pc # "delete"
    BY <1>3 DEF Fetch, PullStart, PullOpen, PullFill, PullVerify, PullDelete, PullFault, OneVersion,
                NoPull, Typed, TypeOK, Pulls
  <2>5. InPlace => InPlace'
    <3>1. CASE PullOpen
      <4>1. pull'.pc = "fill" /\ pull'.ver = want
        BY <3>1 DEF PullOpen, OneVersion, Typed, TypeOK, Pulls
      <4> QED
        BY <2>1, <4>1 DEF InPlace
    <3>2. CASE PullFill
      BY <2>1, <3>2 DEF PullFill, OneVersion, InPlace, Right, Content
    <3>3. CASE PullStart \/ PullVerify \/ PullDelete \/ PullFault
      <4>1. UNCHANGED final /\ pull.pc # "fill"
        BY <3>3 DEF PullStart, PullVerify, PullDelete, PullFault, OneVersion
      <4> QED
        BY <2>1, <4>1 DEF InPlace, Right, Content
    <3> QED
      BY <1>3, <3>1, <3>2, <3>3 DEF Fetch
  <2> QED
    BY <2>1, <2>3, <2>4, <2>5 DEF OneVersion, Content
<1> QED
  BY <1>2, <1>3

LEMMA NextDone ==
  Typed /\ PartInv /\ DoneInv /\ [Next]_vars =>
    DoneInv' /\ (Undisturbed /\ ~overlapped' => \A s \in Senders : Told(s) => InPlace')
<1> SUFFICES ASSUME Typed, PartInv, DoneInv, [Next]_vars
             PROVE  DoneInv' /\ (Undisturbed /\ ~overlapped' => \A s \in Senders : Told(s) => InPlace')
  OBVIOUS
<1>1. CASE UNCHANGED vars
  BY <1>1 DEF vars, disk, counts, DoneInv, Undisturbed, OneVersion, InPlace, Right, Content, Told
<1>2. CASE Fetch \/ PullFault \/ Merge \/ Crash
  BY <1>2, ReceiverDone
<1>3. ASSUME NEW s \in Senders, Upload(s) \/ Lose(s)
      PROVE  DoneInv' /\ (Undisturbed /\ ~overlapped' => \A r \in Senders : Told(r) => InPlace')
  <2>1. UNCHANGED <<crashes, merges>> /\ (overlapped => overlapped')
    <3>1. overlapped => overlapped'
      BY OverlapStays
    <3>2. Handle(s) => UNCHANGED <<crashes, merges>>
      BY DEF Handle, Check, Measure, Compare, WriteSidecar, AppendChunk, Hash, Unlink, Rename, Tidy,
             counts
    <3>3. ~Handle(s) => UNCHANGED <<crashes, merges>>
      BY <1>3 DEF Upload, Start, Ask, Send, Reask, Leave, Lose, counts
    <3> QED
      BY <3>1, <3>2, <3>3
  <2>2. \A r \in Senders \ {s} : ~Told(r)
    <3>1. \E u : up' = [up EXCEPT ![s] = u]
      BY <1>3, HandlerMoves, SenderMoves DEF Upload
    <3> QED
      BY <3>1 DEF Told, Typed, TypeOK
  <2>3. ASSUME Undisturbed, ~overlapped' PROVE OneVersion' /\ (Told(s) => InPlace')
    BY <1>3, <2>3, HandlerDone, SenderDone DEF Upload
  <2>4. DoneInv'
    BY <2>1, <2>3 DEF DoneInv, Undisturbed
  <2> QED
    BY <2>2, <2>3, <2>4
<1> QED
  BY <1>1, <1>2, <1>3 DEF Next

LEMMA InitDone == Init => DoneInv
<1> SUFFICES ASSUME Init PROVE OneVersion
  BY DEF DoneInv
<1>1. Len(part) < Total
  BY Sizes DEF Init
<1> QED
  BY <1>1 DEF Init, OneVersion, NoUpload, NoPull

\* While the receiver is not restarted, keeps to one version and gets no request during
\* another, a sender is told that its upload is complete only when the receiver has the
\* file, or its own fetch is filling it with the same bytes (receiveAttachmentUploadChunk,
\* attachmentUploadStatus, writeAttachmentBytes).
THEOREM DoneIsStored == Spec => DoneMeansStoredUndisturbed
<1> DEFINE Done == \A s \in Senders :
              /\ up[s].pc # "done" /\ up'[s].pc = "done"
              /\ crashes = 0 /\ merges = 0 /\ ~overlapped'
              => InPlace'
<1>1. Typed /\ PartInv /\ DoneInv /\ [Next]_vars => (Typed /\ PartInv /\ DoneInv)' /\ [Done]_vars
  <2> SUFFICES ASSUME Typed, PartInv, DoneInv, [Next]_vars
               PROVE  (Typed /\ PartInv /\ DoneInv)' /\ Done
    OBVIOUS
  <2>1. overlapped => overlapped'
    BY OverlapStays
  <2>2. Done
    BY <2>1, NextDone DEF Told, Undisturbed
  <2> QED
    BY <2>2, NextTypes, NextPart, NextDone
<1>2. Init => Typed /\ PartInv /\ DoneInv
  BY InitTypes, InitPart, InitDone
<1> QED
  BY <1>1, <1>2, PTL DEF Spec, DoneMeansStoredUndisturbed
=============================================================================
