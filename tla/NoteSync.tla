------------------------------- MODULE NoteSync -------------------------------
(***************************************************************************)
(* A mesh of devices, each with its own store of notes and its own outbox, *)
(* that edit notes and run sync sessions with each other.                  *)
(*                                                                         *)
(* A session <<i, p>> is syncWithRemote run by device i against peer p:    *)
(* pull what the peer's catalog has newer, push what the peer lacks, then  *)
(* acknowledge outbox entries.  Its actions are cut at the awaits where    *)
(* another task of either device can run: the two catalogs are read at     *)
(* different moments and used after, and a merge reads the note in one     *)
(* step and writes it in a later one.  The stretch from that read to that  *)
(* write is called a SPAN of the device that is written; a user operation  *)
(* and an outbox acknowledgement have spans of the same kind.              *)
(***************************************************************************)
EXTENDS NoteMerge, FiniteSets

CONSTANTS
  Dev,           \* the devices, all paired with each other
  Notes,         \* the note ids
  NoNote,        \* no note
  Ops,           \* the operations the users perform besides creating notes
  Clocks,        \* "global", "coarse" or "unique": see NextStamps
  Interleaving,  \* "serial", "spans" or "free": see MayOpen
  MaxTime,       \* bound: the stamps are 1..MaxTime
  MaxWrites,     \* bound: the local writes of all users together
  MaxFaults      \* bound: the network calls that fail

ASSUME NoteAssumption == NoNote \notin Notes
ASSUME OpsAssumption ==
  Ops \subseteq {"edit", "rewrite", "attach", "delete", "restore", "purge"}
ASSUME ModeAssumption == /\ Clocks \in {"global", "coarse", "unique"}
                         /\ Interleaving \in {"serial", "spans", "free"}
ASSUME BoundAssumption == MaxTime \in Nat /\ MaxWrites \in Nat /\ MaxFaults \in Nat

VARIABLES
  store,      \* store[d][n]: the copy in d's note folder
  blob,       \* blob[d][n]: the attachment files in that folder
  conflicts,  \* conflicts[d][n]: the copies saved as conflict files there
  outbox,     \* outbox[d]: rows of d's sync_outbox
  usr,        \* usr[d]: the operation d's user has under way
  sess,       \* sess[l]: the session of l[1] with l[2]
  stamps,     \* the values of updated_at handed out so far
  writes,     \* the number of local writes so far
  faults      \* the number of failed calls so far

vars == <<store, blob, conflicts, outbox, usr, sess, stamps, writes, faults>>

Links == {l \in Dev \X Dev : l[1] # l[2]}

Entries == [note : Notes, op : {"upsert", "purge"}, id : Nat]

UserOps == [op : {"none"} \cup Ops, note : Notes \cup {NoNote}, basis : Copies]
NoOp == [op |-> "none", note |-> NoNote, basis |-> Absent]

\* Where a session is; the comment names the call the session makes next.
Phases == {"idle",
  "pullLocal",    \* notes.catalogHeads, after the remote catalog
  "pull",         \* the loop over remote heads
  "pullRead",     \* applyRemoteMerge: readMeta and getNote
  "pullCommit",   \* applyRemoteMerge: the write
  "pullAtt",      \* syncAttachmentsFrom
  "pushLocal",    \* localCatalog, after the remote catalog
  "push",         \* the loop over local heads
  "pushRead",     \* the PUT handler's applyRemoteMerge: the read
  "pushCommit",   \* and its write
  "pushAtt",      \* syncAttachmentsTo
  "verify",       \* isNoteFullySyncedOnRemote, in pushToRemote
  "ackCheck",     \* tryAckOutboxForRemoteNote: its own check
  "ackRemove",    \* and the removal
  "ack",          \* the loop of acknowledgeSyncedWithRemote
  "done"}         \* the result is reported

HeadMaps == [Notes -> Heads]
NoHeads == [n \in Notes |-> HeadOf(Absent)]

Sessions == [pc : Phases, rcat : HeadMaps, lcat : HeadMaps, todo : SUBSET Notes,
             note : Notes \cup {NoNote}, snap : Copies, basis : Copies,
             failed : SUBSET Notes, pend : SUBSET Entries]
IdleSession == [pc |-> "idle", rcat |-> NoHeads, lcat |-> NoHeads, todo |-> {},
                note |-> NoNote, snap |-> Absent, basis |-> Absent,
                failed |-> {}, pend |-> {}]

Init ==
  /\ store = [d \in Dev |-> [n \in Notes |-> Absent]]
  /\ blob = [d \in Dev |-> [n \in Notes |-> {}]]
  /\ conflicts = [d \in Dev |-> [n \in Notes |-> {}]]
  /\ outbox = [d \in Dev |-> {}]
  /\ usr = [d \in Dev |-> NoOp]
  /\ sess = [l \in Links |-> IdleSession]
  /\ stamps = {} /\ writes = 0 /\ faults = 0
-----------------------------------------------------------------------------
(* Time, spans and writes. *)

\* DateTime.now() on a device that writes over a copy stamped "last".  "global":
\* the clocks agree and every write is later than all before it.  "coarse": they
\* agree, but two devices may write at the same instant.  "unique": clocks may be
\* skewed, so a later write may carry an earlier stamp, but no two the same one.
NextStamps(last) ==
  {t \in 1..MaxTime :
     /\ Clocks = "global" => stamps = 1..(t - 1)
     /\ Clocks = "coarse" => t > last /\ 1..(t - 1) \subseteq stamps /\ stamps \subseteq 1..t
     /\ Clocks = "unique" => t \notin stamps}

Quiet == /\ \A l \in Links : sess[l].pc = "idle"
         /\ \A d \in Dev : usr[d].op = "none"

\* The bound MaxWrites leaves room for the operations that have begun.
MayWrite == writes + Cardinality({d \in Dev : usr[d].op # "none"}) < MaxWrites

NoSpan(d) ==
  /\ usr[d].op = "none"
  /\ \A l \in Links :
       /\ l[1] = d => sess[l].pc \notin {"pullCommit", "ackRemove"}
       /\ l[2] = d => sess[l].pc # "pushCommit"

\* Nothing in the code keeps the spans of one device apart: "free".  "spans" is the
\* case where they happen not to overlap, "serial" the one where sessions and user
\* operations happen one at a time (MayStart).
MayOpen(d) == Interleaving = "free" \/ NoSpan(d)
MayStart == Interleaving = "serial" => Quiet

Enqueue(d, op, n) ==
  {e \in outbox[d] : ~(e.note = n /\ e.op = op)}
    \cup {[note |-> n, op |-> op, id |-> writes + 1]}

\* A local write: the folder, then the outbox row.
Persist(d, n, c) ==
  /\ writes < MaxWrites
  /\ writes' = writes + 1
  /\ stamps' = stamps \cup {c.ts}
  /\ store' = [store EXCEPT ![d][n] = c]
  /\ outbox' = [outbox EXCEPT ![d] = Enqueue(d, "upsert", n)]

\* A note-level write made for a remote copy: no outbox row, no stamp.
ApplyAt(d, n, local, remote) ==
  /\ store' = [store EXCEPT ![d][n] = IF MergeResult(local, remote) = "applied"
                                      THEN MergedCopy(local, remote) ELSE @]
  /\ blob' = [blob EXCEPT ![d][n] =
                IF MergeResult(local, remote) = "applied" /\ remote.kind = "tombstone"
                THEN {} ELSE @]
  /\ conflicts' = [conflicts EXCEPT ![d][n] =
                     IF MergeResult(local, remote) = "conflictCopyCreated"
                     THEN @ \cup {remote} ELSE @]
-----------------------------------------------------------------------------
(* The users. *)

CreateNote(d, n) ==
  /\ MayStart /\ MayOpen(d) /\ MayWrite
  /\ \A e \in Dev : store[e][n].kind = "absent"
  /\ \E t \in NextStamps(0), b \in Bodies : Persist(d, n, Note(t, b, {}, FALSE))
  /\ UNCHANGED <<blob, conflicts, usr, sess, faults>>

CanBegin(op, c) ==
  /\ Live(c)
  /\ op \in {"edit", "attach", "delete"} => ~c.deleted
  /\ op \in {"restore", "purge"} => c.deleted
  /\ op = "attach" => Att \ c.atts # {}

\* The operation reads the note it is about (for a purge: the trash list).
BeginOp(d, n, op) ==
  /\ MayStart /\ MayOpen(d) /\ usr[d].op = "none" /\ MayWrite
  /\ CanBegin(op, store[d][n])
  /\ usr' = [usr EXCEPT ![d] = [op |-> op, note |-> n, basis |-> store[d][n]]]
  /\ UNCHANGED <<store, blob, conflicts, outbox, sess, stamps, writes, faults>>

CommitEdit(d) ==  \* updateNote; rewrite: setNoteTags, restoreNoteHistoryRevision
  LET n == usr[d].note  c == usr[d].basis IN
  /\ usr[d].op \in {"edit", "rewrite"}
  /\ \E t \in NextStamps(c.ts), b \in Bodies :
       Persist(d, n, Note(t, b, c.atts, c.deleted))
  /\ usr' = [usr EXCEPT ![d] = NoOp]
  /\ UNCHANGED <<blob, conflicts, sess, faults>>

CommitAttach(d) ==  \* addAttachment, addAttachmentFromBytes
  LET n == usr[d].note  c == usr[d].basis IN
  /\ usr[d].op = "attach"
  /\ \E t \in NextStamps(c.ts), a \in Att \ c.atts :
       /\ Persist(d, n, Note(t, c.body, c.atts \cup {a}, c.deleted))
       /\ blob' = [blob EXCEPT ![d][n] = @ \cup {a}]
  /\ usr' = [usr EXCEPT ![d] = NoOp]
  /\ UNCHANGED <<conflicts, sess, faults>>

CommitDelete(d) ==  \* deleteNote
  LET n == usr[d].note  c == usr[d].basis IN
  /\ usr[d].op = "delete"
  /\ \E t \in NextStamps(c.ts) : Persist(d, n, Note(t, c.body, {}, TRUE))
  /\ blob' = [blob EXCEPT ![d][n] = {}]
  /\ usr' = [usr EXCEPT ![d] = NoOp]
  /\ UNCHANGED <<conflicts, sess, faults>>

CommitRestore(d) ==  \* restoreNote
  LET n == usr[d].note  c == usr[d].basis IN
  /\ usr[d].op = "restore"
  /\ \E t \in NextStamps(c.ts) : Persist(d, n, Note(t, c.body, c.atts, FALSE))
  /\ usr' = [usr EXCEPT ![d] = NoOp]
  /\ UNCHANGED <<blob, conflicts, sess, faults>>

CommitPurge(d) ==  \* emptyTrash, purgeExpiredTrash: _purgeNote of one listed note
  LET n == usr[d].note  c == usr[d].basis IN
  /\ usr[d].op = "purge"
  /\ writes < MaxWrites
  /\ \E t \in NextStamps(c.ts) : /\ store' = [store EXCEPT ![d][n] = Tombstone(t)]
                           /\ stamps' = stamps \cup {t}
  /\ blob' = [blob EXCEPT ![d][n] = {}]
  /\ outbox' = [outbox EXCEPT ![d] =
                  {e \in @ : e.note # n}
                    \cup {[note |-> n, op |-> "purge", id |-> writes + 1]}]
  /\ writes' = writes + 1
  /\ usr' = [usr EXCEPT ![d] = NoOp]
  /\ UNCHANGED <<conflicts, sess, faults>>

User(d) ==
  \/ \E n \in Notes : CreateNote(d, n)
  \/ \E n \in Notes, op \in Ops : BeginOp(d, n, op)
  \/ CommitEdit(d) \/ CommitAttach(d) \/ CommitDelete(d)
  \/ CommitRestore(d) \/ CommitPurge(d)
-----------------------------------------------------------------------------
(* A session: pull.  In what follows l[1] runs the session and l[2] is the  *)
(* peer that serves it.                                                     *)

Catalog(d) == [n \in Notes |-> HeadOf(store[d][n])]
Known(cat) == {n \in Notes : cat[n].kind # "absent"}

\* The attachment files the GET handler of d can serve.
Servable(d, n) == IF Live(store[d][n]) THEN store[d][n].atts \cap blob[d][n] ELSE {}

\* Of the files on offer some arrive; an error on one is logged and skipped.
Arrive(d, n, offer) ==
  \E got \in SUBSET offer :
    /\ blob' = [blob EXCEPT ![d][n] = @ \cup got]
    /\ \/ got = offer /\ faults' = faults
       \/ got # offer /\ faults < MaxFaults /\ faults' = faults + 1

StartSession(l) ==  \* pullFromRemote: fetchCatalog of the peer
  /\ sess[l].pc = "idle" /\ MayStart
  /\ sess' = [sess EXCEPT ![l].pc = "pullLocal", ![l].rcat = Catalog(l[2])]
  /\ UNCHANGED <<store, blob, conflicts, outbox, usr, stamps, writes, faults>>

PullCatalog(l) ==
  /\ sess[l].pc = "pullLocal"
  /\ sess' = [sess EXCEPT ![l].pc = "pull", ![l].lcat = Catalog(l[1]),
                          ![l].todo = Known(sess[l].rcat)]
  /\ UNCHANGED <<store, blob, conflicts, outbox, usr, stamps, writes, faults>>

\* Heads match: the attachments of the local note are still looked for.
PullSkip(l, n) ==
  /\ sess[l].pc = "pull" /\ n \in sess[l].todo
  /\ ~NoteHeadNeedsRemotePull(sess[l].lcat[n], sess[l].rcat[n])
  /\ Arrive(l[1], n, (store[l[1]][n].atts \ blob[l[1]][n]) \cap Servable(l[2], n))
  /\ sess' = [sess EXCEPT ![l].todo = @ \ {n}]
  /\ UNCHANGED <<store, conflicts, outbox, usr, stamps, writes>>

PullFetch(l, n) ==  \* fetchNote: the peer exports its present copy
  /\ sess[l].pc = "pull" /\ n \in sess[l].todo
  /\ NoteHeadNeedsRemotePull(sess[l].lcat[n], sess[l].rcat[n])
  /\ sess' = [sess EXCEPT ![l].pc = "pullRead", ![l].todo = @ \ {n},
                          ![l].note = n, ![l].snap = store[l[2]][n]]
  /\ UNCHANGED <<store, blob, conflicts, outbox, usr, stamps, writes, faults>>

PullRead(l) ==
  /\ sess[l].pc = "pullRead" /\ MayOpen(l[1])
  /\ sess' = [sess EXCEPT ![l].pc = "pullCommit",
                          ![l].basis = store[l[1]][sess[l].note]]
  /\ UNCHANGED <<store, blob, conflicts, outbox, usr, stamps, writes, faults>>

PullCommit(l) ==
  /\ sess[l].pc = "pullCommit"
  /\ ApplyAt(l[1], sess[l].note, sess[l].basis, sess[l].snap)
  /\ sess' = [sess EXCEPT ![l].pc = "pullAtt", ![l].basis = Absent]
  /\ UNCHANGED <<outbox, usr, stamps, writes, faults>>

PullAttachments(l) ==  \* syncAttachmentsFrom the fetched meta
  LET n == sess[l].note IN
  /\ sess[l].pc = "pullAtt"
  /\ Arrive(l[1], n, (sess[l].snap.atts \ blob[l[1]][n]) \cap Servable(l[2], n))
  /\ sess' = [sess EXCEPT ![l].pc = "pull", ![l].note = NoNote, ![l].snap = Absent]
  /\ UNCHANGED <<store, conflicts, outbox, usr, stamps, writes>>

PushStart(l) ==  \* pushToRemote: a second fetchCatalog
  /\ sess[l].pc = "pull" /\ sess[l].todo = {}
  /\ sess' = [sess EXCEPT ![l].pc = "pushLocal", ![l].rcat = Catalog(l[2]),
                          ![l].lcat = NoHeads]
  /\ UNCHANGED <<store, blob, conflicts, outbox, usr, stamps, writes, faults>>
-----------------------------------------------------------------------------
(* A session: push. *)

PushCatalog(l) ==
  /\ sess[l].pc = "pushLocal"
  /\ sess' = [sess EXCEPT ![l].pc = "push", ![l].lcat = Catalog(l[1]),
                          ![l].todo = Known(Catalog(l[1]))]
  /\ UNCHANGED <<store, blob, conflicts, outbox, usr, stamps, writes, faults>>

PushSkip(l, n) ==
  /\ sess[l].pc = "push" /\ n \in sess[l].todo
  /\ ~NeedsPush(sess[l].lcat[n], sess[l].rcat[n])
  /\ sess' = [sess EXCEPT ![l].todo = @ \ {n}]
  /\ UNCHANGED <<store, blob, conflicts, outbox, usr, stamps, writes, faults>>

PushExport(l, n) ==
  /\ sess[l].pc = "push" /\ n \in sess[l].todo
  /\ NeedsPush(sess[l].lcat[n], sess[l].rcat[n])
  /\ sess' = [sess EXCEPT ![l].pc = "pushRead", ![l].todo = @ \ {n},
                          ![l].note = n, ![l].snap = store[l[1]][n]]
  /\ UNCHANGED <<store, blob, conflicts, outbox, usr, stamps, writes, faults>>

PushRead(l) ==
  /\ sess[l].pc = "pushRead" /\ MayOpen(l[2])
  /\ sess' = [sess EXCEPT ![l].pc = "pushCommit",
                          ![l].basis = store[l[2]][sess[l].note]]
  /\ UNCHANGED <<store, blob, conflicts, outbox, usr, stamps, writes, faults>>

PushCommit(l) ==
  /\ sess[l].pc = "pushCommit"
  /\ ApplyAt(l[2], sess[l].note, sess[l].basis, sess[l].snap)
  /\ sess' = [sess EXCEPT ![l].pc = "pushAtt", ![l].basis = Absent]
  /\ UNCHANGED <<outbox, usr, stamps, writes, faults>>

\* syncAttachmentsTo: the PUT handler takes only files its own meta lists.
PushAttachments(l) ==
  LET n == sess[l].note IN
  /\ sess[l].pc = "pushAtt"
  /\ Arrive(l[2], n, sess[l].snap.atts \cap blob[l[1]][n] \cap store[l[2]][n].atts)
  /\ sess' = [sess EXCEPT ![l].pc = "verify", ![l].snap = Absent]
  /\ UNCHANGED <<store, conflicts, outbox, usr, stamps, writes>>

\* Mutant: any copy of the note on the peer counts as synced.
AnyCopyCounts(i, p, n) == store[p][n].kind # "absent" \/ store[i][n].kind # "note"

\* Mutant: a purge is over once it is done on the device itself.
PurgeIsLocal(i, p, n) ==
  Live(store[i][n]) =>
    store[p][n].kind # "absent" /\ store[p][n].ts >= store[i][n].ts

\* isNoteFullySyncedOnRemote
FullySynced(i, p, n) ==
  LET mine == store[i][n]  theirs == store[p][n] IN
  IF ~Live(mine) THEN ~Live(theirs)
  ELSE /\ theirs.kind # "absent"
       /\ theirs.ts >= mine.ts
       /\ theirs.deleted = mine.deleted
       /\ ~mine.deleted => mine.atts \subseteq theirs.atts \cap Servable(p, n)

PushVerify(l) ==
  LET n == sess[l].note  ok == FullySynced(l[1], l[2], n) IN
  /\ sess[l].pc = "verify"
  /\ sess' = [sess EXCEPT ![l].pc = IF ok THEN "ackCheck" ELSE "push",
                          ![l].note = IF ok THEN n ELSE NoNote,
                          ![l].failed = IF ok THEN @ ELSE @ \cup {n}]
  /\ UNCHANGED <<store, blob, conflicts, outbox, usr, stamps, writes, faults>>

AckCheck(l) ==  \* tryAckOutboxForRemoteNote checks once more ...
  LET n == sess[l].note  ok == FullySynced(l[1], l[2], n) IN
  /\ sess[l].pc = "ackCheck" /\ MayOpen(l[1])
  /\ sess' = [sess EXCEPT ![l].pc = IF ok THEN "ackRemove" ELSE "push",
                          ![l].note = IF ok THEN n ELSE NoNote]
  /\ UNCHANGED <<store, blob, conflicts, outbox, usr, stamps, writes, faults>>

AckRemove(l) ==  \* ... then removes every row the note has by now
  /\ sess[l].pc = "ackRemove"
  /\ outbox' = [outbox EXCEPT ![l[1]] = {e \in @ : e.note # sess[l].note}]
  /\ sess' = [sess EXCEPT ![l].pc = "push", ![l].note = NoNote]
  /\ UNCHANGED <<store, blob, conflicts, usr, stamps, writes, faults>>
-----------------------------------------------------------------------------
(* A session: the acknowledgement pass, the end, and failures. *)

AckStart(l) ==  \* acknowledgeSyncedWithRemote: listOutbox
  /\ sess[l].pc = "push" /\ sess[l].todo = {}
  /\ sess' = [sess EXCEPT ![l].pc = "ack", ![l].pend = outbox[l[1]],
                          ![l].rcat = NoHeads, ![l].lcat = NoHeads]
  /\ UNCHANGED <<store, blob, conflicts, outbox, usr, stamps, writes, faults>>

\* The row is looked up on the peer and removed by its id, in one step here; a row that
\* a save adds meanwhile is another one (AckCheck and AckRemove remove by note).
AckEntry(l, e) ==
  /\ sess[l].pc = "ack" /\ e \in sess[l].pend
  /\ outbox' = [outbox EXCEPT ![l[1]] =
                  IF FullySynced(l[1], l[2], e.note) THEN @ \ {e} ELSE @]
  /\ sess' = [sess EXCEPT ![l].pend = @ \ {e}]
  /\ UNCHANGED <<store, blob, conflicts, usr, stamps, writes, faults>>

Report(l) ==
  /\ sess[l].pc = "ack" /\ sess[l].pend = {}
  /\ sess' = [sess EXCEPT ![l].pc = "done"]
  /\ UNCHANGED <<store, blob, conflicts, outbox, usr, stamps, writes, faults>>

Close(l) ==
  /\ sess[l].pc = "done"
  /\ sess' = [sess EXCEPT ![l] = IdleSession]
  /\ UNCHANGED <<store, blob, conflicts, outbox, usr, stamps, writes, faults>>

\* A call to the peer throws, or its answer is lost after the peer acted: while
\* one note is pushed, that note is recorded as failed and the loop goes on.
PushFault(l) ==
  /\ sess[l].pc \in {"pushRead", "pushAtt", "verify", "ackCheck"}
  /\ faults < MaxFaults /\ faults' = faults + 1
  /\ sess' = [sess EXCEPT ![l].pc = "push", ![l].note = NoNote, ![l].snap = Absent,
                          ![l].failed = @ \cup {sess[l].note}]
  /\ UNCHANGED <<store, blob, conflicts, outbox, usr, stamps, writes>>

\* Anywhere else the exception ends the session, as does the end of the process
\* that runs it.
Abort(l) ==
  /\ sess[l].pc \notin {"idle", "pushCommit", "done"}
  /\ faults < MaxFaults /\ faults' = faults + 1
  /\ sess' = [sess EXCEPT ![l] = IdleSession]
  /\ UNCHANGED <<store, blob, conflicts, outbox, usr, stamps, writes>>

Pull(l) ==
  \/ PullCatalog(l) \/ \E n \in Notes : PullSkip(l, n) \/ PullFetch(l, n)
  \/ PullRead(l) \/ PullCommit(l) \/ PullAttachments(l)
Push(l) ==
  \/ PushStart(l) \/ PushCatalog(l) \/ \E n \in Notes : PushSkip(l, n) \/ PushExport(l, n)
  \/ PushRead(l) \/ PushCommit(l) \/ PushAttachments(l) \/ PushVerify(l)
Acknowledge(l) ==
  \/ AckCheck(l) \/ AckRemove(l) \/ AckStart(l)
  \/ \E e \in sess[l].pend : AckEntry(l, e)
  \/ Report(l) \/ Close(l)

Next ==
  \/ \E d \in Dev : User(d)
  \/ \E l \in Links : \/ StartSession(l) \/ Pull(l) \/ Push(l) \/ Acknowledge(l)
                      \/ PushFault(l) \/ Abort(l)

Spec == Init /\ [][Next]_vars

\* An operation or a session that is under way goes on; every pair of devices
\* gets its turn again and again (the periodic sync walks all trusted peers).
\* Users need not do anything.
Fairness ==
  /\ \A d \in Dev : WF_vars(\/ CommitEdit(d) \/ CommitAttach(d) \/ CommitDelete(d)
                            \/ CommitRestore(d) \/ CommitPurge(d))
  /\ \A l \in Links : /\ WF_vars(Pull(l) \/ Push(l) \/ Acknowledge(l))
                      /\ SF_vars(StartSession(l))
FairSpec == Spec /\ Fairness
-----------------------------------------------------------------------------
(* Properties. *)

\* Every variable keeps its type; in particular a tombstone never has a body or
\* attachments and a trashed note's copy is still a note.
TypeOK ==
  /\ store \in [Dev -> [Notes -> Copies]]
  /\ blob \in [Dev -> [Notes -> SUBSET Att]]
  /\ conflicts \in [Dev -> [Notes -> SUBSET Copies]]
  /\ outbox \in [Dev -> SUBSET Entries]
  /\ usr \in [Dev -> UserOps]
  /\ sess \in [Links -> Sessions]
  /\ stamps \in SUBSET (1..MaxTime)
  /\ writes \in 0..MaxWrites
  /\ faults \in 0..MaxFaults

\* Two devices whose catalogs show the same updated_at for a note hold the same
\* copy of it.  The catalog-first delta sync (noteHeadNeedsRemotePull, needsPush)
\* compares nothing else, so it is sound only if this holds.
HeadsDetermineContent ==
  \A d, e \in Dev, n \in Notes :
    store[d][n].ts = store[e][n].ts => store[d][n] = store[e][n]

\* A copy is replaced only by a newer one or by a tombstone, and a tombstone only
\* by a newer copy: no merge and no local write takes a device back to an older
\* version of a note.
ReplacedOnlyByNewerOrPurge ==
  [][\A d \in Dev, n \in Notes :
       \/ store'[d][n] = store[d][n]
       \/ store'[d][n].ts > store[d][n].ts
       \/ store'[d][n].kind = "tombstone" /\ store[d][n].kind = "note"]_vars

Pending(d, n) == \E e \in outbox[d] : e.note = n

\* Peer e has what d has of note n, or something later.
Delivered(d, e, n) ==
  \/ store[e][n].kind = "tombstone"
  \/ store[d][n].kind = "tombstone" /\ ~Live(store[e][n])
  \/ store[e][n].ts > store[d][n].ts
  \/ /\ store[e][n].ts = store[d][n].ts
     /\ store[d][n].atts \subseteq blob[e][n]

\* A note stops being pending on a device only when some peer has the device's
\* present version of it, with the bytes of all its attachments, or a later one.
\* The exception are purges that meet other sessions: a tombstone counts as
\* delivered to a peer with an older one (isNoteFullySyncedOnRemote), and that
\* peer's own session can put a live note in place of its tombstone before
\* tryAckOutboxForRemoteNote removes the row.
AckOnlyWhenDelivered ==
  [][("purge" \in Ops => Interleaving = "serial") =>
       \A d \in Dev, n \in Notes :
         Pending(d, n) /\ ~Pending(d, n)' => \E e \in Dev \ {d} : Delivered(d, e, n)]_vars

SameContent(c1, c2) ==
  c1.kind = c2.kind /\ c1.body = c2.body /\ c1.deleted = c2.deleted

\* When a session that nothing disturbed reports its result, the two devices have
\* the same content of every note.
SessionReconciles ==
  Interleaving = "serial" /\ faults = 0 =>
    \A l \in Links : sess[l].pc = "done" =>
      \A n \in Notes : SameContent(store[l[1]][n], store[l[2]][n])

\* ... and if it reports no failed note, its outbox is empty.
SessionDrainsOutbox ==
  Interleaving = "serial" /\ faults = 0 =>
    \A l \in Links : sess[l].pc = "done" /\ sess[l].failed = {} => outbox[l[1]] = {}

\* ... and no note is left out: every note of a device that lists attachments is
\* complete on the other side too.
SessionDeliversAttachments ==
  Interleaving = "serial" /\ faults = 0 =>
    \A l \in Links : sess[l].pc = "done" =>
      \A n \in Notes : store[l[1]][n].atts \subseteq blob[l[2]][n]

Agreement == \A d, e \in Dev, n \in Notes : SameContent(store[d][n], store[e][n])

\* Users stop in the end (writes are bounded); from some time on all devices show
\* the same notes with the same content.
Converges == <>[]Agreement
=============================================================================
