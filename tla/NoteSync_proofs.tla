---------------------------- MODULE NoteSync_proofs ----------------------------
(***************************************************************************)
(* Theorems about the merge rules and about NoteSync, for any number of    *)
(* devices, notes, bodies and attachments, any bounds, and however         *)
(* sessions and user operations interleave: what a merge keeps, the types, *)
(* and that equal heads mean equal copies.                                 *)
(***************************************************************************)
EXTENDS NoteSync, TLAPS

(* The merge rules: they stay within Copies, a merge never mixes two        *)
(* copies, and what it puts in place of a copy is newer or a tombstone.     *)

\* The fields of a copy, and its catalog head, have their types.
LEMMA CopyFields ==
  ASSUME NEW c \in Copies
  PROVE  /\ c.ts \in Nat /\ c.body \in Bodies \cup {NoBody} /\ c.atts \in SUBSET Att
         /\ c.deleted \in BOOLEAN /\ c.kind \in {"absent", "note", "tombstone"}
         /\ HeadOf(c) \in Heads
         /\ Live(c) <=> c \in Notelike
         /\ c.kind = "absent" => c = Absent /\ c.ts = 0
<1>1. CASE c = Absent
  BY <1>1 DEF Absent, Notelike, HeadOf, Heads, Live
<1>2. CASE c \in Notelike
  BY <1>2 DEF Notelike, HeadOf, Heads, Live
<1>3. CASE c \in Tombstones
  BY <1>3 DEF Tombstones, Notelike, HeadOf, Heads, Live
<1>4. QED
  BY <1>1, <1>2, <1>3 DEF Copies

\* What a local write can store is a copy.
LEMMA WrittenCopies ==
  ASSUME NEW t \in Nat, NEW b \in Bodies, NEW as \in SUBSET Att, NEW del \in BOOLEAN
  PROVE  /\ Note(t, b, as, del) \in Copies /\ Note(t, b, as, del).ts = t
         /\ Tombstone(t) \in Copies /\ Tombstone(t).ts = t
BY DEF Note, Tombstone, Copies, Notelike, Tombstones

\* A merge keeps one of the two copies whole: no title, tag list or attachment list
\* of one side ends up under the updated_at of the other (applyRemoteMerge takes the
\* remote markdown whatever mergeNoteMeta picked).
THEOREM MergeTakesOneSide ==
  ASSUME NEW local \in Copies, NEW remote \in Copies
  PROVE  MergedCopy(local, remote) \in {local, remote}
<1>1. CASE MergeResult(local, remote) = "applied" /\ Live(local) /\ Live(remote)
  <2>1. remote.kind # "tombstone" /\ local.kind # "tombstone"
    BY <1>1 DEF Live
  <2>2. ResolveNoteConflict(local, remote) = "appliedRemote"
    BY <1>1, <2>1 DEF MergeResult, ResolveNoteConflict
  <2>3. remote.ts > local.ts
    BY <2>2 DEF ResolveNoteConflict
  <2>4. MergeNoteMeta(local, remote) = remote
    BY <2>3 DEF MergeNoteMeta
  <2>5. [remote EXCEPT !.body = remote.body] = remote
    BY CopyFields, <1>1 DEF Notelike
  <2>6. QED
    BY <1>1, <2>4, <2>5 DEF MergedCopy
<1>2. CASE ~(MergeResult(local, remote) = "applied" /\ Live(local) /\ Live(remote))
  BY <1>2 DEF MergedCopy
<1>3. QED
  BY <1>1, <1>2

\* A merge replaces a copy by a strictly newer one, or a note by a tombstone; the
\* exception is what lets an old purge override a newer edit.
THEOREM MergeMovesForward ==
  ASSUME NEW local \in Copies, NEW remote \in Copies,
         remote.ts > 0, MergedCopy(local, remote) # local
  PROVE  \/ MergedCopy(local, remote).ts > local.ts
         \/ MergedCopy(local, remote).kind = "tombstone" /\ local.kind = "note"
<1>1. MergedCopy(local, remote) = remote
  BY MergeTakesOneSide
<1>2. MergeResult(local, remote) = "applied"
  BY DEF MergedCopy
<1>3. local.ts \in Nat /\ remote.ts \in Nat
  BY CopyFields
<1>4. CASE remote.kind = "tombstone"
  <2>1. CASE local.kind = "tombstone"
    BY <1>1, <1>2, <1>3, <1>4, <2>1 DEF MergeResult
  <2>2. CASE local.kind = "note"
    BY <1>1, <1>4, <2>2
  <2>3. CASE local.kind = "absent"
    BY <1>1, <2>3, CopyFields
  <2>4. QED
    BY <2>1, <2>2, <2>3, CopyFields
<1>5. CASE remote.kind # "tombstone"
  <2>1. CASE local.kind = "tombstone"
    BY <1>1, <1>2, <1>3, <1>5, <2>1 DEF MergeResult
  <2>2. CASE local.kind = "note"
    <3>1. ResolveNoteConflict(local, remote) = "appliedRemote"
      BY <1>2, <1>5, <2>2 DEF MergeResult, ResolveNoteConflict, Live
    <3>2. QED
      BY <1>1, <3>1 DEF ResolveNoteConflict
  <2>3. CASE local.kind = "absent"
    BY <1>1, <2>3, CopyFields
  <2>4. QED
    BY <2>1, <2>2, <2>3, CopyFields
<1>6. QED
  BY <1>4, <1>5

-----------------------------------------------------------------------------
(* Type correctness.  TypeOK alone is not inductive: a user operation or a  *)
(* session that works on a note names one.                                  *)

Working == {"pullRead", "pullCommit", "pullAtt", "pushRead", "pushCommit",
            "pushAtt", "verify", "ackCheck", "ackRemove"}
NoteNamed ==
  /\ \A d \in Dev : usr[d].op # "none" => usr[d].note \in Notes /\ Live(usr[d].basis)
  /\ \A l \in Links : sess[l].pc \in Working => sess[l].note \in Notes
TypeInv == TypeOK /\ NoteNamed

\* A link joins two different devices.
LEMMA LinkEnds ==
  ASSUME NEW l \in Links
  PROVE  l[1] \in Dev /\ l[2] \in Dev /\ l[1] # l[2]
BY DEF Links

\* The absent copy, its head and the empty catalog have their types.
LEMMA AbsentIsCopy == Absent \in Copies /\ HeadOf(Absent) \in Heads /\ NoHeads \in HeadMaps
BY DEF Copies, Absent, HeadOf, Heads, NoHeads, HeadMaps

\* A session that has not begun has the type of a session.
LEMMA IdleIsSession == IdleSession \in Sessions
BY AbsentIsCopy DEF IdleSession, Sessions, Phases

\* catalogHeads yields a head for every note.
LEMMA CatalogType ==
  ASSUME TypeOK, NEW d \in Dev
  PROVE  Catalog(d) \in HeadMaps /\ Known(Catalog(d)) \in SUBSET Notes
<1>1. \A n \in Notes : HeadOf(store[d][n]) \in Heads
  BY CopyFields DEF TypeOK
<1>2. QED
  BY <1>1 DEF Catalog, HeadMaps, Known

\* The initial state has the types.
LEMMA InitType == Init => TypeInv
<1>1. NoOp \in UserOps
  BY AbsentIsCopy DEF NoOp, UserOps
<1>2. QED
  BY <1>1, AbsentIsCopy, IdleIsSession, BoundAssumption
     DEF Init, TypeInv, TypeOK, NoteNamed, NoOp, IdleSession, Working

\* Stamps stay within the bound.
LEMMA StampType ==
  ASSUME NEW last, NEW t \in NextStamps(last)
  PROVE  t \in 1..MaxTime /\ t \in Nat
BY BoundAssumption DEF NextStamps

\* _persist keeps the types of what it writes.
LEMMA PersistType ==
  ASSUME TypeInv, NEW d \in Dev, NEW n \in Notes, NEW c \in Copies,
         c.ts \in 1..MaxTime, Persist(d, n, c)
  PROVE  /\ store' \in [Dev -> [Notes -> Copies]]
         /\ outbox' \in [Dev -> SUBSET Entries]
         /\ stamps' \in SUBSET (1..MaxTime)
         /\ writes' \in 0..MaxWrites
<1> USE DEF TypeInv, TypeOK
<1>1. writes \in Nat /\ writes' \in 0..MaxWrites
  BY BoundAssumption DEF Persist
<1>2. [note |-> n, op |-> "upsert", id |-> writes + 1] \in Entries
  BY <1>1 DEF Entries
<1>3. Enqueue(d, "upsert", n) \in SUBSET Entries
  BY <1>2 DEF Enqueue
<1>4. outbox' \in [Dev -> SUBSET Entries]
  BY <1>3 DEF Persist
<1>5. store' \in [Dev -> [Notes -> Copies]]
  BY DEF Persist
<1>6. stamps' \in SUBSET (1..MaxTime)
  BY DEF Persist
<1>7. QED
  BY <1>1, <1>4, <1>5, <1>6

\* An operation under way: what its commit writes is a copy of a note.
LEMMA CommitBasis ==
  ASSUME TypeInv, NEW d \in Dev, usr[d].op # "none"
  PROVE  /\ usr[d].note \in Notes
         /\ usr[d].basis.body \in Bodies /\ usr[d].basis.atts \in SUBSET Att
         /\ usr[d].basis.deleted \in BOOLEAN
<1>1. usr[d].basis \in Copies /\ Live(usr[d].basis)
  BY DEF TypeInv, TypeOK, UserOps, NoteNamed
<1>2. usr[d].basis \in Notelike
  BY <1>1, CopyFields
<1>3. QED
  BY <1>2 DEF TypeInv, NoteNamed, Notelike

\* Every operation of a user keeps the types.
LEMMA UserType ==
  ASSUME TypeInv, NEW d \in Dev, User(d)
  PROVE  TypeInv'
<1> USE DEF TypeInv
<1> DEFINE n == usr[d].note  c == usr[d].basis
<1>1. NoOp \in UserOps /\ NoOp.op = "none"
  BY AbsentIsCopy DEF NoOp, UserOps
<1>2. ASSUME usr' = [usr EXCEPT ![d] = NoOp], UNCHANGED sess
      PROVE  usr' \in [Dev -> UserOps] /\ NoteNamed'
  BY <1>1, <1>2 DEF TypeOK, NoteNamed
<1>3. CASE \E m \in Notes : CreateNote(d, m)
  <2>1. PICK m \in Notes : CreateNote(d, m)
    BY <1>3
  <2>2. PICK t \in NextStamps(0), b \in Bodies : Persist(d, m, Note(t, b, {}, FALSE))
    BY <2>1 DEF CreateNote
  <2>3. Note(t, b, {}, FALSE) \in Copies /\ Note(t, b, {}, FALSE).ts \in 1..MaxTime
    BY StampType, WrittenCopies
  <2>4. QED
    BY <2>1, <2>2, <2>3, PersistType DEF CreateNote, TypeOK, NoteNamed
<1>4. CASE \E m \in Notes, op \in Ops : BeginOp(d, m, op)
  <2>1. PICK m \in Notes, op \in Ops : BeginOp(d, m, op)
    BY <1>4
  <2>2. Live(store[d][m])
    BY <2>1 DEF BeginOp, CanBegin
  <2>3. [op |-> op, note |-> m, basis |-> store[d][m]] \in UserOps
    BY DEF UserOps, TypeOK
  <2>4. QED
    BY <2>1, <2>2, <2>3 DEF BeginOp, TypeOK, NoteNamed
<1>5. CASE CommitEdit(d)
  <2>1. PICK t \in NextStamps(c.ts), b \in Bodies :
          Persist(d, n, Note(t, b, c.atts, c.deleted))
    BY <1>5 DEF CommitEdit
  <2>2. usr[d].op # "none"
    BY <1>5 DEF CommitEdit
  <2>3. Note(t, b, c.atts, c.deleted) \in Copies
        /\ Note(t, b, c.atts, c.deleted).ts \in 1..MaxTime
    BY <2>2, CommitBasis, StampType, WrittenCopies
  <2>4. QED
    BY <1>2, <1>5, <2>1, <2>2, <2>3, CommitBasis, PersistType DEF CommitEdit, TypeOK
<1>6. CASE CommitAttach(d)
  <2>1. PICK t \in NextStamps(c.ts), a \in Att \ c.atts :
          /\ Persist(d, n, Note(t, c.body, c.atts \cup {a}, c.deleted))
          /\ blob' = [blob EXCEPT ![d][n] = @ \cup {a}]
    BY <1>6 DEF CommitAttach
  <2>2. usr[d].op # "none"
    BY <1>6 DEF CommitAttach
  <2>3. Note(t, c.body, c.atts \cup {a}, c.deleted) \in Copies
        /\ Note(t, c.body, c.atts \cup {a}, c.deleted).ts \in 1..MaxTime
    <3>1. c.atts \cup {a} \in SUBSET Att
      BY <2>2, CommitBasis
    <3>2. QED
      BY <2>2, <3>1, CommitBasis, StampType, WrittenCopies
  <2>4. blob' \in [Dev -> [Notes -> SUBSET Att]]
    BY <2>1 DEF TypeOK
  <2>5. QED
    BY <1>2, <1>6, <2>1, <2>2, <2>3, <2>4, CommitBasis, PersistType DEF CommitAttach, TypeOK
<1>7. CASE CommitDelete(d)
  <2>1. PICK t \in NextStamps(c.ts) : Persist(d, n, Note(t, c.body, {}, TRUE))
    BY <1>7 DEF CommitDelete
  <2>2. usr[d].op # "none"
    BY <1>7 DEF CommitDelete
  <2>3. Note(t, c.body, {}, TRUE) \in Copies /\ Note(t, c.body, {}, TRUE).ts \in 1..MaxTime
    <3>1. {} \in SUBSET Att /\ TRUE \in BOOLEAN
      OBVIOUS
    <3>2. QED
      BY <2>2, <3>1, CommitBasis, StampType, WrittenCopies
  <2>4. blob' \in [Dev -> [Notes -> SUBSET Att]]
    BY <1>7 DEF CommitDelete, TypeOK
  <2>5. QED
    BY <1>2, <1>7, <2>1, <2>2, <2>3, <2>4, CommitBasis, PersistType DEF CommitDelete, TypeOK
<1>8. CASE CommitRestore(d)
  <2>1. PICK t \in NextStamps(c.ts) : Persist(d, n, Note(t, c.body, c.atts, FALSE))
    BY <1>8 DEF CommitRestore
  <2>2. usr[d].op # "none"
    BY <1>8 DEF CommitRestore
  <2>3. Note(t, c.body, c.atts, FALSE) \in Copies
        /\ Note(t, c.body, c.atts, FALSE).ts \in 1..MaxTime
    BY <2>2, CommitBasis, StampType, WrittenCopies
  <2>4. QED
    BY <1>2, <1>8, <2>1, <2>2, <2>3, CommitBasis, PersistType DEF CommitRestore, TypeOK
<1>9. CASE CommitPurge(d)
  <2>1. PICK t \in NextStamps(c.ts) : /\ store' = [store EXCEPT ![d][n] = Tombstone(t)]
                                      /\ stamps' = stamps \cup {t}
    BY <1>9 DEF CommitPurge
  <2>2. usr[d].op # "none"
    BY <1>9 DEF CommitPurge
  <2>3. Tombstone(t) \in Copies /\ t \in 1..MaxTime
    BY <2>2, CommitBasis, StampType, WrittenCopies
  <2>4. store' \in [Dev -> [Notes -> Copies]] /\ stamps' \in SUBSET (1..MaxTime)
    BY <2>1, <2>3 DEF TypeOK
  <2>5. blob' \in [Dev -> [Notes -> SUBSET Att]]
    BY <1>9 DEF CommitPurge, TypeOK
  <2>6. writes \in Nat /\ writes' \in 0..MaxWrites
    BY <1>9, BoundAssumption DEF CommitPurge, TypeOK
  <2>7. [note |-> n, op |-> "purge", id |-> writes + 1] \in Entries
    BY <2>2, <2>6, CommitBasis DEF Entries
  <2>8. outbox' \in [Dev -> SUBSET Entries]
    BY <1>9, <2>7 DEF CommitPurge, TypeOK
  <2>9. QED
    BY <1>2, <1>9, <2>4, <2>5, <2>6, <2>8 DEF CommitPurge, TypeOK
<1>10. QED
  BY <1>3, <1>4, <1>5, <1>6, <1>7, <1>8, <1>9 DEF User

\* Files that arrive are attachments, and failures stay within the bound.
LEMMA ArriveType ==
  ASSUME TypeOK, NEW d \in Dev, NEW n \in Notes, NEW offer \in SUBSET Att,
         Arrive(d, n, offer)
  PROVE  blob' \in [Dev -> [Notes -> SUBSET Att]] /\ faults' \in 0..MaxFaults
<1>1. PICK got \in SUBSET Att : blob' = [blob EXCEPT ![d][n] = @ \cup got]
  BY DEF Arrive
<1>2. blob' \in [Dev -> [Notes -> SUBSET Att]]
  BY <1>1 DEF TypeOK
<1>3. faults' \in 0..MaxFaults
  BY BoundAssumption DEF Arrive, TypeOK
<1>4. QED
  BY <1>2, <1>3

\* What the attachment handler serves are attachments.
LEMMA ServableType ==
  ASSUME TypeOK, NEW d \in Dev, NEW n \in Notes
  PROVE  Servable(d, n) \in SUBSET Att
BY DEF TypeOK, Servable

\* applyRemoteMerge keeps the types of what it writes.
LEMMA ApplyType ==
  ASSUME TypeOK, NEW d \in Dev, NEW n \in Notes,
         NEW local \in Copies, NEW remote \in Copies, ApplyAt(d, n, local, remote)
  PROVE  /\ store' \in [Dev -> [Notes -> Copies]]
         /\ blob' \in [Dev -> [Notes -> SUBSET Att]]
         /\ conflicts' \in [Dev -> [Notes -> SUBSET Copies]]
<1>1. MergedCopy(local, remote) \in Copies
  BY MergeTakesOneSide
<1>2. store' \in [Dev -> [Notes -> Copies]]
  BY <1>1 DEF ApplyAt, TypeOK
<1>3. blob' \in [Dev -> [Notes -> SUBSET Att]]
  BY DEF ApplyAt, TypeOK
<1>4. conflicts' \in [Dev -> [Notes -> SUBSET Copies]]
  BY DEF ApplyAt, TypeOK
<1>5. QED
  BY <1>2, <1>3, <1>4

\* A step that touches one session leaves the other ones as they are.
LEMMA SessionStep ==
  ASSUME TypeInv, NEW l \in Links, NEW s \in Sessions,
         sess' = [sess EXCEPT ![l] = s], UNCHANGED usr,
         s.pc \in Working => s.note \in Notes
  PROVE  sess' \in [Links -> Sessions] /\ usr' \in [Dev -> UserOps] /\ NoteNamed'
BY DEF TypeInv, TypeOK, NoteNamed

\* The fields of a session, each with its type.
LEMMA SessionFields ==
  ASSUME TypeInv, NEW l \in Links
  PROVE  /\ sess[l] \in Sessions
         /\ sess[l].pc \in Working => sess[l].note \in Notes
         /\ sess[l].snap \in Copies /\ sess[l].basis \in Copies
BY DEF TypeInv, TypeOK, NoteNamed, Sessions

\* The pull half of a session keeps the types.
LEMMA PullType ==
  ASSUME TypeInv, NEW l \in Links, StartSession(l) \/ Pull(l)
  PROVE  TypeInv'
<1> DEFINE s == sess[l]
<1> USE LinkEnds, SessionFields
<1>1. CASE StartSession(l)
  <2>1. [s EXCEPT !.pc = "pullLocal", !.rcat = Catalog(l[2])] \in Sessions
    BY CatalogType DEF Sessions, Phases, TypeInv
  <2>2. sess' = [sess EXCEPT ![l] = [s EXCEPT !.pc = "pullLocal", !.rcat = Catalog(l[2])]]
    BY <1>1 DEF StartSession
  <2>3. QED
    BY <1>1, <2>1, <2>2, SessionStep DEF StartSession, TypeInv, TypeOK, Working, Sessions
<1>2. CASE PullCatalog(l)
  <2> DEFINE t == [s EXCEPT !.pc = "pull", !.lcat = Catalog(l[1]), !.todo = Known(s.rcat)]
  <2>1. t \in Sessions /\ t.pc \notin Working
    BY CatalogType DEF Sessions, Phases, TypeInv, Working, Known
  <2>2. sess' = [sess EXCEPT ![l] = t]
    BY <1>2 DEF PullCatalog
  <2>3. QED
    BY <1>2, <2>1, <2>2, SessionStep DEF PullCatalog, TypeInv, TypeOK
<1>3. ASSUME NEW n \in Notes, PullSkip(l, n)
      PROVE  TypeInv'
  <2> DEFINE t == [s EXCEPT !.todo = @ \ {n}]
  <2>1. t \in Sessions /\ t.pc \notin Working
    BY <1>3 DEF PullSkip, Sessions, Working
  <2>2. sess' = [sess EXCEPT ![l] = t]
    BY <1>3 DEF PullSkip
  <2>3. (store[l[1]][n].atts \ blob[l[1]][n]) \cap Servable(l[2], n) \in SUBSET Att
    BY ServableType DEF TypeInv
  <2>4. blob' \in [Dev -> [Notes -> SUBSET Att]] /\ faults' \in 0..MaxFaults
    BY <1>3, <2>3, ArriveType DEF PullSkip, TypeInv
  <2>5. QED
    BY <1>3, <2>1, <2>2, <2>4, SessionStep DEF PullSkip, TypeInv, TypeOK
<1>4. ASSUME NEW n \in Notes, PullFetch(l, n)
      PROVE  TypeInv'
  <2> DEFINE t == [s EXCEPT !.pc = "pullRead", !.todo = @ \ {n}, !.note = n,
                            !.snap = store[l[2]][n]]
  <2>1. store[l[2]][n] \in Copies
    BY DEF TypeInv, TypeOK
  <2>2. t \in Sessions /\ t.note \in Notes
    BY <2>1 DEF Sessions, Phases
  <2>3. sess' = [sess EXCEPT ![l] = t]
    BY <1>4 DEF PullFetch
  <2>4. QED
    BY <1>4, <2>2, <2>3, SessionStep DEF PullFetch, TypeInv, TypeOK
<1>5. CASE PullRead(l)
  <2> DEFINE t == [s EXCEPT !.pc = "pullCommit", !.basis = store[l[1]][s.note]]
  <2>1. s.note \in Notes
    BY <1>5 DEF PullRead, Working
  <2>2. store[l[1]][s.note] \in Copies
    BY <2>1 DEF TypeInv, TypeOK
  <2>3. t \in Sessions /\ t.note \in Notes
    BY <2>1, <2>2 DEF Sessions, Phases
  <2>4. sess' = [sess EXCEPT ![l] = t]
    BY <1>5 DEF PullRead
  <2>5. QED
    BY <1>5, <2>3, <2>4, SessionStep DEF PullRead, TypeInv, TypeOK
<1>6. CASE PullCommit(l)
  <2> DEFINE t == [s EXCEPT !.pc = "pullAtt", !.basis = Absent]
  <2>1. t \in Sessions /\ t.note \in Notes /\ s.note \in Notes
    BY <1>6, AbsentIsCopy DEF PullCommit, Sessions, Phases, Working
  <2>2. sess' = [sess EXCEPT ![l] = t]
    BY <1>6 DEF PullCommit
  <2>3. QED
    BY <1>6, <2>1, <2>2, SessionStep, ApplyType DEF PullCommit, TypeInv, TypeOK
<1>7. CASE PullAttachments(l)
  <2> DEFINE t == [s EXCEPT !.pc = "pull", !.note = NoNote, !.snap = Absent]
  <2>1. t \in Sessions /\ t.pc \notin Working /\ s.note \in Notes
    BY <1>7, AbsentIsCopy DEF PullAttachments, Sessions, Phases, Working
  <2>2. sess' = [sess EXCEPT ![l] = t]
    BY <1>7 DEF PullAttachments
  <2>3. (s.snap.atts \ blob[l[1]][s.note]) \cap Servable(l[2], s.note) \in SUBSET Att
    BY <2>1, ServableType DEF TypeInv
  <2>4. blob' \in [Dev -> [Notes -> SUBSET Att]] /\ faults' \in 0..MaxFaults
    BY <1>7, <2>1, <2>3, ArriveType DEF PullAttachments, TypeInv
  <2>5. QED
    BY <1>7, <2>1, <2>2, <2>4, SessionStep DEF PullAttachments, TypeInv, TypeOK
<1>8. QED
  BY <1>1, <1>2, <1>3, <1>4, <1>5, <1>6, <1>7 DEF Pull

\* The push half of a session keeps the types.
LEMMA PushType ==
  ASSUME TypeInv, NEW l \in Links, Push(l)
  PROVE  TypeInv'
<1> DEFINE s == sess[l]
<1> USE LinkEnds, SessionFields
<1>1. CASE PushStart(l)
  <2> DEFINE t == [s EXCEPT !.pc = "pushLocal", !.rcat = Catalog(l[2]), !.lcat = NoHeads]
  <2>1. t \in Sessions /\ t.pc \notin Working
    BY CatalogType, AbsentIsCopy DEF Sessions, Phases, TypeInv, Working
  <2>2. sess' = [sess EXCEPT ![l] = t]
    BY <1>1 DEF PushStart
  <2>3. QED
    BY <1>1, <2>1, <2>2, SessionStep DEF PushStart, TypeInv, TypeOK
<1>2. CASE PushCatalog(l)
  <2> DEFINE t == [s EXCEPT !.pc = "push", !.lcat = Catalog(l[1]),
                            !.todo = Known(Catalog(l[1]))]
  <2>1. t \in Sessions /\ t.pc \notin Working
    BY CatalogType DEF Sessions, Phases, TypeInv, Working
  <2>2. sess' = [sess EXCEPT ![l] = t]
    BY <1>2 DEF PushCatalog
  <2>3. QED
    BY <1>2, <2>1, <2>2, SessionStep DEF PushCatalog, TypeInv, TypeOK
<1>3. ASSUME NEW n \in Notes, PushSkip(l, n)
      PROVE  TypeInv'
  <2> DEFINE t == [s EXCEPT !.todo = @ \ {n}]
  <2>1. t \in Sessions /\ t.pc \notin Working
    BY <1>3 DEF PushSkip, Sessions, Working
  <2>2. sess' = [sess EXCEPT ![l] = t]
    BY <1>3 DEF PushSkip
  <2>3. QED
    BY <1>3, <2>1, <2>2, SessionStep DEF PushSkip, TypeInv, TypeOK
<1>4. ASSUME NEW n \in Notes, PushExport(l, n)
      PROVE  TypeInv'
  <2> DEFINE t == [s EXCEPT !.pc = "pushRead", !.todo = @ \ {n}, !.note = n,
                            !.snap = store[l[1]][n]]
  <2>1. store[l[1]][n] \in Copies
    BY DEF TypeInv, TypeOK
  <2>2. t \in Sessions /\ t.note \in Notes
    BY <2>1 DEF Sessions, Phases
  <2>3. sess' = [sess EXCEPT ![l] = t]
    BY <1>4 DEF PushExport
  <2>4. QED
    BY <1>4, <2>2, <2>3, SessionStep DEF PushExport, TypeInv, TypeOK
<1>5. CASE PushRead(l)
  <2> DEFINE t == [s EXCEPT !.pc = "pushCommit", !.basis = store[l[2]][s.note]]
  <2>1. s.note \in Notes
    BY <1>5 DEF PushRead, Working
  <2>2. store[l[2]][s.note] \in Copies
    BY <2>1 DEF TypeInv, TypeOK
  <2>3. t \in Sessions /\ t.note \in Notes
    BY <2>1, <2>2 DEF Sessions, Phases
  <2>4. sess' = [sess EXCEPT ![l] = t]
    BY <1>5 DEF PushRead
  <2>5. QED
    BY <1>5, <2>3, <2>4, SessionStep DEF PushRead, TypeInv, TypeOK
<1>6. CASE PushCommit(l)
  <2> DEFINE t == [s EXCEPT !.pc = "pushAtt", !.basis = Absent]
  <2>1. t \in Sessions /\ t.note \in Notes /\ s.note \in Notes
    BY <1>6, AbsentIsCopy DEF PushCommit, Sessions, Phases, Working
  <2>2. sess' = [sess EXCEPT ![l] = t]
    BY <1>6 DEF PushCommit
  <2>3. QED
    BY <1>6, <2>1, <2>2, SessionStep, ApplyType DEF PushCommit, TypeInv, TypeOK
<1>7. CASE PushAttachments(l)
  <2> DEFINE t == [s EXCEPT !.pc = "verify", !.snap = Absent]
  <2>1. t \in Sessions /\ t.note \in Notes /\ s.note \in Notes
    BY <1>7, AbsentIsCopy DEF PushAttachments, Sessions, Phases, Working
  <2>2. sess' = [sess EXCEPT ![l] = t]
    BY <1>7 DEF PushAttachments
  <2>3. s.snap.atts \cap blob[l[1]][s.note] \cap store[l[2]][s.note].atts \in SUBSET Att
    BY <2>1, CopyFields
  <2>4. blob' \in [Dev -> [Notes -> SUBSET Att]] /\ faults' \in 0..MaxFaults
    BY <1>7, <2>1, <2>3, ArriveType DEF PushAttachments, TypeInv
  <2>5. QED
    BY <1>7, <2>1, <2>2, <2>4, SessionStep DEF PushAttachments, TypeInv, TypeOK
<1>8. CASE PushVerify(l)
  <2> DEFINE ok == FullySynced(l[1], l[2], s.note)
             t == [s EXCEPT !.pc = IF ok THEN "ackCheck" ELSE "push",
                            !.note = IF ok THEN s.note ELSE NoNote,
                            !.failed = IF ok THEN @ ELSE @ \cup {s.note}]
  <2>1. s.note \in Notes
    BY <1>8 DEF PushVerify, Working
  <2>2. sess' = [sess EXCEPT ![l] = t]
    BY <1>8 DEF PushVerify
  <2>3. CASE ok
    <3>1. t \in Sessions /\ t.note \in Notes
      BY <2>1, <2>3 DEF Sessions, Phases
    <3>2. QED
      BY <1>8, <2>2, <3>1, SessionStep DEF PushVerify, TypeInv, TypeOK
  <2>4. CASE ~ok
    <3>1. t \in Sessions /\ t.pc \notin Working
      BY <2>1, <2>4 DEF Sessions, Phases, Working
    <3>2. QED
      BY <1>8, <2>2, <3>1, SessionStep DEF PushVerify, TypeInv, TypeOK
  <2>5. QED
    BY <2>3, <2>4
<1>9. QED
  BY <1>1, <1>2, <1>3, <1>4, <1>5, <1>6, <1>7, <1>8 DEF Push

\* The acknowledgement pass keeps the types.
LEMMA AcknowledgeType ==
  ASSUME TypeInv, NEW l \in Links, Acknowledge(l)
  PROVE  TypeInv'
<1> DEFINE s == sess[l]
<1> USE LinkEnds, SessionFields
<1>1. CASE AckCheck(l)
  <2> DEFINE ok == FullySynced(l[1], l[2], s.note)
             t == [s EXCEPT !.pc = IF ok THEN "ackRemove" ELSE "push",
                            !.note = IF ok THEN s.note ELSE NoNote]
  <2>1. s.note \in Notes
    BY <1>1 DEF AckCheck, Working
  <2>2. sess' = [sess EXCEPT ![l] = t]
    BY <1>1 DEF AckCheck
  <2>3. t \in Sessions /\ (t.pc \in Working => t.note \in Notes)
    BY <2>1 DEF Sessions, Phases, Working
  <2>4. QED
    BY <1>1, <2>2, <2>3, SessionStep DEF AckCheck, TypeInv, TypeOK
<1>2. CASE AckRemove(l)
  <2> DEFINE t == [s EXCEPT !.pc = "push", !.note = NoNote]
  <2>1. t \in Sessions /\ t.pc \notin Working
    BY DEF Sessions, Phases, Working
  <2>2. sess' = [sess EXCEPT ![l] = t]
    BY <1>2 DEF AckRemove
  <2>3. outbox' \in [Dev -> SUBSET Entries]
    BY <1>2 DEF AckRemove, TypeInv, TypeOK
  <2>4. QED
    BY <1>2, <2>1, <2>2, <2>3, SessionStep DEF AckRemove, TypeInv, TypeOK
<1>3. CASE AckStart(l)
  <2> DEFINE t == [s EXCEPT !.pc = "ack", !.pend = outbox[l[1]], !.rcat = NoHeads,
                            !.lcat = NoHeads]
  <2>1. t \in Sessions /\ t.pc \notin Working
    BY AbsentIsCopy DEF Sessions, Phases, Working, TypeInv, TypeOK
  <2>2. sess' = [sess EXCEPT ![l] = t]
    BY <1>3 DEF AckStart
  <2>3. QED
    BY <1>3, <2>1, <2>2, SessionStep DEF AckStart, TypeInv, TypeOK
<1>4. ASSUME NEW e \in s.pend, AckEntry(l, e)
      PROVE  TypeInv'
  <2> DEFINE t == [s EXCEPT !.pend = @ \ {e}]
  <2>1. t \in Sessions /\ t.pc \notin Working
    BY <1>4 DEF AckEntry, Sessions, Working
  <2>2. sess' = [sess EXCEPT ![l] = t]
    BY <1>4 DEF AckEntry
  <2>3. outbox' \in [Dev -> SUBSET Entries]
    BY <1>4 DEF AckEntry, TypeInv, TypeOK
  <2>4. QED
    BY <1>4, <2>1, <2>2, <2>3, SessionStep DEF AckEntry, TypeInv, TypeOK
<1>5. CASE Report(l)
  <2> DEFINE t == [s EXCEPT !.pc = "done"]
  <2>1. t \in Sessions /\ t.pc \notin Working
    BY DEF Sessions, Phases, Working
  <2>2. sess' = [sess EXCEPT ![l] = t]
    BY <1>5 DEF Report
  <2>3. QED
    BY <1>5, <2>1, <2>2, SessionStep DEF Report, TypeInv, TypeOK
<1>6. CASE Close(l)
  <2>1. IdleSession \in Sessions /\ IdleSession.pc \notin Working
    BY IdleIsSession DEF IdleSession, Working
  <2>2. QED
    BY <1>6, <2>1, SessionStep DEF Close, TypeInv, TypeOK
<1>7. QED
  BY <1>1, <1>2, <1>3, <1>4, <1>5, <1>6 DEF Acknowledge

\* A failing call keeps the types.
LEMMA FaultType ==
  ASSUME TypeInv, NEW l \in Links, PushFault(l) \/ Abort(l)
  PROVE  TypeInv'
<1> DEFINE s == sess[l]
<1> USE SessionFields
<1>1. faults' \in 0..MaxFaults
  BY BoundAssumption DEF PushFault, Abort, TypeInv, TypeOK
<1>2. CASE PushFault(l)
  <2> DEFINE t == [s EXCEPT !.pc = "push", !.note = NoNote, !.snap = Absent,
                            !.failed = @ \cup {s.note}]
  <2>1. s.note \in Notes
    BY <1>2 DEF PushFault, Working
  <2>2. t \in Sessions /\ t.pc \notin Working
    BY <2>1, AbsentIsCopy DEF Sessions, Phases, Working
  <2>3. sess' = [sess EXCEPT ![l] = t]
    BY <1>2 DEF PushFault
  <2>4. QED
    BY <1>1, <1>2, <2>2, <2>3, SessionStep DEF PushFault, TypeInv, TypeOK
<1>3. CASE Abort(l)
  <2>1. IdleSession \in Sessions /\ IdleSession.pc \notin Working
    BY IdleIsSession DEF IdleSession, Working
  <2>2. QED
    BY <1>1, <1>3, <2>1, SessionStep DEF Abort, TypeInv, TypeOK
<1>4. QED
  BY <1>2, <1>3

\* The type invariant is inductive.
LEMMA StepType == TypeInv /\ [Next]_vars => TypeInv'
<1>1. SUFFICES ASSUME TypeInv, [Next]_vars
               PROVE  TypeInv'
  OBVIOUS
<1>2. ASSUME NEW d \in Dev, User(d)
      PROVE  TypeInv'
  BY <1>1, <1>2, UserType
<1>3. ASSUME NEW l \in Links,
             \/ StartSession(l) \/ Pull(l) \/ Push(l) \/ Acknowledge(l)
             \/ PushFault(l) \/ Abort(l)
      PROVE  TypeInv'
  BY <1>1, <1>3, PullType, PushType, AcknowledgeType, FaultType
<1>4. CASE UNCHANGED vars
  BY <1>1, <1>4 DEF vars, TypeInv, TypeOK, NoteNamed
<1>5. QED
  BY <1>1, <1>2, <1>3, <1>4 DEF Next

\* In every reachable state every variable has its type; a session at work and an
\* operation under way name a note.
THEOREM TypeCorrect == Spec => [](TypeOK /\ NoteNamed)
<1>1. QED
  BY InitType, StepType, PTL DEF Spec, TypeInv

-----------------------------------------------------------------------------
(* The theorem behind the catalog-first delta sync: when no two writes are  *)
(* stamped with the same instant, equal updated_at means equal copies, on   *)
(* all devices and whatever races.  The property is not inductive: a copy   *)
(* also travels in the snapshot of a session and waits as the value a merge *)
(* or an operation has read.  The invariant ranges over all of them.        *)

\* The copies of n anywhere: in the folders, read by an operation, in a session.
HeldCopies(n) ==
  {store[d][n] : d \in Dev}
    \cup {usr[d].basis : d \in {e \in Dev : usr[e].note = n}}
    \cup {sess[l].snap : l \in {k \in Links : sess[k].note = n}}
    \cup {sess[l].basis : l \in {k \in Links : sess[k].note = n}}

HeldStamped == \A n \in Notes : \A c \in HeldCopies(n) : c = Absent \/ c.ts \in stamps
StampsDetermineCopies ==
  \A n \in Notes : \A c1, c2 \in HeldCopies(n) : c1.ts = c2.ts => c1 = c2
StampInv == TypeInv /\ HeldStamped /\ StampsDetermineCopies

\* Only the absent copy is stamped 0: a held copy is absent or stamped by a write.
LEMMA ZeroIsAbsent ==
  ASSUME StampInv, NEW n \in Notes, NEW c \in HeldCopies(n), c.ts = 0
  PROVE  c = Absent
BY DEF StampInv, HeldStamped, TypeInv, TypeOK

\* A step after which every copy was there before preserves the invariant ...
LEMMA CopiesMoved ==
  ASSUME StampInv, TypeInv', UNCHANGED stamps,
         \A n \in Notes : HeldCopies(n)' \subseteq HeldCopies(n) \cup {Absent}
  PROVE  StampInv'
<1>1. HeldStamped'
  BY DEF StampInv, HeldStamped
<1>2. ASSUME NEW n \in Notes, NEW c1 \in HeldCopies(n)', NEW c2 \in HeldCopies(n)',
             c1.ts = c2.ts
      PROVE  c1 = c2
  <2>1. c1 \in HeldCopies(n) \cup {Absent} /\ c2 \in HeldCopies(n) \cup {Absent}
    OBVIOUS
  <2>2. Absent.ts = 0
    BY DEF Absent
  <2>3. QED
    BY <1>2, <2>1, <2>2, ZeroIsAbsent DEF StampInv, StampsDetermineCopies
<1>3. QED
  BY <1>1, <1>2 DEF StampInv, StampsDetermineCopies

\* ... and so does one that adds a copy with a stamp nobody has used.
LEMMA CopyWritten ==
  ASSUME StampInv, TypeInv', NEW f, f.ts \in 1..MaxTime, f.ts \notin stamps,
         stamps' = stamps \cup {f.ts},
         \A n \in Notes : HeldCopies(n)' \subseteq HeldCopies(n) \cup {Absent, f}
  PROVE  StampInv'
<1>1. HeldStamped'
  BY DEF StampInv, HeldStamped
<1>2. ASSUME NEW n \in Notes, NEW c1 \in HeldCopies(n)', NEW c2 \in HeldCopies(n)',
             c1.ts = c2.ts
      PROVE  c1 = c2
  <2>1. c1 \in HeldCopies(n) \cup {Absent, f} /\ c2 \in HeldCopies(n) \cup {Absent, f}
    OBVIOUS
  <2>2. Absent.ts = 0 /\ f.ts # 0
    BY BoundAssumption DEF Absent
  <2>3. \A c \in HeldCopies(n) : c.ts # f.ts
    BY <2>2 DEF StampInv, HeldStamped
  <2>4. QED
    BY <1>2, <2>1, <2>2, <2>3, ZeroIsAbsent DEF StampInv, StampsDetermineCopies
<1>3. QED
  BY <1>1, <1>2 DEF StampInv, StampsDetermineCopies
-----------------------------------------------------------------------------
\* In the beginning every held copy is the absent one.
LEMMA InitStamp == Init => StampInv
<1>1. SUFFICES ASSUME Init PROVE HeldStamped /\ StampsDetermineCopies
  BY InitType DEF StampInv
<1>2. ASSUME NEW n \in Notes
      PROVE  HeldCopies(n) \subseteq {Absent}
  <2>1. \A d \in Dev : store[d][n] = Absent
    BY <1>1 DEF Init
  <2>2. \A d \in Dev : usr[d].note # n
    BY <1>1, NoteAssumption DEF Init, NoOp
  <2>3. \A l \in Links : sess[l].note # n
    BY <1>1, NoteAssumption DEF Init, IdleSession
  <2>4. QED
    BY <2>1, <2>2, <2>3 DEF HeldCopies
<1>3. QED
  BY <1>2 DEF HeldStamped, StampsDetermineCopies

\* Unless clocks are coarse, a local write gets an updated_at never used before.
LEMMA FreshStamp ==
  ASSUME Clocks # "coarse", NEW last, NEW t \in NextStamps(last)
  PROVE  t \in 1..MaxTime /\ t \in Nat /\ t \notin stamps
BY StampType, ModeAssumption DEF NextStamps

\* A user's write moves no copy but the one it writes, and stamps that afresh.
LEMMA WriteStamp ==
  ASSUME StampInv, TypeInv', NEW d \in Dev, NEW n \in Notes, NEW f \in Copies,
         f.ts \in 1..MaxTime, f.ts \notin stamps,
         store' = [store EXCEPT ![d][n] = f], stamps' = stamps \cup {f.ts},
         usr' = usr \/ usr' = [usr EXCEPT ![d] = NoOp], sess' = sess
  PROVE  StampInv'
<1>2. ASSUME NEW m \in Notes
      PROVE  HeldCopies(m)' \subseteq HeldCopies(m) \cup {Absent, f}
  <2>1. \A e \in Dev : store'[e][m] \in {store[e][m], f}
    BY DEF StampInv, TypeInv, TypeOK
  <2>2. \A e \in Dev : usr'[e].note = m => usr'[e] = usr[e]
    BY NoteAssumption DEF NoOp, StampInv, TypeInv, TypeOK
  <2>3. QED
    BY <2>1, <2>2 DEF HeldCopies
<1>3. QED
  BY <1>2, CopyWritten

\* No operation of a user makes two different copies with one stamp.
LEMMA UserStamp ==
  ASSUME StampInv, TypeInv', NEW d \in Dev, User(d), Clocks # "coarse"
  PROVE  StampInv'
<1> DEFINE n == usr[d].note  c == usr[d].basis
<1>0. TypeInv
  BY DEF StampInv
<1>1. CASE \E m \in Notes : CreateNote(d, m)
  <2>1. PICK m \in Notes, t \in NextStamps(0), b \in Bodies :
          Persist(d, m, Note(t, b, {}, FALSE)) /\ UNCHANGED <<usr, sess>>
    BY <1>1 DEF CreateNote
  <2>2. Note(t, b, {}, FALSE) \in Copies /\ Note(t, b, {}, FALSE).ts = t
    BY FreshStamp, WrittenCopies
  <2>3. QED
    BY <2>1, <2>2, FreshStamp, WriteStamp DEF Persist
<1>2. CASE \E m \in Notes, op \in Ops : BeginOp(d, m, op)
  <2>1. PICK m \in Notes, op \in Ops : BeginOp(d, m, op)
    BY <1>2
  <2>2. \A e \in Dev : usr'[e].basis \in {usr[e].basis, store[d][m]}
                       /\ (e # d => usr'[e] = usr[e])
                       /\ usr'[d].note = m /\ usr'[d].basis = store[d][m]
    BY <1>0, <2>1 DEF BeginOp, TypeInv, TypeOK
  <2>3. \A k \in Notes : HeldCopies(k)' \subseteq HeldCopies(k) \cup {Absent}
    BY <2>1, <2>2 DEF BeginOp, HeldCopies
  <2>4. QED
    BY <2>1, <2>3, CopiesMoved DEF BeginOp
<1>3. CASE CommitEdit(d)
  <2>1. PICK t \in NextStamps(c.ts), b \in Bodies :
          Persist(d, n, Note(t, b, c.atts, c.deleted))
    BY <1>3 DEF CommitEdit
  <2>2. usr[d].op # "none"
    BY <1>3 DEF CommitEdit
  <2>3. Note(t, b, c.atts, c.deleted) \in Copies /\ Note(t, b, c.atts, c.deleted).ts = t
    BY <2>2, <1>0, CommitBasis, FreshStamp, WrittenCopies
  <2>4. n \in Notes
    BY <1>0, <2>2, CommitBasis
  <2>5. /\ store' = [store EXCEPT ![d][n] = Note(t, b, c.atts, c.deleted)]
        /\ stamps' = stamps \cup {t}
    BY <2>1, <2>3 DEF Persist
  <2>6. usr' = [usr EXCEPT ![d] = NoOp] /\ sess' = sess
    BY <1>3 DEF CommitEdit
  <2>7. t \in 1..MaxTime /\ t \notin stamps
    BY FreshStamp
  <2>8. QED
    BY <2>3, <2>4, <2>5, <2>6, <2>7, WriteStamp
<1>4. CASE CommitAttach(d)
  <2>1. PICK t \in NextStamps(c.ts), a \in Att \ c.atts :
          Persist(d, n, Note(t, c.body, c.atts \cup {a}, c.deleted))
    BY <1>4 DEF CommitAttach
  <2>2. usr[d].op # "none"
    BY <1>4 DEF CommitAttach
  <2>3. c.atts \cup {a} \in SUBSET Att
    BY <1>0, <2>2, CommitBasis
  <2>4. /\ Note(t, c.body, c.atts \cup {a}, c.deleted) \in Copies
        /\ Note(t, c.body, c.atts \cup {a}, c.deleted).ts = t
    BY <2>2, <2>3, <1>0, CommitBasis, FreshStamp, WrittenCopies
  <2>5. n \in Notes
    BY <1>0, <2>2, CommitBasis
  <2>6. /\ store' = [store EXCEPT ![d][n] = Note(t, c.body, c.atts \cup {a}, c.deleted)]
        /\ stamps' = stamps \cup {t}
    BY <2>1, <2>4 DEF Persist
  <2>7. usr' = [usr EXCEPT ![d] = NoOp] /\ sess' = sess
    BY <1>4 DEF CommitAttach
  <2>8. t \in 1..MaxTime /\ t \notin stamps
    BY FreshStamp
  <2>9. QED
    BY <2>4, <2>5, <2>6, <2>7, <2>8, WriteStamp
<1>5. CASE CommitDelete(d)
  <2>1. PICK t \in NextStamps(c.ts) : Persist(d, n, Note(t, c.body, {}, TRUE))
    BY <1>5 DEF CommitDelete
  <2>2. usr[d].op # "none"
    BY <1>5 DEF CommitDelete
  <2>3. {} \in SUBSET Att /\ TRUE \in BOOLEAN
    OBVIOUS
  <2>4. Note(t, c.body, {}, TRUE) \in Copies /\ Note(t, c.body, {}, TRUE).ts = t
    BY <2>2, <2>3, <1>0, CommitBasis, FreshStamp, WrittenCopies
  <2>5. n \in Notes
    BY <1>0, <2>2, CommitBasis
  <2>6. /\ store' = [store EXCEPT ![d][n] = Note(t, c.body, {}, TRUE)]
        /\ stamps' = stamps \cup {t}
    BY <2>1, <2>4 DEF Persist
  <2>7. usr' = [usr EXCEPT ![d] = NoOp] /\ sess' = sess
    BY <1>5 DEF CommitDelete
  <2>8. t \in 1..MaxTime /\ t \notin stamps
    BY FreshStamp
  <2>9. QED
    BY <2>4, <2>5, <2>6, <2>7, <2>8, WriteStamp
<1>6. CASE CommitRestore(d)
  <2>1. PICK t \in NextStamps(c.ts) : Persist(d, n, Note(t, c.body, c.atts, FALSE))
    BY <1>6 DEF CommitRestore
  <2>2. usr[d].op # "none"
    BY <1>6 DEF CommitRestore
  <2>3. Note(t, c.body, c.atts, FALSE) \in Copies /\ Note(t, c.body, c.atts, FALSE).ts = t
    BY <2>2, <1>0, CommitBasis, FreshStamp, WrittenCopies
  <2>4. n \in Notes
    BY <1>0, <2>2, CommitBasis
  <2>5. /\ store' = [store EXCEPT ![d][n] = Note(t, c.body, c.atts, FALSE)]
        /\ stamps' = stamps \cup {t}
    BY <2>1, <2>3 DEF Persist
  <2>6. usr' = [usr EXCEPT ![d] = NoOp] /\ sess' = sess
    BY <1>6 DEF CommitRestore
  <2>7. t \in 1..MaxTime /\ t \notin stamps
    BY FreshStamp
  <2>8. QED
    BY <2>3, <2>4, <2>5, <2>6, <2>7, WriteStamp
<1>7. CASE CommitPurge(d)
  <2>1. PICK t \in NextStamps(c.ts) : /\ store' = [store EXCEPT ![d][n] = Tombstone(t)]
                                      /\ stamps' = stamps \cup {t}
    BY <1>7 DEF CommitPurge
  <2>2. usr[d].op # "none"
    BY <1>7 DEF CommitPurge
  <2>3. Tombstone(t) \in Copies /\ Tombstone(t).ts = t
    <3>1. t \in Nat
      BY FreshStamp
    <3>2. QED
      BY <3>1 DEF Tombstone, Copies, Tombstones
  <2>4. n \in Notes
    BY <1>0, <2>2, CommitBasis
  <2>5. usr' = [usr EXCEPT ![d] = NoOp] /\ sess' = sess
    BY <1>7 DEF CommitPurge
  <2>6. t \in 1..MaxTime /\ t \notin stamps
    BY FreshStamp
  <2>7. QED
    BY <2>1, <2>3, <2>4, <2>5, <2>6, WriteStamp
<1>8. QED
  BY <1>1, <1>2, <1>3, <1>4, <1>5, <1>6, <1>7 DEF User

\* A session moves copies of its note between folder, snapshot and merge; what is
\* written is one of the two copies that met (MergeTakesOneSide).
LEMMA SessionMoves ==
  ASSUME StampInv, NEW l \in Links, NEW t \in Sessions, NEW d \in Dev, NEW f,
         sess' = [sess EXCEPT ![l] = t], UNCHANGED usr,
         store' = store \/ (sess[l].note \in Notes
                            /\ store' = [store EXCEPT ![d][sess[l].note] = f]
                            /\ f \in HeldCopies(sess[l].note)),
         t.note \in Notes => /\ t.snap \in HeldCopies(t.note) \cup {Absent}
                             /\ t.basis \in HeldCopies(t.note) \cup {Absent}
  PROVE  \A n \in Notes : HeldCopies(n)' \subseteq HeldCopies(n) \cup {Absent}
<1> TAKE n \in Notes
<1> USE DEF StampInv, TypeInv, TypeOK
<1>1. \A e \in Dev : store'[e][n] \in HeldCopies(n)
  <2>1. \A e \in Dev : store[e][n] \in HeldCopies(n)
    BY DEF HeldCopies
  <2>2. \A e \in Dev : store'[e][n] = store[e][n] \/ (n = sess[l].note /\ store'[e][n] = f)
    OBVIOUS
  <2>3. QED
    BY <2>1, <2>2
<1>2. \A k \in Links : sess'[k] = IF k = l THEN t ELSE sess[k]
  OBVIOUS
<1>3. ASSUME NEW c \in HeldCopies(n)'
      PROVE  c \in HeldCopies(n) \cup {Absent}
  <2>1. CASE c \in {store'[e][n] : e \in Dev}
    BY <1>1, <2>1
  <2>2. CASE c \in {usr'[e].basis : e \in {e \in Dev : usr'[e].note = n}}
    BY <2>2 DEF HeldCopies
  <2>3. ASSUME NEW k \in Links, sess'[k].note = n, c = sess'[k].snap \/ c = sess'[k].basis
        PROVE  c \in HeldCopies(n) \cup {Absent}
    <3>1. CASE k = l
      BY <1>2, <2>3, <3>1
    <3>2. CASE k # l
      BY <1>2, <2>3, <3>2 DEF HeldCopies
    <3>3. QED
      BY <3>1, <3>2
  <2>4. QED
    BY <1>3, <2>1, <2>2, <2>3 DEF HeldCopies
<1>4. QED
  BY <1>3

\* The copies in the folders and in the sessions are held ones.
LEMMA HeldMembers ==
  ASSUME NEW n \in Notes
  PROVE  /\ \A d \in Dev : store[d][n] \in HeldCopies(n)
         /\ \A l \in Links : sess[l].note = n =>
              sess[l].snap \in HeldCopies(n) /\ sess[l].basis \in HeldCopies(n)
BY DEF HeldCopies

\* Most steps of a session leave the folders, its note and its copies alone, or
\* forget some of them.
LEMMA QuietCopies ==
  ASSUME StampInv, NEW l \in Links, NEW t \in Sessions,
         sess' = [sess EXCEPT ![l] = t], UNCHANGED <<store, usr, stamps>>,
         t.note = sess[l].note \/ t.note = NoNote,
         t.snap = sess[l].snap \/ t.snap = Absent,
         t.basis = sess[l].basis \/ t.basis = Absent
  PROVE  \A n \in Notes : HeldCopies(n)' \subseteq HeldCopies(n) \cup {Absent}
<1>1. t.note \in Notes => /\ t.snap \in HeldCopies(t.note) \cup {Absent}
                          /\ t.basis \in HeldCopies(t.note) \cup {Absent}
  BY HeldMembers, NoteAssumption
<1>2. PICK d \in Dev : TRUE
  BY LinkEnds
<1>3. QED
  BY <1>1, <1>2, SessionMoves

\* The session reads a copy of its note from a folder.
LEMMA ReadCopies ==
  ASSUME StampInv, NEW l \in Links, NEW d \in Dev, NEW n \in Notes,
         NEW t \in Sessions,
         sess' = [sess EXCEPT ![l] = t], UNCHANGED <<store, usr, stamps>>, t.note = n,
         \/ t.snap = store[d][n] /\ (t.basis = Absent \/ (sess[l].note = n /\ t.basis = sess[l].basis))
         \/ t.basis = store[d][n] /\ sess[l].note = n /\ t.snap = sess[l].snap
  PROVE  \A m \in Notes : HeldCopies(m)' \subseteq HeldCopies(m) \cup {Absent}
<1>1. t.snap \in HeldCopies(n) \cup {Absent} /\ t.basis \in HeldCopies(n) \cup {Absent}
  BY HeldMembers
<1>2. QED
  BY <1>1, SessionMoves

\* applyRemoteMerge writes one of the two copies it was given, so it brings no new one.
LEMMA ApplyCopies ==
  ASSUME StampInv, NEW l \in Links, NEW d \in Dev, NEW t \in Sessions,
         sess[l].note \in Notes,
         ApplyAt(d, sess[l].note, sess[l].basis, sess[l].snap),
         sess' = [sess EXCEPT ![l] = t], UNCHANGED <<usr, stamps>>,
         t.note = sess[l].note, t.snap = sess[l].snap, t.basis = Absent
  PROVE  \A m \in Notes : HeldCopies(m)' \subseteq HeldCopies(m) \cup {Absent}
<1> DEFINE n == sess[l].note  local == sess[l].basis  remote == sess[l].snap
           f == IF MergeResult(local, remote) = "applied"
                THEN MergedCopy(local, remote) ELSE store[d][n]
<1>1. local \in Copies /\ remote \in Copies
  BY SessionFields DEF StampInv
<1>2. f \in HeldCopies(n)
  BY <1>1, HeldMembers, MergeTakesOneSide
<1>3. store' = [store EXCEPT ![d][n] = f]
  BY DEF ApplyAt
<1>4. t.snap \in HeldCopies(n) \cup {Absent} /\ t.basis \in HeldCopies(n) \cup {Absent}
  BY HeldMembers
<1> HIDE DEF f
<1>5. QED
  BY <1>2, <1>3, <1>4, SessionMoves

\* A session holds a copy it has read for a merge only while that merge is under way.
BasisRead == \A l \in Links : sess[l].pc \notin {"pullCommit", "pushCommit"}
                                => sess[l].basis = Absent

\* A session's step changes no other session.
LEMMA OneSessionMoves ==
  ASSUME TypeInv, NEW l \in Links,
         \/ StartSession(l) \/ Pull(l) \/ Push(l) \/ Acknowledge(l)
         \/ PushFault(l) \/ Abort(l)
  PROVE  sess' = [sess EXCEPT ![l] = sess'[l]]
<1> USE DEF TypeInv, TypeOK
<1>1. CASE StartSession(l)
  BY <1>1 DEF StartSession
<1>2. CASE Pull(l)
  BY <1>2 DEF Pull, PullCatalog, PullSkip, PullFetch, PullRead, PullCommit, PullAttachments
<1>3. CASE Push(l)
  BY <1>3 DEF Push, PushStart, PushCatalog, PushSkip, PushExport, PushRead, PushCommit,
              PushAttachments, PushVerify
<1>4. CASE Acknowledge(l)
  BY <1>4 DEF Acknowledge, AckCheck, AckRemove, AckStart, AckEntry, Report, Close
<1>5. CASE PushFault(l) \/ Abort(l)
  BY <1>5 DEF PushFault, Abort
<1>6. QED
  BY <1>1, <1>2, <1>3, <1>4, <1>5

\* A session holds a read copy only between applyRemoteMerge's read and its write.
LEMMA BasisStep ==
  ASSUME TypeInv, BasisRead, [Next]_vars
  PROVE  BasisRead'
<1>1. ASSUME NEW d \in Dev, User(d)
      PROVE  BasisRead'
  <2>1. sess' = sess
    BY <1>1 DEF User, CreateNote, BeginOp, CommitEdit, CommitAttach, CommitDelete,
                CommitRestore, CommitPurge
  <2>2. QED
    BY <2>1 DEF BasisRead
<1>2. ASSUME NEW l \in Links,
             \/ StartSession(l) \/ Pull(l) \/ Push(l) \/ Acknowledge(l)
             \/ PushFault(l) \/ Abort(l)
      PROVE  BasisRead'
  <2> DEFINE s == sess[l]  t == sess'[l]
  <2>1. sess \in [Links -> Sessions] /\ sess' = [sess EXCEPT ![l] = t]
    BY <1>2, OneSessionMoves DEF TypeInv, TypeOK
  <2>2. s \in Sessions /\ (s.pc \notin {"pullCommit", "pushCommit"} => s.basis = Absent)
    BY <2>1 DEF BasisRead
  <2>3. SUFFICES t.pc \notin {"pullCommit", "pushCommit"} => t.basis = Absent
    BY <2>1 DEF BasisRead
  <2> USE <2>1, <2>2 DEF Sessions
  <2>4. CASE StartSession(l)
    BY <2>4 DEF StartSession
  <2>5. CASE Pull(l)
    <3>1. CASE PullCatalog(l)
      BY <3>1 DEF PullCatalog
    <3>2. CASE \E n \in Notes : PullSkip(l, n)
      BY <3>2 DEF PullSkip
    <3>3. CASE \E n \in Notes : PullFetch(l, n)
      BY <3>3 DEF PullFetch
    <3>4. CASE PullRead(l) \/ PullCommit(l)
      BY <3>4 DEF PullRead, PullCommit
    <3>5. CASE PullAttachments(l)
      BY <3>5 DEF PullAttachments
    <3>6. QED
      BY <2>5, <3>1, <3>2, <3>3, <3>4, <3>5 DEF Pull
  <2>6. CASE Push(l)
    <3>1. CASE PushStart(l) \/ PushCatalog(l) \/ (\E n \in Notes : PushSkip(l, n))
      BY <3>1 DEF PushStart, PushCatalog, PushSkip
    <3>2. CASE \E n \in Notes : PushExport(l, n)
      BY <3>2 DEF PushExport
    <3>3. CASE PushRead(l) \/ PushCommit(l)
      BY <3>3 DEF PushRead, PushCommit
    <3>4. CASE PushAttachments(l)
      BY <3>4 DEF PushAttachments
    <3>5. CASE PushVerify(l)
      BY <3>5 DEF PushVerify
    <3>6. QED
      BY <2>6, <3>1, <3>2, <3>3, <3>4, <3>5 DEF Push
  <2>7. CASE Acknowledge(l)
    <3>1. CASE AckCheck(l) \/ AckRemove(l) \/ AckStart(l)
      BY <3>1 DEF AckCheck, AckRemove, AckStart
    <3>2. CASE \E e \in s.pend : AckEntry(l, e)
      BY <3>2 DEF AckEntry
    <3>3. CASE Report(l) \/ Close(l)
      BY <3>3 DEF Report, Close, IdleSession
    <3>4. QED
      BY <2>7, <3>1, <3>2, <3>3 DEF Acknowledge
  <2>8. CASE PushFault(l) \/ Abort(l)
    BY <2>8 DEF PushFault, Abort, IdleSession
  <2>9. QED
    BY <1>2, <2>4, <2>5, <2>6, <2>7, <2>8
<1>3. CASE UNCHANGED vars
  BY <1>3 DEF vars, BasisRead
<1>4. QED
  BY <1>1, <1>2, <1>3 DEF Next

\* No step of a session brings a copy that was not there before.
LEMMA SessionCopies ==
  ASSUME StampInv, BasisRead, TypeInv', NEW l \in Links,
         \/ StartSession(l) \/ Pull(l) \/ Push(l) \/ Acknowledge(l)
         \/ PushFault(l) \/ Abort(l)
  PROVE  \A n \in Notes : HeldCopies(n)' \subseteq HeldCopies(n) \cup {Absent}
<1> DEFINE Moved == \A n \in Notes : HeldCopies(n)' \subseteq HeldCopies(n) \cup {Absent}
<1> DEFINE s == sess[l]  t == sess'[l]
<1>1. /\ TypeInv /\ s \in Sessions /\ t \in Sessions
      /\ s.pc \in Working => s.note \in Notes
  BY SessionFields DEF StampInv, TypeInv, TypeOK
<1>2. s.pc \notin {"pullCommit", "pushCommit"} => s.basis = Absent
  BY DEF BasisRead
<1>3. ASSUME NEW n \in Notes, PullFetch(l, n) \/ PushExport(l, n)
      PROVE  Moved
  <2>1. t.note = n /\ t.basis = Absent
    BY <1>1, <1>2, <1>3 DEF PullFetch, PushExport, Sessions, TypeInv, TypeOK
  <2>2. \E d \in Dev : t.snap = store[d][n]
    BY <1>1, <1>3, LinkEnds DEF PullFetch, PushExport, Sessions, TypeInv, TypeOK
  <2>3. sess' = [sess EXCEPT ![l] = t] /\ UNCHANGED <<store, usr, stamps>>
    BY <1>1, <1>3 DEF PullFetch, PushExport, TypeInv, TypeOK
  <2>4. QED
    BY <1>1, <2>1, <2>2, <2>3, ReadCopies
<1>4. CASE PullRead(l) \/ PushRead(l)
  <2>1. s.note \in Notes
    BY <1>1, <1>4 DEF PullRead, PushRead, Working
  <2>2. t.note = s.note /\ t.snap = s.snap
    BY <1>1, <1>4 DEF PullRead, PushRead, Sessions, TypeInv, TypeOK
  <2>3. \E d \in Dev : t.basis = store[d][s.note]
    BY <1>1, <1>4, LinkEnds DEF PullRead, PushRead, Sessions, TypeInv, TypeOK
  <2>4. sess' = [sess EXCEPT ![l] = t] /\ UNCHANGED <<store, usr, stamps>>
    BY <1>1, <1>4 DEF PullRead, PushRead, TypeInv, TypeOK
  <2>5. QED
    BY <1>1, <2>1, <2>2, <2>3, <2>4, ReadCopies
<1>5. CASE PullCommit(l) \/ PushCommit(l)
  <2>1. s.note \in Notes
    BY <1>1, <1>5 DEF PullCommit, PushCommit, Working
  <2>2. t.note = s.note /\ t.snap = s.snap /\ t.basis = Absent
    BY <1>1, <1>5 DEF PullCommit, PushCommit, Sessions, TypeInv, TypeOK
  <2>3. sess' = [sess EXCEPT ![l] = t] /\ UNCHANGED <<usr, stamps>>
    BY <1>1, <1>5 DEF PullCommit, PushCommit, TypeInv, TypeOK
  <2>4. \E d \in Dev : ApplyAt(d, s.note, s.basis, s.snap)
    BY <1>5, LinkEnds DEF PullCommit, PushCommit
  <2>5. QED
    BY <1>1, <2>1, <2>2, <2>3, <2>4, ApplyCopies
<1>6. ASSUME /\ sess' = [sess EXCEPT ![l] = t] /\ UNCHANGED <<store, usr, stamps>>
             /\ t.note = s.note \/ t.note = NoNote
             /\ t.snap = s.snap \/ t.snap = Absent
             /\ t.basis = s.basis \/ t.basis = Absent
      PROVE  Moved
  BY <1>1, <1>6, QuietCopies
<1> USE <1>1 DEF TypeInv, TypeOK, Sessions
<1>7. CASE StartSession(l) \/ PullCatalog(l) \/ (\E n \in Notes : PullSkip(l, n))
  <2>1. CASE StartSession(l)
    BY <1>6, <2>1 DEF StartSession
  <2>2. CASE PullCatalog(l)
    BY <1>6, <2>2 DEF PullCatalog
  <2>3. CASE \E n \in Notes : PullSkip(l, n)
    BY <1>6, <2>3 DEF PullSkip
  <2>4. QED
    BY <1>7, <2>1, <2>2, <2>3
<1>8. CASE PullAttachments(l) \/ PushStart(l) \/ PushCatalog(l)
  <2>1. CASE PullAttachments(l)
    BY <1>6, <2>1 DEF PullAttachments
  <2>2. CASE PushStart(l)
    BY <1>6, <2>2 DEF PushStart
  <2>3. CASE PushCatalog(l)
    BY <1>6, <2>3 DEF PushCatalog
  <2>4. QED
    BY <1>8, <2>1, <2>2, <2>3
<1>9. CASE PushAttachments(l) \/ PushVerify(l) \/ (\E n \in Notes : PushSkip(l, n))
  BY <1>6, <1>9 DEF PushAttachments, PushVerify, PushSkip
<1>10. CASE AckCheck(l) \/ AckRemove(l) \/ AckStart(l) \/ Report(l)
  BY <1>6, <1>10 DEF AckCheck, AckRemove, AckStart, Report
<1>11. CASE \E e \in s.pend : AckEntry(l, e)
  BY <1>6, <1>11 DEF AckEntry
<1>12. CASE Close(l) \/ PushFault(l) \/ Abort(l)
  BY <1>6, <1>12 DEF Close, PushFault, Abort, IdleSession
<1>13. QED
  BY <1>3, <1>4, <1>5, <1>7, <1>8, <1>9, <1>10, <1>11, <1>12 DEF Pull, Push, Acknowledge

\* So none makes two different copies with one stamp.
LEMMA SessionStamp ==
  ASSUME StampInv, BasisRead, TypeInv', NEW l \in Links,
         \/ StartSession(l) \/ Pull(l) \/ Push(l) \/ Acknowledge(l)
         \/ PushFault(l) \/ Abort(l)
  PROVE  StampInv'
<1>1. UNCHANGED stamps
  BY DEF StartSession, Pull, PullCatalog, PullSkip, PullFetch, PullRead, PullCommit,
         PullAttachments, Push, PushStart, PushCatalog, PushSkip, PushExport, PushRead,
         PushCommit, PushAttachments, PushVerify, Acknowledge, AckCheck, AckRemove,
         AckStart, AckEntry, Report, Close, PushFault, Abort
<1>2. QED
  BY <1>1, SessionCopies, CopiesMoved

\* The stamp invariant is inductive.
LEMMA StepStamp ==
  ASSUME Clocks # "coarse", StampInv, BasisRead, [Next]_vars
  PROVE  StampInv' /\ BasisRead'
<1>1. TypeInv' /\ BasisRead'
  BY StepType, BasisStep DEF StampInv
<1>2. ASSUME NEW d \in Dev, User(d)
      PROVE  StampInv'
  BY <1>1, <1>2, UserStamp
<1>3. ASSUME NEW l \in Links,
             \/ StartSession(l) \/ Pull(l) \/ Push(l) \/ Acknowledge(l)
             \/ PushFault(l) \/ Abort(l)
      PROVE  StampInv'
  BY <1>1, <1>3, SessionStamp
<1>4. CASE UNCHANGED vars
  BY <1>1, <1>4 DEF vars, StampInv, HeldStamped, StampsDetermineCopies, HeldCopies
<1>5. QED
  BY <1>1, <1>2, <1>3, <1>4 DEF Next

\* Unless two writes can be stamped with the same instant, devices whose catalogs
\* show the same updated_at for a note hold the same copy of it; so a delta sync
\* that compares heads only (noteHeadNeedsRemotePull, needsPush) misses nothing.
THEOREM HeadsDetermineContentAlways ==
  Clocks # "coarse" => (Spec => []HeadsDetermineContent)
<1>1. SUFFICES ASSUME Clocks # "coarse" PROVE Spec => []HeadsDetermineContent
  OBVIOUS
<1>2. Init => StampInv /\ BasisRead
  BY InitStamp DEF Init, BasisRead, IdleSession
<1>3. StampInv /\ BasisRead /\ [Next]_vars => StampInv' /\ BasisRead'
  BY <1>1, StepStamp
<1>4. StampInv => HeadsDetermineContent
  BY HeldMembers DEF StampInv, StampsDetermineCopies, HeadsDetermineContent
<1>5. QED
  BY <1>2, <1>3, <1>4, PTL DEF Spec

================================================================================
