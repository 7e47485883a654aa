------------------------- MODULE NoteSyncSessions_proofs -------------------------
(***************************************************************************)
(* Theorems about NoteSync that rest on what a session meets on its way.   *)
(*                                                                         *)
(* Spans: if the spans of a device do not overlap, no device ever goes     *)
(* back to an older version of a note.  The run lost_update shows that the *)
(* condition is needed, and the code does nothing to establish it.         *)
(*                                                                         *)
(* Alone: when sessions run one at a time and nobody edits meanwhile, a    *)
(* session that fails for no note leaves its two devices equal, and the    *)
(* outbox of the one that began it without an entry for the other.         *)
(*                                                                         *)
(* Acknowledgements: an outbox row is removed only when a peer has the     *)
(* note, though the check and the removal are two steps.                   *)
(***************************************************************************)
EXTENDS NoteSync_proofs

SpanPhases == {"pullCommit", "ackRemove", "pushCommit"}

\* Session l has a span of device d open.
SpanOn(l, d) == \/ l[1] = d /\ sess[l].pc \in {"pullCommit", "ackRemove"}
                \/ l[2] = d /\ sess[l].pc = "pushCommit"

\* The device a session's merge writes to.
Target(l) == IF sess[l].pc = "pullCommit" THEN l[1] ELSE l[2]

SpansExclude ==
  /\ \A d \in Dev, l \in Links : SpanOn(l, d) => usr[d].op = "none"
  /\ \A d \in Dev, l, k \in Links : SpanOn(l, d) /\ SpanOn(k, d) => l = k
BasisIsPresent ==
  /\ \A d \in Dev : usr[d].op # "none" => usr[d].basis = store[d][usr[d].note]
  /\ \A l \in Links : sess[l].pc \in {"pullCommit", "pushCommit"}
                        => sess[l].basis = store[Target(l)][sess[l].note]
SpanInv == SpansExclude /\ BasisIsPresent

\* Where spans may not overlap, one opens only on a device that has none.
LEMMA NoSpanMeans ==
  ASSUME NEW d \in Dev, Interleaving # "free", MayOpen(d)
  PROVE  usr[d].op = "none" /\ \A l \in Links : ~SpanOn(l, d)
BY DEF MayOpen, NoSpan, SpanOn

\* When clocks agree, a local write is later than the copy it replaces.
LEMMA NextIsLater ==
  ASSUME Clocks = "global", TypeOK, NEW c \in Copies, c = Absent \/ c.ts \in stamps,
         NEW t \in NextStamps(c.ts)
  PROVE  t > c.ts
<1>1. t \in 1..MaxTime /\ t \in Nat /\ stamps = 1..(t - 1)
  BY StampType DEF NextStamps
<1>2. Absent.ts = 0
  BY DEF Absent
<1>3. QED
  BY <1>1, <1>2

\* A user's write, which closes the operation or had none open.
LEMMA WriteSpan ==
  ASSUME TypeInv, TypeInv', SpanInv, NEW d \in Dev, NEW n \in Notes, NEW f,
         \A l \in Links : ~SpanOn(l, d),
         store' = [store EXCEPT ![d][n] = f],
         \/ usr[d].op = "none" /\ usr' = usr
         \/ usr' = [usr EXCEPT ![d] = NoOp],
         sess' = sess
  PROVE  SpanInv'
<1> USE DEF TypeInv, TypeOK
<1>1. \A e \in Dev : usr'[e] = IF e = d THEN usr'[d] ELSE usr[e]
  OBVIOUS
<1>2. usr'[d].op = "none"
  BY DEF NoOp
<1>3. \A e \in Dev : e # d => store'[e] = store[e]
  OBVIOUS
<1>4. SpansExclude'
  BY <1>1, <1>2 DEF SpanInv, SpansExclude, SpanOn
<1>5. \A l \in Links : sess[l].pc \in {"pullCommit", "pushCommit"}
                         => Target(l) # d /\ Target(l) \in Dev
  BY LinkEnds DEF Target, SpanOn
<1>6. BasisIsPresent'
  BY <1>1, <1>2, <1>3, <1>5 DEF SpanInv, BasisIsPresent, Target
<1>7. QED
  BY <1>4, <1>6 DEF SpanInv

\* A user's operation keeps the spans apart and moves a copy only forward.
LEMMA UserSpan ==
  ASSUME Clocks = "global", Interleaving # "free", StampInv, TypeInv', SpanInv,
         NEW d \in Dev, User(d)
  PROVE  /\ SpanInv'
         /\ \A e \in Dev, m \in Notes :
              store'[e][m] = store[e][m] \/ store'[e][m].ts > store[e][m].ts
<1> DEFINE n == usr[d].note  c == usr[d].basis
           Later == \A e \in Dev, m \in Notes :
                      store'[e][m] = store[e][m] \/ store'[e][m].ts > store[e][m].ts
<1>1. TypeInv /\ TypeOK
  BY DEF StampInv, TypeInv
<1>2. ASSUME usr[d].op # "none", NEW t \in NextStamps(c.ts), NEW f, f.ts = t,
             store' = [store EXCEPT ![d][n] = f],
             usr' = [usr EXCEPT ![d] = NoOp], sess' = sess
      PROVE  SpanInv' /\ Later
  <2>1. n \in Notes /\ c = store[d][n] /\ (\A l \in Links : ~SpanOn(l, d))
    BY <1>1, <1>2, CommitBasis DEF SpanInv, SpansExclude, BasisIsPresent
  <2>2. c \in Copies /\ (c = Absent \/ c.ts \in stamps)
    BY <1>1, <2>1, HeldMembers DEF StampInv, HeldStamped, TypeOK
  <2>3. t > c.ts
    BY <1>1, <1>2, <2>2, NextIsLater
  <2>4. SpanInv'
    BY <1>1, <1>2, <2>1, WriteSpan
  <2>5. Later
    BY <1>1, <1>2, <2>1, <2>3 DEF TypeOK
  <2>6. QED
    BY <2>4, <2>5
<1>3. CASE \E m \in Notes : CreateNote(d, m)
  <2>1. PICK m \in Notes, t \in NextStamps(0), b \in Bodies :
          /\ MayOpen(d) /\ store[d][m].kind = "absent"
          /\ store' = [store EXCEPT ![d][m] = Note(t, b, {}, FALSE)]
          /\ UNCHANGED <<usr, sess>>
    BY <1>3 DEF CreateNote, Persist
  <2>2. t \in Nat /\ t > 0 /\ Note(t, b, {}, FALSE).ts = t
    BY StampType DEF Note
  <2>3. store[d][m].ts = 0
    BY <1>1, <2>1, CopyFields DEF TypeOK
  <2>4. SpanInv'
    BY <1>1, <2>1, NoSpanMeans, WriteSpan
  <2>5. Later
    BY <1>1, <2>1, <2>2, <2>3 DEF TypeOK
  <2>6. QED
    BY <2>4, <2>5
<1>4. CASE \E m \in Notes, op \in Ops : BeginOp(d, m, op)
  <2>1. PICK m \in Notes, op \in Ops :
          /\ MayOpen(d)
          /\ usr' = [usr EXCEPT ![d] = [op |-> op, note |-> m, basis |-> store[d][m]]]
          /\ UNCHANGED <<store, sess>>
    BY <1>4 DEF BeginOp
  <2>2. \A e \in Dev : e # d => usr'[e] = usr[e]
    BY <1>1, <2>1 DEF TypeOK
  <2>3. usr'[d].basis = store[d][usr'[d].note]
    BY <1>1, <2>1 DEF TypeOK
  <2>4. \A l \in Links : ~SpanOn(l, d)
    BY <2>1, NoSpanMeans
  <2>5. SpansExclude'
    BY <2>1, <2>2, <2>4 DEF SpanInv, SpansExclude, SpanOn
  <2>6. BasisIsPresent'
    BY <2>1, <2>2, <2>3 DEF SpanInv, BasisIsPresent, Target
  <2>7. QED
    BY <2>1, <2>5, <2>6 DEF SpanInv
<1>5. CASE CommitEdit(d)
  <2>1. PICK t \in NextStamps(c.ts), b \in Bodies :
          store' = [store EXCEPT ![d][n] = Note(t, b, c.atts, c.deleted)]
    BY <1>5 DEF CommitEdit, Persist
  <2>2. Note(t, b, c.atts, c.deleted).ts = t
    BY DEF Note
  <2>3. QED
    BY <1>2, <1>5, <2>1, <2>2 DEF CommitEdit
<1>6. CASE CommitAttach(d)
  <2>1. PICK t \in NextStamps(c.ts), a \in Att :
          store' = [store EXCEPT ![d][n] = Note(t, c.body, c.atts \cup {a}, c.deleted)]
    BY <1>6 DEF CommitAttach, Persist
  <2>2. Note(t, c.body, c.atts \cup {a}, c.deleted).ts = t
    BY DEF Note
  <2>3. QED
    BY <1>2, <1>6, <2>1, <2>2 DEF CommitAttach
<1>7. CASE CommitDelete(d)
  <2>1. PICK t \in NextStamps(c.ts) :
          store' = [store EXCEPT ![d][n] = Note(t, c.body, {}, TRUE)]
    BY <1>7 DEF CommitDelete, Persist
  <2>2. Note(t, c.body, {}, TRUE).ts = t
    BY DEF Note
  <2>3. QED
    BY <1>2, <1>7, <2>1, <2>2 DEF CommitDelete
<1>8. CASE CommitRestore(d)
  <2>1. PICK t \in NextStamps(c.ts) :
          store' = [store EXCEPT ![d][n] = Note(t, c.body, c.atts, FALSE)]
    BY <1>8 DEF CommitRestore, Persist
  <2>2. Note(t, c.body, c.atts, FALSE).ts = t
    BY DEF Note
  <2>3. QED
    BY <1>2, <1>8, <2>1, <2>2 DEF CommitRestore
<1>9. CASE CommitPurge(d)
  <2>1. PICK t \in NextStamps(c.ts) : store' = [store EXCEPT ![d][n] = Tombstone(t)]
    BY <1>9 DEF CommitPurge
  <2>2. Tombstone(t).ts = t
    BY DEF Tombstone
  <2>3. QED
    BY <1>2, <1>9, <2>1, <2>2 DEF CommitPurge
<1>10. QED
  BY <1>3, <1>4, <1>5, <1>6, <1>7, <1>8, <1>9 DEF User

\* The session closes its span, or had none open, after writing at most to the
\* device whose span it had.
LEMMA CloseSpan ==
  ASSUME TypeInv, TypeInv', SpanInv, NEW l \in Links, NEW d \in Dev,
         sess' = [sess EXCEPT ![l] = sess'[l]], sess'[l].pc \notin SpanPhases,
         usr' = usr,
         store' = store \/ (SpanOn(l, d) /\ \A e \in Dev : e # d => store'[e] = store[e])
  PROVE  SpanInv'
<1> USE DEF TypeInv, TypeOK
<1>1. \A k \in Links : k # l => sess'[k] = sess[k]
  OBVIOUS
<1>2. \A e \in Dev : ~SpanOn(l, e)'
  BY DEF SpanOn, SpanPhases
<1>3. \A k \in Links, e \in Dev : SpanOn(k, e)' => k # l /\ SpanOn(k, e)
  BY <1>1, <1>2 DEF SpanOn
<1>4. SpansExclude'
  BY <1>3 DEF SpanInv, SpansExclude
<1>5. ASSUME NEW e \in Dev, usr[e].op # "none"
      PROVE  store'[e] = store[e]
  BY <1>5 DEF SpanInv, SpansExclude
<1>6. ASSUME NEW k \in Links, sess'[k].pc \in {"pullCommit", "pushCommit"}
      PROVE  sess'[k].basis = store'[Target(k)'][sess'[k].note]
  <2>1. k # l /\ sess'[k] = sess[k] /\ Target(k)' = Target(k)
    BY <1>1, <1>6 DEF SpanPhases, Target
  <2>2. Target(k) \in Dev /\ SpanOn(k, Target(k))
    BY <1>6, <2>1, LinkEnds DEF Target, SpanOn
  <2>3. store'[Target(k)] = store[Target(k)]
    BY <2>1, <2>2 DEF SpanInv, SpansExclude
  <2>4. QED
    BY <1>6, <2>1, <2>3 DEF SpanInv, BasisIsPresent
<1>7. BasisIsPresent'
  BY <1>5, <1>6 DEF SpanInv, BasisIsPresent
<1>8. QED
  BY <1>4, <1>7 DEF SpanInv

\* The session opens a span of a device that has none.
LEMMA OpenSpan ==
  ASSUME TypeInv, TypeInv', SpanInv, Interleaving # "free",
         NEW l \in Links, NEW d \in Dev, MayOpen(d),
         sess' = [sess EXCEPT ![l] = sess'[l]], usr' = usr, store' = store,
         \A e \in Dev : SpanOn(l, e)' => e = d,
         sess'[l].pc \in {"pullCommit", "pushCommit"} =>
           sess'[l].basis = store[Target(l)'][sess'[l].note]
  PROVE  SpanInv'
<1> USE DEF TypeInv, TypeOK
<1>1. \A k \in Links : k # l => sess'[k] = sess[k]
  OBVIOUS
<1>2. usr[d].op = "none" /\ \A k \in Links : ~SpanOn(k, d)
  BY NoSpanMeans
<1>3. \A k \in Links, e \in Dev : SpanOn(k, e)' => \/ k = l /\ e = d
                                                   \/ k # l /\ e # d /\ SpanOn(k, e)
  BY <1>1, <1>2 DEF SpanOn
<1>4. SpansExclude'
  BY <1>2, <1>3 DEF SpanInv, SpansExclude
<1>5. ASSUME NEW k \in Links, sess'[k].pc \in {"pullCommit", "pushCommit"}
      PROVE  sess'[k].basis = store'[Target(k)'][sess'[k].note]
  BY <1>1, <1>5 DEF SpanInv, BasisIsPresent, Target
<1>6. BasisIsPresent'
  BY <1>5 DEF SpanInv, BasisIsPresent
<1>7. QED
  BY <1>4, <1>6 DEF SpanInv

\* No device goes back to an older version of a note in this step.
Forward ==
  \A d \in Dev, n \in Notes :
    \/ store'[d][n] = store[d][n]
    \/ store'[d][n].ts > store[d][n].ts
    \/ store'[d][n].kind = "tombstone" /\ store[d][n].kind = "note"

\* So does a step of a session, tombstones excepted.
LEMMA SessionSpan ==
  ASSUME Interleaving # "free", StampInv, TypeInv', SpanInv, NEW l \in Links,
         \/ StartSession(l) \/ Pull(l) \/ Push(l) \/ Acknowledge(l)
         \/ PushFault(l) \/ Abort(l)
  PROVE  SpanInv' /\ Forward
<1> DEFINE s == sess[l]  t == sess'[l]
<1>1. /\ TypeInv /\ s \in Sessions /\ t \in Sessions
      /\ s.pc \in Working => s.note \in Notes
      /\ sess' = [sess EXCEPT ![l] = t] /\ l[1] \in Dev /\ l[2] \in Dev
  BY SessionFields, OneSessionMoves, LinkEnds DEF StampInv, TypeInv, TypeOK
<1>2. ASSUME NEW d \in Dev, s.note \in Notes, s.pc \in {"pullCommit", "pushCommit"},
             d = Target(l), ApplyAt(d, s.note, s.basis, s.snap),
             t.pc \notin SpanPhases, usr' = usr
      PROVE  SpanInv' /\ Forward
  <2> DEFINE n == s.note  f == MergedCopy(s.basis, s.snap)
  <2>1. s.basis = store[d][n] /\ SpanOn(l, d)
    BY <1>2 DEF SpanInv, BasisIsPresent, Target, SpanOn
  <2>2. s.basis \in Copies /\ s.snap \in Copies
    BY <1>1, SessionFields
  <2>3. store' = [store EXCEPT ![d][n] = IF MergeResult(s.basis, s.snap) = "applied"
                                         THEN f ELSE store[d][n]]
    BY <1>2 DEF ApplyAt
  <2>4. \A e \in Dev : e # d => store'[e] = store[e]
    BY <1>1, <2>3 DEF TypeInv, TypeOK
  <2>5. SpanInv'
    BY <1>1, <1>2, <2>1, <2>4, CloseSpan
  <2>6. s.snap.ts > 0 \/ s.snap = Absent
    <3>1. s.snap \in HeldCopies(n)
      BY <1>2, HeldMembers
    <3>2. s.snap = Absent \/ s.snap.ts \in stamps
      BY <1>2, <3>1 DEF StampInv, HeldStamped
    <3>3. stamps \in SUBSET (1..MaxTime)
      BY <1>1 DEF TypeInv, TypeOK
    <3>4. \A x \in stamps : x > 0
      BY <3>3, BoundAssumption
    <3>5. QED
      BY <3>2, <3>4
  <2>7. store'[d][n] = store[d][n] \/ store'[d][n] = f
    BY <1>1, <1>2, <2>3 DEF TypeInv, TypeOK
  <2>8. s.snap = Absent => f = s.basis
    <3>1. SUFFICES ASSUME s.snap = Absent PROVE f = s.basis
      OBVIOUS
    <3>2. s.snap.kind = "absent" /\ s.snap.ts = 0 /\ ~Live(s.snap)
      BY <3>1 DEF Absent, Live
    <3>3. CASE s.basis.kind = "absent"
      <4>1. s.basis = s.snap
        BY <2>2, <3>1, <3>3, CopyFields
      <4>2. QED
        BY <2>2, <4>1, MergeTakesOneSide
    <3>4. CASE s.basis.kind = "tombstone"
      BY <2>2, <3>2, <3>4, CopyFields DEF MergedCopy, MergeResult
    <3>5. CASE s.basis.kind = "note"
      BY <2>2, <3>2, <3>5, CopyFields
         DEF MergedCopy, MergeResult, Live, ResolveNoteConflict
    <3>6. QED
      BY <2>2, <3>3, <3>4, <3>5, CopyFields
  <2>9. \/ f = store[d][n] \/ f.ts > store[d][n].ts
        \/ f.kind = "tombstone" /\ store[d][n].kind = "note"
    BY <2>1, <2>2, <2>6, <2>8, MergeMovesForward
  <2> HIDE DEF f
  <2>10. \A e \in Dev, m \in Notes : store'[e][m] = store[e][m] \/ (e = d /\ m = n)
    BY <1>1, <2>3 DEF TypeInv, TypeOK
  <2>11. QED
    BY <2>5, <2>7, <2>9, <2>10 DEF Forward
<1>3. ASSUME t.pc \notin SpanPhases, usr' = usr, store' = store
      PROVE  SpanInv' /\ Forward
  BY <1>1, <1>3, CloseSpan DEF Forward
<1>4. CASE PullRead(l)
  <2>1. /\ t.pc = "pullCommit" /\ t.basis = store[l[1]][t.note]
        /\ MayOpen(l[1]) /\ usr' = usr /\ store' = store
    BY <1>1, <1>4 DEF PullRead, TypeInv, TypeOK, Sessions
  <2>2. SpanInv'
    BY <1>1, <2>1, OpenSpan DEF SpanOn, Target
  <2>3. QED
    BY <2>1, <2>2 DEF Forward
<1>5. CASE PushRead(l)
  <2>1. /\ t.pc = "pushCommit" /\ t.basis = store[l[2]][t.note]
        /\ MayOpen(l[2]) /\ usr' = usr /\ store' = store
    BY <1>1, <1>5 DEF PushRead, TypeInv, TypeOK, Sessions
  <2>2. SpanInv'
    BY <1>1, <2>1, OpenSpan DEF SpanOn, Target
  <2>3. QED
    BY <2>1, <2>2 DEF Forward
<1>6. CASE AckCheck(l)
  <2>1. /\ t.pc \in {"ackRemove", "push"}
        /\ MayOpen(l[1]) /\ usr' = usr /\ store' = store
    BY <1>1, <1>6 DEF AckCheck, TypeInv, TypeOK, Sessions
  <2>2. SpanInv'
    BY <1>1, <2>1, OpenSpan DEF SpanOn, Target
  <2>3. QED
    BY <2>1, <2>2 DEF Forward
<1>7. CASE PullCommit(l)
  <2>1. s.note \in Notes /\ s.pc = "pullCommit"
    BY <1>1, <1>7 DEF PullCommit, Working
  <2>2. t.pc = "pullAtt" /\ usr' = usr /\ ApplyAt(l[1], s.note, s.basis, s.snap)
    BY <1>1, <1>7 DEF PullCommit, TypeInv, TypeOK, Sessions
  <2>3. QED
    BY <1>1, <1>2, <2>1, <2>2 DEF Target, SpanPhases
<1>8. CASE PushCommit(l)
  <2>1. s.note \in Notes /\ s.pc = "pushCommit"
    BY <1>1, <1>8 DEF PushCommit, Working
  <2>2. t.pc = "pushAtt" /\ usr' = usr /\ ApplyAt(l[2], s.note, s.basis, s.snap)
    BY <1>1, <1>8 DEF PushCommit, TypeInv, TypeOK, Sessions
  <2>3. QED
    BY <1>1, <1>2, <2>1, <2>2 DEF Target, SpanPhases
<1> USE <1>1 DEF TypeInv, TypeOK, Sessions, SpanPhases
<1>9. CASE StartSession(l)
  BY <1>3, <1>9 DEF StartSession
<1>10. CASE PullCatalog(l)
  BY <1>3, <1>10 DEF PullCatalog
<1>11. CASE \E n \in Notes : PullSkip(l, n)
  BY <1>3, <1>11 DEF PullSkip
<1>12. CASE \E n \in Notes : PullFetch(l, n)
  BY <1>3, <1>12 DEF PullFetch
<1>13. CASE PullAttachments(l)
  BY <1>3, <1>13 DEF PullAttachments
<1>14. CASE PushStart(l)
  BY <1>3, <1>14 DEF PushStart
<1>15. CASE PushCatalog(l)
  BY <1>3, <1>15 DEF PushCatalog
<1>16. CASE \E n \in Notes : PushSkip(l, n)
  BY <1>3, <1>16 DEF PushSkip
<1>17. CASE \E n \in Notes : PushExport(l, n)
  BY <1>3, <1>17 DEF PushExport
<1>18. CASE PushAttachments(l)
  BY <1>3, <1>18 DEF PushAttachments
<1>19. CASE PushVerify(l)
  BY <1>3, <1>19 DEF PushVerify
<1>20. CASE AckRemove(l) \/ AckStart(l)
  BY <1>3, <1>20 DEF AckRemove, AckStart
<1>21. CASE \E e \in s.pend : AckEntry(l, e)
  BY <1>3, <1>21 DEF AckEntry
<1>22. CASE Report(l) \/ Close(l)
  BY <1>3, <1>22 DEF Report, Close, IdleSession
<1>23. CASE PushFault(l) \/ Abort(l)
  BY <1>3, <1>23 DEF PushFault, Abort, IdleSession
<1>24. QED
  BY <1>4, <1>5, <1>6, <1>7, <1>8, <1>9, <1>10, <1>11, <1>12, <1>13, <1>14, <1>15,
     <1>16, <1>17, <1>18, <1>19, <1>20, <1>21, <1>22, <1>23 DEF Pull, Push, Acknowledge

\* The span invariant is inductive, and every step moves copies forward.
LEMMA StepSpan ==
  ASSUME Clocks = "global", Interleaving # "free",
         StampInv, BasisRead, SpanInv, [Next]_vars
  PROVE  StampInv' /\ BasisRead' /\ SpanInv' /\ Forward
<1>1. StampInv' /\ BasisRead' /\ TypeInv'
  BY StepStamp DEF StampInv
<1>2. ASSUME NEW d \in Dev, User(d)
      PROVE  SpanInv' /\ Forward
  BY <1>1, <1>2, UserSpan DEF Forward
<1>3. ASSUME NEW l \in Links,
             \/ StartSession(l) \/ Pull(l) \/ Push(l) \/ Acknowledge(l)
             \/ PushFault(l) \/ Abort(l)
      PROVE  SpanInv' /\ Forward
  BY <1>1, <1>3, SessionSpan DEF Forward
<1>4. CASE UNCHANGED vars
  <2>1. store' = store /\ usr' = usr /\ sess' = sess
    BY <1>4 DEF vars
  <2>2. SpansExclude'
    BY <2>1 DEF SpanInv, SpansExclude, SpanOn
  <2>3. BasisIsPresent'
    BY <2>1 DEF SpanInv, BasisIsPresent, Target
  <2>4. QED
    BY <1>1, <2>1, <2>2, <2>3 DEF SpanInv, Forward
<1>5. SpanInv' /\ Forward
  BY <1>2, <1>3, <1>4 DEF Next
<1>6. QED
  BY <1>1, <1>5

\* With agreeing clocks, and if the reads and writes of a device's notes happen not
\* to interleave, no step takes a device back to an older version of a note: a copy
\* gives way only to a newer one, or a note to a tombstone.
THEOREM NoDeviceGoesBack ==
  Clocks = "global" /\ Interleaving # "free" => (Spec => ReplacedOnlyByNewerOrPurge)
<1>1. SUFFICES ASSUME Clocks = "global", Interleaving # "free"
               PROVE  Spec => ReplacedOnlyByNewerOrPurge
  OBVIOUS
<1>2. Init => StampInv /\ BasisRead /\ SpanInv
  <2>1. ASSUME Init PROVE SpanInv /\ BasisRead
    BY <2>1, LinkEnds DEF Init, SpanInv, SpansExclude, BasisIsPresent, SpanOn, NoOp,
                          IdleSession, BasisRead
  <2>2. QED
    BY <2>1, InitStamp
<1>3. StampInv /\ BasisRead /\ SpanInv /\ [Next]_vars
        => /\ StampInv' /\ BasisRead' /\ SpanInv'
           /\ [Forward]_vars
  BY <1>1, StepSpan
<1>4. Spec => [][Forward]_vars
  BY <1>2, <1>3, PTL DEF Spec
<1>5. QED
  BY <1>4 DEF ReplacedOnlyByNewerOrPurge, Forward

-----------------------------------------------------------------------------
(* Sessions that run alone.  What is known of a note moves with the session: *)
(* a note the pull has gone over has the peer's content or is the newer one, *)
(* and a note the push has gone over has one content on both sides.          *)

PullPhases == {"pull", "pullRead", "pullCommit", "pullAtt"}
PushPhases == {"push", "pushRead", "pushCommit", "pushAtt", "verify", "ackCheck", "ackRemove"}

HeadsOf(copies) == [n \in Notes |-> HeadOf(copies[n])]

\* The pull has nothing to do for a device that has "mine" when the peer has
\* "theirs"; the peer has what the device has, attachments apart.
Pulled(mine, theirs) ==
  theirs.kind = "absent" \/ SameContent(mine, theirs) \/ mine.ts > theirs.ts
Synced(mine, theirs) ==
  IF ~Live(mine) THEN ~Live(theirs)
  ELSE theirs.kind # "absent" /\ theirs.ts >= mine.ts /\ theirs.deleted = mine.deleted

\* What holds of a session s of a device that has the copies "mine" with a peer
\* that has "theirs".
PullProgress(s, mine, theirs) ==
  /\ s.pc \in PullPhases \cup {"pullLocal", "pushLocal"} => s.rcat = HeadsOf(theirs)
  /\ s.pc \in PullPhases =>
       /\ \A n \in s.todo : s.lcat[n] = HeadOf(mine[n])
       /\ \A n \in Notes \ s.todo : \/ Pulled(mine[n], theirs[n])
                                    \/ s.pc \in {"pullRead", "pullCommit"} /\ n = s.note
  /\ s.pc \in {"pullRead", "pullCommit"} =>
       s.note \in Notes \ s.todo /\ s.snap = theirs[s.note]
  /\ s.pc = "pullCommit" => s.basis = mine[s.note]
  /\ s.pc = "pushLocal" => \A n \in Notes : Pulled(mine[n], theirs[n])

PushProgress(s, mine, theirs) ==
  /\ s.pc \in PushPhases =>
       /\ \A n \in s.todo : /\ s.lcat[n] = HeadOf(mine[n]) /\ s.rcat[n] = HeadOf(theirs[n])
                            /\ Pulled(mine[n], theirs[n])
       /\ \A n \in Notes \ s.todo : \/ SameContent(mine[n], theirs[n])
                                    \/ s.pc \in {"pushRead", "pushCommit"} /\ n = s.note
  /\ s.pc \in {"pushRead", "pushCommit"} =>
       /\ s.note \in Notes \ s.todo /\ s.snap = mine[s.note]
       /\ NeedsPush(HeadOf(mine[s.note]), HeadOf(theirs[s.note]))
  /\ s.pc = "pushCommit" => s.basis = theirs[s.note]
  /\ s.pc \in {"ack", "done"} => \A n \in Notes : SameContent(mine[n], theirs[n])

\* If no push failed, and box is the outbox.
AckProgress(s, mine, theirs, box) ==
  s.failed = {} =>
    /\ s.pc \in PushPhases => \A n \in Notes \ s.todo :
         \/ Synced(mine[n], theirs[n])
         \/ s.pc \in {"pushRead", "pushCommit", "pushAtt", "verify"} /\ n = s.note
    /\ s.pc = "ack" => box \subseteq s.pend /\ \A n \in Notes : Synced(mine[n], theirs[n])
    /\ s.pc = "done" => box = {}

Progress(s, mine, theirs, box) ==
  /\ PullProgress(s, mine, theirs) /\ PushProgress(s, mine, theirs)
  /\ Att = {} => AckProgress(s, mine, theirs, box)

SessionOK(l) == faults = 0 => Progress(sess[l], store[l[1]], store[l[2]], outbox[l[1]])

Alone ==
  /\ \A l, k \in Links : sess[l].pc # "idle" /\ sess[k].pc # "idle" => l = k
  /\ \A l \in Links, d \in Dev : sess[l].pc # "idle" => usr[d].op = "none"

SerialInv == Alone /\ \A l \in Links : SessionOK(l)

\* The four ways a note is gone over, when equal stamps mean equal copies.
LEMMA PullMerges ==
  ASSUME NEW a \in Copies, NEW b \in Copies, a.ts = b.ts => a = b
  PROVE  Pulled(MergedCopy(a, b), b)
<1>1. a.ts \in Nat /\ b.ts \in Nat
  BY CopyFields
<1>2. CASE MergedCopy(a, b) = b
  BY <1>2 DEF Pulled, SameContent
<1>3. CASE MergedCopy(a, b) = a /\ a # b
  <2>1. CASE b.kind = "tombstone"
    <3>1. a.kind = "tombstone"
      BY <1>3, <2>1 DEF MergedCopy, MergeResult, Live
    <3>2. a \in Tombstones /\ b \in Tombstones
      BY <2>1, <3>1 DEF Copies, Absent, Notelike
    <3> QED
      BY <1>3, <3>2 DEF Pulled, SameContent, Tombstones
  <2>2. CASE b.kind = "note"
    <3>1. CASE a.kind = "tombstone"
      BY <1>1, <1>3, <2>2, <3>1 DEF MergedCopy, MergeResult, Live, Pulled
    <3>2. CASE a.kind = "absent"
      BY <1>3, <2>2, <3>2 DEF MergedCopy, MergeResult, Live
    <3>3. CASE a.kind = "note"
      <4>1. CASE NoteContentEquals(a, b)
        BY <1>3, <2>2, <3>3, <4>1 DEF NoteContentEquals, Pulled, SameContent
      <4>2. CASE ~NoteContentEquals(a, b) /\ b.ts > a.ts
        <5>1. MergeResult(a, b) = "applied" /\ Live(a) /\ Live(b)
          BY <1>1, <2>2, <3>3, <4>2 DEF MergeResult, ResolveNoteConflict, Live
        <5>2. MergedCopy(a, b) = b
          <6>1. MergeNoteMeta(a, b) = b
            BY <4>2 DEF MergeNoteMeta
          <6>2. MergedCopy(a, b) = [b EXCEPT !.body = b.body]
            BY <5>1, <6>1 DEF MergedCopy
          <6>3. b \in Notelike
            BY <5>1, CopyFields
          <6> QED
            BY <6>2, <6>3 DEF Notelike
        <5> QED
          BY <1>3, <5>2
      <4>3. CASE ~(b.ts > a.ts)
        <5>1. a.ts > b.ts
          BY <1>1, <1>3, <4>3
        <5> QED
          BY <1>3, <5>1 DEF Pulled
      <4> QED
        BY <4>1, <4>2, <4>3
    <3> QED
      BY <3>1, <3>2, <3>3, CopyFields
  <2>3. CASE b.kind = "absent"
    BY <2>3 DEF Pulled
  <2> QED
    BY <2>1, <2>2, <2>3, CopyFields
<1> QED
  BY <1>2, <1>3, MergeTakesOneSide

LEMMA PullSkips ==
  ASSUME NEW a \in Copies, NEW b \in Copies, a.ts = b.ts => a = b,
         ~NoteHeadNeedsRemotePull(HeadOf(a), HeadOf(b))
  PROVE  Pulled(a, b)
<1>1. a.ts \in Nat /\ b.ts \in Nat
  BY CopyFields
<1>2. ~(b.ts > a.ts)
  BY DEF NoteHeadNeedsRemotePull, HeadOf
<1>3. a.ts > b.ts \/ a = b
  BY <1>1, <1>2
<1> QED
  BY <1>3 DEF Pulled, SameContent

LEMMA PushMerges ==
  ASSUME NEW a \in Copies, NEW b \in Copies, a.ts = b.ts => a = b,
         NeedsPush(HeadOf(a), HeadOf(b))
  PROVE  SameContent(a, MergedCopy(b, a))
<1>1. a.ts \in Nat /\ b.ts \in Nat
  BY CopyFields
<1>2. b.kind = "absent" \/ a.ts > b.ts
  BY <1>1 DEF NeedsPush, HeadOf
<1>3. Pulled(MergedCopy(b, a), a)
  BY PullMerges
<1>4. CASE b.kind = "absent"
  <2>1. MergedCopy(b, a) = a
    BY <1>4 DEF MergedCopy, MergeResult, Live
  <2> QED
    BY <2>1 DEF SameContent
<1>5. CASE a.ts > b.ts
  <2>1. a.kind # "absent"
    BY <1>1, <1>5, CopyFields
  <2>2. ~(MergedCopy(b, a).ts > a.ts)
    BY <1>1, <1>5, MergeTakesOneSide
  <2> QED
    BY <1>3, <2>1, <2>2 DEF Pulled, SameContent
<1> QED
  BY <1>2, <1>4, <1>5

LEMMA PushSkips ==
  ASSUME NEW a \in Copies, NEW b \in Copies, Pulled(a, b),
         a.kind = "absent" \/ ~NeedsPush(HeadOf(a), HeadOf(b))
  PROVE  SameContent(a, b) /\ Synced(a, b)
<1>1. a.ts \in Nat /\ b.ts \in Nat
  BY CopyFields
<1>2. CASE a.kind = "absent"
  <2>1. a = Absent /\ a.ts = 0
    BY <1>2, CopyFields
  <2>2. b.kind = "absent" => b = Absent
    BY CopyFields
  <2> QED
    BY <1>1, <1>2, <2>1, <2>2 DEF Pulled, SameContent, Synced, Live
<1>3. CASE ~NeedsPush(HeadOf(a), HeadOf(b))
  <2>1. b.kind # "absent" /\ ~(a.ts > b.ts)
    BY <1>3 DEF NeedsPush, HeadOf
  <2>2. SameContent(a, b)
    BY <2>1 DEF Pulled
  <2> QED
    BY <1>1, <2>1, <2>2 DEF SameContent, Synced, Live
<1> QED
  BY <1>2, <1>3

\* Without attachments, isNoteFullySyncedOnRemote compares the copies only.
LEMMA SyncedMeans ==
  ASSUME TypeOK, Att = {}, NEW i \in Dev, NEW p \in Dev, NEW n \in Notes
  PROVE  FullySynced(i, p, n) <=> Synced(store[i][n], store[p][n])
<1>1. store[i][n] \in Copies
  BY DEF TypeOK
<1>2. store[i][n].atts = {}
  BY <1>1, CopyFields
<1> QED
  BY <1>2 DEF FullySynced, Synced

-----------------------------------------------------------------------------
(* The steps of a session that runs alone. *)

\* A session, its copies and its peer's, with their types.
Setting(s, mine, theirs) ==
  /\ s \in Sessions /\ mine \in [Notes -> Copies] /\ theirs \in [Notes -> Copies]
  /\ \A n \in Notes : mine[n].ts = theirs[n].ts => mine[n] = theirs[n]

\* A head is absent where the copy is.
LEMMA KindOfHead == \A c \in Copies : HeadOf(c).kind = "absent" => c.kind = "absent"
  BY DEF HeadOf

\* Pull: the catalogs, the notes skipped and fetched, the merge.
LEMMA PullKeeps ==
  ASSUME NEW s, NEW t, NEW mine, NEW theirs, NEW box, Setting(s, mine, theirs),
         Progress(s, mine, theirs, box), t \in Sessions,
         \/ s.pc = "idle" /\ t.pc = "pullLocal" /\ t.rcat = HeadsOf(theirs)
         \/ /\ s.pc = "pullLocal" /\ t.pc = "pull" /\ t.rcat = s.rcat
            /\ t.lcat = HeadsOf(mine) /\ t.todo = Known(s.rcat)
         \/ \E n \in s.todo :
              /\ s.pc = "pull" /\ ~NoteHeadNeedsRemotePull(s.lcat[n], s.rcat[n])
              /\ t.pc = "pull" /\ t.rcat = s.rcat /\ t.lcat = s.lcat /\ t.todo = s.todo \ {n}
         \/ \E n \in s.todo :
              /\ s.pc = "pull" /\ t.pc = "pullRead" /\ t.rcat = s.rcat /\ t.lcat = s.lcat
              /\ t.todo = s.todo \ {n} /\ t.note = n /\ t.snap = theirs[n]
         \/ /\ s.pc = "pullRead" /\ t.pc = "pullCommit" /\ t.rcat = s.rcat /\ t.lcat = s.lcat
            /\ t.todo = s.todo /\ t.note = s.note /\ t.snap = s.snap /\ t.basis = mine[s.note]
         \/ /\ s.pc = "pullAtt" /\ t.pc = "pull" /\ t.rcat = s.rcat /\ t.lcat = s.lcat
            /\ t.todo = s.todo
         \/ /\ s.pc = "pull" /\ s.todo = {} /\ t.pc = "pushLocal" /\ t.rcat = HeadsOf(theirs)
  PROVE  Progress(t, mine, theirs, box)
<1> USE DEF Setting
<1>1. \A n \in Notes : HeadsOf(theirs)[n] = HeadOf(theirs[n]) /\ HeadsOf(mine)[n] = HeadOf(mine[n])
  BY DEF HeadsOf
<1>2. s.todo \in SUBSET Notes /\ t.todo \in SUBSET Notes
  BY DEF Sessions
<1>3. t.pc \in PullPhases \cup {"pullLocal", "pushLocal"}
  BY DEF PullPhases
<1>4. PushProgress(t, mine, theirs) /\ AckProgress(t, mine, theirs, box)
  BY <1>3 DEF PullPhases, PushPhases, PushProgress, AckProgress
<1>5. PullProgress(s, mine, theirs)
  BY DEF Progress
<1> SUFFICES PullProgress(t, mine, theirs)
  BY <1>4 DEF Progress
<1>6. CASE s.pc = "idle" /\ t.pc = "pullLocal" /\ t.rcat = HeadsOf(theirs)
  BY <1>6 DEF PullProgress, PullPhases
<1>7. CASE /\ s.pc = "pullLocal" /\ t.pc = "pull" /\ t.rcat = s.rcat
           /\ t.lcat = HeadsOf(mine) /\ t.todo = Known(s.rcat)
  <2>1. t.rcat = HeadsOf(theirs) /\ s.rcat = HeadsOf(theirs)
    BY <1>5, <1>7 DEF PullProgress
  <2>2. \A n \in Notes \ t.todo : theirs[n].kind = "absent"
    <3> SUFFICES ASSUME NEW n \in Notes, n \notin t.todo PROVE theirs[n].kind = "absent"
      OBVIOUS
    <3>1. HeadsOf(theirs)[n].kind = "absent"
      BY <1>7, <2>1 DEF Known
    <3> QED
      BY <1>1, <3>1, KindOfHead
  <2> QED
    BY <1>1, <1>2, <1>7, <2>1, <2>2 DEF PullProgress, PullPhases, Pulled
<1>8. CASE \E n \in s.todo :
              /\ s.pc = "pull" /\ ~NoteHeadNeedsRemotePull(s.lcat[n], s.rcat[n])
              /\ t.pc = "pull" /\ t.rcat = s.rcat /\ t.lcat = s.lcat /\ t.todo = s.todo \ {n}
  <2>1. PICK n \in s.todo :
              /\ s.pc = "pull" /\ ~NoteHeadNeedsRemotePull(s.lcat[n], s.rcat[n])
              /\ t.pc = "pull" /\ t.rcat = s.rcat /\ t.lcat = s.lcat /\ t.todo = s.todo \ {n}
    BY <1>8
  <2>2. n \in Notes /\ s.lcat[n] = HeadOf(mine[n]) /\ s.rcat[n] = HeadOf(theirs[n])
    BY <1>1, <1>2, <1>5, <2>1 DEF PullProgress, PullPhases
  <2>3. Pulled(mine[n], theirs[n])
    BY <2>1, <2>2, PullSkips
  <2> QED
    BY <1>2, <1>5, <2>1, <2>3 DEF PullProgress, PullPhases
<1>9. CASE \E n \in s.todo :
              /\ s.pc = "pull" /\ t.pc = "pullRead" /\ t.rcat = s.rcat /\ t.lcat = s.lcat
              /\ t.todo = s.todo \ {n} /\ t.note = n /\ t.snap = theirs[n]
  BY <1>2, <1>5, <1>9 DEF PullProgress, PullPhases
<1>10. CASE /\ s.pc = "pullRead" /\ t.pc = "pullCommit" /\ t.rcat = s.rcat /\ t.lcat = s.lcat
            /\ t.todo = s.todo /\ t.note = s.note /\ t.snap = s.snap /\ t.basis = mine[s.note]
  BY <1>5, <1>10 DEF PullProgress, PullPhases
<1>11. CASE /\ s.pc = "pullAtt" /\ t.pc = "pull" /\ t.rcat = s.rcat /\ t.lcat = s.lcat
            /\ t.todo = s.todo
  BY <1>5, <1>11 DEF PullProgress, PullPhases
<1>12. CASE /\ s.pc = "pull" /\ s.todo = {} /\ t.pc = "pushLocal" /\ t.rcat = HeadsOf(theirs)
  BY <1>5, <1>12 DEF PullProgress, PullPhases
<1> QED
  BY <1>6, <1>7, <1>8, <1>9, <1>10, <1>11, <1>12

LEMMA PullCommits ==
  ASSUME NEW s, NEW t, NEW mine, NEW now, NEW theirs, NEW box, Setting(s, mine, theirs),
         Progress(s, mine, theirs, box), t \in Sessions, s.pc = "pullCommit",
         now = [mine EXCEPT ![s.note] = MergedCopy(s.basis, s.snap)],
         /\ t.pc = "pullAtt" /\ t.rcat = s.rcat /\ t.lcat = s.lcat /\ t.todo = s.todo
  PROVE  Progress(t, now, theirs, box)
<1>1. PullProgress(s, mine, theirs)
  BY DEF Progress
<1>2. s.note \in Notes \ s.todo /\ s.basis = mine[s.note] /\ s.snap = theirs[s.note]
  BY <1>1 DEF PullProgress
<1>3. Pulled(now[s.note], theirs[s.note])
  BY <1>2, PullMerges DEF Setting
<1>4. \A n \in Notes : n # s.note => now[n] = mine[n]
  BY DEF Setting
<1>5. s.todo \in SUBSET Notes
  BY DEF Setting, Sessions
<1>6. PullProgress(t, now, theirs)
  BY <1>1, <1>2, <1>3, <1>4, <1>5 DEF PullProgress, PullPhases
<1>7. PushProgress(t, now, theirs) /\ AckProgress(t, now, theirs, box)
  BY DEF PushProgress, AckProgress, PushPhases
<1> QED
  BY <1>6, <1>7 DEF Progress

\* Push: the catalogs, the notes skipped and exported, up to the merge.
LEMMA PushKeeps ==
  ASSUME NEW s, NEW t, NEW mine, NEW theirs, NEW box, Setting(s, mine, theirs),
         Progress(s, mine, theirs, box), t \in Sessions, t.failed = s.failed,
         \/ /\ s.pc = "pushLocal" /\ t.pc = "push" /\ t.rcat = s.rcat
            /\ t.lcat = HeadsOf(mine) /\ t.todo = Known(HeadsOf(mine))
         \/ \E n \in s.todo :
              /\ s.pc = "push" /\ ~NeedsPush(s.lcat[n], s.rcat[n])
              /\ t.pc = "push" /\ t.rcat = s.rcat /\ t.lcat = s.lcat /\ t.todo = s.todo \ {n}
         \/ \E n \in s.todo :
              /\ s.pc = "push" /\ NeedsPush(s.lcat[n], s.rcat[n])
              /\ t.pc = "pushRead" /\ t.rcat = s.rcat /\ t.lcat = s.lcat
              /\ t.todo = s.todo \ {n} /\ t.note = n /\ t.snap = mine[n]
         \/ /\ s.pc = "pushRead" /\ t.pc = "pushCommit" /\ t.rcat = s.rcat /\ t.lcat = s.lcat
            /\ t.todo = s.todo /\ t.note = s.note /\ t.snap = s.snap /\ t.basis = theirs[s.note]
  PROVE  Progress(t, mine, theirs, box)
<1> USE DEF Setting
<1>1. \A n \in Notes : HeadsOf(theirs)[n] = HeadOf(theirs[n]) /\ HeadsOf(mine)[n] = HeadOf(mine[n])
  BY DEF HeadsOf
<1>2. s.todo \in SUBSET Notes /\ t.todo \in SUBSET Notes
  BY DEF Sessions
<1>3. PullProgress(t, mine, theirs)
  BY DEF PullPhases, PullProgress
<1>4. /\ PullProgress(s, mine, theirs) /\ PushProgress(s, mine, theirs)
      /\ Att = {} => AckProgress(s, mine, theirs, box)
  BY DEF Progress
<1> SUFFICES /\ PushProgress(t, mine, theirs)
             /\ Att = {} => AckProgress(t, mine, theirs, box)
  BY <1>3 DEF Progress
<1>5. CASE /\ s.pc = "pushLocal" /\ t.pc = "push" /\ t.rcat = s.rcat
           /\ t.lcat = HeadsOf(mine) /\ t.todo = Known(HeadsOf(mine))
  <2>1. t.rcat = HeadsOf(theirs) /\ \A n \in Notes : Pulled(mine[n], theirs[n])
    BY <1>4, <1>5 DEF PullProgress
  <2>2. \A n \in Notes \ t.todo : SameContent(mine[n], theirs[n]) /\ Synced(mine[n], theirs[n])
    <3> SUFFICES ASSUME NEW n \in Notes, n \notin t.todo
                 PROVE  SameContent(mine[n], theirs[n]) /\ Synced(mine[n], theirs[n])
      OBVIOUS
    <3>1. HeadsOf(mine)[n].kind = "absent"
      BY <1>5 DEF Known
    <3>2. mine[n].kind = "absent"
      BY <1>1, <3>1, KindOfHead
    <3> QED
      BY <2>1, <3>2, PushSkips
  <2>3. PushProgress(t, mine, theirs)
    BY <1>1, <1>2, <1>5, <2>1, <2>2 DEF PushProgress, PushPhases
  <2>4. AckProgress(t, mine, theirs, box)
    BY <1>5, <2>2 DEF AckProgress
  <2> QED
    BY <2>3, <2>4
<1>6. CASE \E n \in s.todo :
              /\ s.pc = "push" /\ ~NeedsPush(s.lcat[n], s.rcat[n])
              /\ t.pc = "push" /\ t.rcat = s.rcat /\ t.lcat = s.lcat /\ t.todo = s.todo \ {n}
  <2>1. PICK n \in s.todo :
              /\ s.pc = "push" /\ ~NeedsPush(s.lcat[n], s.rcat[n])
              /\ t.pc = "push" /\ t.rcat = s.rcat /\ t.lcat = s.lcat /\ t.todo = s.todo \ {n}
    BY <1>6
  <2>2. /\ n \in Notes /\ s.lcat[n] = HeadOf(mine[n]) /\ s.rcat[n] = HeadOf(theirs[n])
        /\ Pulled(mine[n], theirs[n])
    BY <1>2, <1>4, <2>1 DEF PushProgress, PushPhases
  <2>3. SameContent(mine[n], theirs[n]) /\ Synced(mine[n], theirs[n])
    BY <2>1, <2>2, PushSkips
  <2>4. PushProgress(t, mine, theirs)
    BY <1>2, <1>4, <2>1, <2>3 DEF PushProgress, PushPhases
  <2>5. AckProgress(s, mine, theirs, box) => AckProgress(t, mine, theirs, box)
    BY <1>2, <2>1, <2>3 DEF AckProgress, PushPhases
  <2> QED
    BY <1>4, <2>4, <2>5
<1>7. CASE \E n \in s.todo :
              /\ s.pc = "push" /\ NeedsPush(s.lcat[n], s.rcat[n])
              /\ t.pc = "pushRead" /\ t.rcat = s.rcat /\ t.lcat = s.lcat
              /\ t.todo = s.todo \ {n} /\ t.note = n /\ t.snap = mine[n]
  <2>1. PICK n \in s.todo :
              /\ s.pc = "push" /\ NeedsPush(s.lcat[n], s.rcat[n])
              /\ t.pc = "pushRead" /\ t.rcat = s.rcat /\ t.lcat = s.lcat
              /\ t.todo = s.todo \ {n} /\ t.note = n /\ t.snap = mine[n]
    BY <1>7
  <2>2. n \in Notes /\ s.lcat[n] = HeadOf(mine[n]) /\ s.rcat[n] = HeadOf(theirs[n])
    BY <1>2, <1>4, <2>1 DEF PushProgress, PushPhases
  <2>3. PushProgress(t, mine, theirs)
    BY <1>2, <1>4, <2>1, <2>2 DEF PushProgress, PushPhases
  <2>4. AckProgress(s, mine, theirs, box) => AckProgress(t, mine, theirs, box)
    BY <1>2, <2>1 DEF AckProgress, PushPhases
  <2> QED
    BY <1>4, <2>3, <2>4
<1>8. CASE /\ s.pc = "pushRead" /\ t.pc = "pushCommit" /\ t.rcat = s.rcat /\ t.lcat = s.lcat
           /\ t.todo = s.todo /\ t.note = s.note /\ t.snap = s.snap /\ t.basis = theirs[s.note]
  <2>1. PushProgress(t, mine, theirs)
    BY <1>4, <1>8 DEF PushProgress, PushPhases
  <2>2. AckProgress(s, mine, theirs, box) => AckProgress(t, mine, theirs, box)
    BY <1>8 DEF AckProgress, PushPhases
  <2> QED
    BY <1>4, <2>1, <2>2
<1> QED
  BY <1>5, <1>6, <1>7, <1>8

LEMMA PushCommits ==
  ASSUME NEW s, NEW t, NEW mine, NEW theirs, NEW now, NEW box, Setting(s, mine, theirs),
         Progress(s, mine, theirs, box), t \in Sessions, t.failed = s.failed, s.pc = "pushCommit",
         now = [theirs EXCEPT ![s.note] = MergedCopy(s.basis, s.snap)],
         /\ t.pc = "pushAtt" /\ t.rcat = s.rcat /\ t.lcat = s.lcat /\ t.todo = s.todo
         /\ t.note = s.note
  PROVE  Progress(t, mine, now, box)
<1>1. PushProgress(s, mine, theirs) /\ (Att = {} => AckProgress(s, mine, theirs, box))
  BY DEF Progress
<1>2. /\ s.note \in Notes \ s.todo /\ s.basis = theirs[s.note] /\ s.snap = mine[s.note]
      /\ NeedsPush(HeadOf(mine[s.note]), HeadOf(theirs[s.note]))
  BY <1>1 DEF PushProgress
<1>3. SameContent(mine[s.note], now[s.note])
  BY <1>2, PushMerges DEF Setting
<1>4. \A n \in Notes : n # s.note => now[n] = theirs[n]
  BY DEF Setting
<1>5. s.todo \in SUBSET Notes
  BY DEF Setting, Sessions
<1>6. PushProgress(t, mine, now)
  BY <1>1, <1>2, <1>3, <1>4, <1>5 DEF PushProgress, PushPhases
<1>7. AckProgress(s, mine, theirs, box) => AckProgress(t, mine, now, box)
  BY <1>4 DEF AckProgress, PushPhases
<1>8. PullProgress(t, mine, now)
  BY DEF PullProgress, PullPhases
<1> QED
  BY <1>1, <1>6, <1>7, <1>8 DEF Progress

\* After the merge: attachments, the checks and the acknowledgement.
LEMMA AckKeeps ==
  ASSUME NEW s, NEW t, NEW mine, NEW theirs, NEW box, NEW left, Setting(s, mine, theirs),
         Progress(s, mine, theirs, box), t \in Sessions, left \subseteq box,
         \/ /\ s.pc = "pushAtt" /\ t.pc = "verify" /\ t.note = s.note /\ t.rcat = s.rcat
            /\ t.lcat = s.lcat /\ t.todo = s.todo /\ t.failed = s.failed
         \/ /\ s.pc \in {"verify", "ackCheck"} /\ t.rcat = s.rcat
            /\ t.lcat = s.lcat /\ t.todo = s.todo
            /\ \/ /\ t.pc \in {"ackCheck", "ackRemove"} /\ t.failed = s.failed
                  /\ Att = {} => Synced(mine[s.note], theirs[s.note])
               \/ t.pc = "push" /\ t.failed # {}
               \/ s.pc = "ackCheck" /\ t.pc = "push" /\ t.failed = s.failed
         \/ /\ s.pc = "ackRemove" /\ t.pc = "push" /\ t.rcat = s.rcat
            /\ t.lcat = s.lcat /\ t.todo = s.todo /\ t.failed = s.failed
         \/ /\ s.pc = "push" /\ s.todo = {} /\ t.pc = "ack" /\ t.pend = box
            /\ t.failed = s.failed
         \/ \E e \in s.pend :
              /\ s.pc = "ack" /\ t.pc = "ack" /\ t.pend = s.pend \ {e} /\ t.failed = s.failed
              /\ Att = {} /\ Synced(mine[e.note], theirs[e.note]) => e \notin left
         \/ s.pc = "ack" /\ s.pend = {} /\ t.pc = "done" /\ t.failed = s.failed
         \/ t.pc = "idle"
  PROVE  Progress(t, mine, theirs, left)
<1> USE DEF Setting
<1>1. s.todo \in SUBSET Notes /\ s.pend \in SUBSET Entries /\ t.pc \notin PullPhases
      /\ t.pc \notin {"pullLocal", "pushLocal", "pushRead", "pushCommit"}
  BY DEF Sessions, PullPhases
<1>2. PullProgress(t, mine, theirs)
  BY <1>1 DEF PullPhases, PullProgress
<1>3. /\ PushProgress(s, mine, theirs)
      /\ Att = {} => AckProgress(s, mine, theirs, box)
  BY DEF Progress
<1>4. PushProgress(t, mine, theirs)
  <2>1. CASE t.pc \in PushPhases
    <3>1. /\ s.pc \in PushPhases \ {"pushRead", "pushCommit"}
          /\ t.rcat = s.rcat /\ t.lcat = s.lcat /\ t.todo = s.todo
      BY <2>1 DEF PushPhases
    <3> QED
      BY <1>1, <1>3, <2>1, <3>1 DEF PushProgress
  <2>2. CASE t.pc \in {"ack", "done"}
    <3>1. s.pc \in {"ack", "done"} \/ (s.pc = "push" /\ s.todo = {})
      BY <2>2
    <3> QED
      BY <1>3, <2>2, <3>1 DEF PushProgress, PushPhases
  <2>3. CASE t.pc = "idle"
    BY <2>3 DEF PushProgress, PushPhases
  <2> QED
    BY <2>1, <2>2, <2>3 DEF PushPhases
<1>5. ASSUME Att = {}, t.failed = {} PROVE AckProgress(t, mine, theirs, left)
  <2>1. t.pc # "idle" => s.failed = {} /\ AckProgress(s, mine, theirs, box)
    BY <1>3, <1>5
  <2>2. CASE t.pc \in PushPhases
    <3>1. \A n \in Notes \ s.todo : \/ Synced(mine[n], theirs[n])
                                    \/ s.pc \in {"pushAtt", "verify"} /\ n = s.note
      BY <2>1, <2>2 DEF AckProgress, PushPhases
    <3>2. \A n \in Notes \ t.todo : \/ Synced(mine[n], theirs[n])
                                    \/ t.pc = "verify" /\ n = t.note
      BY <1>5, <2>2, <3>1 DEF PushPhases
    <3> QED
      BY <2>2, <3>2 DEF AckProgress, PushPhases
  <2>3. CASE s.pc = "push" /\ t.pc = "ack"
    BY <2>1, <2>3 DEF AckProgress, PushPhases
  <2>4. CASE s.pc = "ack" /\ t.pc = "ack"
    <3>1. PICK e \in s.pend : t.pend = s.pend \ {e}
                              /\ (Synced(mine[e.note], theirs[e.note]) => e \notin left)
      BY <1>5, <2>4
    <3>2. e.note \in Notes
      BY <1>1 DEF Entries
    <3>3. box \subseteq s.pend /\ \A n \in Notes : Synced(mine[n], theirs[n])
      BY <2>1, <2>4 DEF AckProgress
    <3>4. left \subseteq t.pend
      BY <3>1, <3>2, <3>3
    <3> QED
      BY <2>4, <3>3, <3>4 DEF AckProgress, PushPhases
  <2>5. CASE t.pc = "done"
    BY <2>1, <2>5 DEF AckProgress, PushPhases
  <2>6. CASE t.pc = "idle"
    BY <2>6 DEF AckProgress, PushPhases
  <2> QED
    BY <2>2, <2>3, <2>4, <2>5, <2>6 DEF PushPhases
<1>6. Att = {} => AckProgress(t, mine, theirs, left)
  BY <1>5 DEF AckProgress
<1> QED
  BY <1>2, <1>4, <1>6 DEF Progress

-----------------------------------------------------------------------------
(* The actions of a session that runs alone. *)

\* The two sides of a session form a setting, before a step ...
LEMMA SessionSetting ==
  ASSUME StampInv, NEW l \in Links
  PROVE  Setting(sess[l], store[l[1]], store[l[2]])
<1>1. l[1] \in Dev /\ l[2] \in Dev /\ sess[l] \in Sessions /\ store \in [Dev -> [Notes -> Copies]]
  BY LinkEnds DEF StampInv, TypeInv, TypeOK
<1>2. \A n \in Notes : store[l[1]][n] \in HeldCopies(n) /\ store[l[2]][n] \in HeldCopies(n)
  BY <1>1, HeldMembers
<1> QED
  BY <1>1, <1>2 DEF Setting, StampInv, StampsDetermineCopies

\* ... and what SessionOK says after it.
LEMMA SessionNext ==
  ASSUME NEW l \in Links,
         faults' = 0 => Progress(sess'[l], store'[l[1]], store'[l[2]], outbox'[l[1]])
  PROVE  SessionOK(l)'
BY DEF SessionOK

\* A merge puts the merged copy into the folder that was read.
LEMMA MergeWrites ==
  ASSUME StampInv, NEW d \in Dev, NEW e \in Dev, d # e, NEW n \in Notes,
         NEW remote, ApplyAt(d, n, store[d][n], remote)
  PROVE  /\ store'[d] = [store[d] EXCEPT ![n] = MergedCopy(store[d][n], remote)]
         /\ store'[e] = store[e]
<1> DEFINE f == IF MergeResult(store[d][n], remote) = "applied"
                THEN MergedCopy(store[d][n], remote) ELSE store[d][n]
<1>1. store \in [Dev -> [Notes -> Copies]]
  BY DEF StampInv, TypeInv, TypeOK
<1>2. f = MergedCopy(store[d][n], remote)
  BY DEF MergedCopy
<1>3. store' = [store EXCEPT ![d] = [store[d] EXCEPT ![n] = f]]
  BY <1>1 DEF ApplyAt
<1> HIDE DEF f
<1> QED
  BY <1>1, <1>2, <1>3

\* Failures are counted, so none happened before a step if none has after it.
LEMMA FaultsCount ==
  ASSUME TypeInv, NEW l \in Links, faults' = 0,
         \/ StartSession(l) \/ Pull(l) \/ Push(l) \/ Acknowledge(l)
         \/ PushFault(l) \/ Abort(l)
  PROVE  faults = 0 /\ ~PushFault(l) /\ ~Abort(l)
<1>1. faults \in Nat
  BY DEF TypeInv, TypeOK
<1>2. ASSUME NEW d, NEW n, NEW offer, Arrive(d, n, offer) PROVE faults = 0
  BY <1>1, <1>2 DEF Arrive
<1>3. ~PushFault(l) /\ ~Abort(l)
  BY <1>1 DEF PushFault, Abort
<1>4. CASE faults' = faults
  BY <1>3, <1>4
<1>5. CASE \E d, n, offer : Arrive(d, n, offer)
  BY <1>2, <1>3, <1>5
<1>6. CASE StartSession(l)
  BY <1>4, <1>6 DEF StartSession
<1>7. CASE Pull(l)
  BY <1>4, <1>5, <1>7 DEF Pull, PullCatalog, PullSkip, PullFetch, PullRead, PullCommit,
                          PullAttachments
<1>8. CASE Push(l)
  BY <1>4, <1>5, <1>8 DEF Push, PushStart, PushCatalog, PushSkip, PushExport, PushRead,
                          PushCommit, PushAttachments, PushVerify
<1>9. CASE Acknowledge(l)
  BY <1>4, <1>9 DEF Acknowledge, AckCheck, AckRemove, AckStart, AckEntry, Report, Close
<1> QED
  BY <1>3, <1>6, <1>7, <1>8, <1>9

\* Every step of the pull keeps what is known of the session.
LEMMA PullOK ==
  ASSUME StampInv, TypeInv', NEW l \in Links, SessionOK(l), StartSession(l) \/ Pull(l)
  PROVE  SessionOK(l)'
<1> DEFINE s == sess[l]  t == sess'[l]  mine == store[l[1]]  theirs == store[l[2]]
           box == outbox[l[1]]
<1>1. /\ s \in Sessions /\ t \in Sessions /\ sess \in [Links -> Sessions]
      /\ l[1] \in Dev /\ l[2] \in Dev /\ l[1] # l[2] /\ faults \in Nat
      /\ Setting(s, mine, theirs)
  BY SessionFields, LinkEnds, SessionSetting DEF StampInv, TypeInv, TypeOK
<1>2. s.todo \in SUBSET Notes /\ (s.pc \in Working => s.note \in Notes)
  BY <1>1 DEF Sessions, StampInv, TypeInv, NoteNamed
<1>3. ASSUME faults' = 0 PROVE faults = 0
  BY <1>3, FaultsCount DEF StampInv
<1> SUFFICES ASSUME faults' = 0
             PROVE  Progress(t, store'[l[1]], store'[l[2]], outbox'[l[1]])
  BY SessionNext
<1>4. Progress(s, mine, theirs, box)
  BY <1>3 DEF SessionOK
<1>5. HeadsOf(mine) = Catalog(l[1]) /\ HeadsOf(theirs) = Catalog(l[2])
  BY DEF HeadsOf, Catalog
<1>6. CASE PullCommit(l)
  <2>1. s.pc = "pullCommit" /\ s.note \in Notes /\ s.basis = mine[s.note]
    BY <1>2, <1>4, <1>6 DEF PullCommit, Progress, PullProgress, Working
  <2>2. /\ store'[l[1]] = [mine EXCEPT ![s.note] = MergedCopy(s.basis, s.snap)]
        /\ store'[l[2]] = theirs
    <3>1. ApplyAt(l[1], s.note, store[l[1]][s.note], s.snap)
      BY <1>6, <2>1 DEF PullCommit
    <3>2. /\ store'[l[1]] = [store[l[1]] EXCEPT ![s.note] =
                                          MergedCopy(store[l[1]][s.note], s.snap)]
          /\ store'[l[2]] = store[l[2]]
      <4> HIDE DEF s
      <4> QED
        BY <1>1, <2>1, <3>1, MergeWrites
    <3> QED
      BY <2>1, <3>2
  <2>3. /\ t.pc = "pullAtt" /\ t.rcat = s.rcat /\ t.lcat = s.lcat /\ t.todo = s.todo
        /\ outbox' = outbox
    BY <1>1, <1>6 DEF PullCommit, Sessions
  <2> HIDE DEF s, t, mine, theirs
  <2> QED
    BY <1>1, <1>4, <2>1, <2>2, <2>3, PullCommits
<1>7. ASSUME store' = store, outbox' = outbox,
         \/ s.pc = "idle" /\ t.pc = "pullLocal" /\ t.rcat = HeadsOf(theirs)
         \/ /\ s.pc = "pullLocal" /\ t.pc = "pull" /\ t.rcat = s.rcat
            /\ t.lcat = HeadsOf(mine) /\ t.todo = Known(s.rcat)
         \/ \E n \in s.todo :
              /\ s.pc = "pull" /\ ~NoteHeadNeedsRemotePull(s.lcat[n], s.rcat[n])
              /\ t.pc = "pull" /\ t.rcat = s.rcat /\ t.lcat = s.lcat /\ t.todo = s.todo \ {n}
         \/ \E n \in s.todo :
              /\ s.pc = "pull" /\ t.pc = "pullRead" /\ t.rcat = s.rcat /\ t.lcat = s.lcat
              /\ t.todo = s.todo \ {n} /\ t.note = n /\ t.snap = theirs[n]
         \/ /\ s.pc = "pullRead" /\ t.pc = "pullCommit" /\ t.rcat = s.rcat /\ t.lcat = s.lcat
            /\ t.todo = s.todo /\ t.note = s.note /\ t.snap = s.snap /\ t.basis = mine[s.note]
         \/ /\ s.pc = "pullAtt" /\ t.pc = "pull" /\ t.rcat = s.rcat /\ t.lcat = s.lcat
            /\ t.todo = s.todo
      PROVE Progress(t, store'[l[1]], store'[l[2]], outbox'[l[1]])
  <2> HIDE DEF s, t, mine, theirs
  <2>1. Progress(t, mine, theirs, box)
    BY <1>1, <1>4, <1>7, PullKeeps
  <2> QED
    BY <1>7, <2>1 DEF mine, theirs
<1> USE <1>1 DEF Sessions
<1>8. CASE StartSession(l)
  BY <1>5, <1>7, <1>8 DEF StartSession
<1>9. CASE PullCatalog(l)
  BY <1>5, <1>7, <1>9 DEF PullCatalog
<1>10. CASE \E n \in Notes : PullSkip(l, n)
  BY <1>7, <1>10 DEF PullSkip
<1>11. CASE \E n \in Notes : PullFetch(l, n)
  BY <1>7, <1>11 DEF PullFetch
<1>12. CASE PullRead(l)
  BY <1>7, <1>12 DEF PullRead
<1>13. CASE PullAttachments(l)
  BY <1>7, <1>13 DEF PullAttachments
<1> QED
  BY <1>6, <1>8, <1>9, <1>10, <1>11, <1>12, <1>13 DEF Pull

\* Every step of the push keeps what is known of the session.
LEMMA PushOK ==
  ASSUME StampInv, TypeInv', NEW l \in Links, SessionOK(l), Push(l)
  PROVE  SessionOK(l)'
<1> DEFINE s == sess[l]  t == sess'[l]  mine == store[l[1]]  theirs == store[l[2]]
           box == outbox[l[1]]
<1>1. /\ s \in Sessions /\ t \in Sessions /\ sess \in [Links -> Sessions]
      /\ l[1] \in Dev /\ l[2] \in Dev /\ l[1] # l[2]
      /\ Setting(s, mine, theirs)
  BY SessionFields, LinkEnds, SessionSetting DEF StampInv, TypeInv, TypeOK
<1>2. s.todo \in SUBSET Notes /\ (s.pc \in Working => s.note \in Notes)
  BY <1>1 DEF Sessions, StampInv, TypeInv, NoteNamed
<1>3. ASSUME faults' = 0 PROVE faults = 0
  BY <1>3, FaultsCount DEF StampInv
<1> SUFFICES ASSUME faults' = 0
             PROVE  Progress(t, store'[l[1]], store'[l[2]], outbox'[l[1]])
  BY SessionNext
<1>4. Progress(s, mine, theirs, box)
  BY <1>3 DEF SessionOK
<1>5. HeadsOf(mine) = Catalog(l[1]) /\ HeadsOf(theirs) = Catalog(l[2])
  BY DEF HeadsOf, Catalog
<1>6. CASE PushCommit(l)
  <2>1. s.pc = "pushCommit" /\ s.note \in Notes /\ s.basis = theirs[s.note]
    BY <1>2, <1>4, <1>6 DEF PushCommit, Progress, PushProgress, Working
  <2>2. /\ store'[l[2]] = [theirs EXCEPT ![s.note] = MergedCopy(s.basis, s.snap)]
        /\ store'[l[1]] = mine
    <3>1. ApplyAt(l[2], s.note, store[l[2]][s.note], s.snap)
      BY <1>6, <2>1 DEF PushCommit
    <3>2. /\ store'[l[2]] = [store[l[2]] EXCEPT ![s.note] =
                                          MergedCopy(store[l[2]][s.note], s.snap)]
          /\ store'[l[1]] = store[l[1]]
      <4> HIDE DEF s
      <4> QED
        BY <1>1, <2>1, <3>1, MergeWrites
    <3> QED
      BY <2>1, <3>2
  <2>3. /\ t.pc = "pushAtt" /\ t.rcat = s.rcat /\ t.lcat = s.lcat /\ t.todo = s.todo
        /\ t.note = s.note /\ t.failed = s.failed /\ outbox' = outbox
    BY <1>1, <1>6 DEF PushCommit, Sessions
  <2> HIDE DEF s, t, mine, theirs
  <2> QED
    BY <1>1, <1>4, <2>1, <2>2, <2>3, PushCommits
<1>7. CASE PushStart(l)
  <2>1. /\ s.pc = "pull" /\ s.todo = {} /\ t.pc = "pushLocal" /\ t.rcat = HeadsOf(theirs)
        /\ store' = store /\ outbox' = outbox
    BY <1>1, <1>5, <1>7 DEF PushStart, Sessions
  <2> HIDE DEF s, t, mine, theirs
  <2>2. Progress(t, mine, theirs, box)
    BY <1>1, <1>4, <2>1, PullKeeps
  <2> QED
    BY <2>1, <2>2 DEF mine, theirs
<1>8. ASSUME store' = store, outbox' = outbox, t.failed = s.failed,
         \/ /\ s.pc = "pushLocal" /\ t.pc = "push" /\ t.rcat = s.rcat
            /\ t.lcat = HeadsOf(mine) /\ t.todo = Known(HeadsOf(mine))
         \/ \E n \in s.todo :
              /\ s.pc = "push" /\ ~NeedsPush(s.lcat[n], s.rcat[n])
              /\ t.pc = "push" /\ t.rcat = s.rcat /\ t.lcat = s.lcat /\ t.todo = s.todo \ {n}
         \/ \E n \in s.todo :
              /\ s.pc = "push" /\ NeedsPush(s.lcat[n], s.rcat[n])
              /\ t.pc = "pushRead" /\ t.rcat = s.rcat /\ t.lcat = s.lcat
              /\ t.todo = s.todo \ {n} /\ t.note = n /\ t.snap = mine[n]
         \/ /\ s.pc = "pushRead" /\ t.pc = "pushCommit" /\ t.rcat = s.rcat /\ t.lcat = s.lcat
            /\ t.todo = s.todo /\ t.note = s.note /\ t.snap = s.snap /\ t.basis = theirs[s.note]
      PROVE Progress(t, store'[l[1]], store'[l[2]], outbox'[l[1]])
  <2> HIDE DEF s, t, mine, theirs
  <2>1. Progress(t, mine, theirs, box)
    BY <1>1, <1>4, <1>8, PushKeeps
  <2> QED
    BY <1>8, <2>1 DEF mine, theirs
<1>9. ASSUME store' = store, outbox' = outbox,
         \/ /\ s.pc = "pushAtt" /\ t.pc = "verify" /\ t.note = s.note /\ t.rcat = s.rcat
            /\ t.lcat = s.lcat /\ t.todo = s.todo /\ t.failed = s.failed
         \/ /\ s.pc = "verify" /\ t.rcat = s.rcat /\ t.lcat = s.lcat /\ t.todo = s.todo
            /\ \/ /\ t.pc = "ackCheck" /\ t.failed = s.failed
                  /\ Att = {} => Synced(mine[s.note], theirs[s.note])
               \/ t.pc = "push" /\ t.failed # {}
      PROVE Progress(t, store'[l[1]], store'[l[2]], outbox'[l[1]])
  <2> HIDE DEF s, t, mine, theirs
  <2>1. Progress(t, mine, theirs, box)
    BY <1>1, <1>4, <1>9, AckKeeps
  <2> QED
    BY <1>9, <2>1 DEF mine, theirs
<1> USE <1>1 DEF Sessions
<1>10. CASE PushCatalog(l)
  BY <1>5, <1>8, <1>10 DEF PushCatalog
<1>11. CASE \E n \in Notes : PushSkip(l, n)
  BY <1>8, <1>11 DEF PushSkip
<1>12. CASE \E n \in Notes : PushExport(l, n)
  BY <1>8, <1>12 DEF PushExport
<1>13. CASE PushRead(l)
  BY <1>8, <1>13 DEF PushRead
<1>14. CASE PushAttachments(l)
  BY <1>9, <1>14 DEF PushAttachments
<1>15. CASE PushVerify(l)
  <2>1. s.pc = "verify" /\ s.note \in Notes
    BY <1>2, <1>15 DEF PushVerify, Working
  <2>2. FullySynced(l[1], l[2], s.note) /\ Att = {} => Synced(mine[s.note], theirs[s.note])
    BY <2>1, SyncedMeans DEF StampInv, TypeInv
  <2>3. /\ t.rcat = s.rcat /\ t.lcat = s.lcat /\ t.todo = s.todo
        /\ store' = store /\ outbox' = outbox
    BY <1>15 DEF PushVerify
  <2>4. CASE FullySynced(l[1], l[2], s.note)
    <3>1. t.pc = "ackCheck" /\ t.failed = s.failed
      BY <1>15, <2>4 DEF PushVerify
    <3> QED
      BY <1>9, <2>1, <2>2, <2>3, <2>4, <3>1
  <2>5. CASE ~FullySynced(l[1], l[2], s.note)
    <3>1. t.pc = "push" /\ s.note \in t.failed
      BY <1>15, <2>5 DEF PushVerify
    <3> QED
      BY <1>9, <2>1, <2>3, <3>1
  <2> QED
    BY <2>4, <2>5
<1> QED
  BY <1>6, <1>7, <1>10, <1>11, <1>12, <1>13, <1>14, <1>15 DEF Push

\* Every step of the acknowledgement keeps what is known of the session.
LEMMA AckOK ==
  ASSUME StampInv, TypeInv', NEW l \in Links, SessionOK(l), Acknowledge(l)
  PROVE  SessionOK(l)'
<1> DEFINE s == sess[l]  t == sess'[l]  mine == store[l[1]]  theirs == store[l[2]]
           box == outbox[l[1]]  left == outbox'[l[1]]
<1>1. /\ s \in Sessions /\ t \in Sessions /\ sess \in [Links -> Sessions]
      /\ l[1] \in Dev /\ l[2] \in Dev /\ l[1] # l[2]
      /\ Setting(s, mine, theirs) /\ outbox \in [Dev -> SUBSET Entries]
  BY SessionFields, LinkEnds, SessionSetting DEF StampInv, TypeInv, TypeOK
<1>2. s.pend \in SUBSET Entries /\ (s.pc \in Working => s.note \in Notes)
  BY <1>1 DEF Sessions, StampInv, TypeInv, NoteNamed
<1>3. ASSUME faults' = 0 PROVE faults = 0
  BY <1>3, FaultsCount DEF StampInv
<1> SUFFICES ASSUME faults' = 0
             PROVE  Progress(t, store'[l[1]], store'[l[2]], left)
  BY SessionNext
<1>4. Progress(s, mine, theirs, box)
  BY <1>3 DEF SessionOK
<1>5. \A n \in Notes : Att = {} =>
        (FullySynced(l[1], l[2], n) <=> Synced(mine[n], theirs[n]))
  BY <1>1, SyncedMeans DEF StampInv, TypeInv
<1>6. store' = store
  BY DEF Acknowledge, AckCheck, AckRemove, AckStart, AckEntry, Report, Close
<1>7. ASSUME left \subseteq box,
         \/ /\ s.pc = "ackCheck" /\ t.rcat = s.rcat /\ t.lcat = s.lcat /\ t.todo = s.todo
            /\ t.failed = s.failed
            /\ \/ t.pc = "ackRemove" /\ (Att = {} => Synced(mine[s.note], theirs[s.note]))
               \/ t.pc = "push"
         \/ /\ s.pc = "ackRemove" /\ t.pc = "push" /\ t.rcat = s.rcat
            /\ t.lcat = s.lcat /\ t.todo = s.todo /\ t.failed = s.failed
         \/ /\ s.pc = "push" /\ s.todo = {} /\ t.pc = "ack" /\ t.pend = box
            /\ t.failed = s.failed
         \/ \E e \in s.pend :
              /\ s.pc = "ack" /\ t.pc = "ack" /\ t.pend = s.pend \ {e} /\ t.failed = s.failed
              /\ Att = {} /\ Synced(mine[e.note], theirs[e.note]) => e \notin left
         \/ s.pc = "ack" /\ s.pend = {} /\ t.pc = "done" /\ t.failed = s.failed
         \/ t.pc = "idle"
      PROVE Progress(t, store'[l[1]], store'[l[2]], left)
  <2> HIDE DEF s, t, mine, theirs, box, left
  <2>1. Progress(t, mine, theirs, left)
    BY <1>1, <1>4, <1>7, AckKeeps
  <2> QED
    BY <1>6, <2>1 DEF mine, theirs
<1> USE <1>1 DEF Sessions
<1>8. CASE AckCheck(l)
  <2>1. s.pc = "ackCheck" /\ s.note \in Notes
    BY <1>2, <1>8 DEF AckCheck, Working
  <2>2. /\ t.rcat = s.rcat /\ t.lcat = s.lcat /\ t.todo = s.todo /\ t.failed = s.failed
        /\ outbox' = outbox
        /\ t.pc = IF FullySynced(l[1], l[2], s.note) THEN "ackRemove" ELSE "push"
    BY <1>8 DEF AckCheck
  <2> QED
    BY <1>5, <1>7, <2>1, <2>2
<1>9. CASE AckRemove(l)
  <2>1. left \subseteq box
    BY <1>9 DEF AckRemove
  <2> QED
    BY <1>7, <1>9, <2>1 DEF AckRemove
<1>10. CASE AckStart(l)
  BY <1>7, <1>10 DEF AckStart
<1>11. CASE \E e \in s.pend : AckEntry(l, e)
  <2>1. PICK e \in s.pend : AckEntry(l, e)
    BY <1>11
  <2>2. e.note \in Notes
    BY <1>2, <2>1 DEF Entries
  <2>3. left = IF FullySynced(l[1], l[2], e.note) THEN box \ {e} ELSE box
    BY <2>1 DEF AckEntry
  <2>4. Att = {} /\ Synced(mine[e.note], theirs[e.note]) => e \notin left
    BY <1>5, <2>2, <2>3
  <2>5. s.pc = "ack" /\ t.pc = "ack" /\ t.pend = s.pend \ {e} /\ t.failed = s.failed
    BY <2>1 DEF AckEntry
  <2>6. left \subseteq box
    BY <2>3
  <2> HIDE DEF s, t, mine, theirs, box, left
  <2> QED
    BY <1>7, <2>1, <2>4, <2>5, <2>6
<1>12. CASE Report(l)
  BY <1>7, <1>12 DEF Report
<1>13. CASE Close(l)
  BY <1>7, <1>13 DEF Close, IdleSession
<1> QED
  BY <1>8, <1>9, <1>10, <1>11, <1>12, <1>13 DEF Acknowledge

\* Nothing is known of a session that is not under way.
LEMMA IdleProgress ==
  ASSUME NEW s, s.pc = "idle", NEW mine, NEW theirs, NEW box
  PROVE  Progress(s, mine, theirs, box)
BY DEF Progress, PullProgress, PushProgress, AckProgress, PullPhases, PushPhases

\* Where one thing happens at a time, no session is under way when a user acts.
LEMMA UserAlone ==
  ASSUME Interleaving = "serial", TypeInv, Alone, NEW d \in Dev, User(d)
  PROVE  /\ sess' = sess /\ \A l \in Links : sess[l].pc = "idle"
         /\ Alone'
<1>1. usr \in [Dev -> UserOps]
  BY DEF TypeInv, TypeOK
<1>2. sess' = sess
  BY DEF User, CreateNote, BeginOp, CommitEdit, CommitAttach, CommitDelete, CommitRestore,
         CommitPurge
<1>3. Quiet \/ usr[d].op # "none"
  BY DEF User, CreateNote, BeginOp, MayStart, CommitEdit, CommitAttach, CommitDelete,
         CommitRestore, CommitPurge
<1>4. \A l \in Links : sess[l].pc = "idle"
  BY <1>3 DEF Quiet, Alone
<1> QED
  BY <1>2, <1>4 DEF Alone

\* Sessions leave the users' operations alone.
LEMMA SessionKeepsUsers ==
  ASSUME NEW l \in Links,
         \/ StartSession(l) \/ Pull(l) \/ Push(l) \/ Acknowledge(l)
         \/ PushFault(l) \/ Abort(l)
  PROVE  usr' = usr
BY DEF StartSession, Pull, PullCatalog, PullSkip, PullFetch, PullRead, PullCommit,
       PullAttachments, Push, PushStart, PushCatalog, PushSkip, PushExport, PushRead,
       PushCommit, PushAttachments, PushVerify, Acknowledge, AckCheck, AckRemove,
       AckStart, AckEntry, Report, Close, PushFault, Abort

\* Where one thing happens at a time, a session that takes a step is the only one.
LEMMA SessionAlone ==
  ASSUME Interleaving = "serial", TypeInv, Alone, NEW l \in Links,
         \/ StartSession(l) \/ Pull(l) \/ Push(l) \/ Acknowledge(l)
         \/ PushFault(l) \/ Abort(l)
  PROVE  /\ \A k \in Links \ {l} : sess[k].pc = "idle" /\ sess'[k] = sess[k]
         /\ Alone'
<1>1. sess \in [Links -> Sessions] /\ sess' = [sess EXCEPT ![l] = sess'[l]]
  BY OneSessionMoves DEF TypeInv, TypeOK
<1>2. usr' = usr
  BY SessionKeepsUsers
<1>3. Quiet \/ sess[l].pc # "idle"
  BY DEF StartSession, MayStart, Pull, PullCatalog, PullSkip, PullFetch, PullRead, PullCommit,
         PullAttachments, Push, PushStart, PushCatalog, PushSkip, PushExport, PushRead,
         PushCommit, PushAttachments, PushVerify, Acknowledge, AckCheck, AckRemove,
         AckStart, AckEntry, Report, Close, PushFault, Abort
<1>4. /\ \A k \in Links \ {l} : sess[k].pc = "idle"
      /\ \A d \in Dev : usr[d].op = "none"
  BY <1>3 DEF Quiet, Alone
<1>5. \A k \in Links \ {l} : sess'[k] = sess[k]
  BY <1>1
<1> QED
  BY <1>2, <1>4, <1>5 DEF Alone

\* What is known of the sessions is inductive.
LEMMA StepSerial ==
  ASSUME Interleaving = "serial", Clocks # "coarse",
         StampInv, BasisRead, SerialInv, [Next]_vars
  PROVE  StampInv' /\ BasisRead' /\ SerialInv'
<1>1. StampInv' /\ BasisRead' /\ TypeInv /\ TypeInv'
  BY StepStamp DEF StampInv
<1>2. Alone /\ \A l \in Links : SessionOK(l)
  BY DEF SerialInv
<1>3. ASSUME NEW d \in Dev, User(d)
      PROVE  SerialInv'
  <2>1. sess' = sess /\ (\A l \in Links : sess[l].pc = "idle") /\ Alone'
    BY <1>1, <1>2, <1>3, UserAlone
  <2>2. ASSUME NEW l \in Links PROVE SessionOK(l)'
    <3>1. sess'[l].pc = "idle"
      BY <2>1
    <3>2. Progress(sess'[l], store'[l[1]], store'[l[2]], outbox'[l[1]])
      BY <3>1, IdleProgress
    <3> QED
      BY <3>2, SessionNext
  <2> QED
    BY <2>1, <2>2 DEF SerialInv
<1>4. ASSUME NEW l \in Links,
             \/ StartSession(l) \/ Pull(l) \/ Push(l) \/ Acknowledge(l)
             \/ PushFault(l) \/ Abort(l)
      PROVE  SerialInv'
  <2>1. (\A k \in Links \ {l} : sess[k].pc = "idle" /\ sess'[k] = sess[k]) /\ Alone'
    BY <1>1, <1>2, <1>4, SessionAlone
  <2>2. SessionOK(l)'
    <3>1. CASE PushFault(l) \/ Abort(l)
      <4>1. faults' # 0
        BY <1>1, <1>4, <3>1, FaultsCount
      <4> QED
        BY <4>1, SessionNext
    <3> QED
      BY <1>1, <1>2, <1>4, <3>1, PullOK, PushOK, AckOK
  <2>3. ASSUME NEW k \in Links, k # l PROVE SessionOK(k)'
    <3>1. sess'[k].pc = "idle"
      BY <2>1, <2>3
    <3>2. Progress(sess'[k], store'[k[1]], store'[k[2]], outbox'[k[1]])
      BY <3>1, IdleProgress
    <3> QED
      BY <3>2, SessionNext
  <2>4. ASSUME NEW k \in Links PROVE SessionOK(k)'
    <3>1. CASE k = l
      BY <2>2, <3>1
    <3> QED
      BY <2>3, <3>1
  <2> QED
    BY <2>1, <2>4 DEF SerialInv
<1>5. CASE UNCHANGED vars
  <2>1. Alone'
    BY <1>2, <1>5 DEF vars, Alone
  <2>2. ASSUME NEW l \in Links PROVE SessionOK(l)'
    BY <1>2, <1>5, SessionNext DEF vars, SessionOK
  <2> QED
    BY <1>1, <2>1, <2>2 DEF SerialInv
<1>6. SerialInv'
  BY <1>3, <1>4, <1>5 DEF Next
<1> QED
  BY <1>1, <1>6

\* It holds in every state.
LEMMA SerialAlways ==
  ASSUME Interleaving = "serial", Clocks # "coarse"
  PROVE  Spec => []SerialInv
<1>1. Init => StampInv /\ BasisRead /\ SerialInv
  <2> SUFFICES ASSUME Init PROVE BasisRead /\ SerialInv
    BY InitStamp
  <2>1. \A l \in Links : sess[l].pc = "idle" /\ sess[l].basis = Absent
    BY DEF Init, IdleSession
  <2>2. \A l \in Links : SessionOK(l)
    BY <2>1, IdleProgress DEF SessionOK
  <2> QED
    BY <2>1, <2>2 DEF BasisRead, SerialInv, Alone
<1>2. StampInv /\ BasisRead /\ SerialInv /\ [Next]_vars
        => StampInv' /\ BasisRead' /\ SerialInv'
  BY StepSerial
<1> QED
  BY <1>1, <1>2, PTL DEF Spec

\* A session during which nothing else happens on its two devices, and no call
\* fails, reports its result only when both have the same content of every note:
\* pulling what the peer has newer, then pushing what it lacks, misses nothing.
\* Where two writes can carry the same instant this is not so.
THEOREM SessionAlwaysReconciles ==
  Clocks # "coarse" => (Spec => []SessionReconciles)
<1> SUFFICES ASSUME Clocks # "coarse" PROVE Spec => []SessionReconciles
  OBVIOUS
<1>1. CASE Interleaving = "serial"
  <2>1. SerialInv => SessionReconciles
    BY DEF SerialInv, SessionOK, Progress, PushProgress, SessionReconciles
  <2> QED
    BY <1>1, <2>1, SerialAlways, PTL
<1>2. CASE Interleaving # "serial"
  <2>1. SessionReconciles
    BY <1>2 DEF SessionReconciles
  <2> QED
    BY <2>1, PTL
<1> QED
  BY <1>1, <1>2

\* If such a session reports no failed note it has also acknowledged the whole
\* outbox, when notes have no attachments.
THEOREM SessionAlwaysDrains ==
  Clocks # "coarse" /\ Att = {} => (Spec => []SessionDrainsOutbox)
<1> SUFFICES ASSUME Clocks # "coarse", Att = {} PROVE Spec => []SessionDrainsOutbox
  OBVIOUS
<1>1. CASE Interleaving = "serial"
  <2>1. SerialInv => SessionDrainsOutbox
    BY DEF SerialInv, SessionOK, Progress, AckProgress, SessionDrainsOutbox
  <2> QED
    BY <1>1, <2>1, SerialAlways, PTL
<1>2. CASE Interleaving # "serial"
  <2>1. SessionDrainsOutbox
    BY <1>2 DEF SessionDrainsOutbox
  <2> QED
    BY <2>1, PTL
<1> QED
  BY <1>1, <1>2

-----------------------------------------------------------------------------
(* Acknowledgements.  tryAckOutboxForRemoteNote removes rows some time after *)
(* it has found the note on the peer.  What it found still holds then: the   *)
(* device's own copy has not moved, because the removal ends a span, and the *)
(* peer's copy has only given way to a newer one.                            *)

\* The exception AckOnlyWhenDelivered makes.
PurgesApart == "purge" \in Ops => Interleaving = "serial"

\* No copy in the trash lists attachments, an attachment is added to no note in the
\* trash, and tombstones come from purges only.
HeldTidy ==
  \A n \in Notes : \A c \in HeldCopies(n) :
    (c.deleted => c.atts = {}) /\ (c.kind = "tombstone" => "purge" \in Ops)
AttachesToLive == \A d \in Dev : usr[d].op = "attach" => ~usr[d].basis.deleted
TidyInv == HeldTidy /\ AttachesToLive

\* A note that is about to be acknowledged is on the peer.
CheckedIsDelivered ==
  \A l \in Links : sess[l].pc = "ackRemove" => Delivered(l[1], l[2], sess[l].note)

\* In the beginning every held copy is the absent one.
LEMMA InitTidy == Init => TidyInv
<1> SUFFICES ASSUME Init PROVE TidyInv
  OBVIOUS
<1>1. Absent.deleted = FALSE /\ Absent.kind = "absent" /\ NoOp.basis = Absent
  BY DEF Absent, NoOp
<1>2. ASSUME NEW n \in Notes, NEW c \in HeldCopies(n) PROVE c = Absent
  <2>1. \A d \in Dev : store[d][n] = Absent /\ usr[d].basis = Absent
    BY <1>1 DEF Init
  <2>2. \A l \in Links : sess[l].snap = Absent /\ sess[l].basis = Absent
    BY DEF Init, IdleSession
  <2> QED
    BY <1>2, <2>1, <2>2 DEF HeldCopies
<1>3. \A d \in Dev : usr[d].basis = Absent
  BY <1>1 DEF Init
<1> QED
  BY <1>1, <1>2, <1>3 DEF TidyInv, HeldTidy, AttachesToLive

\* A local write of a tidy copy keeps the others tidy.
LEMMA WriteTidy ==
  ASSUME TypeInv, TidyInv, NEW d \in Dev, NEW n \in Notes, NEW f,
         f.deleted => f.atts = {}, f.kind = "tombstone" => "purge" \in Ops,
         store' = [store EXCEPT ![d][n] = f],
         usr' = usr \/ usr' = [usr EXCEPT ![d] = NoOp], sess' = sess
  PROVE  TidyInv'
<1>1. store \in [Dev -> [Notes -> Copies]] /\ usr \in [Dev -> UserOps]
  BY DEF TypeInv, TypeOK
<1>2. \A e \in Dev : usr'[e] = usr[e] \/ usr'[e] = NoOp
  BY <1>1
<1>3. NoOp.note = NoNote /\ NoOp.op = "none"
  BY DEF NoOp
<1>4. ASSUME NEW m \in Notes, NEW c \in HeldCopies(m)'
      PROVE  c = f \/ c \in HeldCopies(m)
  <2>1. \A e \in Dev : store'[e][m] = f \/ store'[e][m] = store[e][m]
    BY <1>1
  <2>2. \A e \in Dev : usr'[e].note = m => usr'[e] = usr[e]
    BY <1>2, <1>3, NoteAssumption
  <2> QED
    BY <1>4, <2>1, <2>2 DEF HeldCopies
<1>5. HeldTidy'
  BY <1>4 DEF TidyInv, HeldTidy
<1>6. AttachesToLive'
  BY <1>2, <1>3 DEF TidyInv, AttachesToLive
<1> QED
  BY <1>5, <1>6 DEF TidyInv

\* Every operation of a user keeps the copies tidy: a delete empties the attachment
\* list, what edits a note in the trash adds nothing to it, a purge is one of Ops.
LEMMA UserTidy ==
  ASSUME TypeInv, TidyInv, NEW d \in Dev, User(d)
  PROVE  TidyInv'
<1> DEFINE n == usr[d].note  c == usr[d].basis
<1>1. usr[d].op # "none" =>
        n \in Notes /\ c.deleted \in BOOLEAN /\ (c.deleted => c.atts = {})
  <2>1. n \in Notes => c \in HeldCopies(n)
    BY DEF HeldCopies
  <2> QED
    BY <2>1, CommitBasis DEF TidyInv, HeldTidy
<1>2. ASSUME usr[d].op # "none", usr' = [usr EXCEPT ![d] = NoOp], sess' = sess,
             NEW f, store' = [store EXCEPT ![d][n] = f],
             f.deleted => f.atts = {}, f.kind = "tombstone" => "purge" \in Ops
      PROVE  TidyInv'
  BY <1>1, <1>2, WriteTidy
<1>3. CASE \E m \in Notes : CreateNote(d, m)
  <2>1. PICK m \in Notes, t \in NextStamps(0), b \in Bodies :
          store' = [store EXCEPT ![d][m] = Note(t, b, {}, FALSE)] /\ UNCHANGED <<usr, sess>>
    BY <1>3 DEF CreateNote, Persist
  <2> DEFINE f == Note(t, b, {}, FALSE)
  <2>2. store' = [store EXCEPT ![d][m] = f] /\ usr' = usr /\ sess' = sess
    BY <2>1
  <2>3. ~f.deleted /\ f.kind # "tombstone"
    BY DEF Note
  <2> HIDE DEF f
  <2> QED
    BY <2>2, <2>3, WriteTidy
<1>4. CASE \E m \in Notes, op \in Ops : BeginOp(d, m, op)
  <2>1. PICK m \in Notes, op \in Ops : BeginOp(d, m, op)
    BY <1>4
  <2>2. /\ usr \in [Dev -> UserOps]
        /\ usr' = [usr EXCEPT ![d] = [op |-> op, note |-> m, basis |-> store[d][m]]]
        /\ UNCHANGED <<store, sess>>
        /\ op = "attach" => ~store[d][m].deleted
    BY <2>1 DEF BeginOp, CanBegin, TypeInv, TypeOK
  <2>3. \A k \in Notes : HeldCopies(k)' \subseteq HeldCopies(k)
    BY <2>2 DEF HeldCopies
  <2>4. AttachesToLive'
    BY <2>2 DEF TidyInv, AttachesToLive
  <2> QED
    BY <2>3, <2>4 DEF TidyInv, HeldTidy
<1>5. CASE CommitEdit(d)
  <2>1. PICK t \in NextStamps(c.ts), b \in Bodies :
          store' = [store EXCEPT ![d][n] = Note(t, b, c.atts, c.deleted)]
    BY <1>5 DEF CommitEdit, Persist
  <2>2. usr[d].op # "none" /\ usr' = [usr EXCEPT ![d] = NoOp] /\ sess' = sess
    BY <1>5 DEF CommitEdit
  <2> DEFINE f == Note(t, b, c.atts, c.deleted)
  <2>3. (f.deleted => f.atts = {}) /\ (f.kind = "tombstone" => "purge" \in Ops)
    BY <1>1, <2>2 DEF Note
  <2>4. store' = [store EXCEPT ![d][n] = f] /\ usr[d].op # "none"
    BY <2>1, <2>2
  <2> HIDE DEF f
  <2> QED
    BY <1>2, <2>2, <2>3, <2>4
<1>6. CASE CommitAttach(d)
  <2>1. PICK t \in NextStamps(c.ts), a \in Att \ c.atts :
          store' = [store EXCEPT ![d][n] = Note(t, c.body, c.atts \cup {a}, c.deleted)]
    BY <1>6 DEF CommitAttach, Persist
  <2>2. usr[d].op = "attach" /\ usr' = [usr EXCEPT ![d] = NoOp] /\ sess' = sess
    BY <1>6 DEF CommitAttach
  <2>3. ~c.deleted
    BY <2>2 DEF TidyInv, AttachesToLive
  <2> DEFINE f == Note(t, c.body, c.atts \cup {a}, c.deleted)
  <2>4. (f.deleted => f.atts = {}) /\ (f.kind = "tombstone" => "purge" \in Ops)
    BY <2>3 DEF Note
  <2>5. store' = [store EXCEPT ![d][n] = f] /\ usr[d].op # "none"
    BY <2>1, <2>2
  <2> HIDE DEF f
  <2> QED
    BY <1>2, <2>2, <2>4, <2>5
<1>7. CASE CommitDelete(d)
  <2>1. PICK t \in NextStamps(c.ts) :
          store' = [store EXCEPT ![d][n] = Note(t, c.body, {}, TRUE)]
    BY <1>7 DEF CommitDelete, Persist
  <2>2. usr[d].op # "none" /\ usr' = [usr EXCEPT ![d] = NoOp] /\ sess' = sess
    BY <1>7 DEF CommitDelete
  <2> DEFINE f == Note(t, c.body, {}, TRUE)
  <2>3. (f.deleted => f.atts = {}) /\ (f.kind = "tombstone" => "purge" \in Ops)
    BY DEF Note
  <2>4. store' = [store EXCEPT ![d][n] = f] /\ usr[d].op # "none"
    BY <2>1, <2>2
  <2> HIDE DEF f
  <2> QED
    BY <1>2, <2>2, <2>3, <2>4
<1>8. CASE CommitRestore(d)
  <2>1. PICK t \in NextStamps(c.ts) :
          store' = [store EXCEPT ![d][n] = Note(t, c.body, c.atts, FALSE)]
    BY <1>8 DEF CommitRestore, Persist
  <2>2. usr[d].op # "none" /\ usr' = [usr EXCEPT ![d] = NoOp] /\ sess' = sess
    BY <1>8 DEF CommitRestore
  <2> DEFINE f == Note(t, c.body, c.atts, FALSE)
  <2>3. (f.deleted => f.atts = {}) /\ (f.kind = "tombstone" => "purge" \in Ops)
    BY DEF Note
  <2>4. store' = [store EXCEPT ![d][n] = f] /\ usr[d].op # "none"
    BY <2>1, <2>2
  <2> HIDE DEF f
  <2> QED
    BY <1>2, <2>2, <2>3, <2>4
<1>9. CASE CommitPurge(d)
  <2>1. PICK t \in NextStamps(c.ts) : store' = [store EXCEPT ![d][n] = Tombstone(t)]
    BY <1>9 DEF CommitPurge
  <2>2. usr[d].op = "purge" /\ usr' = [usr EXCEPT ![d] = NoOp] /\ sess' = sess
    BY <1>9 DEF CommitPurge
  <2>3. "purge" \in Ops /\ Tombstone(t).atts = {}
    BY <2>2 DEF TypeInv, TypeOK, UserOps, Tombstone
  <2> DEFINE f == Tombstone(t)
  <2>4. (f.deleted => f.atts = {}) /\ (f.kind = "tombstone" => "purge" \in Ops)
    BY <2>3 DEF Tombstone
  <2>5. store' = [store EXCEPT ![d][n] = f] /\ usr[d].op # "none"
    BY <2>1, <2>2
  <2> HIDE DEF f
  <2> QED
    BY <1>2, <2>2, <2>4, <2>5
<1> QED
  BY <1>3, <1>4, <1>5, <1>6, <1>7, <1>8, <1>9 DEF User

\* Every step does: a session only moves copies.
LEMMA StepTidy ==
  ASSUME StampInv, BasisRead, TidyInv, [Next]_vars
  PROVE  TidyInv'
<1>1. TypeInv /\ TypeInv'
  BY StepType DEF StampInv
<1>2. ASSUME NEW d \in Dev, User(d) PROVE TidyInv'
  BY <1>1, <1>2, UserTidy
<1>3. ASSUME NEW l \in Links,
             \/ StartSession(l) \/ Pull(l) \/ Push(l) \/ Acknowledge(l)
             \/ PushFault(l) \/ Abort(l)
      PROVE  TidyInv'
  <2>1. \A n \in Notes : HeldCopies(n)' \subseteq HeldCopies(n) \cup {Absent}
    BY <1>1, <1>3, SessionCopies
  <2>2. Absent.deleted = FALSE /\ Absent.kind = "absent"
    BY DEF Absent
  <2>3. HeldTidy'
    BY <2>1, <2>2 DEF TidyInv, HeldTidy
  <2>4. usr' = usr
    BY <1>3, SessionKeepsUsers
  <2> QED
    BY <2>3, <2>4 DEF TidyInv, AttachesToLive
<1>4. CASE UNCHANGED vars
  BY <1>4 DEF vars, TidyInv, HeldTidy, AttachesToLive, HeldCopies
<1> QED
  BY <1>2, <1>3, <1>4 DEF Next

\* What isNoteFullySyncedOnRemote looks at is enough: with the note on the peer in the
\* same or a later version, all attachments of the same version are there.
LEMMA CheckedMeans ==
  ASSUME TypeInv, TidyInv, NEW l \in Links, NEW n \in Notes, FullySynced(l[1], l[2], n)
  PROVE  Delivered(l[1], l[2], n)
<1> DEFINE mine == store[l[1]][n]  theirs == store[l[2]][n]
<1>1. mine \in Copies /\ theirs \in Copies
  BY LinkEnds DEF TypeInv, TypeOK
<1>2. mine.deleted => mine.atts = {}
  BY LinkEnds, HeldMembers DEF TidyInv, HeldTidy
<1>3. CASE Live(mine)
  <2>1. theirs.kind # "absent" /\ theirs.ts >= mine.ts
        /\ (~mine.deleted => mine.atts \subseteq theirs.atts \cap Servable(l[2], n))
    BY <1>3 DEF FullySynced
  <2>2. CASE theirs.kind = "tombstone"
    BY <2>2 DEF Delivered
  <2>3. CASE theirs.kind = "note"
    <3>1. mine.atts \subseteq blob[l[2]][n]
      BY <1>1, <1>2, <2>1, <2>3, CopyFields DEF Servable
    <3> QED
      BY <1>1, <2>1, <3>1, CopyFields DEF Delivered
  <2> QED
    BY <1>1, <2>1, <2>2, <2>3, CopyFields
<1>4. CASE ~Live(mine)
  <2>1. ~Live(theirs)
    BY <1>4 DEF FullySynced
  <2>2. CASE mine.kind = "tombstone"
    BY <2>1, <2>2 DEF Delivered
  <2>3. CASE mine = Absent /\ theirs = Absent
    BY <2>3 DEF Delivered, Absent
  <2>4. CASE theirs.kind = "tombstone"
    BY <2>4 DEF Delivered
  <2> QED
    BY <1>1, <1>4, <2>1, <2>2, <2>3, <2>4, CopyFields DEF Live
<1> QED
  BY <1>3, <1>4

\* A file leaves a folder only when the note's copy gives way to a newer one or to a
\* tombstone.
FilesKept ==
  \A d \in Dev, n \in Notes :
    \/ blob[d][n] \subseteq blob'[d][n]
    \/ store'[d][n].ts > store[d][n].ts
    \/ store'[d][n].kind = "tombstone"

LEMMA UserKeepsFiles ==
  ASSUME Clocks = "global", Interleaving # "free", StampInv, SpanInv,
         NEW d \in Dev, User(d)
  PROVE  FilesKept
<1> DEFINE n == usr[d].note  c == usr[d].basis
<1>1. TypeInv /\ TypeOK
  BY DEF StampInv, TypeInv
<1> USE <1>1 DEF TypeOK
<1>2. CASE CommitDelete(d)
  <2>1. PICK t \in NextStamps(c.ts) :
          store' = [store EXCEPT ![d][n] = Note(t, c.body, {}, TRUE)]
    BY <1>2 DEF CommitDelete, Persist
  <2>2. n \in Notes /\ c = store[d][n] /\ c \in Copies
    BY <1>2, CommitBasis DEF CommitDelete, SpanInv, BasisIsPresent
  <2>3. c = Absent \/ c.ts \in stamps
    BY <2>2, HeldMembers DEF StampInv, HeldStamped
  <2>4. t > c.ts
    BY <2>2, <2>3, NextIsLater
  <2>5. store'[d][n].ts > store[d][n].ts
    BY <2>1, <2>2, <2>4 DEF Note
  <2>6. \A e \in Dev, m \in Notes : (e = d /\ m = n) \/ blob'[e][m] = blob[e][m]
    BY <1>2 DEF CommitDelete
  <2> QED
    BY <2>5, <2>6 DEF FilesKept
<1>3. CASE CommitPurge(d)
  <2>1. n \in Notes
    BY <1>3, CommitBasis DEF CommitPurge
  <2>2. store'[d][n].kind = "tombstone"
    BY <1>3, <2>1 DEF CommitPurge, Tombstone
  <2>3. \A e \in Dev, m \in Notes : (e = d /\ m = n) \/ blob'[e][m] = blob[e][m]
    BY <1>3 DEF CommitPurge
  <2> QED
    BY <2>2, <2>3 DEF FilesKept
<1>4. CASE CommitAttach(d)
  <2>1. PICK a \in Att : blob' = [blob EXCEPT ![d][n] = @ \cup {a}]
    BY <1>4 DEF CommitAttach
  <2> QED
    BY <2>1 DEF FilesKept
<1>5. CASE blob' = blob
  BY <1>5 DEF FilesKept
<1> QED
  BY <1>2, <1>3, <1>4, <1>5 DEF User, CreateNote, BeginOp, CommitEdit, CommitRestore

\* A merge empties a folder only for a tombstone; what arrives from the peer is added.
LEMMA SessionKeepsFiles ==
  ASSUME TypeInv, NEW l \in Links,
         \/ StartSession(l) \/ Pull(l) \/ Push(l) \/ Acknowledge(l)
         \/ PushFault(l) \/ Abort(l)
  PROVE  FilesKept
<1> DEFINE s == sess[l]
<1>1. TypeOK
  BY DEF TypeInv
<1>2. ASSUME NEW d \in Dev, NEW n, NEW offer, Arrive(d, n, offer)
      PROVE  FilesKept
  <2>1. PICK got : blob' = [blob EXCEPT ![d][n] = @ \cup got]
    BY <1>2 DEF Arrive
  <2> QED
    BY <1>1, <2>1 DEF FilesKept, TypeOK
<1>3. ASSUME NEW d \in Dev, s.note \in Notes, ApplyAt(d, s.note, s.basis, s.snap)
      PROVE  FilesKept
  <2> DEFINE n == s.note  won == MergeResult(s.basis, s.snap) = "applied"
  <2>1. \A e \in Dev, m \in Notes : (e = d /\ m = n) \/ blob'[e][m] = blob[e][m]
    BY <1>1, <1>3 DEF ApplyAt, TypeOK
  <2>2. CASE won /\ s.snap.kind = "tombstone"
    <3>1. MergedCopy(s.basis, s.snap) = s.snap
      BY <2>2 DEF MergedCopy, Live
    <3>2. store'[d][n] = s.snap
      BY <1>1, <1>3, <2>2, <3>1 DEF ApplyAt, TypeOK
    <3> QED
      BY <2>1, <2>2, <3>2 DEF FilesKept
  <2>3. CASE ~(won /\ s.snap.kind = "tombstone")
    <3>1. blob'[d][n] = blob[d][n]
      BY <1>1, <1>3, <2>3 DEF ApplyAt, TypeOK
    <3> QED
      BY <2>1, <3>1 DEF FilesKept
  <2> QED
    BY <2>2, <2>3
<1>4. CASE blob' = blob
  BY <1>4 DEF FilesKept
<1>5. s.pc \in Working => s.note \in Notes
  BY SessionFields
<1>6. CASE PullCommit(l)
  BY <1>3, <1>5, <1>6, LinkEnds DEF PullCommit, Working
<1>7. CASE PushCommit(l)
  BY <1>3, <1>5, <1>7, LinkEnds DEF PushCommit, Working
<1>8. CASE (\E n \in Notes : PullSkip(l, n)) \/ PullAttachments(l) \/ PushAttachments(l)
  BY <1>2, <1>8, LinkEnds DEF PullSkip, PullAttachments, PushAttachments
<1> QED
  BY <1>4, <1>6, <1>7, <1>8
     DEF StartSession, Pull, PullCatalog, PullFetch, PullRead, Push, PushStart, PushCatalog,
         PushSkip, PushExport, PushRead, PushVerify, Acknowledge, AckCheck, AckRemove,
         AckStart, AckEntry, Report, Close, PushFault, Abort

\* The removal and a crash are all a session does when it is about to remove rows.
LEMMA RemovalNext ==
  ASSUME TypeInv, NEW l \in Links, sess[l].pc = "ackRemove",
         \/ StartSession(l) \/ Pull(l) \/ Push(l) \/ Acknowledge(l)
         \/ PushFault(l) \/ Abort(l)
  PROVE  (AckRemove(l) \/ Abort(l)) /\ sess'[l].pc # "ackRemove"
<1>1. AckRemove(l) \/ Abort(l)
  BY DEF StartSession, Pull, PullCatalog, PullSkip, PullFetch, PullRead, PullCommit,
         PullAttachments, Push, PushStart, PushCatalog, PushSkip, PushExport, PushRead,
         PushCommit, PushAttachments, PushVerify, Acknowledge, AckCheck, AckStart,
         AckEntry, Report, Close, PushFault
<1> QED
  BY <1>1 DEF AckRemove, Abort, IdleSession, Sessions, TypeInv, TypeOK

\* While a device is between the check and the removal, no step changes its copies, and
\* the only steps of that session are those that leave this point.
LEMMA OwnCopyKept ==
  ASSUME Interleaving # "free", TypeInv, SpanInv, [Next]_vars,
         NEW l \in Links, sess[l].pc = "ackRemove", sess'[l].pc = "ackRemove"
  PROVE  sess'[l] = sess[l] /\ store'[l[1]] = store[l[1]]
<1>1. SpanOn(l, l[1]) /\ l[1] \in Dev /\ usr[l[1]].op = "none"
  BY LinkEnds DEF SpanOn, SpanInv, SpansExclude
<1>2. ASSUME NEW d \in Dev, User(d)
      PROVE  sess'[l] = sess[l] /\ store'[l[1]] = store[l[1]]
  <2>1. sess' = sess
    BY <1>2 DEF User, CreateNote, BeginOp, CommitEdit, CommitAttach, CommitDelete,
                CommitRestore, CommitPurge
  <2>2. CASE d = l[1]
    <3>1. ~MayOpen(d)
      BY <1>1, <2>2, NoSpanMeans
    <3> QED
      BY <1>1, <1>2, <2>2, <3>1 DEF User, CreateNote, BeginOp, CommitEdit, CommitAttach,
                CommitDelete, CommitRestore, CommitPurge
  <2>3. CASE d # l[1]
    <3> USE <1>1, <2>3 DEF TypeInv, TypeOK
    <3>1. CASE \E n \in Notes : CreateNote(d, n)
      BY <2>1, <3>1 DEF CreateNote, Persist
    <3>2. CASE \E n \in Notes, op \in Ops : BeginOp(d, n, op)
      BY <2>1, <3>2 DEF BeginOp
    <3>3. CASE CommitEdit(d)
      BY <2>1, <3>3 DEF CommitEdit, Persist
    <3>4. CASE CommitAttach(d)
      BY <2>1, <3>4 DEF CommitAttach, Persist
    <3>5. CASE CommitDelete(d)
      BY <2>1, <3>5 DEF CommitDelete, Persist
    <3>6. CASE CommitRestore(d)
      BY <2>1, <3>6 DEF CommitRestore, Persist
    <3>7. CASE CommitPurge(d)
      BY <2>1, <3>7 DEF CommitPurge
    <3> QED
      BY <1>2, <3>1, <3>2, <3>3, <3>4, <3>5, <3>6, <3>7 DEF User
  <2> QED
    BY <2>2, <2>3
<1>3. ASSUME NEW k \in Links,
             \/ StartSession(k) \/ Pull(k) \/ Push(k) \/ Acknowledge(k)
             \/ PushFault(k) \/ Abort(k)
      PROVE  sess'[l] = sess[l] /\ store'[l[1]] = store[l[1]]
  <2>1. sess \in [Links -> Sessions] /\ sess' = [sess EXCEPT ![k] = sess'[k]]
    BY <1>3, OneSessionMoves DEF TypeInv, TypeOK
  <2>2. k # l
    BY <1>3, RemovalNext
  <2>3. sess'[l] = sess[l]
    BY <2>1, <2>2
  <2>4. CASE sess[k].pc \in {"pullCommit", "pushCommit"}
    <3>1. SpanOn(k, Target(k)) /\ Target(k) \in Dev
      BY <2>4, LinkEnds DEF SpanOn, Target
    <3>2. Target(k) # l[1]
      BY <1>1, <2>2, <3>1 DEF SpanInv, SpansExclude
    <3>3. PullCommit(k) \/ PushCommit(k) \/ Abort(k)
      BY <1>3, <2>4 DEF StartSession, Pull, PullCatalog, PullSkip, PullFetch, PullRead,
         PullAttachments, Push, PushStart, PushCatalog, PushSkip, PushExport, PushRead,
         PushAttachments, PushVerify, Acknowledge, AckCheck, AckRemove,
         AckStart, AckEntry, Report, Close, PushFault
    <3> USE <1>1, <3>1, <3>2 DEF TypeInv, TypeOK, Target
    <3>4. CASE PullCommit(k)
      BY <2>3, <3>4 DEF PullCommit, ApplyAt
    <3>5. CASE PushCommit(k)
      BY <2>3, <3>5 DEF PushCommit, ApplyAt
    <3>6. CASE Abort(k)
      BY <2>3, <3>6 DEF Abort
    <3> QED
      BY <3>3, <3>4, <3>5, <3>6
  <2>5. CASE sess[k].pc \notin {"pullCommit", "pushCommit"}
    <3>1. store' = store
      BY <1>3, <2>5 DEF StartSession, Pull, PullCatalog, PullSkip, PullFetch, PullRead, PullCommit,
         PullAttachments, Push, PushStart, PushCatalog, PushSkip, PushExport, PushRead,
         PushCommit, PushAttachments, PushVerify, Acknowledge, AckCheck, AckRemove,
         AckStart, AckEntry, Report, Close, PushFault, Abort
    <3> QED
      BY <2>3, <3>1
  <2> QED
    BY <2>4, <2>5
<1>4. CASE UNCHANGED vars
  BY <1>4 DEF vars
<1> QED
  BY <1>2, <1>3, <1>4 DEF Next

\* Without tombstones what was delivered stays delivered: the peer's copy gives way
\* only to a newer one, and its files stay with the copy.
LEMMA DeliveryKept ==
  ASSUME TypeInv, TypeInv', NEW d \in Dev, NEW e \in Dev, NEW n \in Notes,
         Delivered(d, e, n), store'[d] = store[d], Forward, FilesKept,
         store[d][n].kind # "tombstone", store[e][n].kind # "tombstone",
         store'[e][n].kind # "tombstone"
  PROVE  Delivered(d, e, n)'
<1>1. /\ store[d][n] \in Copies /\ store[e][n] \in Copies /\ store'[e][n] \in Copies
      /\ store[d][n].ts \in Nat /\ store[e][n].ts \in Nat /\ store'[e][n].ts \in Nat
  BY CopyFields DEF TypeInv, TypeOK
<1>2. CASE store'[e][n].ts > store[e][n].ts
  BY <1>1, <1>2 DEF Delivered
<1>3. CASE store'[e][n] = store[e][n] /\ blob[e][n] \subseteq blob'[e][n]
  BY <1>1, <1>3 DEF Delivered
<1> QED
  BY <1>2, <1>3 DEF Forward, FilesKept

\* Between the check and the removal nothing else happens, or nothing on the device.
Ordered == \/ Interleaving = "serial" /\ Clocks # "coarse"
           \/ Interleaving = "spans" /\ Clocks = "global"

AckInv == /\ StampInv /\ BasisRead /\ TidyInv
          /\ Interleaving = "serial" => Alone
          /\ Interleaving = "spans" => SpanInv
          /\ CheckedIsDelivered

\* What the check found holds until the removal.
LEMMA StepChecked ==
  ASSUME Ordered, PurgesApart, AckInv, [Next]_vars,
         StampInv', TidyInv', NEW l \in Links, sess'[l].pc = "ackRemove"
  PROVE  Delivered(l[1], l[2], sess[l].note)' /\ sess'[l].note \in Notes
<1> DEFINE n == sess[l].note
<1>1. /\ TypeInv /\ TypeInv' /\ l[1] \in Dev /\ l[2] \in Dev
      /\ sess'[l].note \in Notes
      /\ sess[l].pc \in {"ackRemove", "ackCheck"} => n \in Notes
  BY LinkEnds DEF AckInv, StampInv, TypeInv, NoteNamed, Working
<1>2. CASE sess[l].pc = "ackRemove"
  <2>1. Delivered(l[1], l[2], n)
    BY <1>2 DEF AckInv, CheckedIsDelivered
  <2>2. CASE Interleaving = "spans" /\ "purge" \notin Ops
    <3>0. Clocks = "global" /\ Interleaving # "free" /\ SpanInv /\ StampInv /\ BasisRead
      BY <2>2 DEF Ordered, AckInv
    <3>1. FilesKept /\ Forward
      BY <1>1, <3>0, StepSpan, UserKeepsFiles, SessionKeepsFiles DEF Next, vars, FilesKept
    <3>4. sess'[l] = sess[l] /\ store'[l[1]] = store[l[1]]
      BY <1>1, <1>2, <3>0, OwnCopyKept
    <3>2. /\ store[l[1]][n].kind # "tombstone" /\ store[l[2]][n].kind # "tombstone"
          /\ store'[l[2]][n].kind # "tombstone"
      <4>1. store[l[1]][n] \in HeldCopies(n) /\ store[l[2]][n] \in HeldCopies(n)
        BY <1>1, <1>2, HeldMembers
      <4>2. store'[l[2]][n] \in HeldCopies(n)'
        BY <1>1, <1>2, <3>4 DEF HeldCopies
      <4> QED
        BY <1>1, <1>2, <2>2, <4>1, <4>2 DEF AckInv, TidyInv, HeldTidy
    <3>3. Delivered(l[1], l[2], n)'
      BY <1>1, <1>2, <2>1, <3>1, <3>2, <3>4, DeliveryKept
    <3> QED
      BY <1>1, <3>3, <3>4
  <2>3. CASE Interleaving = "serial"
    <3>1. ASSUME NEW d \in Dev, User(d) PROVE FALSE
      BY <1>1, <1>2, <2>3, <3>1, UserAlone DEF AckInv
    <3>2. ASSUME NEW k \in Links,
                 \/ StartSession(k) \/ Pull(k) \/ Push(k) \/ Acknowledge(k)
                 \/ PushFault(k) \/ Abort(k)
          PROVE  FALSE
      <4>1. k = l
        BY <1>1, <1>2, <2>3, <3>2, SessionAlone DEF AckInv
      <4> QED
        BY <1>1, <1>2, <3>2, <4>1, RemovalNext
    <3>3. UNCHANGED vars
      BY <3>1, <3>2 DEF Next
    <3> QED
      BY <1>1, <2>1, <3>3 DEF vars, Delivered
  <2> QED
    BY <2>2, <2>3 DEF PurgesApart, Ordered
<1>3. CASE sess[l].pc # "ackRemove"
  <2>1. AckCheck(l)
    <3>1. ASSUME NEW d \in Dev, User(d) PROVE sess' = sess
      BY <3>1 DEF User, CreateNote, BeginOp, CommitEdit, CommitAttach, CommitDelete,
                  CommitRestore, CommitPurge
    <3>2. PICK k \in Links :
            \/ StartSession(k) \/ Pull(k) \/ Push(k) \/ Acknowledge(k)
            \/ PushFault(k) \/ Abort(k)
      BY <1>3, <3>1 DEF Next, vars
    <3>3. sess \in [Links -> Sessions] /\ sess' = [sess EXCEPT ![k] = sess'[k]]
      BY <1>1, <3>2, OneSessionMoves DEF TypeInv, TypeOK
    <3>4. k = l
      BY <1>3, <3>3
    <3> USE <1>3, <3>3 DEF Sessions
    <3>5. CASE StartSession(l)
      BY <3>5 DEF StartSession
    <3>6. CASE Pull(l)
      <4>1. CASE PullCatalog(l) \/ PullRead(l)
        BY <4>1 DEF PullCatalog, PullRead
      <4>2. CASE PullCommit(l) \/ PullAttachments(l)
        BY <4>2 DEF PullCommit, PullAttachments
      <4>3. CASE \E m \in Notes : PullSkip(l, m)
        BY <4>3 DEF PullSkip
      <4>4. CASE \E m \in Notes : PullFetch(l, m)
        BY <4>4 DEF PullFetch
      <4> QED
        BY <3>6, <4>1, <4>2, <4>3, <4>4 DEF Pull
    <3>7. CASE Push(l)
      <4>1. CASE PushStart(l) \/ PushCatalog(l) \/ PushRead(l)
        BY <4>1 DEF PushStart, PushCatalog, PushRead
      <4>2. CASE PushCommit(l) \/ PushAttachments(l) \/ PushVerify(l)
        BY <4>2 DEF PushCommit, PushAttachments, PushVerify
      <4>3. CASE \E m \in Notes : PushSkip(l, m)
        BY <4>3 DEF PushSkip
      <4>4. CASE \E m \in Notes : PushExport(l, m)
        BY <4>4 DEF PushExport
      <4> QED
        BY <3>7, <4>1, <4>2, <4>3, <4>4 DEF Push
    <3>8. CASE Acknowledge(l)
      <4>1. CASE AckRemove(l) \/ AckStart(l)
        BY <4>1 DEF AckRemove, AckStart
      <4>2. CASE \E e \in sess[l].pend : AckEntry(l, e)
        BY <4>2 DEF AckEntry
      <4>3. CASE Report(l) \/ Close(l)
        BY <4>3 DEF Report, Close, IdleSession
      <4> QED
        BY <3>8, <4>1, <4>2, <4>3 DEF Acknowledge
    <3>9. CASE PushFault(l) \/ Abort(l)
      BY <3>9 DEF PushFault, Abort, IdleSession
    <3> QED
      BY <3>2, <3>4, <3>5, <3>6, <3>7, <3>8, <3>9
  <2>2. FullySynced(l[1], l[2], n) /\ sess'[l].note = n /\ UNCHANGED <<store, blob>>
    BY <1>1, <2>1 DEF AckCheck, TypeInv, TypeOK, Sessions
  <2>3. Delivered(l[1], l[2], n)
    BY <1>1, <2>1, <2>2, CheckedMeans DEF AckInv, AckCheck
  <2> QED
    BY <1>1, <2>2, <2>3 DEF Delivered
<1> QED
  BY <1>2, <1>3

\* An operation of a user adds a row for its note and leaves those of other notes.
LEMMA UserKeepsPending ==
  ASSUME TypeInv, NEW d \in Dev, User(d), NEW e \in Dev, NEW n \in Notes, Pending(e, n)
  PROVE  Pending(e, n)'
<1>1. outbox \in [Dev -> SUBSET Entries]
  BY DEF TypeInv, TypeOK
<1>2. PICK row \in outbox[e] : row.note = n
  BY DEF Pending
<1>3. CASE outbox' = outbox
  BY <1>2, <1>3 DEF Pending
<1>4. ASSUME NEW m, NEW op, outbox' = [outbox EXCEPT ![d] = Enqueue(d, op, m)]
      PROVE  Pending(e, n)'
  <2>1. CASE e = d /\ m = n
    <3>1. [note |-> n, op |-> op, id |-> writes + 1] \in outbox'[e]
      BY <1>1, <1>4, <2>1 DEF Enqueue
    <3> QED
      BY <3>1 DEF Pending
  <2>2. CASE ~(e = d /\ m = n)
    <3>1. row \in outbox'[e]
      BY <1>1, <1>2, <1>4, <2>2 DEF Enqueue
    <3> QED
      BY <1>2, <3>1 DEF Pending
  <2> QED
    BY <2>1, <2>2
<1>5. CASE CommitPurge(d)
  <2> DEFINE m == usr[d].note
  <2>1. outbox' = [outbox EXCEPT ![d] = {r \in @ : r.note # m}
                     \cup {[note |-> m, op |-> "purge", id |-> writes + 1]}]
    BY <1>5 DEF CommitPurge
  <2>2. CASE e = d /\ m = n
    <3>1. [note |-> n, op |-> "purge", id |-> writes + 1] \in outbox'[e]
      BY <1>1, <2>1, <2>2
    <3> QED
      BY <3>1 DEF Pending
  <2>3. CASE ~(e = d /\ m = n)
    <3>1. row \in outbox'[e]
      BY <1>1, <1>2, <2>1, <2>3
    <3> QED
      BY <1>2, <3>1 DEF Pending
  <2> QED
    BY <2>2, <2>3
<1>6. CASE CommitEdit(d) \/ CommitAttach(d) \/ CommitDelete(d) \/ CommitRestore(d)
  BY <1>4, <1>6 DEF CommitEdit, CommitAttach, CommitDelete, CommitRestore, Persist
<1>7. CASE (\E m \in Notes : CreateNote(d, m)) \/ (\E m \in Notes, op \in Ops : BeginOp(d, m, op))
  BY <1>3, <1>4, <1>7 DEF CreateNote, BeginOp, Persist
<1> QED
  BY <1>5, <1>6, <1>7 DEF User

\* The rows of a note leave an outbox only by an acknowledgement of that note.
LEMMA RowsLeave ==
  ASSUME TypeInv, [Next]_vars, NEW d \in Dev, NEW n \in Notes,
         Pending(d, n), ~Pending(d, n)'
  PROVE  \E l \in Links : /\ l[1] = d
                          /\ \/ sess[l].pc = "ackRemove" /\ sess[l].note = n
                             \/ FullySynced(l[1], l[2], n)
<1>1. outbox \in [Dev -> SUBSET Entries] /\ sess \in [Links -> Sessions]
  BY DEF TypeInv, TypeOK
<1>2. PICK row \in outbox[d] : row.note = n
  BY DEF Pending
<1>3. outbox' # outbox /\ row \notin outbox'[d]
  BY <1>2 DEF Pending
<1>4. PICK l \in Links : \/ StartSession(l) \/ Pull(l) \/ Push(l) \/ Acknowledge(l)
                         \/ PushFault(l) \/ Abort(l)
  BY <1>3, UserKeepsPending DEF Next, vars
<1>5. CASE AckRemove(l)
  BY <1>1, <1>2, <1>3, <1>5, LinkEnds DEF AckRemove
<1>6. ASSUME NEW e \in sess[l].pend, AckEntry(l, e)
      PROVE  l[1] = d /\ FullySynced(l[1], l[2], n)
  <2>1. outbox' = [outbox EXCEPT ![l[1]] =
                     IF FullySynced(l[1], l[2], e.note) THEN @ \ {e} ELSE @]
    BY <1>6 DEF AckEntry
  <2>2. l[1] = d /\ FullySynced(l[1], l[2], e.note)
    BY <1>1, <1>2, <1>3, <2>1, LinkEnds
  <2>3. row = e
    BY <1>1, <1>2, <1>3, <2>1, <2>2
  <2> QED
    BY <1>2, <2>2, <2>3
<1>7. CASE outbox' = outbox
  BY <1>3, <1>7
<1> QED
  BY <1>4, <1>5, <1>6, <1>7
     DEF StartSession, Pull, PullCatalog, PullSkip, PullFetch, PullRead, PullCommit,
         PullAttachments, Push, PushStart, PushCatalog, PushSkip, PushExport, PushRead,
         PushCommit, PushAttachments, PushVerify, Acknowledge, AckCheck, AckStart,
         Report, Close, PushFault, Abort

\* If spans do not overlap and clocks agree, a note leaves the outbox only when some
\* peer has the device's present version of it with all its attachments, or a later one,
\* although tryAckOutboxForRemoteNote checks and removes in two steps and sessions and
\* edits of other devices come between.  If sessions and operations run one at a time
\* it is so with purges too, and with skewed clocks.
THEOREM AcksFollowDelivery == Ordered => (Spec => AckOnlyWhenDelivered)
<1> SUFFICES ASSUME Ordered PROVE Spec => AckOnlyWhenDelivered
  OBVIOUS
<1> DEFINE Acked == PurgesApart => \A d \in Dev, n \in Notes :
             Pending(d, n) /\ ~Pending(d, n)' => \E e \in Dev \ {d} : Delivered(d, e, n)
<1>1. CASE PurgesApart
  <2>1. Init => AckInv
    <3> SUFFICES ASSUME Init PROVE AckInv
      OBVIOUS
    <3>1. \A l \in Links : sess[l].pc = "idle" /\ sess[l].basis = Absent
      BY DEF Init, IdleSession
    <3>2. \A d \in Dev : usr[d].op = "none"
      BY DEF Init, NoOp
    <3>3. SpanInv
      BY <3>1, <3>2 DEF SpanInv, SpansExclude, BasisIsPresent, SpanOn
    <3> QED
      BY <3>1, <3>3, InitStamp, InitTidy DEF AckInv, BasisRead, Alone, CheckedIsDelivered
  <2>2. ASSUME AckInv, [Next]_vars PROVE AckInv'
    <3>1. /\ StampInv' /\ BasisRead'
          /\ Interleaving = "spans" => SpanInv'
      BY <2>2, StepStamp, StepSpan DEF AckInv, Ordered
    <3>2. TidyInv'
      BY <2>2, StepTidy DEF AckInv
    <3>3. ASSUME Interleaving = "serial" PROVE Alone'
      <4>1. TypeInv /\ Alone
        BY <2>2, <3>3 DEF AckInv, StampInv
      <4>2. CASE UNCHANGED vars
        BY <4>1, <4>2 DEF vars, Alone
      <4> QED
        BY <2>2, <3>3, <4>1, <4>2, UserAlone, SessionAlone DEF Next
    <3>4. CheckedIsDelivered'
      <4>1. ASSUME NEW l \in Links, sess'[l].pc = "ackRemove"
            PROVE  Delivered(l[1], l[2], sess[l].note)'
        BY <1>1, <2>2, <3>1, <3>2, <4>1, StepChecked
      <4> QED
        BY <4>1 DEF CheckedIsDelivered
    <3> QED
      BY <3>1, <3>2, <3>3, <3>4 DEF AckInv
  <2>3. ASSUME AckInv, [Next]_vars, NEW d \in Dev, NEW n \in Notes,
               Pending(d, n), ~Pending(d, n)'
        PROVE  \E e \in Dev \ {d} : Delivered(d, e, n)
    <3>1. TypeInv /\ TidyInv
      BY <2>3 DEF AckInv, StampInv
    <3>2. PICK l \in Links : /\ l[1] = d
                             /\ \/ sess[l].pc = "ackRemove" /\ sess[l].note = n
                                \/ FullySynced(l[1], l[2], n)
      BY <2>3, <3>1, RowsLeave
    <3>3. Delivered(l[1], l[2], n)
      BY <2>3, <3>1, <3>2, CheckedMeans DEF AckInv, CheckedIsDelivered
    <3> QED
      BY <3>2, <3>3 DEF Links
  <2>4. AckInv /\ [Next]_vars => [Acked]_vars
    BY <2>3
  <2>5. Spec => [][Acked]_vars
    BY <2>1, <2>2, <2>4, PTL DEF Spec
  <2> QED
    BY <2>5 DEF AckOnlyWhenDelivered, PurgesApart
<1>2. CASE ~PurgesApart
  <2>1. [Acked]_vars
    BY <1>2
  <2>2. [][Acked]_vars
    BY <2>1, PTL
  <2> QED
    BY <2>2 DEF AckOnlyWhenDelivered, PurgesApart
<1> QED
  BY <1>1, <1>2

==================================================================================
