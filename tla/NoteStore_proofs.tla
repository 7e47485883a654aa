--------------------------- MODULE NoteStore_proofs ---------------------------
(***************************************************************************)
(* Proofs about NoteStore, for any notes, any length of the trash, any     *)
(* number of changes and crashes, and the keeper, the writer and programs  *)
(* outside in any order: the variables keep their types, and a row that a  *)
(* reconcile takes for fresh has what its folder has.                      *)
(***************************************************************************)
EXTENDS NoteStore, TLAPS

-----------------------------------------------------------------------------
(* Jobs. *)

Resting == {"idle", "sweep", "list", "clean", "look"}

\* Job w becomes q and the other stays.
Becomes(w, q) ==
  /\ job' \in [Workers -> Job] /\ job'[w] = q
  /\ \A v \in Workers : v # w => job'[v] = job[v]

LEMMA IdleType == Idle \in Job /\ Idle.pc = "idle" /\ Idle.n = NoNote
BY StoreAssumption DEF Idle, Job, Places, NoTimes, Times, Seconds, Ids

LEMMA OneJob ==
  ASSUME TypeOK, NEW w \in Workers, NEW q \in Job, job' = [job EXCEPT ![w] = q]
  PROVE  Becomes(w, q)
BY DEF TypeOK, Becomes

LEMMA EndEffect ==
  ASSUME TypeOK, NEW w \in Workers, End(w)
  PROVE  Becomes(w, Idle)
BY IdleType, OneJob DEF End

LEMMA GotoEffect ==
  ASSUME TypeOK, NEW w \in Workers, NEW pc \in Places, Goto(w, pc)
  PROVE  \E q \in Job : /\ Becomes(w, q) /\ q = [job[w] EXCEPT !.pc = pc]
                        /\ q.pc = pc /\ q.n = job[w].n /\ q.at = job[w].at /\ q.id = job[w].id
                        /\ q.times = job[w].times /\ q.text = job[w].text
<1> DEFINE q == [job[w] EXCEPT !.pc = pc]
<1>1. job \in [Workers -> Job] /\ job[w] \in Job
  BY DEF TypeOK
<1>2. q \in Job /\ q.pc = pc /\ q.n = job[w].n /\ q.at = job[w].at /\ q.id = job[w].id
      /\ q.times = job[w].times /\ q.text = job[w].text
  BY <1>1 DEF Job
<1>3. job' = [job EXCEPT ![w] = q]
  BY <1>1 DEF Goto
<1> QED
  BY <1>2, <1>3, OneJob

LEMMA TurnEffect ==
  ASSUME TypeOK, NEW pc \in Places, Turn(pc)
  PROVE  \E q \in Job : Becomes("keeper", q) /\ q.pc = pc /\ q.n = NoNote
<1> DEFINE q == [Idle EXCEPT !.pc = pc, !.todo = job.keeper.todo, !.scan = job.keeper.scan]
<1>1. "keeper" \in Workers /\ job["keeper"] \in Job
  BY DEF TypeOK, Workers
<1>2. q \in Job /\ q.pc = pc /\ q.n = NoNote
  BY <1>1, IdleType DEF Job
<1>3. job' = [job EXCEPT !["keeper"] = q]
  BY DEF Turn
<1> QED
  BY <1>1, <1>2, <1>3, OneJob

-----------------------------------------------------------------------------
(* Types. *)

\* What is left to show of a step once its job is known.
LEMMA TypeParts ==
  ASSUME TypeOK, NEW w \in Workers, NEW q \in Job, Becomes(w, q),
         q.n = NoNote => q.pc \in Resting,
         meta' \in [Note -> MetaFile \cup {NoFile}],
         text' \in [Note -> TextFile \cup {NoFile}],
         row' \in [Note -> Row \cup {NoRow}],
         stamp' \in [Note -> Seconds], clock' \in Seconds,
         changes' \in Ids, crashes' \in 0..MaxCrashes
  PROVE  TypeOK'
<1>1. \A v \in Workers : job'[v].n = NoNote => job'[v].pc \in Resting
  BY DEF TypeOK, Becomes, Resting
<1> QED
  BY <1>1 DEF TypeOK, Becomes, Resting

LEMMA TimesType ==
  ASSUME TypeOK, NEW n \in Note
  PROVE  TimesOf(n) \in Times
<1>1. NoTimes \in Times
  BY StoreAssumption DEF NoTimes, Times, Seconds
<1>2. /\ meta[n] # NoFile => meta[n] \in MetaFile
      /\ text[n] # NoFile => text[n] \in TextFile
  BY DEF TypeOK
<1> QED
  BY <1>1, <1>2 DEF TimesOf, Times, MetaFile, TextFile

LEMMA CutShortType == TypeOK => CutShort \in MetaFile
BY StoreAssumption DEF TypeOK, CutShort, MetaFile, Ids, Seconds

\* The writer's steps.
LEMMA WriterTypes ==
  ASSUME TypeOK, WriterStep
  PROVE  TypeOK'
<1> DEFINE j == job["writer"]
<1> USE StoreAssumption
<1>1. /\ "writer" \in Workers /\ j \in Job /\ clock \in Seconds
      /\ meta \in [Note -> MetaFile \cup {NoFile}] /\ text \in [Note -> TextFile \cup {NoFile}]
      /\ row \in [Note -> Row \cup {NoRow}] /\ stamp \in [Note -> Seconds]
      /\ changes \in Ids /\ crashes \in 0..MaxCrashes
      /\ (j.n = NoNote => j.pc \in Resting)
      /\ 0 \in Ids
  BY DEF TypeOK, Workers, Resting, Ids
<1>2. j.pc \notin Resting => j.n \in Note
  BY <1>1 DEF Job
<1>3. j.n \in Note /\ j.at \in Seconds /\ j.id \in Ids /\ j.times \in Times /\ j.deleted \in BOOLEAN
  BY <1>1, <1>2 DEF WriterStep, OpenMeta, FillMeta, OpenText, FillText, ReadSignatures, IndexNote,
                    At, Resting, Job
<1>4. CASE OpenMeta
  <2>1. PICK q \in Job : Becomes("writer", q) /\ q.n = j.n
    BY <1>1, <1>4, GotoEffect DEF OpenMeta, Places
  <2>2. meta' \in [Note -> MetaFile \cup {NoFile}]
    BY <1>1, <1>4, CutShortType DEF OpenMeta, WriteMeta
  <2> QED
    BY <1>1, <1>3, <1>4, <2>1, <2>2, TypeParts DEF OpenMeta, bounds
<1>5. CASE FillMeta
  <2>1. PICK q \in Job : Becomes("writer", q) /\ q.n = j.n
    BY <1>1, <1>5, GotoEffect DEF FillMeta, Places
  <2>2. meta' \in [Note -> MetaFile \cup {NoFile}]
    BY <1>1, <1>3, <1>5 DEF FillMeta, WriteMeta, MetaFile
  <2> QED
    BY <1>1, <1>3, <1>5, <2>1, <2>2, TypeParts DEF FillMeta, bounds
<1>6. CASE OpenText
  <2>1. PICK q \in Job : Becomes("writer", q) /\ q.n = j.n
    BY <1>1, <1>6, GotoEffect DEF OpenText, Places
  <2>2. text' \in [Note -> TextFile \cup {NoFile}]
    BY <1>1, <1>3, <1>6 DEF OpenText, WriteText, TextFile
  <2> QED
    BY <1>1, <1>3, <1>6, <2>1, <2>2, TypeParts DEF OpenText, bounds
<1>7. CASE FillText
  <2>1. PICK q \in Job : Becomes("writer", q) /\ q.n = j.n
    BY <1>1, <1>7, GotoEffect DEF FillText, Places
  <2>2. text' \in [Note -> TextFile \cup {NoFile}]
    BY <1>1, <1>3, <1>7 DEF FillText, WriteText, TextFile
  <2> QED
    BY <1>1, <1>3, <1>7, <2>1, <2>2, TypeParts DEF FillText, bounds
<1>8. CASE ReadSignatures
  <2>1. PICK q : q = [j EXCEPT !.times = TimesOf(j.n), !.pc = "index"]
    OBVIOUS
  <2>2. q \in Job /\ q.n = j.n
    BY <1>1, <1>3, <2>1, TimesType DEF Job, Places
  <2>3. job' = [job EXCEPT !["writer"] = q]
    BY <1>1, <1>8, <2>1 DEF ReadSignatures, TypeOK
  <2> QED
    BY <1>1, <1>3, <1>8, <2>2, <2>3, OneJob, TypeParts DEF ReadSignatures, files, bounds
<1>9. CASE IndexNote
  <2>1. Becomes("writer", Idle)
    BY <1>1, <1>9, EndEffect DEF IndexNote
  <2>2. RowOf(j, j.id) \in Row
    BY <1>1, <1>3 DEF RowOf, Row
  <2>3. row' \in [Note -> Row \cup {NoRow}]
    BY <1>1, <1>9, <2>2 DEF IndexNote
  <2> QED
    BY <1>1, <1>9, <2>1, <2>3, IdleType, TypeParts DEF IndexNote, files, bounds, Resting
<1> QED
  BY <1>4, <1>5, <1>6, <1>7, <1>8, <1>9 DEF WriterStep

\* What every type proof of a step starts from.
LEMMA Typed ==
  ASSUME TypeOK
  PROVE  /\ "writer" \in Workers /\ "keeper" \in Workers
         /\ job["writer"] \in Job /\ job["keeper"] \in Job
         /\ clock \in Seconds /\ clock \in Nat
         /\ meta \in [Note -> MetaFile \cup {NoFile}]
         /\ text \in [Note -> TextFile \cup {NoFile}]
         /\ row \in [Note -> Row \cup {NoRow}] /\ stamp \in [Note -> Seconds]
         /\ changes \in Ids /\ crashes \in 0..MaxCrashes /\ 0 \in Ids /\ 0 \in Seconds
         /\ \A w \in Workers : job[w] \in Job /\ (job[w].pc \notin Resting => job[w].n \in Note)
BY StoreAssumption DEF TypeOK, Workers, Resting, Ids, Seconds, Job

\* A job that is at a note has what it needs of the right types.
LEMMA AtNote ==
  ASSUME TypeOK, NEW w \in Workers, job[w].pc \notin Resting
  PROVE  /\ job[w].n \in Note /\ job[w].at \in Seconds /\ job[w].id \in Ids
         /\ job[w].times \in Times /\ job[w].deleted \in BOOLEAN /\ job[w].text \in Ids
BY Typed DEF Job

\* The steps of a purge, of the writer or the keeper.
LEMMA PurgeTypes ==
  ASSUME TypeOK, NEW w \in Workers, PurgeStep(w)
  PROVE  TypeOK'
<1> USE StoreAssumption
<1>1. /\ job[w].n \in Note /\ job[w].at \in Seconds /\ job[w].id \in Ids
  BY AtNote DEF PurgeStep, DropText, OpenTomb, FillTomb, DropRow, At, Resting
<1>2. ASSUME NEW pc \in {"openTomb", "fillTomb", "dropRow"}, Goto(w, pc),
             meta' \in [Note -> MetaFile \cup {NoFile}],
             text' \in [Note -> TextFile \cup {NoFile}], UNCHANGED <<row, bounds>>
      PROVE  TypeOK'
  <2>1. PICK q \in Job : Becomes(w, q) /\ q.n = job[w].n
    BY <1>2, GotoEffect DEF Places
  <2> QED
    BY <1>1, <1>2, <2>1, Typed, TypeParts DEF bounds
<1>3. CASE DropText(w)
  BY <1>2, <1>3, Typed DEF DropText
<1>4. CASE OpenTomb(w)
  <2>1. meta' \in [Note -> MetaFile \cup {NoFile}]
    BY <1>4, Typed, CutShortType DEF OpenTomb, WriteMeta
  <2> QED
    BY <1>2, <1>4, <2>1, Typed DEF OpenTomb
<1>5. CASE FillTomb(w)
  <2>1. meta' \in [Note -> MetaFile \cup {NoFile}]
    BY <1>1, <1>5, Typed DEF FillTomb, WriteMeta, MetaFile
  <2> QED
    BY <1>2, <1>5, <2>1, Typed DEF FillTomb
<1>6. CASE DropRow(w)
  <2>1. \E q \in Job : Becomes(w, q) /\ q.pc \in Resting
    <3>1. CASE w = "writer"
      BY <1>6, <3>1, EndEffect, IdleType DEF DropRow, Resting
    <3>2. CASE w = "keeper"
      BY <1>6, <3>2, TurnEffect DEF DropRow, Resting, Places
    <3> QED
      BY <3>1, <3>2 DEF Workers
  <2>2. row' \in [Note -> Row \cup {NoRow}]
    BY <1>6, Typed DEF DropRow
  <2> QED
    BY <1>6, <2>1, <2>2, Typed, TypeParts DEF DropRow, files, bounds
<1> QED
  BY <1>3, <1>4, <1>5, <1>6 DEF PurgeStep

\* The sweep of the trash.
LEMMA SweepTypes ==
  ASSUME TypeOK, EmptyTrash \/ PurgeExpiredTrash \/ Reconcile \/ PurgeNext \/ SweepDone
  PROVE  TypeOK'
<1> DEFINE j == job["keeper"]
<1> USE StoreAssumption
<1>1. ASSUME NEW todo \in SUBSET Note, NEW scan \in BOOLEAN, Sweep(todo, scan) PROVE TypeOK'
  <2>1. PICK q : q = [Idle EXCEPT !.pc = "sweep", !.todo = todo, !.scan = scan]
    OBVIOUS
  <2>2. q \in Job /\ q.pc \in Resting
    BY <2>1, IdleType DEF Job, Places, Resting
  <2>3. job' = [job EXCEPT !["keeper"] = q]
    BY <1>1, <2>1 DEF Sweep
  <2> QED
    BY <1>1, <2>2, <2>3, Typed, OneJob, TypeParts DEF Sweep, files, bounds
<1>2. CASE PurgeNext
  <2>1. PICK n \in j.todo :
          \/ Torn(n) /\ End("keeper") /\ UNCHANGED stamp
          \/ /\ job' = [job EXCEPT !["keeper"] = [j EXCEPT !.pc = "dropText", !.n = n, !.at = clock,
                                                           !.todo = @ \ {n}]]
             /\ stamp' = [stamp EXCEPT ![n] = IF clock > @ THEN clock ELSE @]
    BY <1>2 DEF PurgeNext
  <2>2. n \in Note
    BY Typed DEF Job
  <2>3. UNCHANGED <<clock, meta, text, row, changes, crashes>>
    BY <1>2 DEF PurgeNext, files
  <2>4. CASE End("keeper") /\ UNCHANGED stamp
    BY <2>3, <2>4, EndEffect, IdleType, Typed, TypeParts DEF Resting
  <2>5. CASE /\ job' = [job EXCEPT !["keeper"] = [j EXCEPT !.pc = "dropText", !.n = n, !.at = clock,
                                                           !.todo = @ \ {n}]]
             /\ stamp' = [stamp EXCEPT ![n] = IF clock > @ THEN clock ELSE @]
    <3>1. PICK q : q = [j EXCEPT !.pc = "dropText", !.n = n, !.at = clock, !.todo = @ \ {n}]
      OBVIOUS
    <3>2. q \in Job /\ q.n = n
      BY <2>2, <3>1, Typed DEF Job, Places
    <3>3. Becomes("keeper", q)
      BY <2>5, <3>1, <3>2, Typed, OneJob
    <3>4. stamp' \in [Note -> Seconds]
      BY <2>2, <2>5, Typed
    <3> QED
      BY <2>2, <2>3, <3>2, <3>3, <3>4, Typed, TypeParts
  <2> QED
    BY <2>1, <2>4, <2>5
<1>3. CASE SweepDone
  <2>1. \E q \in Job : Becomes("keeper", q) /\ q.pc \in Resting
    <3>1. CASE End("keeper")
      BY <3>1, Typed, EndEffect, IdleType DEF Resting
    <3>2. CASE Goto("keeper", "list")
      BY <3>2, Typed, GotoEffect DEF Resting, Places
    <3> QED
      BY <1>3, <3>1, <3>2 DEF SweepDone
  <2> QED
    BY <1>3, <2>1, Typed, TypeParts DEF SweepDone, files, bounds
<1>4. Expired \in SUBSET Note /\ {n \in Note : InTrash(n)} \in SUBSET Note
  BY DEF Expired
<1> QED
  BY <1>1, <1>2, <1>3, <1>4 DEF EmptyTrash, PurgeExpiredTrash, Reconcile

\* The walk over the folders.
LEMMA ScanTypes ==
  ASSUME TypeOK, ListFolders \/ CleanIndex \/ Look \/ LookDone
  PROVE  TypeOK'
<1> DEFINE j == job["keeper"]
<1> USE StoreAssumption
<1>1. CASE ListFolders
  <2>1. PICK q : q = [j EXCEPT !.pc = "clean",
                               !.todo = {n \in Note : meta[n] # NoFile \/ text[n] # NoFile}]
    OBVIOUS
  <2>2. q \in Job /\ q.pc \in Resting
    BY <2>1, Typed DEF Job, Places, Resting
  <2>3. job' = [job EXCEPT !["keeper"] = q]
    BY <1>1, <2>1 DEF ListFolders, TypeOK, Workers
  <2> QED
    BY <1>1, <2>2, <2>3, Typed, OneJob, TypeParts DEF ListFolders, files, bounds
<1>2. CASE CleanIndex
  <2>1. PICK q \in Job : Becomes("keeper", q) /\ q.pc \in Resting
    BY <1>2, Typed, GotoEffect DEF CleanIndex, Resting, Places
  <2>2. row' \in [Note -> Row \cup {NoRow}]
    BY <1>2, Typed DEF CleanIndex
  <2> QED
    BY <1>2, <2>1, <2>2, Typed, TypeParts DEF CleanIndex, files, bounds
<1>3. CASE Look
  <2>1. PICK n \in j.todo :
       \/ Torn(n) /\ End("keeper") /\ UNCHANGED row
       \/ /\ row' = [row EXCEPT ![n] = NoRow]
          /\ job' = [job EXCEPT !.keeper.todo = @ \ {n}]
       \/ /\ job' = [job EXCEPT !.keeper =
                       [j EXCEPT !.pc = "stat", !.n = n, !.todo = @ \ {n},
                                 !.id = IF Whole(n) THEN meta[n].id ELSE 0,
                                 !.at = IF Whole(n) THEN meta[n].at ELSE 0,
                                 !.deleted = Whole(n) /\ meta[n].deleted]]
          /\ UNCHANGED row
    BY <1>3 DEF Look
  <2>2. n \in Note /\ UNCHANGED <<files, bounds>> /\ j.pc = "look"
    BY <1>3, Typed DEF Job, Look, At
  <2>3. CASE End("keeper") /\ UNCHANGED row
    BY <2>2, <2>3, EndEffect, IdleType, Typed, TypeParts DEF Resting, files, bounds
  <2>4. CASE row' = [row EXCEPT ![n] = NoRow] /\ job' = [job EXCEPT !.keeper.todo = @ \ {n}]
    <3>1. PICK q : q = [j EXCEPT !.todo = @ \ {n}]
      OBVIOUS
    <3>2. q \in Job /\ q.pc \in Resting
      BY <2>2, <3>1, Typed DEF Job, Resting
    <3>3. job' = [job EXCEPT !["keeper"] = q]
      BY <2>4, <3>1 DEF TypeOK, Workers
    <3>4. row' \in [Note -> Row \cup {NoRow}]
      BY <2>2, <2>4, Typed
    <3> QED
      BY <2>2, <3>2, <3>3, <3>4, Typed, OneJob, TypeParts DEF files, bounds
  <2>5. CASE /\ job' = [job EXCEPT !.keeper =
                       [j EXCEPT !.pc = "stat", !.n = n, !.todo = @ \ {n},
                                 !.id = IF Whole(n) THEN meta[n].id ELSE 0,
                                 !.at = IF Whole(n) THEN meta[n].at ELSE 0,
                                 !.deleted = Whole(n) /\ meta[n].deleted]]
             /\ UNCHANGED row
    <3>1. PICK id \in Ids, at \in Seconds, d \in BOOLEAN :
            /\ id = (IF Whole(n) THEN meta[n].id ELSE 0)
            /\ at = (IF Whole(n) THEN meta[n].at ELSE 0)
            /\ d = (Whole(n) /\ meta[n].deleted)
      <4>1. CASE Whole(n)
        <5>1. meta[n] \in MetaFile
          BY <2>2, <4>1, Typed DEF Whole
        <5> QED
          BY <4>1, <5>1 DEF MetaFile
      <4>2. CASE ~Whole(n)
        BY <4>2, Typed
      <4> QED
        BY <4>1, <4>2
    <3>2. PICK q : q = [j EXCEPT !.pc = "stat", !.n = n, !.todo = @ \ {n},
                                 !.id = id, !.at = at, !.deleted = d]
      OBVIOUS
    <3>3. q \in Job /\ q.n = n
      BY <2>2, <3>1, <3>2, Typed DEF Job, Places
    <3>4. job' = [job EXCEPT !["keeper"] = q]
      BY <2>5, <3>1, <3>2
    <3> QED
      BY <2>2, <2>5, <3>3, <3>4, Typed, OneJob, TypeParts DEF files, bounds
  <2> QED
    BY <2>1, <2>3, <2>4, <2>5
<1>4. CASE LookDone
  BY <1>4, Typed, EndEffect, IdleType, TypeParts DEF LookDone, files, bounds, Resting
<1> QED
  BY <1>1, <1>2, <1>3, <1>4

\* A folder is compared and read, and its row written.
LEMMA ReindexTypes ==
  ASSUME TypeOK, Stat \/ Compare \/ ReadMeta \/ ReadText \/ Reindex
  PROVE  TypeOK'
<1> DEFINE j == job["keeper"]
<1> USE StoreAssumption
<1>1. /\ j.n \in Note /\ j.at \in Seconds /\ j.id \in Ids /\ j.times \in Times
      /\ j.deleted \in BOOLEAN /\ j.text \in Ids
  BY Typed, AtNote DEF Stat, Compare, ReadMeta, ReadText, Reindex, At, Resting
<1>2. ASSUME Turn("look") \/ End("keeper"), row' \in [Note -> Row \cup {NoRow}],
             UNCHANGED <<files, bounds>>
      PROVE  TypeOK'
  <2>1. \E q \in Job : Becomes("keeper", q) /\ q.pc \in Resting
    BY <1>2, Typed, TurnEffect, EndEffect, IdleType DEF Resting, Places
  <2> QED
    BY <1>2, <2>1, Typed, TypeParts DEF files, bounds
<1>3. ASSUME NEW q \in Job, q.n = j.n, job' = [job EXCEPT !["keeper"] = q],
             UNCHANGED <<files, row, bounds>>
      PROVE  TypeOK'
  BY <1>1, <1>3, Typed, OneJob, TypeParts DEF files, bounds
<1>4. CASE Stat
  <2>1. CASE Turn("look")
    BY <1>2, <1>4, <2>1, Typed DEF Stat
  <2>2. CASE job' = [job EXCEPT !.keeper.times = TimesOf(j.n), !.keeper.pc = "compare"]
    <3>1. PICK q : q = [j EXCEPT !.times = TimesOf(j.n), !.pc = "compare"]
      OBVIOUS
    <3>2. q \in Job /\ q.n = j.n
      BY <1>1, <3>1, Typed, TimesType DEF Job, Places
    <3>3. job' = [job EXCEPT !["keeper"] = q]
      BY <2>2, <3>1 DEF TypeOK, Workers
    <3> QED
      BY <1>3, <1>4, <3>2, <3>3 DEF Stat
  <2> QED
    BY <1>4, <2>1, <2>2 DEF Stat
<1>5. CASE Compare
  <2>1. CASE Turn("look")
    BY <1>2, <1>5, <2>1, Typed DEF Compare
  <2>2. CASE Goto("keeper", "readMeta")
    BY <1>1, <1>5, <2>2, Typed, GotoEffect, TypeParts DEF Compare, Places, files, bounds
  <2> QED
    BY <1>5, <2>1, <2>2 DEF Compare
<1>6. CASE ReadMeta
  <2>1. CASE Turn("look") \/ End("keeper")
    BY <1>2, <1>6, <2>1, Typed DEF ReadMeta
  <2>2. CASE /\ Readable(j.n)
             /\ job' = [job EXCEPT !.keeper.pc = "readText", !.keeper.id = meta[j.n].id,
                              !.keeper.at = meta[j.n].at, !.keeper.deleted = meta[j.n].deleted]
    <3>1. PICK q : q = [j EXCEPT !.pc = "readText", !.id = meta[j.n].id,
                                 !.at = meta[j.n].at, !.deleted = meta[j.n].deleted]
      OBVIOUS
    <3>2. meta[j.n] \in MetaFile
      BY <1>1, <2>2, Typed DEF Readable, Whole
    <3>3. q \in Job /\ q.n = j.n
      BY <1>1, <3>1, <3>2, Typed DEF Job, Places, MetaFile
    <3>4. job' = [job EXCEPT !["keeper"] = q]
      BY <2>2, <3>1 DEF TypeOK, Workers
    <3> QED
      BY <1>3, <1>6, <3>3, <3>4 DEF ReadMeta
  <2> QED
    BY <1>6, <2>1, <2>2 DEF ReadMeta
<1>7. CASE ReadText
  <2>1. CASE End("keeper")
    BY <1>2, <1>7, <2>1, Typed DEF ReadText
  <2>2. CASE /\ text[j.n] # NoFile
             /\ job' = [job EXCEPT !.keeper.text = text[j.n].id, !.keeper.pc = "index"]
    <3>1. PICK q : q = [j EXCEPT !.text = text[j.n].id, !.pc = "index"]
      OBVIOUS
    <3>2. text[j.n] \in TextFile
      BY <1>1, <2>2, Typed
    <3>3. q \in Job /\ q.n = j.n
      BY <1>1, <3>1, <3>2, Typed DEF Job, Places, TextFile
    <3>4. job' = [job EXCEPT !["keeper"] = q]
      BY <2>2, <3>1 DEF TypeOK, Workers
    <3> QED
      BY <1>3, <1>7, <3>3, <3>4 DEF ReadText
  <2> QED
    BY <1>7, <2>1, <2>2 DEF ReadText
<1>8. CASE Reindex
  <2>1. RowOf(j, j.text) \in Row
    BY <1>1 DEF RowOf, Row
  <2>2. row' \in [Note -> Row \cup {NoRow}]
    BY <1>8, <2>1, Typed DEF Reindex
  <2> QED
    BY <1>2, <1>8, <2>2 DEF Reindex
<1> QED
  BY <1>4, <1>5, <1>6, <1>7, <1>8

\* A change begins.
LEMMA BeginEffect ==
  ASSUME TypeOK, NEW n \in Note, NEW pc \in {"openMeta", "dropText"}, NEW at \in 1..clock,
         NEW d \in BOOLEAN, Begin(n, pc, at, d)
  PROVE  \E q \in Job : /\ Becomes("writer", q) /\ q.pc = pc /\ q.n = n /\ q.at = at
                        /\ q.id = changes + 1
<1>1. PICK q : q = [Idle EXCEPT !.pc = pc, !.n = n, !.id = changes + 1, !.at = at, !.deleted = d]
  OBVIOUS
<1>2. at \in Seconds /\ changes + 1 \in Ids
  BY StoreAssumption, Typed DEF Begin, NewSecond, Seconds, Ids
<1>3. q \in Job /\ q.pc = pc /\ q.n = n /\ q.at = at /\ q.id = changes + 1
  BY <1>1, <1>2, IdleType DEF Job, Places
<1>4. job' = [job EXCEPT !["writer"] = q]
  BY <1>1 DEF Begin
<1> QED
  BY <1>3, <1>4, Typed, OneJob

\* What the user or a merge does is Begin, with these arguments.
LEMMA ChangeBegins ==
  ASSUME TypeOK, clock >= 1, NEW n \in Note,
         CreateNote(n) \/ UpdateNote(n) \/ DeleteNote(n) \/ RestoreNote(n) \/ ApplyRemoteMerge(n)
  PROVE  \E pc \in {"openMeta", "dropText"}, at \in 1..clock, d \in BOOLEAN : Begin(n, pc, at, d)
<1>1. clock \in 1..clock
  BY Typed
<1> QED
  BY <1>1 DEF CreateNote, UpdateNote, DeleteNote, RestoreNote, ApplyRemoteMerge

LEMMA ChangeTypes ==
  ASSUME TypeOK, NEW n \in Note, NEW pc \in {"openMeta", "dropText"}, NEW at \in 1..clock,
         NEW d \in BOOLEAN, Begin(n, pc, at, d)
  PROVE  TypeOK'
<1>1. PICK q \in Job : Becomes("writer", q) /\ q.n = n
  BY BeginEffect
<1>2. at \in Seconds /\ changes + 1 \in Ids
  BY StoreAssumption, Typed DEF Begin, NewSecond, Seconds, Ids
<1>3. stamp' \in [Note -> Seconds]
  BY <1>2, Typed DEF Begin
<1> QED
  BY <1>1, <1>2, <1>3, StoreAssumption, Typed, TypeParts DEF Begin, files

\* Programs outside, a crash, the clock.
LEMMA OutsideTypes ==
  ASSUME TypeOK, NEW n \in Note, EditOutside(n) \/ BringOutside(n) \/ RemoveOutside(n)
  PROVE  TypeOK'
<1>1. changes + 1 \in Ids /\ changes' = changes + 1
  BY StoreAssumption, Typed
     DEF Ids, EditOutside, BringOutside, RemoveOutside, Untouched, NewSecond
<1>2. UNCHANGED <<clock, row, job, crashes>>
  BY DEF EditOutside, BringOutside, RemoveOutside
<1>3. stamp' \in [Note -> Seconds]
  BY Typed DEF EditOutside, BringOutside, RemoveOutside
<1>4. text' \in [Note -> TextFile \cup {NoFile}]
  BY <1>1, Typed DEF EditOutside, BringOutside, RemoveOutside, WriteText, TextFile
<1>5. meta' \in [Note -> MetaFile \cup {NoFile}]
  <2> DEFINE m == [id |-> changes + 1, at |-> clock, deleted |-> FALSE, purged |-> FALSE,
                   torn |-> FALSE, time |-> clock]
  <2>1. m \in MetaFile
    BY <1>1, Typed DEF MetaFile
  <2>2. meta' \in {meta, [meta EXCEPT ![n] = m], [meta EXCEPT ![n] = NoFile]}
    BY DEF EditOutside, BringOutside, RemoveOutside, WriteMeta
  <2> HIDE DEF m
  <2> QED
    BY <2>1, <2>2, Typed
<1> QED
  BY <1>1, <1>2, <1>3, <1>4, <1>5 DEF TypeOK

LEMMA ClockTypes ==
  ASSUME TypeOK, Crash \/ Tick
  PROVE  TypeOK'
<1>1. CASE Crash
  <2>1. job' \in [Workers -> Job] /\ \A w \in Workers : job'[w] = Idle
    BY <1>1, IdleType DEF Crash
  <2>2. crashes' \in 0..MaxCrashes
    BY <1>1, StoreAssumption, Typed DEF Crash
  <2> QED
    BY <1>1, <2>1, <2>2, IdleType DEF Crash, TypeOK, files
<1>2. CASE Tick
  BY <1>2, StoreAssumption DEF Tick, TypeOK, files, Seconds
<1> QED
  BY <1>1, <1>2

LEMMA InitTypes == Init => TypeOK /\ clock >= 1
BY StoreAssumption, IdleType DEF Init, TypeOK, Seconds, Ids

\* One step of the specification keeps the types; the clock only goes on.
LEMMA TypeStep ==
  ASSUME TypeOK, clock >= 1, [Next]_vars
  PROVE  TypeOK' /\ clock' >= 1
<1>1. clock' = clock \/ clock' = clock + 1
  BY DEF Next, vars, CreateNote, UpdateNote, DeleteNote, RestoreNote, ApplyRemoteMerge, Begin,
         EditOutside, BringOutside, RemoveOutside, WriterStep, OpenMeta, FillMeta, OpenText,
         FillText, ReadSignatures, IndexNote, PurgeStep, DropText, OpenTomb, FillTomb, DropRow,
         EmptyTrash, PurgeExpiredTrash, Reconcile, Sweep, KeeperStep, PurgeNext, SweepDone,
         ListFolders, CleanIndex, Look, LookDone, Stat, Compare, ReadMeta, ReadText, Reindex,
         Crash, Tick, bounds
<1>2. clock' >= 1
  BY <1>1, Typed
<1>3. TypeOK'
  <2>1. CASE \E n \in Note : \/ CreateNote(n) \/ UpdateNote(n) \/ DeleteNote(n) \/ RestoreNote(n)
                             \/ ApplyRemoteMerge(n)
    BY <2>1, ChangeBegins, ChangeTypes
  <2>2. CASE \E n \in Note : EditOutside(n) \/ BringOutside(n) \/ RemoveOutside(n)
    BY <2>2, OutsideTypes
  <2>3. CASE UNCHANGED vars
    BY <2>3 DEF vars, TypeOK
  <2> QED
    BY <2>1, <2>2, <2>3, WriterTypes, PurgeTypes, SweepTypes, ScanTypes, ReindexTypes, ClockTypes
       DEF Next, KeeperStep
<1> QED
  BY <1>2, <1>3

\* The note folders, the index and the jobs keep their types; a job that is
\* at a note knows which.
THEOREM TypeCorrect == Spec => []TypeOK
<1>1. Init => TypeOK /\ clock >= 1
  BY InitTypes
<1>2. (TypeOK /\ clock >= 1) /\ [Next]_vars => (TypeOK /\ clock >= 1)'
  BY TypeStep
<1> QED
  BY <1>1, <1>2, PTL DEF Spec

-----------------------------------------------------------------------------
(* The inductive invariant.  An updated_at is given to one change of a      *)
(* note only, and a time of note.md to one text only once a save is past    *)
(* the emptying of the file; what was read or written under an updated_at   *)
(* and a time can therefore be told from what came later.                   *)

\* The folder of n has a meta.json that can be read and is not a tombstone.
Current(n) == Whole(n) /\ ~meta[n].purged

\* The writer is at n, in one of these places.
WriterAt(n, places) == job.writer.n = n /\ job.writer.pc \in places

\* What has been read of n, or written for it, and is kept in a job or in the
\* row, speaks of the present folder when its updated_at does: the id ...
HeadHolds(n, at, id) ==
  /\ at <= stamp[n]
  /\ Current(n) /\ meta[n].at = at => id = meta[n].id
  /\ WriterAt(n, {"openMeta", "fillMeta"}) => at < job.writer.at

\* ... and the text, when the time of note.md is the present one too.  While a
\* save is before or in the writing of its text, no time it could give the
\* file is taken by another text.
TextHolds(n, time, at, content) ==
  /\ time <= clock
  /\ text[n] # NoFile => time <= text[n].time
  /\ Current(n) /\ meta[n].at = at /\ text[n] # NoFile /\ text[n].time = time
       => content \in {0, text[n].id}
  /\ WriterAt(n, {"openText"}) /\ at = job.writer.at => time < clock
  /\ WriterAt(n, {"fillText"}) /\ at = job.writer.at => time < clock \/ content = 0

\* The time of note.md that the keeper has seen is not one still to come.
TimeHolds(n, time) ==
  /\ time <= clock
  /\ IF text[n] # NoFile THEN time <= text[n].time ELSE time < clock
  /\ WriterAt(n, {"openMeta", "fillMeta", "openText"}) => time < clock

FolderOK(n) ==
  /\ text[n] # NoFile => text[n].time \in 1..clock
  /\ Current(n) => meta[n].at <= stamp[n]

\* A save: its updated_at is later than all before it, its second is later
\* than that of the text it replaces, and what it has written is there, unless
\* a purge has come over it.
WriterOK(n) ==
  LET j == job.writer IN
  /\ WriterAt(n, Places) => j.at <= stamp[n]
  /\ WriterAt(n, {"openMeta", "fillMeta", "openText", "dropText"}) /\ text[n] # NoFile
       => text[n].time < clock
  /\ WriterAt(n, {"openMeta"}) /\ Current(n) => meta[n].at < j.at
  /\ WriterAt(n, {"fillMeta"}) => ~Current(n)
  /\ WriterAt(n, {"openText", "fillText", "signatures", "index"}) /\ Current(n)
       => meta[n].at = j.at /\ meta[n].id = j.id
  /\ WriterAt(n, {"fillText"}) /\ text[n] # NoFile => text[n].id = 0
  /\ WriterAt(n, {"signatures", "index"}) /\ text[n] # NoFile => text[n].id = j.id
  /\ WriterAt(n, {"index"}) =>
       /\ j.times.text <= clock
       /\ text[n] # NoFile => j.times.text <= text[n].time

\* Where the keeper has the times of the files of its note.
Seen == {"compare", "readMeta", "readText", "index"}

KeeperOK(n) ==
  LET j == job.keeper IN
  j.n = n =>
    /\ j.pc \in Seen => TimeHolds(n, j.times.text)
    /\ j.pc \in {"readText", "index"} => HeadHolds(n, j.at, j.id)
    /\ j.pc = "index" => TextHolds(n, j.times.text, j.at, j.text)

RowOK(n) ==
  row[n] # NoRow =>
    /\ HeadHolds(n, row[n].at, row[n].id)
    /\ TextHolds(n, row[n].times.text, row[n].at, row[n].text)

NoteOK(n) == FolderOK(n) /\ WriterOK(n) /\ KeeperOK(n) /\ RowOK(n)

StoreInv == TypeOK /\ clock >= 1 /\ \A n \in Note : NoteOK(n)

LEMMA Numbers ==
  ASSUME TypeOK, NEW n \in Note
  PROVE  /\ clock \in Nat /\ stamp[n] \in Nat
         /\ \A w \in Workers : /\ job[w] \in Job /\ job[w].at \in Nat /\ job[w].id \in Nat
                               /\ job[w].text \in Nat
                               /\ job[w].times.text \in Nat /\ job[w].times.meta \in Nat
         /\ meta[n] # NoFile => /\ meta[n] \in MetaFile /\ meta[n].at \in Nat
                                /\ meta[n].time \in Nat /\ meta[n].id \in Nat
         /\ text[n] # NoFile => /\ text[n] \in TextFile /\ text[n].time \in Nat
                                /\ text[n].id \in Nat
         /\ row[n] # NoRow => /\ row[n] \in Row /\ row[n].at \in Nat /\ row[n].id \in Nat
                              /\ row[n].text \in Nat /\ row[n].times.text \in Nat
<1>1. \A s \in Seconds : s \in Nat
  BY DEF Seconds
<1>2. \A i \in Ids : i \in Nat
  BY DEF Ids
<1>3. \A j \in Job : /\ j.at \in Nat /\ j.id \in Nat /\ j.text \in Nat
                     /\ j.times.text \in Nat /\ j.times.meta \in Nat
  BY <1>1, <1>2 DEF Job, Times
<1>4. meta[n] # NoFile => meta[n] \in MetaFile
  BY DEF TypeOK
<1>5. text[n] # NoFile => text[n] \in TextFile
  BY DEF TypeOK
<1>6. row[n] # NoRow => row[n] \in Row
  BY DEF TypeOK
<1>7. clock \in Nat /\ stamp[n] \in Nat /\ \A w \in Workers : job[w] \in Job
  BY <1>1 DEF TypeOK
<1>8. meta[n] # NoFile => meta[n].at \in Nat /\ meta[n].time \in Nat /\ meta[n].id \in Nat
  BY <1>1, <1>2, <1>4 DEF MetaFile
<1>9. text[n] # NoFile => text[n].time \in Nat /\ text[n].id \in Nat
  BY <1>1, <1>2, <1>5 DEF TextFile
<1>10. row[n] # NoRow => /\ row[n].at \in Nat /\ row[n].id \in Nat
                         /\ row[n].text \in Nat /\ row[n].times.text \in Nat
  BY <1>1, <1>2, <1>6 DEF Row, Times
<1> QED
  BY <1>3, <1>4, <1>5, <1>6, <1>7, <1>8, <1>9, <1>10

\* A row taken for fresh has what the folder has.
LEMMA InvFresh == StoreInv => FreshMeansEqual
<1> SUFFICES ASSUME StoreInv, NEW n \in Note, Readable(n),
                    LooksFresh(row[n], TimesOf(n), meta[n].at, meta[n].deleted)
             PROVE  row[n].id = meta[n].id /\ row[n].text \in {text[n].id, 0}
  BY DEF FreshMeansEqual
<1>1. row[n] # NoRow /\ row[n].at = meta[n].at /\ Current(n) /\ text[n] # NoFile /\ Whole(n)
  BY DEF LooksFresh, Readable, Current
<1>2. row[n].times.text = text[n].time
  BY <1>1 DEF LooksFresh, TimesOf, Whole
<1>3. /\ HeadHolds(n, row[n].at, row[n].id)
      /\ TextHolds(n, row[n].times.text, row[n].at, row[n].text)
  BY <1>1 DEF StoreInv, NoteOK, RowOK
<1> QED
  BY <1>1, <1>2, <1>3 DEF HeadHolds, TextHolds

LEMMA InitInv == Init => StoreInv
<1> SUFFICES ASSUME Init PROVE StoreInv
  OBVIOUS
<1>1. TypeOK /\ clock >= 1
  BY InitTypes
<1>2. job["writer"] = Idle /\ job["keeper"] = Idle
  BY DEF Init, Workers
<1>3. ASSUME NEW n \in Note PROVE NoteOK(n)
  <2>1. meta[n] = NoFile /\ text[n] = NoFile /\ row[n] = NoRow /\ n # NoNote
    BY StoreAssumption DEF Init
  <2> QED
    BY <1>2, <2>1, IdleType
       DEF NoteOK, FolderOK, WriterOK, KeeperOK, RowOK, WriterAt, Current, Whole
<1> QED
  BY <1>1, <1>3 DEF StoreInv

-----------------------------------------------------------------------------
(* Frames: the steps that disturb nothing of a note, or only take away. *)

LEMMA HeadKept ==
  ASSUME NEW n, NEW at, NEW id, HeadHolds(n, at, id),
         at \in Nat, stamp[n] \in Nat, stamp'[n] \in Nat, stamp'[n] >= stamp[n],
         Current(n)' => Current(n) /\ meta'[n].at = meta[n].at /\ meta'[n].id = meta[n].id,
         WriterAt(n, {"openMeta", "fillMeta"})' =>
           WriterAt(n, {"openMeta", "fillMeta"}) /\ job'["writer"].at = job["writer"].at
  PROVE  HeadHolds(n, at, id)'
BY DEF HeadHolds

LEMMA TextKept ==
  ASSUME NEW n, NEW time, NEW at, NEW content, TextHolds(n, time, at, content),
         time \in Nat, clock \in Nat, clock' = clock,
         Current(n)' => Current(n) /\ meta'[n].at = meta[n].at,
         text'[n] \in {text[n], NoFile},
         \A p \in {"openText", "fillText"} : WriterAt(n, {p})' =>
           WriterAt(n, {p}) /\ job'["writer"].at = job["writer"].at
  PROVE  TextHolds(n, time, at, content)'
BY DEF TextHolds

\* A note whose folder and row at most lose something, and which the writer
\* and the keeper leave, or are at as before, or are about to purge.
LEMMA Undisturbed ==
  ASSUME TypeOK, TypeOK', NEW n \in Note, NoteOK(n),
         clock' = clock, stamp'[n] >= stamp[n],
         Current(n)' => meta'[n] = meta[n],
         \/ text'[n] = text[n]
         \/ /\ text'[n] = NoFile
            /\ job'["keeper"].n = n /\ job'["keeper"].pc \in Seen => text[n].time < clock,
         row'[n] \in {row[n], NoRow},
         \/ job'["writer"] = job["writer"]
         \/ job'["writer"].n # n
         \/ /\ job'["writer"].n = n /\ job["writer"].n = n /\ job["writer"].pc \in Places
            /\ job'["writer"].at = job["writer"].at
            /\ job'["writer"].pc \in {"openTomb", "fillTomb", "dropRow"},
         job'["keeper"] = job["keeper"] \/ job'["keeper"].n # n \/ job'["keeper"].pc \notin Seen
  PROVE  NoteOK(n)'
<1>0. clock' \in Nat /\ stamp'[n] \in Nat
  BY DEF TypeOK, Seconds
<1>1. Current(n)' => Current(n) /\ meta'[n].at = meta[n].at /\ meta'[n].id = meta[n].id
  BY DEF Current, Whole
<1>2. ASSUME NEW places, WriterAt(n, places)',
             places \cap {"openTomb", "fillTomb", "dropRow"} = {}
      PROVE  job'["writer"] = job["writer"] /\ WriterAt(n, places)
  BY <1>2 DEF WriterAt
<1>3. FolderOK(n)'
  <2>1. text'[n] # NoFile => text'[n].time \in 1..clock'
    BY DEF NoteOK, FolderOK
  <2>2. Current(n)' => meta'[n] # NoFile /\ meta[n] # NoFile /\ meta[n].at <= stamp[n]
    BY <1>1 DEF NoteOK, FolderOK, Current, Whole
  <2>3. Current(n)' => meta'[n].at <= stamp'[n]
    BY <1>0, <1>1, <2>2, Numbers
  <2> QED
    BY <2>1, <2>3 DEF FolderOK
<1>4. WriterOK(n)'
  <2>1. CASE job'["writer"] = job["writer"]
    BY <1>1, <2>1, <1>0, Numbers, Typed DEF NoteOK, WriterOK, WriterAt
  <2>2. CASE job'["writer"].n # n
    BY <2>2 DEF WriterOK, WriterAt
  <2>3. CASE /\ job'["writer"].n = n /\ job["writer"].n = n /\ job["writer"].pc \in Places
             /\ job'["writer"].at = job["writer"].at
             /\ job'["writer"].pc \in {"openTomb", "fillTomb", "dropRow"}
    BY <2>3, <1>0, Numbers, Typed DEF NoteOK, WriterOK, WriterAt
  <2> QED
    BY <2>1, <2>2, <2>3
<1>5. ASSUME NEW at \in Nat, NEW id, HeadHolds(n, at, id) PROVE HeadHolds(n, at, id)'
  BY <1>1, <1>2, <1>5, <1>0, Numbers, HeadKept
<1>6. ASSUME NEW time \in Nat, NEW at, NEW content, TextHolds(n, time, at, content)
      PROVE  TextHolds(n, time, at, content)'
  <2>1. \A p \in {"openText", "fillText"} : WriterAt(n, {p})' =>
          WriterAt(n, {p}) /\ job'["writer"].at = job["writer"].at
    BY <1>2
  <2> QED
    BY <1>1, <1>6, <2>1, Numbers, TextKept
<1>7. RowOK(n)'
  BY <1>5, <1>6, Numbers DEF NoteOK, RowOK
<1>8. KeeperOK(n)'
  <2>1. CASE job'["keeper"] = job["keeper"] /\ job["keeper"].n = n
    <3>1. ASSUME job["keeper"].pc \in Seen PROVE TimeHolds(n, job["keeper"].times.text)'
      BY <1>2, <2>1, <3>1, <1>0, Numbers, Typed DEF NoteOK, KeeperOK, TimeHolds
    <3> QED
      BY <1>5, <1>6, <2>1, <3>1, Numbers, Typed DEF NoteOK, KeeperOK
  <2>2. CASE job'["keeper"].n # n \/ job'["keeper"].pc \notin Seen
    BY <2>2 DEF KeeperOK, Seen
  <2> QED
    BY <2>1, <2>2
<1> QED
  BY <1>3, <1>4, <1>7, <1>8 DEF NoteOK

\* The keeper goes where it has seen no times, and takes rows away at most.
LEMMA KeeperQuiet ==
  ASSUME StoreInv, TypeOK', UNCHANGED <<clock, files>>, job'["writer"] = job["writer"],
         job'["keeper"].pc \notin Seen,
         \A n \in Note : stamp'[n] >= stamp[n] /\ row'[n] \in {row[n], NoRow}
  PROVE  \A n \in Note : NoteOK(n)'
<1> SUFFICES ASSUME NEW n \in Note PROVE NoteOK(n)'
  OBVIOUS
<1>1. Current(n)' => meta'[n] = meta[n]
  BY DEF files
<1> QED
  BY <1>1, Undisturbed DEF StoreInv, files

LEMMA StampsKept ==
  ASSUME TypeOK
  PROVE  \A n \in Note : stamp[n] \in Nat /\ stamp[n] >= stamp[n]
<1>1. ASSUME NEW s \in Nat PROVE s >= s
  OBVIOUS
<1>2. \A n \in Note : stamp[n] \in Nat
  BY Typed DEF Seconds
<1> QED
  BY <1>1, <1>2

\* The sweep of the trash and the walk over the folders.
LEMMA SweepInv ==
  ASSUME StoreInv, TypeOK',
         \/ EmptyTrash \/ PurgeExpiredTrash \/ Reconcile \/ PurgeNext \/ SweepDone
         \/ ListFolders \/ CleanIndex \/ Look \/ LookDone
  PROVE  \A n \in Note : NoteOK(n)'
<1> USE DEF StoreInv
<1>1. UNCHANGED <<clock, files>>
  BY DEF EmptyTrash, PurgeExpiredTrash, Reconcile, Sweep, PurgeNext, SweepDone, ListFolders,
         CleanIndex, Look, LookDone, bounds
<1>2. \A n \in Note : stamp'[n] >= stamp[n]
  <2>1. CASE PurgeNext
    <3>1. PICK k \in job["keeper"].todo : 
            stamp' \in {stamp, [stamp EXCEPT ![k] = IF clock > @ THEN clock ELSE @]}
      BY <2>1 DEF PurgeNext
    <3> QED
      BY <3>1, Typed, StampsKept
  <2>2. CASE ~PurgeNext
    BY <2>2, StampsKept DEF EmptyTrash, PurgeExpiredTrash, Reconcile, Sweep, SweepDone, ListFolders,
                CleanIndex, Look, LookDone, bounds
  <2> QED
    BY <2>1, <2>2
<1>3. \A n \in Note : row'[n] \in {row[n], NoRow}
  <2>1. CASE Look
    <3>1. PICK k \in job["keeper"].todo : row' \in {row, [row EXCEPT ![k] = NoRow]}
      BY <2>1 DEF Look
    <3> QED
      BY <3>1, Typed
  <2>2. CASE CleanIndex
    BY <2>2 DEF CleanIndex
  <2>3. CASE ~Look /\ ~CleanIndex
    BY <2>3 DEF EmptyTrash, PurgeExpiredTrash, Reconcile, Sweep, PurgeNext, SweepDone, ListFolders,
                LookDone
  <2> QED
    BY <2>1, <2>2, <2>3
<1>4. job'["writer"] = job["writer"] /\ job'["keeper"].pc \notin Seen
  <2>1. /\ job["keeper"] \in Job /\ Idle \in Job /\ Idle.pc = "idle" /\ job \in [Workers -> Job]
        /\ "writer" \in Workers /\ "keeper" \in Workers
    BY Typed, IdleType DEF TypeOK
  <2>2. ASSUME NEW q, job' = [job EXCEPT !["keeper"] = q], q.pc \notin Seen
        PROVE  job'["writer"] = job["writer"] /\ job'["keeper"].pc \notin Seen
    BY <2>1, <2>2
  <2>3. ASSUME End("keeper")
        PROVE  job'["writer"] = job["writer"] /\ job'["keeper"].pc \notin Seen
    BY <2>1, <2>3 DEF End, Seen
  <2>4. ASSUME NEW pc \in Places, pc \notin Seen, Goto("keeper", pc)
        PROVE  job'["writer"] = job["writer"] /\ job'["keeper"].pc \notin Seen
    BY <2>1, <2>4, GotoEffect DEF Becomes
  <2>5. ASSUME NEW todo, NEW scan, Sweep(todo, scan)
        PROVE  job'["writer"] = job["writer"] /\ job'["keeper"].pc \notin Seen
    <3>1. PICK q : q = [Idle EXCEPT !.pc = "sweep", !.todo = todo, !.scan = scan]
      OBVIOUS
    <3>2. q.pc \notin Seen
      BY <2>1, <3>1 DEF Job, Seen
    <3> QED
      BY <2>2, <2>5, <3>1, <3>2 DEF Sweep
  <2>6. CASE EmptyTrash \/ PurgeExpiredTrash \/ Reconcile
    BY <2>5, <2>6 DEF EmptyTrash, PurgeExpiredTrash, Reconcile
  <2>7. CASE PurgeNext
    <3>1. CASE \E n \in job["keeper"].todo : 
                 job' = [job EXCEPT !["keeper"] = [job["keeper"] EXCEPT !.pc = "dropText", !.n = n,
                                                        !.at = clock, !.todo = @ \ {n}]]
      <4>1. PICK n : job' = [job EXCEPT !["keeper"] = [job["keeper"] EXCEPT !.pc = "dropText",
                                            !.n = n, !.at = clock, !.todo = @ \ {n}]]
        BY <3>1
      <4>2. PICK q : q = [job["keeper"] EXCEPT !.pc = "dropText", !.n = n, !.at = clock,
                                               !.todo = @ \ {n}]
        OBVIOUS
      <4>3. q.pc \notin Seen
        BY <2>1, <4>2 DEF Job, Seen
      <4> QED
        BY <2>2, <4>1, <4>2, <4>3
    <3> QED
      BY <2>3, <2>7, <3>1 DEF PurgeNext
  <2>8. CASE SweepDone
    BY <2>3, <2>4, <2>8 DEF SweepDone, Places, Seen
  <2>9. CASE ListFolders
    BY <2>1, <2>9 DEF ListFolders, Job, Seen
  <2>10. CASE CleanIndex
    BY <2>4, <2>10 DEF CleanIndex, Places, Seen
  <2>11. CASE Look
    <3>1. PICK n \in job["keeper"].todo :
       \/ End("keeper")
       \/ job' = [job EXCEPT !.keeper.todo = @ \ {n}]
       \/ job' = [job EXCEPT !.keeper =
                       [job["keeper"] EXCEPT !.pc = "stat", !.n = n, !.todo = @ \ {n},
                                 !.id = IF Whole(n) THEN meta[n].id ELSE 0,
                                 !.at = IF Whole(n) THEN meta[n].at ELSE 0,
                                 !.deleted = Whole(n) /\ meta[n].deleted]]
      BY <2>11 DEF Look
    <3>2. CASE job' = [job EXCEPT !.keeper.todo = @ \ {n}]
      BY <2>1, <2>11, <3>2 DEF Look, At, Job, Seen
    <3>3. CASE job' = [job EXCEPT !.keeper =
                       [job["keeper"] EXCEPT !.pc = "stat", !.n = n, !.todo = @ \ {n},
                                 !.id = IF Whole(n) THEN meta[n].id ELSE 0,
                                 !.at = IF Whole(n) THEN meta[n].at ELSE 0,
                                 !.deleted = Whole(n) /\ meta[n].deleted]]
      <4>1. PICK q : q = [job["keeper"] EXCEPT !.pc = "stat", !.n = n, !.todo = @ \ {n},
                                 !.id = IF Whole(n) THEN meta[n].id ELSE 0,
                                 !.at = IF Whole(n) THEN meta[n].at ELSE 0,
                                 !.deleted = Whole(n) /\ meta[n].deleted]
        OBVIOUS
      <4>2. q.pc \notin Seen
        BY <2>1, <4>1 DEF Job, Seen
      <4> QED
        BY <2>2, <3>3, <4>1, <4>2
    <3> QED
      BY <2>3, <3>1, <3>2, <3>3
  <2>12. CASE LookDone
    BY <2>3, <2>12 DEF LookDone
  <2> QED
    BY <2>6, <2>7, <2>8, <2>9, <2>10, <2>11, <2>12
<1> QED
  BY <1>1, <1>2, <1>3, <1>4, KeeperQuiet

-----------------------------------------------------------------------------
(* The keeper reads a folder and writes its row. *)

LEMMA FolderStays ==
  ASSUME UNCHANGED <<files, bounds>>, job'["writer"] = job["writer"], NEW n
  PROVE  /\ FolderOK(n) => FolderOK(n)'
         /\ WriterOK(n) => WriterOK(n)'
         /\ \A time : TimeHolds(n, time) => TimeHolds(n, time)'
         /\ \A at, id : HeadHolds(n, at, id) => HeadHolds(n, at, id)'
         /\ \A time, at, content :
              TextHolds(n, time, at, content) => TextHolds(n, time, at, content)'
<1>1. UNCHANGED <<meta, text, clock, stamp>>
  BY DEF files, bounds
<1>2. \A places : WriterAt(n, places)' <=> WriterAt(n, places)
  BY DEF WriterAt
<1>3. Current(n)' <=> Current(n)
  BY <1>1 DEF Current, Whole
<1>4. FolderOK(n) => FolderOK(n)'
  BY <1>1, <1>3 DEF FolderOK
<1>5. WriterOK(n) => WriterOK(n)'
  BY <1>1, <1>3 DEF WriterOK, WriterAt
<1>6. \A time : TimeHolds(n, time) => TimeHolds(n, time)'
  BY <1>1 DEF TimeHolds, WriterAt
<1>7. \A at, id : HeadHolds(n, at, id) => HeadHolds(n, at, id)'
  BY <1>1, <1>3 DEF HeadHolds, WriterAt
<1>8. \A time, at, content :
        TextHolds(n, time, at, content) => TextHolds(n, time, at, content)'
  BY <1>1, <1>3 DEF TextHolds, WriterAt
<1> QED
  BY <1>4, <1>5, <1>6, <1>7, <1>8

\* The keeper has seen something new of its note.
LEMMA KeeperGoesOn ==
  ASSUME StoreInv, UNCHANGED <<files, row, bounds>>, NEW n \in Note, NEW q \in Job,
         Becomes("keeper", q), q.n = n, KeeperOK(n)'
  PROVE  \A m \in Note : NoteOK(m)'
<1> SUFFICES ASSUME NEW m \in Note PROVE NoteOK(m)'
  OBVIOUS
<1>1. job'["writer"] = job["writer"] /\ job'["keeper"] = q
  BY Typed DEF StoreInv, Becomes
<1>2. FolderOK(m)' /\ WriterOK(m)'
  BY <1>1, FolderStays DEF StoreInv, NoteOK
<1>3. RowOK(m)'
  BY <1>1, FolderStays DEF StoreInv, NoteOK, RowOK
<1>4. KeeperOK(m)'
  BY <1>1 DEF KeeperOK
<1> QED
  BY <1>2, <1>3, <1>4 DEF NoteOK

LEMMA StatInv ==
  ASSUME StoreInv, TypeOK', Stat, NEW j, j = job["keeper"], NEW n, n = j.n
  PROVE  \A m \in Note : NoteOK(m)'
<1> USE DEF StoreInv
<1>1. n \in Note /\ UNCHANGED <<files, row, bounds>> /\ UNCHANGED <<clock, files>>
  BY Typed, AtNote DEF Stat, At, Resting, bounds
<1>2. CASE Turn("look")
  <2>1. PICK q \in Job : Becomes("keeper", q) /\ q.pc = "look"
    BY <1>2, TurnEffect DEF Places
  <2> QED
    BY <1>1, <2>1, Typed, StampsKept, KeeperQuiet DEF Becomes, Seen, bounds
<1>3. CASE /\ TimesOf(n) # NoTimes
           /\ job' = [job EXCEPT !.keeper.times = TimesOf(n), !.keeper.pc = "compare"]
  <2>1. PICK q : q = [j EXCEPT !.times = TimesOf(n), !.pc = "compare"]
    OBVIOUS
  <2>2. q \in Job /\ q.n = n /\ q.pc = "compare" /\ q.times = TimesOf(n)
    BY <1>1, <2>1, Typed, TimesType DEF Job, Places
  <2>3. Becomes("keeper", q)
    <3>1. job' = [job EXCEPT !["keeper"] = q]
      BY <1>3, <2>1 DEF TypeOK, Workers
    <3> QED
      BY <2>2, <3>1, Typed, OneJob
  <2>4. text[n] # NoFile /\ TimesOf(n).text = text[n].time
    BY <1>3 DEF TimesOf
  <2>5. TimeHolds(n, text[n].time)
    <3>1. FolderOK(n) /\ WriterOK(n)
      BY <1>1 DEF NoteOK
    <3> QED
      BY <1>1, <2>4, <3>1, Numbers DEF FolderOK, WriterOK, TimeHolds, WriterAt
  <2>6. TimeHolds(n, text[n].time)'
    BY <1>1, <2>3, <2>5, FolderStays, Typed DEF Becomes, files
  <2>7. KeeperOK(n)'
    BY <1>1, <2>2, <2>3, <2>4, <2>6 DEF KeeperOK, Becomes, files
  <2> QED
    BY <1>1, <2>2, <2>3, <2>7, KeeperGoesOn
<1> QED
  BY <1>2, <1>3 DEF Stat

LEMMA CompareInv ==
  ASSUME StoreInv, TypeOK', Compare, NEW j, j = job["keeper"], NEW n, n = j.n
  PROVE  \A m \in Note : NoteOK(m)'
<1> USE DEF StoreInv
<1>1. n \in Note /\ UNCHANGED <<files, row, bounds>> /\ UNCHANGED <<clock, files>>
      /\ j.pc = "compare"
  BY Typed, AtNote DEF Compare, At, Resting, bounds
<1>2. CASE Turn("look")
  <2>1. PICK q \in Job : Becomes("keeper", q) /\ q.pc = "look"
    BY <1>2, TurnEffect DEF Places
  <2> QED
    BY <1>1, <2>1, Typed, StampsKept, KeeperQuiet DEF Becomes, Seen, bounds
<1>3. CASE Goto("keeper", "readMeta")
  <2>1. PICK q \in Job : Becomes("keeper", q) /\ q.n = n /\ q.pc = "readMeta" /\ q.times = j.times
    BY <1>3, Typed, GotoEffect DEF Places
  <2>2. TimeHolds(n, j.times.text)
    BY <1>1 DEF NoteOK, KeeperOK, Seen
  <2>3. KeeperOK(n)'
    BY <1>1, <2>1, <2>2, Typed, FolderStays DEF KeeperOK, Becomes
  <2> QED
    BY <1>1, <2>1, <2>3, KeeperGoesOn
<1> QED
  BY <1>2, <1>3 DEF Compare

LEMMA ReadMetaInv ==
  ASSUME StoreInv, TypeOK', ReadMeta, NEW j, j = job["keeper"], NEW n, n = j.n
  PROVE  \A m \in Note : NoteOK(m)'
<1> USE DEF StoreInv
<1>1. n \in Note /\ UNCHANGED <<files, row, bounds>> /\ UNCHANGED <<clock, files>>
      /\ j.pc = "readMeta"
  BY Typed, AtNote DEF ReadMeta, At, Resting, bounds
<1>2. CASE Turn("look") \/ End("keeper")
  <2>1. PICK q \in Job : Becomes("keeper", q) /\ q.pc \in {"look", "idle"}
    BY <1>2, Typed, TurnEffect, EndEffect, IdleType DEF Places
  <2> QED
    BY <1>1, <2>1, Typed, StampsKept, KeeperQuiet DEF Becomes, Seen, bounds
<1>3. CASE /\ Readable(n)
           /\ job' = [job EXCEPT !.keeper.pc = "readText", !.keeper.id = meta[n].id,
                              !.keeper.at = meta[n].at, !.keeper.deleted = meta[n].deleted]
  <2>1. PICK q : q = [j EXCEPT !.pc = "readText", !.id = meta[n].id,
                                 !.at = meta[n].at, !.deleted = meta[n].deleted]
    OBVIOUS
  <2>2. Current(n) /\ meta[n] \in MetaFile
    BY <1>1, <1>3, Typed DEF Readable, Current, Whole
  <2>3. q \in Job /\ q.n = n /\ q.pc = "readText" /\ q.times = j.times
        /\ q.at = meta[n].at /\ q.id = meta[n].id
    <3>1. meta[n].id \in Ids /\ meta[n].at \in Seconds /\ meta[n].deleted \in BOOLEAN
      BY <2>2 DEF MetaFile
    <3>2. j \in Job
      BY Typed
    <3>3. q.n = n /\ q.pc = "readText" /\ q.times = j.times
          /\ q.at = meta[n].at /\ q.id = meta[n].id
      BY <2>1, <3>2 DEF Job
    <3>4. q \in Job
      BY <2>1, <3>1, <3>2 DEF Job, Places
    <3> QED
      BY <3>3, <3>4
  <2>4. Becomes("keeper", q)
    <3>1. job' = [job EXCEPT !["keeper"] = q]
      BY <1>3, <2>1 DEF TypeOK, Workers
    <3> QED
      BY <2>3, <3>1, Typed, OneJob
  <2>5. HeadHolds(n, q.at, q.id)
    <3>1. FolderOK(n) /\ WriterOK(n)
      BY <1>1 DEF NoteOK
    <3> QED
      BY <2>2, <2>3, <3>1 DEF FolderOK, WriterOK, HeadHolds, WriterAt
  <2>6. TimeHolds(n, q.times.text)
    BY <1>1, <2>3 DEF NoteOK, KeeperOK, Seen
  <2>7. KeeperOK(n)'
    BY <1>1, <2>3, <2>4, <2>5, <2>6, Typed, FolderStays DEF KeeperOK, Becomes
  <2> QED
    BY <1>1, <2>3, <2>4, <2>7, KeeperGoesOn
<1> QED
  BY <1>2, <1>3 DEF ReadMeta

LEMMA ReadTextInv ==
  ASSUME StoreInv, TypeOK', ReadText, NEW j, j = job["keeper"], NEW n, n = j.n
  PROVE  \A m \in Note : NoteOK(m)'
<1> USE DEF StoreInv
<1>1. n \in Note /\ UNCHANGED <<files, row, bounds>> /\ UNCHANGED <<clock, files>>
      /\ j.pc = "readText"
  BY Typed, AtNote DEF ReadText, At, Resting, bounds
<1>2. CASE End("keeper")
  <2>1. Becomes("keeper", Idle) /\ Idle.pc = "idle"
    BY <1>2, Typed, EndEffect, IdleType
  <2> QED
    BY <1>1, <2>1, Typed, StampsKept, KeeperQuiet DEF Becomes, Seen, bounds
<1>3. CASE /\ text[n] # NoFile
           /\ job' = [job EXCEPT !.keeper.text = text[n].id, !.keeper.pc = "index"]
  <2>1. PICK q : q = [j EXCEPT !.text = text[n].id, !.pc = "index"]
    OBVIOUS
  <2>2. text[n] \in TextFile
    BY <1>1, <1>3, Typed
  <2>3. q \in Job /\ q.n = n /\ q.pc = "index" /\ q.times = j.times
        /\ q.at = j.at /\ q.id = j.id /\ q.text = text[n].id
    BY <2>1, <2>2, Typed DEF Job, Places, TextFile
  <2>4. Becomes("keeper", q)
    <3>1. job' = [job EXCEPT !["keeper"] = q]
      BY <1>3, <2>1 DEF TypeOK, Workers
    <3> QED
      BY <2>3, <3>1, Typed, OneJob
  <2>5. HeadHolds(n, q.at, q.id) /\ TimeHolds(n, q.times.text)
    BY <1>1, <2>3 DEF NoteOK, KeeperOK, Seen
  <2>6. TextHolds(n, q.times.text, q.at, q.text)
    <3>1. WriterOK(n)
      BY <1>1 DEF NoteOK
    <3> QED
      BY <1>3, <2>3, <2>5, <3>1 DEF WriterOK, TimeHolds, TextHolds, WriterAt
  <2>7. KeeperOK(n)'
    BY <1>1, <2>3, <2>4, <2>5, <2>6, Typed, FolderStays DEF KeeperOK, Becomes
  <2> QED
    BY <1>1, <2>3, <2>4, <2>7, KeeperGoesOn
<1> QED
  BY <1>2, <1>3 DEF ReadText

LEMMA ReindexInv ==
  ASSUME StoreInv, TypeOK', Reindex, NEW j, j = job["keeper"], NEW n, n = j.n
  PROVE  \A m \in Note : NoteOK(m)'
<1> USE DEF StoreInv
<1>1. n \in Note /\ UNCHANGED <<files, bounds>> /\ UNCHANGED <<clock, stamp, files>>
      /\ j.pc = "index"
  BY Typed, AtNote DEF Reindex, At, Resting, bounds
<1>2. PICK q \in Job : Becomes("keeper", q) /\ q.pc = "look" /\ q.n = NoNote
  BY TurnEffect DEF Reindex, Places
<1>3. job'["writer"] = job["writer"] /\ job'["keeper"].pc \notin Seen
  BY <1>2, Typed DEF Becomes, Seen
<1>4. HeadHolds(n, j.at, j.id) /\ TextHolds(n, j.times.text, j.at, j.text)
  BY <1>1 DEF NoteOK, KeeperOK
<1>5. row'[n] = RowOf(j, j.text) /\ \A m \in Note : m # n => row'[m] = row[m]
  BY <1>1, Typed DEF Reindex
<1>6. /\ RowOf(j, j.text).at = j.at /\ RowOf(j, j.text).id = j.id
      /\ RowOf(j, j.text).times = j.times /\ RowOf(j, j.text).text = j.text
  BY DEF RowOf
<1> SUFFICES ASSUME NEW m \in Note PROVE NoteOK(m)'
  OBVIOUS
<1>7. FolderOK(m)' /\ WriterOK(m)'
  BY <1>1, <1>3, FolderStays DEF NoteOK
<1>8. RowOK(m)'
  <2>1. CASE m = n
    BY <1>1, <1>3, <1>4, <1>5, <1>6, <2>1, FolderStays DEF RowOK
  <2>2. CASE m # n
    BY <1>1, <1>3, <1>5, <2>2, FolderStays DEF RowOK, NoteOK
  <2> QED
    BY <2>1, <2>2
<1>9. KeeperOK(m)'
  BY <1>3 DEF KeeperOK, Seen
<1> QED
  BY <1>7, <1>8, <1>9 DEF NoteOK

-----------------------------------------------------------------------------
(* A purge, a crash and programs that remove a note only take away. *)

LEMMA PurgeInv ==
  ASSUME StoreInv, TypeOK', NEW w \in Workers, PurgeStep(w), NEW j, j = job[w]
  PROVE  \A m \in Note : NoteOK(m)'
<1> SUFFICES ASSUME NEW m \in Note PROVE NoteOK(m)'
  OBVIOUS
<1> USE DEF StoreInv
<1>1. /\ j.n \in Note /\ j.pc \in Places /\ UNCHANGED <<clock, stamp>>
      /\ j.pc \in {"dropText", "openTomb", "fillTomb", "dropRow"}
  BY AtNote, Typed DEF PurgeStep, DropText, OpenTomb, FillTomb, DropRow, At, Resting, bounds, Places
<1>2. stamp'[m] >= stamp[m] /\ NoteOK(m) /\ row[m] \in {row[m], NoRow}
  BY <1>1, StampsKept
<1>3. PICK q \in Job : /\ Becomes(w, q)
                       /\ \/ /\ q.n = j.n /\ q.at = j.at
                             /\ q.pc \in {"openTomb", "fillTomb", "dropRow"}
                          \/ q.n = NoNote
  <2>1. CASE \E pc \in {"openTomb", "fillTomb", "dropRow"} : Goto(w, pc)
    BY <2>1, GotoEffect DEF Places
  <2>2. CASE End(w)
    BY <2>2, EndEffect, IdleType
  <2>3. CASE w = "keeper" /\ Turn("sweep")
    BY <2>3, TurnEffect DEF Places
  <2> QED
    BY <2>1, <2>2, <2>3 DEF PurgeStep, DropText, OpenTomb, FillTomb, DropRow, Workers
<1>4. /\ \/ job'["writer"] = job["writer"]
         \/ job'["writer"].n # m
         \/ /\ job'["writer"].n = m /\ job["writer"].n = m /\ job["writer"].pc \in Places
            /\ job'["writer"].at = job["writer"].at
            /\ job'["writer"].pc \in {"openTomb", "fillTomb", "dropRow"}
      /\ job'["keeper"] = job["keeper"] \/ job'["keeper"].n # m \/ job'["keeper"].pc \notin Seen
  BY <1>1, <1>3, StoreAssumption, Typed DEF Becomes, Workers, Seen
<1>5. Current(m)' => meta'[m] = meta[m]
  <2>1. CASE DropText(w) \/ DropRow(w)
    BY <2>1 DEF DropText, DropRow, files
  <2>2. CASE OpenTomb(w)
    BY <1>1, <2>2, Typed DEF OpenTomb, WriteMeta, Current, Whole, CutShort
  <2>3. CASE FillTomb(w)
    BY <1>1, <2>3, Typed DEF FillTomb, WriteMeta, Current, Whole
  <2> QED
    BY <2>1, <2>2, <2>3 DEF PurgeStep
<1>6. \/ text'[m] = text[m]
      \/ /\ text'[m] = NoFile
         /\ job'["keeper"].n = m /\ job'["keeper"].pc \in Seen => text[m].time < clock
  <2>1. CASE DropText(w) /\ m = j.n /\ text[m] # NoFile
    <3>1. text'[m] = NoFile
      BY <2>1, Typed DEF DropText
    <3>2. CASE w = "writer"
      BY <1>1, <1>2, <2>1, <3>1, <3>2 DEF NoteOK, WriterOK, WriterAt, DropText, At
    <3>3. CASE w = "keeper"
      BY <1>3, <2>1, <3>1, <3>3, StoreAssumption DEF Becomes, Seen
    <3> QED
      BY <3>2, <3>3 DEF Workers
  <2>2. CASE DropText(w) /\ (m # j.n \/ text[m] = NoFile)
    BY <1>1, <2>2, Typed DEF DropText
  <2>3. CASE ~DropText(w)
    BY <2>3 DEF PurgeStep, OpenTomb, FillTomb, DropRow, files
  <2> QED
    BY <2>1, <2>2, <2>3
<1>7. row'[m] \in {row[m], NoRow}
  BY <1>1, Typed DEF PurgeStep, DropText, OpenTomb, FillTomb, DropRow
<1> QED
  BY <1>1, <1>2, <1>4, <1>5, <1>6, <1>7, Undisturbed

LEMMA CrashInv ==
  ASSUME StoreInv, TypeOK', Crash
  PROVE  \A m \in Note : NoteOK(m)'
<1> SUFFICES ASSUME NEW m \in Note PROVE NoteOK(m)'
  OBVIOUS
<1> USE DEF StoreInv
<1>1. job'["writer"].n # m /\ job'["keeper"].n # m
  BY IdleType, StoreAssumption DEF Crash, Workers
<1>2. UNCHANGED <<clock, meta, text, row, stamp>> /\ (Current(m)' => meta'[m] = meta[m])
  BY DEF Crash, files
<1> QED
  BY <1>1, <1>2, StampsKept, Undisturbed

LEMMA RemoveInv ==
  ASSUME StoreInv, TypeOK', NEW n \in Note, RemoveOutside(n)
  PROVE  \A m \in Note : NoteOK(m)'
<1> SUFFICES ASSUME NEW m \in Note PROVE NoteOK(m)'
  OBVIOUS
<1> USE DEF StoreInv
<1>1. UNCHANGED <<clock, row, job, stamp>> /\ (m = n => job["writer"].n # m /\ job["keeper"].n # m)
  BY DEF RemoveOutside, Untouched
<1>2. Current(m)' => meta'[m] = meta[m]
  BY Typed DEF RemoveOutside, WriteMeta, Current, Whole
<1>3. text'[m] = text[m] \/ (m = n /\ text'[m] = NoFile)
  BY Typed DEF RemoveOutside
<1> QED
  BY <1>1, <1>2, <1>3, StampsKept, Undisturbed

-----------------------------------------------------------------------------
(* The writer's steps. *)

\* The writer is at n, or lets go of it: nothing of other notes changes.
LEMMA OthersKept ==
  ASSUME StoreInv, TypeOK', NEW n \in Note, NEW q, Becomes("writer", q), q.n \in {n, NoNote},
         clock' = clock,
         \A m \in Note : m # n => /\ meta'[m] = meta[m] /\ text'[m] = text[m]
                                  /\ row'[m] = row[m] /\ stamp'[m] = stamp[m]
  PROVE  \A m \in Note : m # n => NoteOK(m)'
<1> SUFFICES ASSUME NEW m \in Note, m # n PROVE NoteOK(m)'
  OBVIOUS
<1>1. job'["writer"].n # m /\ job'["keeper"] = job["keeper"]
  BY StoreAssumption, Typed DEF StoreInv, Becomes
<1> QED
  BY <1>1, StampsKept, Undisturbed DEF StoreInv

\* What was claimed of n still holds, so the keeper and the row are right.
LEMMA ClaimsKept ==
  ASSUME TypeOK, NEW n \in Note, NoteOK(n), row'[n] = row[n], job'["keeper"] = job["keeper"],
         FolderOK(n)', WriterOK(n)',
         \A at \in Nat, id \in Nat : HeadHolds(n, at, id) => HeadHolds(n, at, id)',
         \A time \in Nat, at \in Nat, id \in Nat, content \in Nat :
           HeadHolds(n, at, id) /\ TextHolds(n, time, at, content)
             => TextHolds(n, time, at, content)',
         \A time \in Nat : TimeHolds(n, time) => TimeHolds(n, time)'
  PROVE  NoteOK(n)'
<1>1. RowOK(n)'
  BY Numbers DEF NoteOK, RowOK
<1>2. KeeperOK(n)'
  BY Numbers, Typed DEF NoteOK, KeeperOK
<1> QED
  BY <1>1, <1>2 DEF NoteOK

LEMMA BeginInv ==
  ASSUME StoreInv, TypeOK', NEW n \in Note, NEW pc \in {"openMeta", "dropText"},
         NEW at \in 1..clock, NEW d \in BOOLEAN, Begin(n, pc, at, d)
  PROVE  \A m \in Note : NoteOK(m)'
<1> USE DEF StoreInv
<1>1. PICK q \in Job : Becomes("writer", q) /\ q.pc = pc /\ q.n = n /\ q.at = at
  BY BeginEffect
<1>2. /\ UNCHANGED <<clock, meta, text, row>> /\ stamp'[n] = at /\ at > stamp[n] /\ at \in Nat
      /\ \A m \in Note : m # n => stamp'[m] = stamp[m]
      /\ text[n] # NoFile => text[n].time < clock
  BY Typed DEF Begin, files, NewSecond
<1>3. job'["writer"] = q /\ job'["keeper"] = job["keeper"]
  BY <1>1, Typed DEF Becomes
<1>4. Current(n)' <=> Current(n)
  BY <1>2 DEF Current, Whole
<1>5. FolderOK(n) /\ NoteOK(n)
  BY DEF NoteOK
<1>6. FolderOK(n)'
  BY <1>2, <1>4, <1>5, Numbers DEF FolderOK, Current, Whole
<1>7. WriterOK(n)'
  BY <1>1, <1>2, <1>3, <1>4, <1>5, Numbers DEF WriterOK, WriterAt, FolderOK, Current, Whole
<1>8. ASSUME NEW a \in Nat, NEW id, HeadHolds(n, a, id) PROVE HeadHolds(n, a, id)'
  BY <1>1, <1>2, <1>3, <1>4, <1>8, Numbers DEF HeadHolds, WriterAt
<1>9. ASSUME NEW time \in Nat, NEW a, NEW content, TextHolds(n, time, a, content)
      PROVE  TextHolds(n, time, a, content)'
  BY <1>1, <1>2, <1>3, <1>4, <1>9 DEF TextHolds, WriterAt
<1>10. ASSUME NEW time \in Nat, TimeHolds(n, time) PROVE TimeHolds(n, time)'
  BY <1>1, <1>2, <1>3, <1>10, Numbers DEF TimeHolds, WriterAt
<1>11. NoteOK(n)'
  BY <1>2, <1>3, <1>5, <1>6, <1>7, <1>8, <1>9, <1>10, ClaimsKept
<1>12. \A m \in Note : m # n => NoteOK(m)'
  BY <1>1, <1>2, OthersKept
<1> QED
  BY <1>11, <1>12

LEMMA OpenMetaInv ==
  ASSUME StoreInv, TypeOK', OpenMeta, NEW j, j = job["writer"], NEW n, n = j.n
  PROVE  \A m \in Note : NoteOK(m)'
<1> USE DEF StoreInv
<1>1. j.pc = "openMeta" /\ n \in Note
  BY Typed, AtNote DEF OpenMeta, At, Resting
<1>2. PICK q \in Job : Becomes("writer", q) /\ q.pc = "fillMeta" /\ q.n = n /\ q.at = j.at
  BY Typed, GotoEffect DEF OpenMeta, Places
<1>3. job'["writer"] = q /\ job'["keeper"] = job["keeper"]
  BY <1>2, Typed DEF Becomes
<1>4. UNCHANGED <<clock, text, row, stamp>> /\ \A m \in Note : m # n => meta'[m] = meta[m]
  BY Typed DEF OpenMeta, WriteMeta, bounds
<1>5. ~Current(n)'
  BY <1>1, Typed DEF OpenMeta, WriteMeta, CutShort, Current, Whole
<1>6. FolderOK(n) /\ WriterOK(n) /\ NoteOK(n)
  BY <1>1 DEF NoteOK
<1>7. FolderOK(n)'
  BY <1>4, <1>5, <1>6 DEF FolderOK
<1>8. WriterOK(n)'
  BY <1>1, <1>2, <1>3, <1>4, <1>5, <1>6 DEF WriterOK, WriterAt, Places
<1>9. ASSUME NEW at \in Nat, NEW id, HeadHolds(n, at, id) PROVE HeadHolds(n, at, id)'
  BY <1>1, <1>2, <1>3, <1>4, <1>5, <1>9 DEF HeadHolds, WriterAt
<1>10. ASSUME NEW time \in Nat, NEW at, NEW content, TextHolds(n, time, at, content)
       PROVE  TextHolds(n, time, at, content)'
  BY <1>1, <1>2, <1>3, <1>4, <1>5, <1>10 DEF TextHolds, WriterAt
<1>11. ASSUME NEW time \in Nat, TimeHolds(n, time) PROVE TimeHolds(n, time)'
  BY <1>1, <1>2, <1>3, <1>4, <1>11 DEF TimeHolds, WriterAt
<1>12. NoteOK(n)'
  BY <1>1, <1>3, <1>4, <1>6, <1>7, <1>8, <1>9, <1>10, <1>11, ClaimsKept
<1>13. \A m \in Note : m # n => NoteOK(m)'
  BY <1>1, <1>2, <1>4, OthersKept
<1> QED
  BY <1>12, <1>13

LEMMA FillMetaInv ==
  ASSUME StoreInv, TypeOK', FillMeta, NEW j, j = job["writer"], NEW n, n = j.n
  PROVE  \A m \in Note : NoteOK(m)'
<1> USE DEF StoreInv
<1>1. j.pc = "fillMeta" /\ n \in Note /\ j.at \in Nat
  BY Typed, AtNote, Numbers DEF FillMeta, At, Resting
<1>2. PICK q \in Job : /\ Becomes("writer", q) /\ q.pc = "openText" /\ q.n = n
                       /\ q.at = j.at /\ q.id = j.id
  BY Typed, GotoEffect DEF FillMeta, Places
<1>3. job'["writer"] = q /\ job'["keeper"] = job["keeper"]
  BY <1>2, Typed DEF Becomes
<1>4. UNCHANGED <<clock, text, row, stamp>> /\ \A m \in Note : m # n => meta'[m] = meta[m]
  BY Typed DEF FillMeta, WriteMeta, bounds
<1>5. meta'[n].at = j.at /\ meta'[n].id = j.id
  BY <1>1, Typed DEF FillMeta, WriteMeta
<1>6. FolderOK(n) /\ WriterOK(n) /\ NoteOK(n)
  BY <1>1 DEF NoteOK
<1>7. FolderOK(n)'
  <2>1. j.at <= stamp[n]
    BY <1>1, <1>6 DEF WriterOK, WriterAt, Places
  <2> QED
    BY <2>1, <1>4, <1>5, <1>6 DEF FolderOK
<1>8. WriterOK(n)'
  BY <1>1, <1>2, <1>3, <1>4, <1>5, <1>6 DEF WriterOK, WriterAt, Places
<1>9. ASSUME NEW at \in Nat, NEW id, HeadHolds(n, at, id)
      PROVE  HeadHolds(n, at, id)' /\ at < j.at
  BY <1>1, <1>2, <1>3, <1>4, <1>5, <1>9 DEF HeadHolds, WriterAt
<1>10. ASSUME NEW time \in Nat, NEW at \in Nat, NEW id, NEW content,
              HeadHolds(n, at, id), TextHolds(n, time, at, content)
       PROVE  TextHolds(n, time, at, content)'
  <2>1. at # j.at
    BY <1>1, <1>9, <1>10
  <2> QED
    BY <1>1, <1>2, <1>3, <1>4, <1>5, <1>10, <2>1 DEF TextHolds, WriterAt
<1>11. ASSUME NEW time \in Nat, TimeHolds(n, time) PROVE TimeHolds(n, time)'
  BY <1>1, <1>2, <1>3, <1>4, <1>11 DEF TimeHolds, WriterAt
<1>12. NoteOK(n)'
  BY <1>1, <1>3, <1>4, <1>6, <1>7, <1>8, <1>9, <1>10, <1>11, ClaimsKept
<1>13. \A m \in Note : m # n => NoteOK(m)'
  BY <1>1, <1>2, <1>4, OthersKept
<1> QED
  BY <1>12, <1>13

LEMMA OpenTextInv ==
  ASSUME StoreInv, TypeOK', OpenText, NEW j, j = job["writer"], NEW n, n = j.n
  PROVE  \A m \in Note : NoteOK(m)'
<1> USE DEF StoreInv
<1>1. j.pc = "openText" /\ n \in Note /\ clock \in Nat
  BY Typed, AtNote DEF OpenText, At, Resting
<1>2. PICK q \in Job : /\ Becomes("writer", q) /\ q.pc = "fillText" /\ q.n = n
                       /\ q.at = j.at /\ q.id = j.id
  BY Typed, GotoEffect DEF OpenText, Places
<1>3. job'["writer"] = q /\ job'["keeper"] = job["keeper"]
  BY <1>2, Typed DEF Becomes
<1>4. UNCHANGED <<clock, meta, row, stamp>> /\ \A m \in Note : m # n => text'[m] = text[m]
  BY Typed DEF OpenText, WriteText, bounds
<1>5. text'[n] = [id |-> 0, time |-> clock]
  BY <1>1, Typed DEF OpenText, WriteText
<1>6. FolderOK(n) /\ WriterOK(n) /\ NoteOK(n) /\ (Current(n)' <=> Current(n))
  BY <1>1, <1>4 DEF NoteOK, Current, Whole
<1>7. FolderOK(n)'
  BY <1>1, <1>4, <1>5, <1>6 DEF FolderOK
<1>8. WriterOK(n)'
  BY <1>1, <1>2, <1>3, <1>4, <1>5, <1>6 DEF WriterOK, WriterAt, Places
<1>9. ASSUME NEW at \in Nat, NEW id, HeadHolds(n, at, id) PROVE HeadHolds(n, at, id)'
  BY <1>1, <1>2, <1>3, <1>4, <1>6, <1>9 DEF HeadHolds, WriterAt
<1>10. ASSUME NEW time \in Nat, NEW at, NEW content, TextHolds(n, time, at, content)
       PROVE  TextHolds(n, time, at, content)'
  <2>1. time <= clock /\ (Current(n) /\ meta[n].at = at => time < clock)
    BY <1>1, <1>6, <1>10 DEF TextHolds, WriterOK, WriterAt
  <2>2. WriterAt(n, {"fillText"})' /\ at = job'["writer"].at => time < clock
    BY <1>1, <1>2, <1>3, <1>10 DEF TextHolds, WriterAt
  <2>3. ~WriterAt(n, {"openText"})'
    BY <1>2, <1>3 DEF WriterAt
  <2> QED
    BY <1>1, <1>4, <1>5, <1>6, <2>1, <2>2, <2>3 DEF TextHolds
<1>11. ASSUME NEW time \in Nat, TimeHolds(n, time) PROVE TimeHolds(n, time)'
  BY <1>1, <1>2, <1>3, <1>4, <1>5, <1>11 DEF TimeHolds, WriterAt
<1>12. NoteOK(n)'
  BY <1>1, <1>3, <1>4, <1>6, <1>7, <1>8, <1>9, <1>10, <1>11, ClaimsKept
<1>13. \A m \in Note : m # n => NoteOK(m)'
  BY <1>1, <1>2, <1>4, OthersKept
<1> QED
  BY <1>12, <1>13

LEMMA FillTextInv ==
  ASSUME StoreInv, TypeOK', FillText, NEW j, j = job["writer"], NEW n, n = j.n
  PROVE  \A m \in Note : NoteOK(m)'
<1> USE DEF StoreInv
<1>1. j.pc = "fillText" /\ n \in Note /\ clock \in Nat
  BY Typed, AtNote DEF FillText, At, Resting
<1>2. PICK q \in Job : /\ Becomes("writer", q) /\ q.pc = "signatures" /\ q.n = n
                       /\ q.at = j.at /\ q.id = j.id
  BY Typed, GotoEffect DEF FillText, Places
<1>3. job'["writer"] = q /\ job'["keeper"] = job["keeper"]
  BY <1>2, Typed DEF Becomes
<1>4. UNCHANGED <<clock, meta, row, stamp>> /\ \A m \in Note : m # n => text'[m] = text[m]
  BY Typed DEF FillText, WriteText, bounds
<1>5. text'[n] = [id |-> j.id, time |-> clock]
  BY <1>1, Typed DEF FillText, WriteText
<1>6. FolderOK(n) /\ WriterOK(n) /\ NoteOK(n) /\ (Current(n)' <=> Current(n))
  BY <1>1, <1>4 DEF NoteOK, Current, Whole
<1>7. FolderOK(n)'
  BY <1>1, <1>4, <1>5, <1>6 DEF FolderOK
<1>8. WriterOK(n)'
  BY <1>1, <1>2, <1>3, <1>4, <1>5, <1>6 DEF WriterOK, WriterAt, Places
<1>9. ASSUME NEW at \in Nat, NEW id, HeadHolds(n, at, id) PROVE HeadHolds(n, at, id)'
  BY <1>1, <1>2, <1>3, <1>4, <1>6, <1>9 DEF HeadHolds, WriterAt
<1>10. ASSUME NEW time \in Nat, NEW at, NEW content, TextHolds(n, time, at, content)
       PROVE  TextHolds(n, time, at, content)'
  <2>1. Current(n) /\ meta[n].at = at => time < clock \/ content = 0
    BY <1>1, <1>6, <1>10 DEF TextHolds, WriterOK, WriterAt
  <2>2. time <= clock /\ ~WriterAt(n, {"openText"})' /\ ~WriterAt(n, {"fillText"})'
    BY <1>2, <1>3, <1>10 DEF TextHolds, WriterAt
  <2> QED
    BY <1>1, <1>4, <1>5, <1>6, <2>1, <2>2 DEF TextHolds
<1>11. ASSUME NEW time \in Nat, TimeHolds(n, time) PROVE TimeHolds(n, time)'
  <2>1. ~WriterAt(n, {"openMeta", "fillMeta", "openText"})'
    BY <1>2, <1>3 DEF WriterAt
  <2>2. text'[n] # NoFile
    BY <1>1, <1>5, StoreAssumption, AtNote, Typed DEF TextFile, Resting
  <2>3. text'[n].time = clock /\ time <= clock
    BY <1>5, <1>11 DEF TimeHolds
  <2> QED
    BY <1>4, <2>1, <2>2, <2>3 DEF TimeHolds
<1>12. NoteOK(n)'
  BY <1>1, <1>3, <1>4, <1>6, <1>7, <1>8, <1>9, <1>10, <1>11, ClaimsKept
<1>13. \A m \in Note : m # n => NoteOK(m)'
  BY <1>1, <1>2, <1>4, OthersKept
<1> QED
  BY <1>12, <1>13

LEMMA ReadSignaturesInv ==
  ASSUME StoreInv, TypeOK', ReadSignatures, NEW j, j = job["writer"], NEW n, n = j.n
  PROVE  \A m \in Note : NoteOK(m)'
<1> USE DEF StoreInv
<1>1. j.pc = "signatures" /\ n \in Note /\ clock \in Nat
  BY Typed, AtNote DEF ReadSignatures, At, Resting
<1>2. PICK q : q = [j EXCEPT !.times = TimesOf(n), !.pc = "index"]
  OBVIOUS
<1>3. /\ q \in Job /\ q.n = n /\ q.pc = "index" /\ q.at = j.at /\ q.id = j.id
      /\ q.times = TimesOf(n)
  BY <1>1, <1>2, Typed, TimesType DEF Job, Places
<1>4. Becomes("writer", q)
  <2>1. job' = [job EXCEPT !["writer"] = q]
    BY <1>2 DEF ReadSignatures, TypeOK, Workers
  <2> QED
    BY <1>3, <2>1, Typed, OneJob
<1>5. job'["writer"] = q /\ job'["keeper"] = job["keeper"]
  BY <1>4, Typed DEF Becomes
<1>6. UNCHANGED <<clock, meta, text, row, stamp>>
  BY DEF ReadSignatures, files, bounds
<1>7. FolderOK(n) /\ WriterOK(n) /\ NoteOK(n) /\ (Current(n)' <=> Current(n))
  BY <1>1, <1>6 DEF NoteOK, Current, Whole
<1>8. FolderOK(n)'
  BY <1>6, <1>7 DEF FolderOK
<1>9. WriterOK(n)'
  <2>1. /\ q.times.text <= clock
        /\ text[n] # NoFile => q.times.text <= text[n].time
    <3>1. CASE TimesOf(n) = NoTimes
      BY <1>1, <1>3, <3>1, Numbers DEF NoTimes
    <3>2. CASE text[n] # NoFile /\ TimesOf(n).text = text[n].time
      BY <1>1, <1>3, <1>7, <3>2, Numbers DEF FolderOK
    <3> QED
      BY <3>1, <3>2 DEF TimesOf
  <2> QED
    BY <1>1, <1>3, <1>5, <1>6, <1>7, <2>1 DEF WriterOK, WriterAt, Places
<1>10. ASSUME NEW at \in Nat, NEW id, HeadHolds(n, at, id) PROVE HeadHolds(n, at, id)'
  BY <1>3, <1>5, <1>6, <1>7, <1>10 DEF HeadHolds, WriterAt
<1>11. ASSUME NEW time \in Nat, NEW at, NEW content, TextHolds(n, time, at, content)
       PROVE  TextHolds(n, time, at, content)'
  BY <1>3, <1>5, <1>6, <1>7, <1>11 DEF TextHolds, WriterAt
<1>12. ASSUME NEW time \in Nat, TimeHolds(n, time) PROVE TimeHolds(n, time)'
  <2>1. ~WriterAt(n, {"openMeta", "fillMeta", "openText"})'
    BY <1>3, <1>5 DEF WriterAt
  <2> QED
    BY <1>6, <1>12, <2>1 DEF TimeHolds
<1>13. NoteOK(n)'
  BY <1>1, <1>5, <1>6, <1>7, <1>8, <1>9, <1>10, <1>11, <1>12, ClaimsKept
<1>14. \A m \in Note : m # n => NoteOK(m)'
  BY <1>1, <1>3, <1>4, <1>6, OthersKept
<1> QED
  BY <1>13, <1>14

LEMMA IndexNoteInv ==
  ASSUME StoreInv, TypeOK', IndexNote, NEW j, j = job["writer"], NEW n, n = j.n
  PROVE  \A m \in Note : NoteOK(m)'
<1> USE DEF StoreInv
<1>1. j.pc = "index" /\ n \in Note
  BY Typed, AtNote DEF IndexNote, At, Resting
<1>2. Becomes("writer", Idle) /\ Idle.n = NoNote /\ n # NoNote
  BY <1>1, StoreAssumption, Typed, EndEffect, IdleType DEF IndexNote
<1>3. job'["writer"] = Idle /\ job'["keeper"] = job["keeper"]
  BY <1>2, Typed DEF Becomes
<1>4. UNCHANGED <<clock, meta, text, stamp>> /\ \A m \in Note : m # n => row'[m] = row[m]
  BY <1>1, Typed DEF IndexNote, files, bounds
<1>5. /\ row'[n].at = j.at /\ row'[n].id = j.id /\ row'[n].text = j.id
      /\ row'[n].times = j.times
  BY <1>1, Typed DEF IndexNote, RowOf
<1>6. FolderOK(n) /\ WriterOK(n) /\ NoteOK(n) /\ (Current(n)' <=> Current(n))
  BY <1>1, <1>4 DEF NoteOK, Current, Whole
<1>7. FolderOK(n)' /\ WriterOK(n)'
  BY <1>2, <1>3, <1>4, <1>6 DEF FolderOK, WriterOK, WriterAt
<1>8. HeadHolds(n, j.at, j.id)'
  BY <1>1, <1>2, <1>3, <1>4, <1>6 DEF WriterOK, HeadHolds, WriterAt, Places
<1>9. TextHolds(n, j.times.text, j.at, j.id)'
  BY <1>1, <1>2, <1>3, <1>4, <1>6 DEF WriterOK, TextHolds, WriterAt
<1>10. RowOK(n)'
  BY <1>5, <1>8, <1>9 DEF RowOK
<1>11. KeeperOK(n)'
  <2>1. \A time : TimeHolds(n, time) => TimeHolds(n, time)'
    BY <1>2, <1>3, <1>4 DEF TimeHolds, WriterAt
  <2>2. \A at, id : HeadHolds(n, at, id) => HeadHolds(n, at, id)'
    BY <1>2, <1>3, <1>4, <1>6 DEF HeadHolds, WriterAt
  <2>3. \A time, at, content :
          TextHolds(n, time, at, content) => TextHolds(n, time, at, content)'
    BY <1>2, <1>3, <1>4, <1>6 DEF TextHolds, WriterAt
  <2> QED
    BY <1>3, <1>6, <2>1, <2>2, <2>3 DEF KeeperOK, NoteOK
<1>12. \A m \in Note : m # n => NoteOK(m)'
  BY <1>1, <1>2, <1>4, OthersKept
<1> QED
  BY <1>7, <1>10, <1>11, <1>12 DEF NoteOK

-----------------------------------------------------------------------------
(* Programs outside write, and time passes. *)

LEMMA EditInv ==
  ASSUME StoreInv, TypeOK', NEW n \in Note, EditOutside(n)
  PROVE  \A m \in Note : NoteOK(m)'
<1> USE DEF StoreInv
<1>1. /\ UNCHANGED <<clock, meta, row, job>> /\ clock \in Nat /\ clock >= 1
      /\ \A m \in Note : m # n => text'[m] = text[m] /\ stamp'[m] = stamp[m]
  BY Typed DEF EditOutside, WriteText
<1>2. /\ text'[n].time = clock /\ text'[n] # NoFile /\ stamp'[n] = clock /\ stamp[n] < clock
      /\ text[n] # NoFile /\ text[n].time < clock /\ job["writer"].n # n
  <2>1. text'[n] = [id |-> changes + 1, time |-> clock]
    BY Typed DEF EditOutside, WriteText
  <2>2. [id |-> changes + 1, time |-> clock] \in TextFile
    BY StoreAssumption, Typed DEF EditOutside, Untouched, NewSecond, TextFile, Ids
  <2>3. text'[n] # NoFile
    BY <2>1, <2>2, StoreAssumption
  <2> QED
    BY <2>1, <2>3, Typed DEF EditOutside, Untouched, NewSecond
<1>3. NoteOK(n) /\ FolderOK(n) /\ (Current(n)' <=> Current(n))
  BY <1>1 DEF NoteOK, Current, Whole
<1>4. FolderOK(n)'
  BY <1>1, <1>2, <1>3, Numbers DEF FolderOK, Current, Whole
<1>5. WriterOK(n)'
  BY <1>1, <1>2 DEF WriterOK, WriterAt
<1>6. ASSUME NEW at \in Nat, NEW id, HeadHolds(n, at, id) PROVE HeadHolds(n, at, id)'
  BY <1>1, <1>2, <1>3, <1>6, Numbers DEF HeadHolds, WriterAt
<1>7. ASSUME NEW time \in Nat, NEW at, NEW content, TextHolds(n, time, at, content)
      PROVE  TextHolds(n, time, at, content)'
  <2>1. time < clock
    BY <1>1, <1>2, <1>7, Numbers DEF TextHolds
  <2>2. time <= clock
    BY <1>1, <2>1
  <2>3. time # text'[n].time
    BY <1>1, <1>2, <2>1
  <2> QED
    BY <1>1, <1>2, <2>2, <2>3 DEF TextHolds, WriterAt
<1>8. ASSUME NEW time \in Nat, TimeHolds(n, time) PROVE TimeHolds(n, time)'
  BY <1>1, <1>2, <1>8 DEF TimeHolds, WriterAt
<1>9. NoteOK(n)'
  BY <1>1, <1>3, <1>4, <1>5, <1>6, <1>7, <1>8, ClaimsKept
<1>10. ASSUME NEW m \in Note, m # n PROVE NoteOK(m)'
  BY <1>1, <1>10, StampsKept, Undisturbed
<1> QED
  BY <1>9, <1>10

LEMMA BringInv ==
  ASSUME StoreInv, TypeOK', NEW n \in Note, BringOutside(n)
  PROVE  \A m \in Note : NoteOK(m)'
<1> USE DEF StoreInv
<1>1. /\ UNCHANGED <<clock, row, job>> /\ clock \in Nat /\ clock >= 1
      /\ \A m \in Note : m # n => /\ text'[m] = text[m] /\ stamp'[m] = stamp[m]
                                  /\ meta'[m] = meta[m]
  BY Typed DEF BringOutside, WriteText, WriteMeta
<1>2. /\ text'[n].time = clock /\ meta'[n].at = clock /\ stamp'[n] = clock /\ stamp[n] < clock
      /\ job["writer"].n # n /\ job["keeper"].n # n
  BY Typed DEF BringOutside, WriteText, WriteMeta, Untouched, NewSecond
<1>3. NoteOK(n)
  OBVIOUS
<1>4. FolderOK(n)'
  BY <1>1, <1>2 DEF FolderOK
<1>5. WriterOK(n)' /\ KeeperOK(n)'
  BY <1>1, <1>2 DEF WriterOK, KeeperOK, WriterAt
<1>6. ASSUME NEW at \in Nat, NEW id, HeadHolds(n, at, id)
      PROVE  HeadHolds(n, at, id)' /\ at # clock
  BY <1>1, <1>2, <1>6, Numbers DEF HeadHolds, WriterAt
<1>7. ASSUME NEW time \in Nat, NEW at, NEW content, TextHolds(n, time, at, content), at # clock
      PROVE  TextHolds(n, time, at, content)'
  BY <1>1, <1>2, <1>7 DEF TextHolds, WriterAt
<1>8. RowOK(n)'
  BY <1>1, <1>3, <1>6, <1>7, Numbers DEF NoteOK, RowOK
<1>9. ASSUME NEW m \in Note, m # n PROVE NoteOK(m)'
  BY <1>1, <1>9, StampsKept, Undisturbed
<1> QED
  BY <1>4, <1>5, <1>8, <1>9 DEF NoteOK

LEMMA TickInv ==
  ASSUME StoreInv, TypeOK', Tick
  PROVE  \A m \in Note : NoteOK(m)'
<1> SUFFICES ASSUME NEW m \in Note PROVE NoteOK(m)'
  OBVIOUS
<1> USE DEF StoreInv
<1>1. UNCHANGED <<meta, text, row, job, stamp>> /\ clock' = clock + 1 /\ clock \in Nat
  BY Typed DEF Tick, files
<1>2. NoteOK(m) /\ (Current(m)' <=> Current(m))
  BY <1>1 DEF Current, Whole
<1>3. FolderOK(m)'
  BY <1>1, <1>2, Numbers DEF NoteOK, FolderOK
<1>4. WriterOK(m)'
  BY <1>1, <1>2, Numbers, Typed DEF NoteOK, WriterOK, WriterAt
<1>5. ASSUME NEW at \in Nat, NEW id, HeadHolds(m, at, id) PROVE HeadHolds(m, at, id)'
  BY <1>1, <1>2, <1>5 DEF HeadHolds, WriterAt
<1>6. ASSUME NEW time \in Nat, NEW at, NEW content, TextHolds(m, time, at, content)
      PROVE  TextHolds(m, time, at, content)'
  BY <1>1, <1>2, <1>6 DEF TextHolds, WriterAt
<1>7. ASSUME NEW time \in Nat, TimeHolds(m, time) PROVE TimeHolds(m, time)'
  BY <1>1, <1>7 DEF TimeHolds, WriterAt
<1> QED
  BY <1>1, <1>2, <1>3, <1>4, <1>5, <1>6, <1>7, ClaimsKept

-----------------------------------------------------------------------------
LEMMA StoreStep == StoreInv /\ [Next]_vars => StoreInv'
<1> SUFFICES ASSUME StoreInv, [Next]_vars PROVE StoreInv'
  OBVIOUS
<1>1. TypeOK' /\ clock' >= 1
  BY TypeStep DEF StoreInv
<1>2. \A n \in Note : NoteOK(n)'
  <2>1. CASE \E n \in Note : \/ CreateNote(n) \/ UpdateNote(n) \/ DeleteNote(n) \/ RestoreNote(n)
                             \/ ApplyRemoteMerge(n)
    <3>1. PICK n \in Note, pc \in {"openMeta", "dropText"}, at \in 1..clock, d \in BOOLEAN :
            Begin(n, pc, at, d)
      BY <2>1, ChangeBegins DEF StoreInv
    <3> QED
      BY <1>1, <3>1, BeginInv
  <2>2. CASE \E n \in Note : EditOutside(n) \/ BringOutside(n) \/ RemoveOutside(n)
    BY <1>1, <2>2, EditInv, BringInv, RemoveInv
  <2>3. CASE WriterStep
    <3>1. PICK j, n : j = job["writer"] /\ n = j.n
      OBVIOUS
    <3>2. CASE OpenMeta
      BY <1>1, <3>1, <3>2, OpenMetaInv
    <3>3. CASE FillMeta
      BY <1>1, <3>1, <3>3, FillMetaInv
    <3>4. CASE OpenText
      BY <1>1, <3>1, <3>4, OpenTextInv
    <3>5. CASE FillText
      BY <1>1, <3>1, <3>5, FillTextInv
    <3>6. CASE ReadSignatures
      BY <1>1, <3>1, <3>6, ReadSignaturesInv
    <3>7. CASE IndexNote
      BY <1>1, <3>1, <3>7, IndexNoteInv
    <3> QED
      BY <2>3, <3>2, <3>3, <3>4, <3>5, <3>6, <3>7 DEF WriterStep
  <2>4. CASE Stat \/ Compare \/ ReadMeta \/ ReadText \/ Reindex
    <3>1. PICK j, n : j = job["keeper"] /\ n = j.n
      OBVIOUS
    <3>2. CASE Stat
      BY <1>1, <3>1, <3>2, StatInv
    <3>3. CASE Compare
      BY <1>1, <3>1, <3>3, CompareInv
    <3>4. CASE ReadMeta
      BY <1>1, <3>1, <3>4, ReadMetaInv
    <3>5. CASE ReadText
      BY <1>1, <3>1, <3>5, ReadTextInv
    <3>6. CASE Reindex
      BY <1>1, <3>1, <3>6, ReindexInv
    <3> QED
      BY <2>4, <3>2, <3>3, <3>4, <3>5, <3>6
  <2>5. CASE \/ EmptyTrash \/ PurgeExpiredTrash \/ Reconcile \/ PurgeNext \/ SweepDone
             \/ ListFolders \/ CleanIndex \/ Look \/ LookDone
    BY <1>1, <2>5, SweepInv
  <2>6. CASE \E w \in Workers : PurgeStep(w)
    <3>1. PICK w \in Workers : PurgeStep(w)
      BY <2>6
    <3>2. PICK j : j = job[w]
      OBVIOUS
    <3> QED
      BY <1>1, <3>1, <3>2, PurgeInv
  <2>7. CASE Crash
    BY <1>1, <2>7, CrashInv
  <2>8. CASE Tick
    BY <1>1, <2>8, TickInv
  <2>9. CASE UNCHANGED vars
    <3> SUFFICES ASSUME NEW n \in Note PROVE NoteOK(n)'
      OBVIOUS
    <3>1. UNCHANGED <<clock, meta, text, row, job, stamp>> /\ (Current(n)' => meta'[n] = meta[n])
      BY <2>9 DEF vars
    <3> QED
      BY <1>1, <3>1, StampsKept, Undisturbed DEF StoreInv
  <2> QED
    BY <2>1, <2>2, <2>3, <2>4, <2>5, <2>6, <2>7, <2>8, <2>9 DEF Next, KeeperStep
<1> QED
  BY <1>1, <1>2 DEF StoreInv

\* A row that a reconcile takes for fresh has what its folder has: whatever the
\* order of saves, sweeps, reconciles, crashes and programs outside, skipping
\* a folder (note_repository_reconcile.dart:161-167) hides no change of it.
THEOREM FreshRowsAreEqual == Spec => []FreshMeansEqual
<1> QED
  BY InitInv, StoreStep, InvFresh, PTL DEF Spec

=============================================================================
