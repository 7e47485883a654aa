------------------------------ MODULE NoteStore ------------------------------
(***************************************************************************)
(* The note folders of one device (meta.json and note.md, the source of    *)
(* truth) and the index of them in the database, from which the feed and   *)
(* the trash are listed.  A writer changes a folder file by file and then  *)
(* the index; a keeper purges the trash by the index and rebuilds the      *)
(* index from the folders (reconcileFromFilesystem); programs outside      *)
(* change the folders; the process may stop between any two steps.         *)
(*                                                                         *)
(* Contents are numbers, one for each change, 0 for an empty file.  Times  *)
(* are in seconds, which is what the index compares.  Attachments, titles, *)
(* history, journal, search table and outbox are left out.                 *)
(***************************************************************************)
EXTENDS Naturals

CONSTANTS
  Note,
  NoFile, NoRow, NoNote,
  TTL,         \* how long the trash keeps a note
  MaxTime,     \* bound: the clock; there are changes while the trash can still expire
  MaxChanges,  \* bound: changes of folders
  MaxCrashes   \* bound: stops of the process

Workers == {"writer", "keeper"}
Seconds == 0..MaxTime
Ids == 0..MaxChanges

MetaFile == [id : Ids, at : Seconds, deleted : BOOLEAN, purged : BOOLEAN, torn : BOOLEAN,
             time : Seconds]
TextFile == [id : Ids, time : Seconds]
Times == [meta : Seconds, text : Seconds]
Row == [id : Ids, text : Ids, at : Seconds, deleted : BOOLEAN, times : Times]
Places == {"idle", "openMeta", "fillMeta", "openText", "fillText", "signatures", "index",
           "dropText", "openTomb", "fillTomb", "dropRow", "sweep", "list", "clean", "look",
           "stat", "compare", "readMeta", "readText"}
Job == [pc : Places, n : Note \cup {NoNote}, todo : SUBSET Note, scan : BOOLEAN, times : Times,
        id : Ids, text : Ids, at : Seconds, deleted : BOOLEAN]

ASSUME StoreAssumption ==
  /\ TTL \in Nat /\ MaxTime \in Nat \ {0} /\ MaxChanges \in Nat /\ MaxCrashes \in Nat
  /\ NoNote \notin Note
  /\ NoFile \notin MetaFile \cup TextFile /\ NoRow \notin Row

VARIABLES
  clock,    \* the present second
  meta,     \* meta[n]: meta.json; torn while it is cut short, id 0 then
  text,     \* text[n]: note.md
  row,      \* row[n]: the row of n in the index
  job,      \* job[w]: what the writer and the keeper are doing
  stamp,    \* stamp[n]: the second of the latest change of n
  changes,  \* how many changes were made
  crashes   \* how often the process stopped

vars == <<clock, meta, text, row, job, stamp, changes, crashes>>
files == <<meta, text>>
bounds == <<clock, stamp, changes, crashes>>

\* What a job carries: the note it is at, what it writes or has read of it,
\* the notes still to do, and the times of the two files as it saw them.
NoTimes == [meta |-> 0, text |-> 0]
Idle == [pc |-> "idle", n |-> NoNote, todo |-> {}, scan |-> FALSE, times |-> NoTimes,
         id |-> 0, text |-> 0, at |-> 0, deleted |-> FALSE]

Init ==
  /\ clock = 1
  /\ meta = [n \in Note |-> NoFile] /\ text = [n \in Note |-> NoFile]
  /\ row = [n \in Note |-> NoRow]
  /\ job = [w \in Workers |-> Idle]
  /\ stamp = [n \in Note |-> 0]
  /\ changes = 0 /\ crashes = 0
-----------------------------------------------------------------------------
Torn(n) == meta[n] # NoFile /\ meta[n].torn
Whole(n) == meta[n] # NoFile /\ ~meta[n].torn
\* getNote and read: meta.json and note.md are there, and not a tombstone.
Readable(n) == Whole(n) /\ ~meta[n].purged /\ text[n] # NoFile
InTrash(n) == row[n] # NoRow /\ row[n].deleted
TimesOf(n) ==
  IF meta[n] = NoFile \/ text[n] = NoFile THEN NoTimes
  ELSE [meta |-> meta[n].time, text |-> text[n].time]

At(w, pc) == job[w].pc = pc
Goto(w, pc) == job' = [job EXCEPT ![w].pc = pc]
\* A job ends: it is done, or a meta.json that cannot be parsed threw it out.
End(w) == job' = [job EXCEPT ![w] = Idle]
\* The keeper turns to the next of its notes.
Turn(pc) == job' = [job EXCEPT !.keeper = [Idle EXCEPT !.pc = pc, !.todo = job.keeper.todo,
                                                       !.scan = job.keeper.scan]]

WriteMeta(n, m) == meta' = [meta EXCEPT ![n] = m]
WriteText(n, id) == text' = [text EXCEPT ![n] = [id |-> id, time |-> clock]]
CutShort == [id |-> 0, at |-> 0, deleted |-> FALSE, purged |-> FALSE, torn |-> TRUE,
             time |-> clock]
-----------------------------------------------------------------------------
\* The index cannot tell changes of the same second apart: every change of a
\* note comes in a second of its own.
NewSecond(n) == /\ changes < MaxChanges /\ clock + TTL < MaxTime
                /\ stamp[n] < clock
                /\ meta[n] # NoFile => meta[n].time < clock
                /\ text[n] # NoFile => text[n].time < clock

\* A change of n begins with what is in its folder; at is its updated_at.
Begin(n, pc, at, deleted) ==
  /\ At("writer", "idle") /\ NewSecond(n)
  /\ at > stamp[n]
  /\ changes' = changes + 1
  /\ stamp' = [stamp EXCEPT ![n] = at]
  /\ job' = [job EXCEPT !.writer = [Idle EXCEPT !.pc = pc, !.n = n, !.id = changes + 1,
                                                 !.at = at, !.deleted = deleted]]
  /\ UNCHANGED <<clock, files, row, crashes>>

CreateNote(n) == /\ meta[n] = NoFile /\ text[n] = NoFile
                 /\ Begin(n, "openMeta", clock, FALSE)
UpdateNote(n) == /\ Readable(n) /\ ~meta[n].deleted
                 /\ Begin(n, "openMeta", clock, FALSE)
DeleteNote(n) == /\ Readable(n) /\ ~meta[n].deleted
                 /\ Begin(n, "openMeta", clock, TRUE)
RestoreNote(n) == /\ Readable(n) /\ meta[n].deleted
                  /\ Begin(n, "openMeta", clock, FALSE)
\* A remote copy that wins, or a purge; it may be older than the present.
ApplyRemoteMerge(n) ==
  /\ ~Torn(n)
  /\ \E at \in 1..clock :
       \/ \E d \in BOOLEAN : Begin(n, "openMeta", at, d)
       \/ Begin(n, "dropText", at, TRUE)

\* NoteFolderRepository.write: each file is emptied, then filled.
\* Mutant: the job forgets its note.
OpenMetaOnly ==
  /\ At("writer", "openMeta")
  /\ WriteMeta(job.writer.n, CutShort)
  /\ job' = [job EXCEPT !.writer = [Idle EXCEPT !.pc = "fillMeta"]]
  /\ UNCHANGED <<text, row, bounds>>

OpenMeta ==
  /\ At("writer", "openMeta")
  /\ WriteMeta(job.writer.n, CutShort)
  /\ Goto("writer", "fillMeta")
  /\ UNCHANGED <<text, row, bounds>>

FillMeta ==
  LET j == job.writer IN
  /\ At("writer", "fillMeta")
  /\ WriteMeta(j.n, [id |-> j.id, at |-> j.at, deleted |-> j.deleted, purged |-> FALSE,
                     torn |-> FALSE, time |-> clock])
  /\ Goto("writer", "openText")
  /\ UNCHANGED <<text, row, bounds>>

OpenText ==
  /\ At("writer", "openText")
  /\ WriteText(job.writer.n, 0)
  /\ Goto("writer", "fillText")
  /\ UNCHANGED <<meta, row, bounds>>

FillText ==
  /\ At("writer", "fillText")
  /\ WriteText(job.writer.n, job.writer.id)
  /\ Goto("writer", "signatures")
  /\ UNCHANGED <<meta, row, bounds>>

\* _indexNote reads the times of the files and then writes the row.
ReadSignatures ==
  /\ At("writer", "signatures")
  /\ job' = [job EXCEPT !.writer.times = TimesOf(job.writer.n), !.writer.pc = "index"]
  /\ UNCHANGED <<files, row, bounds>>

RowOf(j, content) == [id |-> j.id, text |-> content, at |-> j.at, deleted |-> j.deleted,
                      times |-> j.times]

IndexNote ==
  /\ At("writer", "index")
  /\ row' = [row EXCEPT ![job.writer.n] = RowOf(job.writer, job.writer.id)]
  /\ End("writer")
  /\ UNCHANGED <<files, bounds>>
-----------------------------------------------------------------------------
\* _purgeNote and _applyPurgeTombstone, for the trash (keeper) or a remote
\* purge (writer): note.md goes, the tombstone is written, the row goes.
DropText(w) ==
  /\ At(w, "dropText")
  /\ text' = [text EXCEPT ![job[w].n] = NoFile]
  /\ Goto(w, "openTomb")
  /\ UNCHANGED <<meta, row, bounds>>

OpenTomb(w) ==
  /\ At(w, "openTomb")
  /\ WriteMeta(job[w].n, CutShort)
  /\ Goto(w, "fillTomb")
  /\ UNCHANGED <<text, row, bounds>>

FillTomb(w) ==
  /\ At(w, "fillTomb")
  /\ WriteMeta(job[w].n, [id |-> job[w].id, at |-> job[w].at, deleted |-> TRUE, purged |-> TRUE,
                          torn |-> FALSE, time |-> clock])
  /\ Goto(w, "dropRow")
  /\ UNCHANGED <<text, row, bounds>>

DropRow(w) ==
  /\ At(w, "dropRow")
  /\ row' = [row EXCEPT ![job[w].n] = NoRow]
  /\ IF w = "writer" THEN End(w) ELSE Turn("sweep")
  /\ UNCHANGED <<files, bounds>>

\* The trash is listed from the index, once.  A reconcile purges what has
\* expired and goes on to the folders.
Sweep(todo, scan) ==
  /\ At("keeper", "idle")
  /\ job' = [job EXCEPT !.keeper = [Idle EXCEPT !.pc = "sweep", !.todo = todo, !.scan = scan]]
  /\ UNCHANGED <<files, row, bounds>>

\* Mutant: what cannot be read is not purged.
ExpiredReadable == {n \in Note : InTrash(n) /\ row[n].at + TTL < clock /\ Readable(n)}
Expired == {n \in Note : InTrash(n) /\ row[n].at + TTL < clock}
EmptyTrash == {n \in Note : InTrash(n)} # {} /\ Sweep({n \in Note : InTrash(n)}, FALSE)
PurgeExpiredTrash == Expired # {} /\ Sweep(Expired, FALSE)
Reconcile == Sweep(Expired, TRUE)

PurgeNext ==
  LET j == job.keeper IN
  /\ At("keeper", "sweep")
  /\ \E n \in j.todo :
       IF Torn(n) THEN End("keeper") /\ UNCHANGED stamp
       ELSE /\ job' = [job EXCEPT !.keeper = [j EXCEPT !.pc = "dropText", !.n = n, !.at = clock,
                                                        !.todo = @ \ {n}]]
            /\ stamp' = [stamp EXCEPT ![n] = IF clock > @ THEN clock ELSE @]
  /\ UNCHANGED <<clock, files, row, changes, crashes>>

SweepDone ==
  /\ At("keeper", "sweep") /\ job.keeper.todo = {}
  /\ IF job.keeper.scan THEN Goto("keeper", "list") ELSE End("keeper")
  /\ UNCHANGED <<files, row, bounds>>
-----------------------------------------------------------------------------
\* reconcileFromFilesystem, after the purge: the folders are listed, rows
\* without a folder go, and each folder is compared with its row.
ListFolders ==
  /\ At("keeper", "list")
  /\ job' = [job EXCEPT !.keeper.pc = "clean",
                        !.keeper.todo = {n \in Note : meta[n] # NoFile \/ text[n] # NoFile}]
  /\ UNCHANGED <<files, row, bounds>>

\* Mutant: rows without a folder stay.
KeepRows ==
  /\ At("keeper", "clean")
  /\ Goto("keeper", "look")
  /\ UNCHANGED <<files, row, bounds>>

CleanIndex ==
  /\ At("keeper", "clean")
  /\ row' = [n \in Note |-> IF n \in job.keeper.todo THEN row[n] ELSE NoRow]
  /\ Goto("keeper", "look")
  /\ UNCHANGED <<files, bounds>>

Look ==
  LET j == job.keeper IN
  /\ At("keeper", "look")
  /\ \E n \in j.todo :
       \/ Torn(n) /\ End("keeper") /\ UNCHANGED row
       \/ /\ Whole(n) /\ meta[n].purged
          /\ row' = [row EXCEPT ![n] = NoRow]
          /\ job' = [job EXCEPT !.keeper.todo = @ \ {n}]
       \/ /\ meta[n] = NoFile \/ (Whole(n) /\ ~meta[n].purged)
          /\ job' = [job EXCEPT !.keeper =
                       [j EXCEPT !.pc = "stat", !.n = n, !.todo = @ \ {n},
                                 !.id = IF Whole(n) THEN meta[n].id ELSE 0,
                                 !.at = IF Whole(n) THEN meta[n].at ELSE 0,
                                 !.deleted = Whole(n) /\ meta[n].deleted]]
          /\ UNCHANGED row
  /\ UNCHANGED <<files, bounds>>

LookDone ==
  /\ At("keeper", "look") /\ job.keeper.todo = {}
  /\ End("keeper")
  /\ UNCHANGED <<files, row, bounds>>

Stat ==
  LET times == TimesOf(job.keeper.n) IN
  /\ At("keeper", "stat")
  /\ IF times = NoTimes THEN Turn("look")
     ELSE job' = [job EXCEPT !.keeper.times = times, !.keeper.pc = "compare"]
  /\ UNCHANGED <<files, row, bounds>>

\* The row is taken for fresh: the times of the files, updated_at and deleted
\* of the folder are those of the row.
LooksFresh(r, times, at, deleted) ==
  r # NoRow /\ r.times = times /\ r.at = at /\ r.deleted = deleted

Compare ==
  LET j == job.keeper IN
  /\ At("keeper", "compare")
  /\ IF j.id # 0 /\ LooksFresh(row[j.n], j.times, j.at, j.deleted) THEN Turn("look")
     ELSE Goto("keeper", "readMeta")
  /\ UNCHANGED <<files, row, bounds>>

ReadMeta ==
  LET n == job.keeper.n IN
  /\ At("keeper", "readMeta")
  /\ \/ Torn(n) /\ End("keeper")
     \/ ~Torn(n) /\ ~Readable(n) /\ Turn("look")
     \/ Readable(n) /\ job' = [job EXCEPT !.keeper.pc = "readText", !.keeper.id = meta[n].id,
                              !.keeper.at = meta[n].at, !.keeper.deleted = meta[n].deleted]
  /\ UNCHANGED <<files, row, bounds>>

ReadText ==
  LET n == job.keeper.n IN
  /\ At("keeper", "readText")
  /\ IF text[n] = NoFile THEN End("keeper")
     ELSE job' = [job EXCEPT !.keeper.text = text[n].id, !.keeper.pc = "index"]
  /\ UNCHANGED <<files, row, bounds>>

\* Mutant: the times are read when the row is written.
ReindexWithNewTimes ==
  LET j == job.keeper IN
  /\ At("keeper", "index")
  /\ row' = [row EXCEPT ![j.n] = RowOf([j EXCEPT !.times = TimesOf(j.n)], j.text)]
  /\ Turn("look")
  /\ UNCHANGED <<files, bounds>>

Reindex ==
  /\ At("keeper", "index")
  /\ row' = [row EXCEPT ![job.keeper.n] = RowOf(job.keeper, job.keeper.text)]
  /\ Turn("look")
  /\ UNCHANGED <<files, bounds>>
-----------------------------------------------------------------------------
\* Programs outside, a text editor or git.  They leave a note alone in the
\* moment in which the writer has it.
Untouched(n) == job.writer.n # n /\ NewSecond(n)

EditOutside(n) ==
  /\ Untouched(n) /\ text[n] # NoFile
  /\ WriteText(n, changes + 1)
  /\ changes' = changes + 1
  /\ stamp' = [stamp EXCEPT ![n] = clock]
  /\ UNCHANGED <<clock, meta, row, job, crashes>>

BringOutside(n) ==
  /\ Untouched(n) /\ job.keeper.n # n
  /\ meta[n] = NoFile /\ text[n] = NoFile
  /\ WriteText(n, changes + 1)
  /\ WriteMeta(n, [id |-> changes + 1, at |-> clock, deleted |-> FALSE, purged |-> FALSE,
                   torn |-> FALSE, time |-> clock])
  /\ changes' = changes + 1
  /\ stamp' = [stamp EXCEPT ![n] = clock]
  /\ UNCHANGED <<clock, row, job, crashes>>

RemoveOutside(n) ==
  /\ Untouched(n) /\ job.keeper.n # n
  /\ meta[n] # NoFile \/ text[n] # NoFile
  /\ WriteMeta(n, NoFile)
  /\ text' = [text EXCEPT ![n] = NoFile]
  /\ changes' = changes + 1
  /\ UNCHANGED <<clock, row, job, stamp, crashes>>

\* The process stops; what is on disk stays as it is.
Crash ==
  /\ crashes < MaxCrashes /\ \E w \in Workers : ~At(w, "idle")
  /\ crashes' = crashes + 1
  /\ job' = [w \in Workers |-> Idle]
  /\ UNCHANGED <<clock, files, row, stamp, changes>>

Tick == /\ clock < MaxTime
        /\ clock' = clock + 1
        /\ UNCHANGED <<files, row, job, stamp, changes, crashes>>

WriterStep == \/ OpenMeta \/ FillMeta \/ OpenText \/ FillText
              \/ ReadSignatures \/ IndexNote
PurgeStep(w) == DropText(w) \/ OpenTomb(w) \/ FillTomb(w) \/ DropRow(w)
KeeperStep == \/ PurgeNext \/ SweepDone \/ ListFolders \/ CleanIndex
              \/ Look \/ LookDone \/ Stat \/ Compare \/ ReadMeta \/ ReadText \/ Reindex

Next ==
  \/ \E n \in Note : \/ CreateNote(n) \/ UpdateNote(n) \/ DeleteNote(n) \/ RestoreNote(n)
                    \/ ApplyRemoteMerge(n)
                    \/ EditOutside(n) \/ BringOutside(n) \/ RemoveOutside(n)
  \/ WriterStep \/ KeeperStep
  \/ \E w \in Workers : PurgeStep(w)
  \/ EmptyTrash \/ PurgeExpiredTrash \/ Reconcile
  \/ Crash \/ Tick

Spec == Init /\ [][Next]_vars

\* Time passes and a job goes on while the process runs.  The app reconciles
\* at each start and in each background pass, whatever else sweeps the trash.
FairSpec == /\ Spec
            /\ WF_vars(Tick)
            /\ WF_vars(WriterStep \/ PurgeStep("writer"))
            /\ WF_vars(KeeperStep \/ PurgeStep("keeper"))
            /\ SF_vars(Reconcile)
-----------------------------------------------------------------------------
\* The variables keep their types; a job that is at a note knows which.
TypeOK ==
  /\ clock \in Seconds
  /\ meta \in [Note -> MetaFile \cup {NoFile}]
  /\ text \in [Note -> TextFile \cup {NoFile}]
  /\ row \in [Note -> Row \cup {NoRow}]
  /\ job \in [Workers -> Job]
  /\ \A w \in Workers : job[w].n = NoNote
                         => job[w].pc \in {"idle", "sweep", "list", "clean", "look"}
  /\ stamp \in [Note -> Seconds]
  /\ changes \in Ids /\ crashes \in 0..MaxCrashes

\* A row that a reconcile would take for fresh has what the folder has, so
\* that skipping the folder (note_repository_reconcile.dart:161-167) never
\* leaves the feed with an old note, whatever the order in which a save, the
\* reconcile, a crash and programs outside reach the files and the row.  The
\* exception is an empty text: a reconcile that reads note.md while a save
\* has it open, and writes the row after the save has.
FreshMeansEqual ==
  \A n \in Note :
    Readable(n) /\ LooksFresh(row[n], TimesOf(n), meta[n].at, meta[n].deleted)
      => row[n].id = meta[n].id /\ row[n].text \in {text[n].id, 0}

\* Folder and row say the same, as far as the folder can be read.
InIndex(n) ==
  /\ Readable(n) => row[n] # NoRow /\ row[n].id = meta[n].id /\ row[n].text = text[n].id
  /\ (meta[n] = NoFile /\ text[n] = NoFile) \/ (Whole(n) /\ meta[n].purged)
       => row[n] = NoRow

\* All but the text is in the row, which is taken for fresh without the text.
BlankRow(n) ==
  /\ Readable(n) /\ LooksFresh(row[n], TimesOf(n), meta[n].at, meta[n].deleted)
  /\ row[n].id = meta[n].id /\ row[n].text = 0

SomeTorn == \E n \in Note : Torn(n)

\* Once the changes end, the index comes to agree with every folder, whatever
\* was cut off by a crash or done outside, with two exceptions that stay for
\* good: a meta.json that a crash cut short keeps every reconcile from going
\* through; and a row may keep an empty text while note.md has one, when a
\* reconcile read note.md between the moment a save opened it and the moment
\* it filled it, and wrote its row after the save: the row then has the times
\* of the folder, and every later reconcile skips it.
IndexCatchesUp == <>[](SomeTorn \/ \A n \in Note : InIndex(n) \/ BlankRow(n))

\* "Rebuild Drift index from file system (FS wins)" (note_repository_reconcile.dart:118):
\* the same without the second exception.  It does not hold.
FilesWin == <>[](SomeTorn \/ \A n \in Note : InIndex(n))

\* A note of the trash whose purge was cut off after note.md was removed is
\* purged in the end by a later sweep, by the row that it still has.
HalfPurged(n) == /\ Whole(n) /\ meta[n].deleted /\ ~meta[n].purged
                 /\ text[n] = NoFile /\ InTrash(n)
PurgesAreFinished == \A n \in Note : HalfPurged(n) ~> (~HalfPurged(n) \/ SomeTorn)

\* "Permanently removes notes in trash": a sweep only purges a note that is
\* deleted in its folder.  It does not hold: the trash is listed from the
\* index, once, and a note restored since, or restored by a save that a crash
\* kept from the index, is purged.
PurgesOnlyTrash ==
  [][\A n \in Note : ~(/\ job.keeper.pc = "dropText" /\ job.keeper.n = n
                      /\ Readable(n) /\ ~meta[n].deleted
                      /\ text'[n] = NoFile)]_vars
=============================================================================
