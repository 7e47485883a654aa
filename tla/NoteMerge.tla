------------------------------ MODULE NoteMerge ------------------------------
(***************************************************************************)
(* The merge rules of meshpad_core: which catalog heads are fetched or     *)
(* pushed, and what a device keeps when a remote copy of a note meets its  *)
(* own.  Everything is a function of two copies; no state.                 *)
(*                                                                         *)
(* A copy is what meta.json and note.md hold, reduced to what the rules    *)
(* read: "body" stands for title, markdown and tags (noteContentEquals     *)
(* compares the three together), "atts" for the attachment list, "ts" for  *)
(* updated_at.  A purged note is a "tombstone": meta.json alone.           *)
(***************************************************************************)
EXTENDS Naturals

CONSTANTS
  Bodies,   \* the contents a note can have
  NoBody,   \* the content of a tombstone, or of no note at all
  Att       \* the attachments that can be added to a note

ASSUME BodyAssumption == NoBody \notin Bodies

Absent == [kind |-> "absent", ts |-> 0, body |-> NoBody, atts |-> {},
           deleted |-> FALSE]

\* A live or trashed note, and the tombstone _purgeNote writes.
Note(t, b, as, del) ==
  [kind |-> "note", ts |-> t, body |-> b, atts |-> as, deleted |-> del]
Tombstone(t) ==
  [kind |-> "tombstone", ts |-> t, body |-> NoBody, atts |-> {}, deleted |-> TRUE]

Notelike == [kind : {"note"}, ts : Nat, body : Bodies, atts : SUBSET Att,
             deleted : BOOLEAN]
Tombstones == [kind : {"tombstone"}, ts : Nat, body : {NoBody}, atts : {{}},
               deleted : {TRUE}]
Copies == {Absent} \cup Notelike \cup Tombstones

HeadOf(c) == [kind |-> c.kind, ts |-> c.ts, deleted |-> c.deleted]
Heads == [kind : {"absent", "note", "tombstone"}, ts : Nat, deleted : BOOLEAN]

Live(c) == c.kind = "note"
-----------------------------------------------------------------------------
(* Which heads move. *)

\* Mutant: a tombstone is fetched only over a note that is already in trash.
PullPurgeOfTrashOnly(local, remote) ==
  \/ local.kind = "absent"
  \/ remote.ts > local.ts /\ (remote.kind = "tombstone" => local.deleted)

NoteHeadNeedsRemotePull(local, remote) ==
  \/ local.kind = "absent"
  \/ remote.ts > local.ts
  \/ local.kind = "note" /\ remote.kind = "tombstone" /\ ~local.deleted
  \/ /\ local.kind = "note" /\ remote.kind = "note"
     /\ remote.ts = local.ts /\ remote.deleted # local.deleted

\* Mutant: only notes the peer lacks are pushed.
PushUnknownOnly(local, remote) == remote.kind = "absent"

NeedsPush(local, remote) ==
  \/ remote.kind = "absent"
  \/ local.ts > remote.ts
  \/ /\ local.ts = remote.ts
     /\ \/ local.deleted # remote.deleted
        \/ (local.kind = "tombstone") # (remote.kind = "tombstone")
-----------------------------------------------------------------------------
(* What a device keeps. *)

NoteContentEquals(local, remote) ==
  local.body = remote.body /\ local.deleted = remote.deleted

\* Mutant: the comparison of the two instants is the wrong way round.
OlderApplied(local, remote) ==
  IF NoteContentEquals(local, remote) THEN "unchanged"
  ELSE IF local.ts = remote.ts THEN "createdConflictCopy"
  ELSE IF remote.ts < local.ts THEN "appliedRemote" ELSE "appliedLocal"

ResolveNoteConflict(local, remote) ==
  IF NoteContentEquals(local, remote) THEN "unchanged"
  ELSE IF local.ts = remote.ts THEN "createdConflictCopy"
  ELSE IF remote.ts > local.ts THEN "appliedRemote" ELSE "appliedLocal"

\* Mutant: the attachment lists of both are kept.
UniteAttachments(local, remote) ==
  IF remote.ts < local.ts THEN local
  ELSE [remote EXCEPT !.atts = @ \cup local.atts]

\* mergeNoteMeta on two present metas.
MergeNoteMeta(local, remote) ==
  IF remote.ts > local.ts THEN remote
  ELSE IF remote.ts < local.ts THEN local
  ELSE IF remote.deleted # local.deleted /\ local.deleted THEN local
  ELSE remote

\* The result applyRemoteMerge reports for a copy "remote" that meets "local".
MergeResult(local, remote) ==
  IF remote.kind = "tombstone"
  THEN IF local.kind = "tombstone" /\ remote.ts <= local.ts THEN "unchanged"
       ELSE "applied"
  ELSE IF local.kind = "tombstone" /\ remote.ts <= local.ts THEN "skippedLocalNewer"
  ELSE IF ~Live(local) THEN "applied"
  ELSE CASE ResolveNoteConflict(local, remote) = "unchanged" -> "unchanged"
         [] ResolveNoteConflict(local, remote) = "appliedLocal" -> "skippedLocalNewer"
         [] ResolveNoteConflict(local, remote) = "createdConflictCopy" -> "conflictCopyCreated"
         [] OTHER -> "applied"

\* Mutant: of a note that comes, only the text is written.
BodyIntoLocal(local, remote) ==
  IF MergeResult(local, remote) # "applied" THEN local
  ELSE IF Live(remote) THEN [local EXCEPT !.body = remote.body] ELSE remote

\* The copy the device holds afterwards.
MergedCopy(local, remote) ==
  IF MergeResult(local, remote) # "applied" THEN local
  ELSE IF Live(local) /\ Live(remote)
  THEN [MergeNoteMeta(local, remote) EXCEPT !.body = remote.body]
  ELSE remote
=============================================================================
