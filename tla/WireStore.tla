------------------------------- MODULE WireStore -------------------------------
(***************************************************************************)
(* The two stores a libp2p sidecar keeps in memory between the app and the *)
(* network, notes (wire_store.rs) and attachments                          *)
(* (wire_attachment_store.rs), and the batch that carries both             *)
(* (wire_batch.rs).  The operators are pure: a store in, a store out.      *)
(*                                                                         *)
(* A snapshot is reduced to its meta.id and its meta.updated_at; two       *)
(* snapshots of a note with the same updated_at are the same.  The bytes   *)
(* of an attachment are reduced to their number.                           *)
(***************************************************************************)
EXTENDS Naturals, FiniteSets

CONSTANTS
  Notes,     \* note ids
  NoNote,    \* the id of a snapshot without meta.id
  Files,     \* keys of attachments: a note id and a name
  NoFile,    \* the key made of an empty note id or an empty name
  NoBlob,    \* no bytes under a key
  MaxBytes   \* MAX_ATTACHMENT_BYTES

ASSUME WireAssumption == /\ NoNote \notin Notes
                         /\ NoFile \notin Files
                         /\ NoBlob \notin Nat
                         /\ MaxBytes \in Nat
-----------------------------------------------------------------------------
(* Notes. *)

Missing == 0
Stores == [Notes -> Nat]
EmptyStore == [i \in Notes |-> Missing]
Held(s) == {i \in Notes : s[i] # Missing}

Snapshots == [id : Notes \cup {NoNote}, at : Nat]

Accepted(snap) == snap.id # NoNote

\* upsert asks for an id and for nothing else: the older snapshot wins if it is later.
Upsert(s, snap) == IF Accepted(snap) THEN [s EXCEPT ![snap.id] = snap.at] ELSE s

CatalogHeads(s) == {[id |-> i, at |-> s[i]] : i \in Held(s)}

\* No ids stand for all of them.
PullNotes(s, ids) ==
  {[id |-> i, at |-> s[i]] : i \in IF ids = {} THEN Held(s) ELSE ids \cap Held(s)}

AllSnapshots(s) == {[id |-> i, at |-> s[i]] : i \in Held(s)}

\* Lists of snapshots come from stores, so no id is there twice.
SnapshotOf(snaps, i) == CHOOSE x \in snaps : x.id = i
ImportSnapshots(s, snaps) ==
  [i \in Notes |-> IF \E x \in snaps : x.id = i THEN SnapshotOf(snaps, i).at ELSE s[i]]
ImportedNotes(snaps) == Cardinality({x \in snaps : Accepted(x)})
-----------------------------------------------------------------------------
(* Attachments. *)

BlobStores == [Files -> 0..MaxBytes \cup {NoBlob}]
EmptyBlobs == [f \in Files |-> NoBlob]

Blobs == [file : Files \cup {NoFile}, size : Nat]

\* Mutant: no limit on the size.
BlobOfAnySize(blob) == blob.file # NoFile
BlobAccepted(blob) == blob.file # NoFile /\ blob.size <= MaxBytes

UpsertBlob(a, blob) == IF BlobAccepted(blob) THEN [a EXCEPT ![blob.file] = blob.size] ELSE a

AllBlobs(a) == {[file |-> f, size |-> a[f]] : f \in {g \in Files : a[g] # NoBlob}}
-----------------------------------------------------------------------------
(* Batches. *)

\* What a message can carry: a batch has version 1; a catalog is used for its ids alone.
Data == [version : Nat, ids : SUBSET Notes, notes : SUBSET Snapshots, blobs : SUBSET Blobs]
NoData == [version |-> 0, ids |-> {}, notes |-> {}, blobs |-> {}]

ExportBatch(s, a) ==
  [NoData EXCEPT !.version = 1, !.notes = AllSnapshots(s), !.blobs = AllBlobs(a)]

\* import_batch passes over a blob of no bytes: its base64 text is empty.
Taken(batch) == {b \in batch.blobs : b.size # 0 /\ BlobAccepted(b)}
BlobOf(blobs, f) == CHOOSE b \in blobs : b.file = f

ImportBatchNotes(batch, s) ==
  IF batch.version = 1 THEN ImportSnapshots(s, batch.notes) ELSE s
ImportBatchBlobs(batch, a) ==
  IF batch.version = 1
  THEN [f \in Files |-> IF \E b \in Taken(batch) : b.file = f THEN BlobOf(Taken(batch), f).size
                        ELSE a[f]]
  ELSE a
ImportedCount(batch) ==
  IF batch.version = 1 THEN ImportedNotes(batch.notes) + Cardinality(Taken(batch)) ELSE 0

\* What of a blob store a batch carries.
Carried(a) == [f \in Files |-> IF a[f] = 0 THEN NoBlob ELSE a[f]]
=============================================================================
