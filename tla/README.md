# MeshPad: specifications and proofs

MeshPad is a local-first notebook. Every device keeps its notes as files, and
devices that are paired with each other exchange notes over the local network.
Nothing is central: what the user sees on all devices is the result of pairwise
sync sessions that run in any order, while users edit, devices come and go, and
calls fail. An earlier transport, a sidecar process over libp2p with stores of its own,
is kept in the repository as an archived crate. This directory specifies both in
TLA+, checks them with TLC and proves their main invariants with TLAPS.

Paths below are relative to `src/`; `core/` stands for
`packages/meshpad_core/lib/src/`, `p2p/` for `packages/meshpad_p2p/lib/src/`, and
`native/` for `native/meshpad_p2p_native/src/`.

## 1. Inventory

| Part | State | Operations | Talks to |
|---|---|---|---|
| Merge rules `core/sync/{catalog_delta,conflict_resolver,lww_merge}.dart` | none | what to fetch, what to keep | called by sessions |
| Note repository `core/repositories/` | note folders (`meta.json`, `note.md`, attachments), Drift index, `sync_outbox` | create, edit, tag, attach, delete, restore, purge, apply a remote copy, reconcile | UI, API server, sessions |
| Sync session `core/sync/{sync_engine,remote_sync_gateway,sync_ack}.dart` | two catalogs, a position in a loop | pull, push, acknowledge | repository of this device, peer server of the other |
| Attachment upload `core/sync/attachment_upload.dart`, `p2p/lan/http_remote_sync_gateway.dart` | partial file and sidecar on the receiver, an offset on the sender | status, chunk, whole file | session, peer server |
| LAN peer server `p2p/lan/lan_peer_server*.dart` | pairing offer, throttles | catalog, note, attachment, pairing and cascade requests | repository, coordinator |
| LAN transport `p2p/lan/lan_sync_transport.dart` | running flag, known peers, an event stream | start, stop, resolve, requestSync | session, discovery |
| Coordinator `p2p/lan/{lan_sync_coordinator,lan_single_peer_sync,cascade_sync_request}.dart` | peers waited for, excluded peers | one run over all trusted peers, cascades | transport, trust store |
| Scheduling `apps/meshpad/lib/core/providers/sync_providers.dart`, `p2p/foreground_sync_isolate.dart`, `background_lan_sync.dart` | busy flag, timers | run, request, restart | coordinator |
| Trust `core/storage/device_identity_store.dart`, `p2p/pairing_*.dart`, `apps/meshpad_server/lib/hub/` | trust records, tokens, an offer with an expiry | offer, confirm, trust, revoke, mark seen | server, coordinator |
| Note folders and index `core/storage/note_folder_repository.dart`, `core/database/` | two files a note, an index of file times | write, read, reconcile | repository |
| History, journal, archive, git | snapshots, a log, zips, a git work tree | snapshot, prune, export, pull and push | repository |
| Authentication, payload encryption, TLS | keys | sign, verify, seal, open | server, gateway |
| Discovery, HTTP API and hub, Flutter UI | addresses, web sessions, widgets | | the parts above |
| Sidecar stores `native/wire_store.rs`, `wire_attachment_store.rs`, `wire_batch.rs` | snapshots by note id, attachments by name, in memory | upsert, catalog, pull, batch export and import | API, swarm |
| Sidecar swarm `native/p2p.rs`, `wire_protocol.rs` | command queue, the exchanges under way by request id, peers met, peers announced | pull, push, batch sync, serve, Identify and Hello, stop | stores, other swarms |
| Sidecar API `native/sidecar.rs`, `sidecar_api.rs` | the controller of the swarm that runs | start, stop, sync by peer id or by address, pushes and imports of the app | swarm, stores, API of a peer |
| Sidecar events `native/events.rs` | a broadcast channel of 64 events, a position per receiver | send, subscribe, receive | swarm, app |
| Sidecar FFI `native/ffi.rs` | `EMBEDDED` with its lock, `EMBEDDED_PORT`, `DIRECT` with its lock | start and stop of the embedded server, of the direct runtime; request, poll | app, API |

What is hard here, and what would make each part correct:

* **Merge and sessions.** Every `await` lets another task in: the user, a session
  this device runs with another peer, a session a peer runs against this device.
  Catalogs are read once and used for a whole loop; a merge reads the note and
  writes it later; `updated_at` comes from clocks that may differ. Correct means:
  no device goes back to an older version; equal heads mean equal notes; an outbox
  row goes only when its version has been delivered; undisturbed sessions
  reconcile; all devices agree in the end.
* **Attachment upload.** Lost replies, restarts of the receiver between its file
  operations, two senders. Correct means: a file that is served has the right
  bytes; an upload can always be finished.
* **Coordinator.** Time limits, events of other peers, cascades in any topology, devices
  that drop a request because they are busy, requests that arrive encrypted and are not decrypted.
  Correct means: chains of requests end, an edit goes as far as requests can be read although
  devices are busy, and cascades die out.
* **Trust.** Offers expire, answers get lost, records are read and written back
  without a lock. Correct means: revoked stays revoked; trust is mutual or can be
  made so.
* **Note folders and index.** Two files written one after the other and a row after
  them, crashes in between, a reconcile that takes a row for fresh by times and goes on
  with what it read before. Correct means: a row taken for fresh is what the folder has;
  the index catches up with the folders; a purge that was cut off is finished.
* **Sidecar mesh.** Swarms are stopped, or replaced by a second start, while commands
  wait in a bounded queue and exchanges of several requests are open; a request that
  timed out is served later. Correct means: every caller gets an answer, no response
  reaches the wrong step, an undisturbed sync makes the stores equal.
* **Sidecar events.** Two structures say which devices are known; receivers come late,
  go, and are overtaken. Correct means: who is known has been announced, and a receiver
  that was there in time hears of it.
* **Embedded server.** Any thread starts and stops it, binds come late or fail, a client
  keeps a shutdown waiting. Correct means: one server, the right port, calls that return.

`PROJECT.json` lists all components with their files, and the hazards with their lines.

## 2. Plan

Done, in this order:

1. `NoteMerge`: the merge rules, as operators on two copies.
2. `NoteSync`: devices, users and sessions over `NoteMerge`; `NoteSync_proofs` (types, the
   merge rules, heads) and `NoteSyncSessions_proofs` (spans, sessions that run alone).
3. `AttachmentUpload`: senders and receiver of one file; `AttachmentUpload_proofs`.
4. `WireStore` (operators) and `SidecarMesh`, which is built from them; `SidecarMesh_proofs`.
5. `SidecarEvents`; `SidecarEvents_proofs`.
6. `ServerLease`, an abstract specification, and `FfiEmbedded`, which implements it;
   `FfiEmbedded_proofs`, the refinement included.
7. `NoteStore`: folders, index and reconcile, file by file; `NoteStore_proofs`.
8. `LanCascade`: runs over several peers, and cascades; `LanCascade_proofs`.

Left:

* `TrustStore`: pairing on two devices and the trust records that are read and written
  back without a lock;
* the events and the time limit of a single peer's sync, in `LanCascade`, with the
  start and stop of the transport;
* readers between the two writes of a folder: the session of `NoteSync` over the files
  of `NoteStore`; and the outbox row after them;
* use and dismissal of conflict copies, authors and `purgeMisfiledRemoteOutbox`.

## 3. NoteMerge

A copy is what `meta.json` and `note.md` hold, reduced to what the rules read: `kind`
(absent, note, tombstone of a purge), `ts` (`updated_at`), `body` (title, markdown
and tags: `noteContentEquals` compares the three together), `atts`, `deleted`.

| Definition | Code |
|---|---|
| `NoteHeadNeedsRemotePull`, `NeedsPush` | `catalog_delta.dart`, the condition in `pushToRemote` |
| `NoteContentEquals`, `ResolveNoteConflict`, `MergeNoteMeta` | `conflict_resolver.dart`, `lww_merge.dart` |
| `MergeResult`, `MergedCopy` | `applyRemoteMerge`: what it reports, what it leaves in the folder |

## 4. NoteSync

Variables: `store` (folders), `blob` (attachment files), `conflicts` (conflict files),
`outbox` (rows of `sync_outbox`, with an id as the table has), `usr` (the operation a
user has under way), `sess` (one record for each ordered pair of devices: `syncWithRemote`
run by the first against the second). `stamps`, `writes` and `faults` are bookkeeping:
the instants used, and counters for the bounds.

An operation of the user is two steps, the read (`BeginOp`) and the write
(`Commit...`), with anything in between; `CreateNote` is one, since nothing else can
name the new note. "edit" is `updateNote`, which refuses a trashed note; "rewrite" is
`setNoteTags` and `restoreNoteHistoryRevision`, which do not.

A session goes through

    StartSession (peer's catalog) - PullCatalog (own catalog)
      - for each head: PullSkip, or PullFetch - PullRead - PullCommit - PullAttachments
    PushStart (peer's catalog again) - PushCatalog
      - for each head: PushSkip, or PushExport - PushRead - PushCommit - PushAttachments
                       - PushVerify - AckCheck - AckRemove
    AckStart - AckEntry for each row - Report - Close

`PullRead`/`PullCommit` are the two halves of `applyRemoteMerge` on this device,
`PushRead`/`PushCommit` the same in the PUT handler of the peer. `PushFault` is a call
that throws, or whose answer is lost after the peer acted, while one note is pushed:
that note fails and the loop goes on. `Abort` is an exception elsewhere or the end of
the process; a pushed note that has been read by the peer is still written.

**Spans.** The stretch from the read of a note to the write that is based on it is a
*span* of the device. The code has no lock there. `Interleaving` says what a run
assumes: `"free"`, nothing; `"spans"`, two spans of one device do not overlap (everything
else does: sessions in both directions, stale catalogs, edits between any two calls);
`"serial"`, sessions and user operations happen one at a time. What holds under
`"spans"` and fails under `"free"` is exactly what a lock per device would buy.

**Clocks.** `"global"`: every write is later than all before it, on any device.
`"coarse"`: clocks agree but two devices may save in the same instant. `"unique"`: clocks may
be skewed, so that a later save can carry an earlier stamp, but no two the same one.

**Abstractions.** A file's bytes are right or absent (their transfer is the upload
module's subject). An attachment is a file name with its bytes; the renaming of a second
file of the same name is left out. `createNote` with attachments is a `CreateNote`
and then attaches. The two reads of a merge (`readMeta`, `getNote`) are one. `PullSkip`
reads the note and stores its files in one step. The two enqueues of `restoreNote` are one.
`AckEntry` looks for a row's note on the peer (`isNoteFullySyncedOnRemote`, several awaits) and removes
the row in one step (`core/sync/sync_ack.dart:62-69`). It removes the row by its id, so that a save in between, which
adds another row, loses nothing; the removal by note after a push, where it would, is the
two steps `AckCheck` and `AckRemove`.
The trash list of a purge is the note's folder. Note authors, revisions, history and
the Drift index are left out.

## 5. AttachmentUpload

One file on the device that receives it. `final` is the attachment file, `part` and
`sidecar` the two files in `.uploading/`; a file is the sequence of its bytes, a byte a pair
of the version it belongs to and its place, so that a mixture shows. `want` is
the version the receiver's `meta.json` lists. `up[s]` is the upload of sender `s`: in the
phases "ask", "send", "reask", "done" the sender acts (`_putAttachmentResumable`), in the others
the receiver's handler of the chunk it sent:

    Check - Measure - Compare - WriteSidecar - AppendChunk - (last chunk:) Hash - Unlink - Rename - Tidy

one step for each stretch between two awaits that touch the files. `pull` is the
receiver's own session, which fetches the file whole and writes it in place
(`writeAttachmentBytes`), with the handler's steps in between:

    PullStart - PullOpen (the file is emptied) - PullFill - PullVerify - (wrong bytes:) PullDelete

An `Unlink` or a `Rename` takes the name from the file the fetch has open ("unnamed"):
what it then writes is in no file.
`Crash` may fall anywhere; a file that is being written keeps any beginning of what
was to be written, and the sidecar may be `Torn`. `Lose` is a call that fails or an answer nobody waits
for: the handler then goes on alone. `Merge` changes `want`.

`overlapped` records whether a request ever came while a chunk was being handled. The handler
has no lock, and two requests can append the same bytes twice; what the code still
guarantees then is `EventuallyRight`, because the hash is checked and the file fetched
again. `PartIsPrefix` and `DoneMeansStoredUndisturbed` are claimed only without an overlap. (An
overlap makes the second harmlessly false as well: a sender that asks for the status while
the last chunk is being hashed is told that all is received.)

"Stored" means `InPlace`: the file is right, or the receiver's own fetch of the same version has
just emptied it and has still to fill it. The second is not a way of speaking: a fetch that decided to write
before the upload's rename can open the file between the rename and the answer, so the
upload is answered as complete while the attachment that is served is empty for a moment
(`core/storage/attachment_storage.dart:264`), and stays cut short if the process stops
then. `EventuallyRight` covers that: a later fetch finds the wrong bytes. Without the second part
`DoneMeansStoredUndisturbed` fails.

Left out: progress messages, thumbnails, limits on name and size. A file that is being filled is empty
until it is full, except for a crash, which finds any beginning of it. Deleting part and sidecar is one step,
opening, writing and closing the partial file another. A sender has one upload under way at a time.

## 6. WireStore and SidecarMesh

`WireStore` has the two stores of a sidecar as functions: `wire` from note ids to the
`updated_at` of the snapshot held, `atts` from file names to sizes. A snapshot without an id and an
attachment without a name, or above the limit, are not taken; an empty file is held and
never exported. Its operators are the methods of `wire_store.rs`,
`wire_attachment_store.rs` and `wire_batch.rs`.

`SidecarMesh` has several sidecars. A swarm makes itself a new key, so `PeerIds` are
pairs of a device and the number of its start.

| Variable | Code |
|---|---|
| `wire`, `atts` | the two stores, each behind its mutex |
| `p2p`, `stopping` | the controller in the state; those taken out whose `Stop` is not sent yet |
| `sw` | a task of `run_swarm`: its queue (`mpsc::channel`), `meshpad_peers` |
| `ctx` | `PullCtx`, `PushCtx`, `BatchSyncCtx` in the maps by request id, one for each caller |
| `call` | `sync_json` of a caller: where it is, what it has reached (`via`) |
| `reqs`, `resps`, `ids` | requests and responses under way; the last request id of a caller's exchange |

A sync by peer id tries a batch; if it fails, a pull and then a push. Each is a command
to the swarm, which asks the peer and answers when the exchange is over. A sync by
address (`remote_wire_base`) asks the peer's HTTP API in `Ask`, `Import` and `PushBatch`. `SwarmEnd` drops
what the loop held: the `oneshot` senders in it are dropped, so its callers get an error.
A second `start_json` replaces the controller without a stop; the old loop ends when its
queue is empty and no call has a controller of it any more (`Ends`). A `run_swarm` that
fails before its loop (`native/p2p.rs:176-217`) is not a case of its own: it is a swarm that ends
at once.

The steps of a sync by address that wait for the peer (`AwaitsPeer`) may wait for ever, since
the HTTP client has no time limit (`native/sidecar.rs:282`, `350`). `SyncReturns` says so: a caller is idle
again and again, or stays in one of these steps.

What libp2p promises and the model uses: a request ends with a response or with
`OutboundFailure`; the second may come although the peer serves the request (at once or
later), and its response is then dropped.

Abstractions: a snapshot is its id and `updated_at`. The import of a batch and the export that
follows it in `handle_batch_sync_response` are one step, although the locks are
released between them: what could come between is a write of the app or of an HTTP
client, and a sync with such a write in it is not one of which `SyncMakesEqual` speaks. Sync calls name another device, not their own. The crate, as it is kept
(ADR 0003), calls `wire_batch::` in places without an import; the model takes the module meant.

## 7. SidecarEvents

One sidecar and the devices around it. `connected` are connections by PeerId, `known` is
`meshpad_peers`, `announced` the set beside it; `rx[r]` is what a receiver of the
broadcast channel has still to read, with `lagged` for a receiver that has been overtaken
(tokio drops the oldest). In the mode "direct" all calls take one lock, which a sync
holds to its end, and `meshpad_ffi_poll_event` reads with `try_recv`; in the mode "http"
streams are opened and closed at will. `Discovered`, `Expired`, `Identify` and `Hello`
are the handlers in `handle_swarm_event`. A device that is started anew has another
PeerId; a peer may say in a Hello to be any device.

Abstractions: one swarm at a time (two at once are in `SidecarMesh`); the end of a swarm is
one step with the stop that asks for it; dialing is a part of discovery.

## 8. ServerLease and FfiEmbedded

`ServerLease` is what the embedded server promises: one server listens at a time, the
app is given one that listens, and it goes on listening until the app gives it back.

`FfiEmbedded` is the code: `lock` and `guard` are `EMBEDDED`, `port` is `EMBEDDED_PORT`, `th` are the
threads, `slot` the `port_slot` each thread shares with the start that waits for it. A
start holds the lock while it looks for the port (`PollPort`, 200 times in the code) and, if it gives up,
while it joins the thread; a stop holds it while it joins. `ServeEnds` waits for the open
connections, as a graceful shutdown does.

The mapping: the server that listens is the one bound and not yet shut down, the
server given is the one in `EMBEDDED`.

## 9. NoteStore

One device. `meta[n]` and `text[n]` are the two files of a note, with the second in which each was
last written; `row[n]` is its row in the index, with the file times that `_indexNote`
stored. `job.writer` is an operation of the user or a merge,
`job.keeper` a sweep of the trash or a reconcile:

    writer:  Begin - OpenMeta - FillMeta - OpenText - FillText - ReadSignatures - IndexNote
    purge:   (PurgeNext) - DropText - OpenTomb - FillTomb - DropRow
    keeper:  Sweep - purges - ListFolders - CleanIndex
               - for each folder: Look - Stat - Compare - ReadMeta - ReadText - Reindex

`Open...` is `writeAsString` after it has emptied the file, `Fill...` when it is done; a crash
between leaves a `meta.json` that cannot be parsed (`Torn`) or an empty text.
A `meta.json` that cannot be parsed throws its reader out of the whole reconcile or sweep
(`End`). `EditOutside`, `BringOutside` and `RemoveOutside` are a text editor or git.

What is assumed: one change of a note per second, since the index compares seconds
(without it `FreshMeansEqual` fails); one writer and one keeper; programs outside leave a
note alone in the moment in which the writer has it; a merge brings an `updated_at` of
its own. What is left out: attachments, titles (reconcile fills in an empty title and
writes the folder back), history, journal, search table, outbox. Which merges are
applied is the subject of `NoteMerge`: here any may be.

`FreshMeansEqual` has one exception in it, a row with an empty text: a reconcile that reads
`note.md` while a save has it open, and writes its row after that save has written the
right one. The file times do not show it, so such a row stays until the next change. So
`IndexCatchesUp` does not say that the files win. It says that in the end each row is that of
its folder (`InIndex`, with the text), or is right but for an empty text and taken for fresh
(`BlankRow`), or that a torn `meta.json` keeps every reconcile from going through. `FilesWin` is
what the comment in the code promises, and fails (section 11).

## 10. LanCascade

Several devices. `run[d]` is the run of `syncTrustedPeers` on a device: the peers left,
those of the present batch, those to be asked to cascade. `asks` are the requests on the
wire. `RunSync` is `runSync` with its busy flag, called after an edit and by a request;
a request that comes while the device is busy is dropped, as in the code. A session with one peer is one step
(`NoteSync` has its steps): afterwards both sides have the edits of both. Peers may fail,
requests may be lost, devices may stop.

A request carries what `syncOnePeer` puts into it. `_post` encrypts the body when the sender has an auth
token of the peer (`p2p/lan/http_remote_sync_gateway.dart:458-469`), and `_handleCascadeRoute`
(`p2p/lan/lan_peer_server_routes.dart:114-130`) does not decrypt it, as the route for a note does
(line 87). The envelope is an object without the two fields, so the receiver reads a request that
excludes nobody and allows no hop, as it does when a body cannot be parsed. `Read` is that
conversion. `token` says between whom there is a token: pairing gives both sides one, and
trust records from before tokens, or imported without one, have none. A network of the model
says of each pairing which it is.

`path` beside a request is the chain it came through; only `ChainsEnd` reads it: no chain comes
back to a device it has been through, in any topology, and what stops one is the exclusion and the hop
limit where requests can be read, and elsewhere that nothing is read.

How far an edit goes, when all is quiet again and nothing has failed, without waiting for the periodic
sync and although busy devices drop requests:

* `EditReachesTwoLinks`: to every peer and, if the device cascades, to every peer of those;
  with tokens it need not go further.
* `PlainEditSpreads`: where no pairing has a token, to every device that is connected, if the hop limit
  is enough for a chain through all of them.
* `EditSpreads`, the same with tokens, is what the wire document says, and fails (section 11).

With several edits this is not so, and an edit may wait for the periodic sync.

Abstractions: trusted devices do not change; the order of the peers in a run is arbitrary
(`orderPeersForSync` orders by what is known of their addresses); a hub is a device.

## 11. Runs

| Run | Instance | Shows |
|---|---|---|
| `mesh_spans` | 2 devices, 1 note, 2 texts, 1 attachment, all operations but purge, 3 writes, 1 failing call, clocks global, spans apart | `TypeOK`, `HeadsDetermineContent`, `ReplacedOnlyByNewerOrPurge`, `AckOnlyWhenDelivered` |
| `mesh_serial` | 3 devices, 1 note, 2 texts, edit/delete/restore/purge, 4 writes, 1 failing call, skewed clocks, one thing at a time | `SessionReconciles`, `SessionDrainsOutbox`, `AckOnlyWhenDelivered` |
| `mesh_free` | 2 devices, 1 note, 2 texts, edits, 3 writes, everything interleaved, fairness | `Converges` |
| `upload` | 2 senders, 2 versions, a file of two chunks (3 bytes, chunks of 2), 2 uploads, 1 restart, 1 failing call, 1 change of version, fairness | `TypeOK`, `PartIsPrefix`, `DoneMeansStoredUndisturbed`, `EventuallyRight` |
| `sidecar_mesh` | 2 sidecars, 1 sync call on either route, 2 writes of the apps, 1 failing request, 2 notes, 1 file, a queue of 1 | `TypeOK`, `ResponsesFit`, `CallerIsServed`, `SyncMakesEqual` |
| `sidecar_returns` | 2 sidecars, one of them started twice, 1 sync call, a queue of 1, fairness | `SyncReturns`, `AbandonedSwarmEnds` |
| `sidecar_events` | 3 PeerIds of 2 devices, a channel of 2, the polling receiver and 1 stream, 2 swarms, 1 sync, fairness | `TypeOK`, `KeysAnnounced`, `TellsApp`, `ConnectedIsReachable`, `AppLearns` |
| `ffi_embedded` | 3 threads, 4 calls, 1 client, 2 looks for the port, fairness | `TypeOK`, `OneServer`, `PortTruth`, `LeaseKept`, `CallsReturn` |
| `note_store` | 1 note, trash that expires at once, 4 seconds, 3 changes, 1 crash, fairness | `TypeOK`, `FreshMeansEqual`, `IndexCatchesUp`, `PurgesAreFinished` |
| `lan_cascade` | 4 devices in a line, a ring, a triangle with a tail; all pairings with tokens, none, or those at one end without; hop limits 2, 1, or 3 on one device alone; 2 peers at once; 2 edits or failures; fairness | `TypeOK`, `ChainsEnd`, `EditReachesTwoLinks`, `PlainEditSpreads`, `CascadeDiesOut` |
| `lost_update` | 2 devices, edits, interleaved freely | `ReplacedOnlyByNewerOrPurge` fails |
| `upload_restart` | 1 sender, 1 restart, 2 uploads | `DoneMeansStored` fails |

Why the bounds are enough.

*Sessions.* Notes do not influence each other except through the order of a loop, so one note is
enough. A lost update needs two devices and three writes (create, and one on each side); a
purge that meets an edit takes four (create, delete, purge, and a write of the other
device). Both directions of a session can be under way at once with two devices. After one failing
call a session is as good as new. `mesh_spans` has no purges, which `AckOnlyWhenDelivered` excepts
there; its other properties are proved with purges too, and purges run in `mesh_serial`. `MaxTime` equals `MaxWrites`, so a stamp is there for every write.

*Upload.* Two uploads are an interrupted one and the one that resumes it, or
two at once. A file of two chunks has a first chunk (which truncates) and a last one
(which appends and finishes).

*Sidecar.* An exchange is between two swarms, and exchanges meet only in the stores and
in the queue, which one command and a `Stop` fill. Two notes are the least for which a push
takes several requests; two writes put one on each side, or a newer one on one. One
fault breaks the batch and leads into the pull and the push, or leaves a late
request. In `sidecar_returns` the data does not matter, so the apps write nothing, and what
counts is a second start while commands of the first swarm wait. `CallerIsServed`,
`ResponsesFit` and `SyncMakesEqual` are proved for any bounds.

*Events.* A device with two PeerIds and one with one PeerId meet every case of the map; a
channel of two is overtaken by three events, and two swarms let a receiver outlive one.

*Embedded server.* Three threads are one that holds the lock and two that wait; four
calls are a start that gives up, a start, a stop and a start.

*Note store.* Three changes are a note, its deletion and something that meets the purge or
the reconcile; a second of its own for each, and one more in which the trash expires.
`TTL` is 0: how long a note waits in the trash makes no difference to what happens then.
Notes meet only in the keeper's list, and a `meta.json` cut short ends the whole list:
an instance with two notes and two changes was explored to two million states without
another outcome.

*Cascade.* Four devices are the least with a ring that chains can enter on both sides and a
peer that two neighbours can ask; a run there has two batches of two peers at once. The
hop limits are one that is just enough for a chain through all devices, one that ends it
early, and one device among others that do not cascade of their own. In the program the
limits are 8, 3 and 1.

`CHECK_DEADLOCK FALSE` stands where bounds on calls, uploads, writes or edits let the system come to
rest.

Each failing run is a disagreement between the code and what its documents say;
`PROJECT.json` quotes the lines.

* `lost_update`: the session reads the old note, the user saves, the session writes
  the peer's version, which is older than the save.
* `upload_restart`: a receiver that stops between the append of the last chunk and the rename
  keeps a partial file of full length. Its status then says that everything is received, senders
  send nothing more, and the partial file is never hashed and renamed.

Other disagreements that TLC shows on these modules, with the instance that does:

* `AckOnlyWhenDelivered` under the constants of `lost_update`: `tryAckOutboxForRemoteNote`
  (`core/sync/sync_ack.dart:88`) finds the note delivered, the user saves again, and the
  row of that second save is removed with the first. `docs/SYNC_WIRE.md:229` says that the outbox
  clears only when the remote has the note.
* `AckOnlyWhenDelivered` without its exception for purges: two devices, `Ops = {"delete",
  "purge"}`, `"spans"`, five writes. The peer has purged the note, the device's copy is later than
  that, and a session of the peer fetches it. The device purges as well; for its own session,
  which looks now, the older tombstone of the peer is as good as its own
  (`core/sync/sync_ack.dart:25`). Then the peer's session puts the live copy in place of the
  tombstone, and the row of the purge is removed. The two heads differ, so the next session
  pushes the purge.
* `SessionReconciles` with `Clocks = "coarse"`, two devices, three texts, edits, `"serial"`: the
  catalogs look the same (`core/sync/catalog_delta.dart:23`), so the conflict copy of
  `docs/SYNC_WIRE.md:182` is never made.
* `SessionDeliversAttachments` with `Ops = {"attach"}`, one attachment, `"serial"`: the merge
  compares title, text, tags and the deleted flag only (`core/sync/conflict_resolver.dart:17`).
  A note whose change is a new attachment is "unchanged" on the peer, whose meta never lists the
  file and whose handler refuses it.
* `Converges` under `FairSpec` with three devices, edits, deletes and purges, four writes,
  `"serial"`: a tombstone replaces any live note and a newer live note replaces a
  tombstone; the two can chase each other for ever.
* `NewerSnapshotStays` of `SidecarMesh`, one note, two writes: `WireStore.upsert`
  (`native/wire_store.rs:28`) takes what comes, and a sync imports the peer's batch before it
  pushes its own. A newer snapshot is replaced by the peer's older one and is then on
  neither side; `docs/SYNC_WIRE.md:181` says that the newer one wins.
* `PortAfterStart` of `FfiEmbedded`, two threads: the thread stores the port for the start
  (`native/ffi.rs:64`) before it stores it for everybody (65), so a start can return a port
  while `meshpad_ffi_embedded_port` answers 0; the test at `native/ffi.rs:255` asserts
  that they are equal.
* `EditSpreads` of `LanCascade` under the constants of `lan_cascade` with `Networks <- Paired`, `MaxEvents = 1`
  and `Spec`: four devices in a line, all paired with tokens, hop limit 2. `d1` edits and syncs with `d2`; its
  request arrives at `d2` with no hop left and nobody excluded (`p2p/lan/lan_peer_server_routes.dart:114`),
  so `d2` syncs with `d1` again and with `d3`, and asks nobody; all is quiet and `d4` has not got the edit.
  `docs/SYNC_WIRE.md:101-110` says "Peers already visited in this cascade chain (do not sync again)"
  and "If `hopLimit > 0`, after each successful peer send cascade with updated
  `excludePeerIds` (add self) and `hopLimit - 1`".
* `FilesWin` of `NoteStore` in place of `IndexCatchesUp` in `note_store`: a save has opened `note.md` and
  not yet filled it, the reconcile reads the empty file, the save fills it and writes its row, and the reconcile
  writes its own row over it, with an empty text. All happens in one second, so the times agree, and
  every later reconcile skips the folder. `core/repositories/note_repository_reconcile.dart:118`
  says "Rebuild Drift index from file system (FS wins)".
* `PurgesOnlyTrash` of `NoteStore` under the constants of `note_store`: a sweep lists the
  trash once, from the index, and purges a note that has been restored since, or whose
  restore a crash kept from the index. `core/repositories/note_repository_crud.dart:328` says
  "Permanently removes notes in trash".

## 12. Fairness

`NoteSync` (`FairSpec`, for `Converges` alone). An operation or a session under way goes on
(weak fairness): these are continuations of one process, and every call ends with
an answer or an exception. Every pair of devices starts a session again and again
(strong fairness): the periodic sync runs over all trusted peers, and a pair that is
kept busy by others is served in one of the gaps. Users need not do anything.
`Converges` is checked without failing calls, because a pair whose calls fail for ever cannot
agree; a bounded number of failures is in `mesh_spans`.

`AttachmentUpload`. A handler, a sender that has its answer and the receiver's fetch
go on. The fetch starts again and again because the periodic sync looks for
missing files of every note it knows; nothing makes a sender begin an upload, and their number is
bounded, because a push happens only when the two heads differ.

`SidecarMesh`. Tasks that can run do: calls, the loops of the swarms, and libp2p, which
delivers a request or reports its failure. Nothing is assumed of requests over HTTP, because the client in the
code has no time limit: `PushBatch` is fair only where it does not wait for the peer, and `Ask` not
at all. Nothing is assumed of apps, of discovery, or of the command that waits in a full queue behind others.

`SidecarEvents`. Identify repeats on a connection that lasts (libp2p sends it every five
minutes), a sync returns, and the app's timer polls. Nothing is assumed of mDNS, of Hello, or
of connections: `ConnectedIsReachable` and `AppLearns` speak of those that last.

`FfiEmbedded`. Threads run, and one that waits for the lock gets it, since the other calls
are bounded. Nothing is assumed of the clients: `CallsReturn` has as its premise
that each leaves again and again, and without it a stop may wait for ever under the lock.

`NoteStore`. The clock goes on, and a job that is under way goes on while the process
runs. A reconcile starts if it can again and again (strong fairness, since other sweeps
may come first): the app reconciles at each start and in each background pass.

`LanCascade`. What a device does on its own goes on (the next batch, the end of a run), and a request on the
wire is handled or lost. That a session, or the answer to a request, ever comes is not
assumed: the gateway's HTTP client has no time limit, and the limit of 120 s begins only after
`requestSync` has returned (`p2p/lan/lan_single_peer_sync.dart:97-104`). `CascadeDiesOut` has as its
premise that the sessions and requests of each run end.

## 13. Proofs

All theorems hold for any sets of devices, notes, callers, peers and so on, and any bounds.

* `NoteSync_proofs`: `MergeTakesOneSide` (a merge makes up no version) and
  `MergeMovesForward` (what replaces the local copy is newer or a tombstone);
  `TypeCorrect`, with `NoteNamed` (a session that works on a note
  names it) as the part that makes it inductive; and
  `HeadsDetermineContentAlways`: unless clocks are coarse,
  `Spec => []HeadsDetermineContent`, in every interleaving. `HeadsDetermineContent` is
  not inductive, because copies also travel: they wait in sessions and in the hands of
  users. `StampInv` speaks of all of them (`HeldCopies`): each bears a stamp that
  was handed out, and equal stamps mean equal copies. A user's write brings a fresh
  stamp; everything else moves copies that are there (`MergeTakesOneSide`).
* `NoteSyncSessions_proofs`, spans: `NoDeviceGoesBack`: with global clocks and spans that do not
  overlap, `Spec => ReplacedOnlyByNewerOrPurge`. `SpanInv` says that a device has at most
  one span (`SpansExclude`), hence that what a merge or an operation has read is still what
  the folder holds when it writes (`BasisIsPresent`); then `MergeMovesForward` or the
  clock gives the claim. `lost_update` shows that the assumption on spans is needed.
* `NoteSyncSessions_proofs`, sessions alone: `SessionAlwaysReconciles` and
  `SessionAlwaysDrains`, the two properties of `mesh_serial`. `SerialInv` says that one
  session runs and nobody edits (`Alone`), and what the session has reached (`Progress`):
  which notes the pull is through with and how they compare (`PullProgress`), which the
  push has made equal (`PushProgress`), and which of them are acknowledged (`AckProgress`).
  Both need that no two writes carry the same `updated_at`, by way of
  `HeadsDetermineContentAlways`: the delta passes over notes with equal heads.
  `SessionAlwaysDrains` needs `Att = {}`, as in `mesh_serial`. With attachments it is not
  so: when the peer has the same text under a later `updated_at` without the attachment, the pull
  calls the note unchanged, the push passes over it, and its outbox row stays although no
  note has failed. This is `SessionDeliversAttachments` of section 11 from the other side.
* `NoteSyncSessions_proofs`, acknowledgements: `AcksFollowDelivery`, that is
  `Spec => AckOnlyWhenDelivered`, when spans do not overlap and clocks agree or
  when one thing happens at a time. `CheckedIsDelivered` says that from the check of
  `tryAckOutboxForRemoteNote` to its removal the note is on the peer. The device's copy does
  not move in between, because the removal ends a span (`OwnCopyKept`). The peer's gives way to newer
  copies only, and its files go only with the copy (`FilesKept`, `DeliveryKept`); for this
  there must be no tombstone, hence the exception for purges. `TidyInv` (`HeldTidy`: no copy in the
  trash lists attachments, wherever it is) closes the gap that
  `isNoteFullySyncedOnRemote` asks for no files of a note in the trash.

* `AttachmentUpload_proofs`: `TypeCorrect`, `PartStaysPrefix`, `DoneIsStored`. What a handler
  has measured, compared or hashed must still be so when it acts on it; `Alone` says that without an overlap
  one request at a time is being handled, `Knows` what that one knows of the partial file at each of its
  steps. `DoneIsStored` needs `OneVersion` beside it: while the receiver keeps to one
  version, all uploads and its own fetch are of it, so that from the rename to the answer the file
  is in place (`InPlace`). The proof needs that a torn sidecar is not the same as none
  (`VersionAssumption`).
* `SidecarMesh_proofs`: `TypeCorrect`, `CallersAreServed`, `ResponsesAlwaysFit`. Neither is
  inductive. The invariant adds where a command can be (`Places`), that a queue holds
  one command of a caller at most (`Queues`), that a controller that a device or a call has is
  that of a swarm there can be (`Controlled`), and that requests
  and responses under way are not of the future and, when they are of the last request of an exchange, of its step
  (`Matched`).
  On top of it `SyncAlwaysEqual`: `Spec => []SyncMakesEqual`, on both routes. The stores become
  equal only with the last message, so `SyncInv` says of each step of a sync that is still calm how far
  they are: after an import the caller has all that the peer has (`Covers`, `CoversBlobs`),
  and of pushes one after the other the peer lacks only those still to come (`AllBut`). It also says
  that what is under way was true of the store it was taken from (`AskedKnows`,
  `AnswerKnows`), that `via` says what the call has imported (`Shaped`), and
  that a command and an exchange are with the peer that their call names (`Addressed`,
  `Routed`). A write by anybody else ends the calm (`WritePassesBy`); a request that is served late is
  such a write, and that it is not taken for the present one is `Matched`.
* `SidecarEvents_proofs`: `TypeCorrect`, `AnnouncedAreKnown`, `AppIsTold`. The invariant adds
  that a swarm that is down knows nobody, and that the receivers counted as there in time still exist.
* `FfiEmbedded_proofs`: `TypeCorrect`, `AtMostOneServer`, `PortIsTrue`, and `KeepsLease`, which is
  the refinement `Spec => LeaseKept`. The invariant says to whom a thread belongs: to
  `EMBEDDED`, or to the call that holds the lock; and which ports have been told where.
  Under it every step is a step of `ServerLease` or leaves it alone.
* `NoteStore_proofs`: `TypeCorrect` and `FreshRowsAreEqual`. A row is fresh when the times it
  keeps are those of the files. What makes that sound lies in the order of the steps:
  a save takes a later `updated_at` and empties the file before it fills it, and a reconcile
  reads the times before the text. `StoreInv` says so of every place where something that was read or
  is to be written waits, the row, the keeper's job and the writer's: if its `updated_at` is
  that of the present folder, so is its id (`HeadHolds`), and with the present time of `note.md`
  its text too (`TextHolds`), and no time that a save under way may still give to the file is
  taken by an older text. The assumption that a note changes at most once in a second is in the model
  (`NewSecond`), not in the theorem.
* `LanCascade_proofs`: `TypeCorrect`, `ChainsAlwaysEnd`, `EditAlwaysReachesTwoLinks`,
  `PlainEditAlwaysSpreads`, for any finite network, any mixture of pairings with and without tokens.
  `ChainInv` says of each run that it was followed from the start (`Followed`: the devices it excludes are those of its
  chain, each once, and hops used and hops left make up the limit of the device that began) or cut off (`CutOff`: it began
  with a request that could not be read, so it has no hop left). Requests come from runs of the first kind
  only. The limit is a natural number, so a chain ends even where the exclusion does not reach. For
  the spread, `SpreadInv` says that the peers of the device that edited all have the edit, or that it is busy, asked, or
  to be asked (`PassedOn`), and the same of each of its peers, or that the peer is still to come in the first run
  (`PeersPassOn`). A device that drops a request because it is busy is in a run whose
  remaining peers cover what it trusts (`RunSpreads`). Where there are no tokens the same is so of every device that has the
  edit (`AllPassOn`); when all is quiet, these devices are closed under trust, which is what
  `Reach` is the least set of.

The assumptions are those the modules name (`BodyAssumption`, `ModeAssumption`,
`VersionAssumption`, `MeshAssumption`, `ContextAssumption`, `EventsAssumption`,
`EmbeddedAssumption`, `StoreAssumption`, `CascadeAssumption` and others); TLC evaluates them on each
run. They are about the sets that stand for data (a name for "nothing" is none of the things, bounds are
numbers, the devices are finitely many), none about what the code does.

Every invariant and every action property that a run shows is proved. Only model-checked are the liveness
properties (`Converges`, `EventuallyRight`, `SyncReturns`, `AbandonedSwarmEnds`,
`ConnectedIsReachable`, `AppLearns`, `CallsReturn`, `IndexCatchesUp`, `PurgesAreFinished`,
`CascadeDiesOut`), which are out of the prover's reach. `WireStore` has no recursion, and the
lemmas about it say what an import, an export, a pull and a single push do to each note; how many notes
an import counts (`ImportedCount`) is evaluated by TLC only, and no theorem rests on it.

## 14. Not modelled

* Cryptography, discovery over UDP and mDNS, the git and archive commands, the user
  interface and the HTTP API have no protocol state of their own or are input and output.
* Pairing and the trust store, the events and the time limit of a single peer's sync,
  conflict copies after they are written, and authors: see the plan.
* The hand-over of the port between the foreground and the background isolate.
* Of the sidecar: `main.rs` and `lib.rs`; the Dart client (it appears as calls, polls and
  streams); the parsing of bodies and settings; the address in `remote_wire_base` and how it is found; routes
  that only read; the limit of 1 MiB that libp2p's JSON codec sets (a failing request stands for it).
