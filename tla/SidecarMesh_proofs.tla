--------------------------- MODULE SidecarMesh_proofs ---------------------------
(***************************************************************************)
(* Proofs about SidecarMesh, for any number of devices, callers, swarms    *)
(* and faults: the types, that a call which waits has its command in one   *)
(* place of a swarm that runs, that no response reaches an exchange that   *)
(* awaits another, and that a sync nobody disturbs leaves two equal        *)
(* stores.                                                                 *)
(***************************************************************************)
EXTENDS SidecarMesh, FiniteSetTheorems, TLAPS

(* What the stores and batches of WireStore return. *)

LEMMA EmptyData == NoData \in Data
  BY DEF NoData, Data

LEMMA EnvelopeType ==
  ASSUME NEW v \in Nat, NEW notes \in SUBSET Snapshots
  PROVE  [NoData EXCEPT !.version = v, !.notes = notes] \in Data
BY EmptyData DEF Data

LEMMA StoreTypes ==
  ASSUME NEW s \in Stores
  PROVE  /\ AllSnapshots(s) \in SUBSET Snapshots
         /\ CatalogHeads(s) \in SUBSET [id : Notes, at : Nat]
         /\ \A set \in SUBSET Notes : PullNotes(s, set) \in SUBSET Snapshots
         /\ \A snap \in Snapshots : Upsert(s, snap) \in Stores
BY DEF Stores, AllSnapshots, CatalogHeads, PullNotes, Snapshots, Held, Upsert, Accepted

LEMMA ImportSnapshotsType ==
  ASSUME NEW s \in Stores, NEW snaps \in SUBSET Snapshots
  PROVE  ImportSnapshots(s, snaps) \in Stores
<1>1. ASSUME NEW i \in Notes, \E x \in snaps : x.id = i PROVE SnapshotOf(snaps, i).at \in Nat
  <2>1. SnapshotOf(snaps, i) \in snaps
    BY <1>1 DEF SnapshotOf
  <2> QED
    BY <2>1 DEF Snapshots
<1> QED
  BY <1>1 DEF ImportSnapshots, Stores

LEMMA BlobTypes ==
  ASSUME NEW a \in BlobStores
  PROVE  /\ AllBlobs(a) \in SUBSET Blobs
         /\ \A blob \in Blobs : UpsertBlob(a, blob) \in BlobStores
<1>1. AllBlobs(a) \in SUBSET Blobs
  BY WireAssumption DEF BlobStores, AllBlobs, Blobs
<1>2. ASSUME NEW blob \in Blobs PROVE UpsertBlob(a, blob) \in BlobStores
  BY WireAssumption DEF BlobStores, Blobs, UpsertBlob, BlobAccepted
<1> QED
  BY <1>1, <1>2

LEMMA ImportBatchTypes ==
  ASSUME NEW s \in Stores, NEW a \in BlobStores, NEW data \in Data
  PROVE  /\ ImportBatchNotes(data, s) \in Stores
         /\ ImportBatchBlobs(data, a) \in BlobStores
<1>1. ImportBatchNotes(data, s) \in Stores
  BY ImportSnapshotsType DEF ImportBatchNotes, Data
<1>2. ASSUME NEW f \in Files, \E b \in Taken(data) : b.file = f
      PROVE  BlobOf(Taken(data), f).size \in 0..MaxBytes
  <2>1. BlobOf(Taken(data), f) \in Taken(data)
    BY <1>2 DEF BlobOf
  <2> QED
    BY <2>1, WireAssumption DEF Taken, Data, Blobs, BlobAccepted
<1> QED
  BY <1>1, <1>2 DEF ImportBatchBlobs, BlobStores

LEMMA ExportType ==
  ASSUME NEW s \in Stores, NEW a \in BlobStores
  PROVE  ExportBatch(s, a) \in Data
<1>1. AllSnapshots(s) \in SUBSET Snapshots /\ AllBlobs(a) \in SUBSET Blobs
  BY StoreTypes, BlobTypes
<1> QED
  BY <1>1, EmptyData DEF ExportBatch, Data
-----------------------------------------------------------------------------
(* What the devices export, and how calls change. *)

LEMMA OwnData ==
  ASSUME TypeOK, NEW n \in Nodes
  PROVE  /\ wire[n] \in Stores /\ atts[n] \in BlobStores
         /\ Batch(n) \in Data /\ Catalog(n) \in Data
         /\ \A data \in Data : OwnBatch(n, data) \in Data
         /\ \A set \in SUBSET Notes : [NoData EXCEPT !.notes = PullNotes(wire[n], set)] \in Data
<1>1. wire[n] \in Stores /\ atts[n] \in BlobStores
  BY DEF TypeOK
<1>2. Batch(n) \in Data /\ \A data \in Data : OwnBatch(n, data) \in Data
  BY <1>1, ExportType, ImportBatchTypes DEF Batch, OwnBatch
<1>3. {head.id : head \in CatalogHeads(wire[n])} \in SUBSET Notes
  BY <1>1, StoreTypes
<1>4. Catalog(n) \in Data
  BY <1>3, EmptyData DEF Catalog, Data
<1>5. \A set \in SUBSET Notes : [NoData EXCEPT !.notes = PullNotes(wire[n], set)] \in Data
  BY <1>1, StoreTypes, EmptyData DEF Data
<1> QED
  BY <1>1, <1>2, <1>4, <1>5

\* A disturbed call is where it was.
LEMMA DisturbedCalls ==
  ASSUME TypeOK, NEW n, NEW c
  PROVE  /\ Disturbed(n, c) \in [Callers -> SyncCalls]
         /\ \A d \in Callers : /\ Disturbed(n, c)[d].pc = call[d].pc
                               /\ Disturbed(n, c)[d].gen = call[d].gen
                               /\ Disturbed(n, c)[d].peer = call[d].peer
                               /\ Disturbed(n, c)[d].stage = call[d].stage
<1>1. ASSUME NEW d \in Callers
      PROVE  /\ Disturbed(n, c)[d] \in SyncCalls
             /\ Disturbed(n, c)[d].pc = call[d].pc /\ Disturbed(n, c)[d].gen = call[d].gen
             /\ Disturbed(n, c)[d].peer = call[d].peer /\ Disturbed(n, c)[d].stage = call[d].stage
  <2>1. call[d] \in SyncCalls
    BY DEF TypeOK
  <2>2. Disturbed(n, c)[d] = call[d] \/ Disturbed(n, c)[d] = [call[d] EXCEPT !.calm = FALSE]
    BY DEF Disturbed
  <2> QED
    BY <2>1, <2>2 DEF SyncCalls
<1> QED
  BY <1>1 DEF Disturbed

\* An answered call asks again or is over, on the same swarm.
LEMMA AnsweredCall ==
  ASSUME NEW cl \in SyncCalls, NEW ok \in BOOLEAN
  PROVE  /\ AfterAnswer(cl, ok) \in SyncCalls
         /\ AfterAnswer(cl, ok).pc \in {"ask", "emit"} /\ AfterAnswer(cl, ok).gen = cl.gen
BY DEF AfterAnswer, SyncCalls, CallPhases

LEMMA IdleCalls ==
  ASSUME NEW c \in Callers
  PROVE  /\ c[1] \in Nodes /\ IdleCall(c) \in SyncCalls /\ IdleCall(c).pc = "idle"
<1>1. c[1] \in Nodes
  BY MeshAssumption
<1> QED
  BY <1>1, EmptyData DEF IdleCall, SyncCalls, CallPhases
-----------------------------------------------------------------------------
(* Swarms, queues and exchanges. *)

\* Controllers and calls name swarms that were started; a command asks for a caller.
Controlled ==
  /\ \A n \in Nodes : p2p[n] # 0 => <<n, p2p[n]>> \in PeerIds
  /\ \A c \in Callers : call[c].pc \in {"ask", "wait"} => <<c[1], call[c].gen>> \in PeerIds
  /\ \A s \in PeerIds : \A j \in 1..Len(sw[s].queue) :
       sw[s].queue[j].kind # "stop" => sw[s].queue[j].c \in Callers

LEMMA PeerIdParts ==
  ASSUME NEW s \in PeerIds
  PROVE  s[1] \in Nodes /\ s = <<s[1], s[2]>> /\ s # NoPeer
BY MeshAssumption DEF PeerIds

\* The next swarm of a device that may start one has a PeerId.
LEMMA StartedId ==
  ASSUME NEW n \in Nodes, Started(n) < MaxGen[n]
  PROVE  Started(n) + 1 \in Nat /\ <<n, Started(n) + 1>> \in PeerIds
<1> DEFINE S == {g \in 1..MaxGen[n] : sw[<<n, g>>].st # "none"}
<1>1. MaxGen[n] \in Nat
  BY MeshAssumption
<1>2. IsFiniteSet(1..MaxGen[n])
  BY <1>1, FS_Interval
<1>3. IsFiniteSet(S)
  BY <1>2, FS_Subset
<1>4. Cardinality(S) \in Nat
  BY <1>3, FS_CardinalityType
<1>5. Started(n) + 1 \in 1..MaxGen[n]
  BY <1>1, <1>4 DEF Started
<1>6. <<n, Started(n) + 1>> \in {n} \X (1..MaxGen[n])
  BY <1>5
<1>7. <<n, Started(n) + 1>> \in PeerIds
  BY <1>6 DEF PeerIds
<1> QED
  BY <1>1, <1>5, <1>7

LEMMA SwarmParts ==
  ASSUME TypeOK, NEW s \in PeerIds
  PROVE  /\ sw[s] \in Swarms /\ sw[s].queue \in Seq(Commands)
         /\ sw[s].peers \in [Nodes -> PeerIds \cup {NoPeer}]
BY DEF TypeOK, Swarms

\* What a send puts at the end of a queue.
LEMMA EnqueueTypes ==
  ASSUME TypeOK, NEW s \in PeerIds, NEW cmd \in Commands, Enqueue(s, cmd)
  PROVE  /\ sw' \in [PeerIds -> Swarms]
         /\ sw'[s].queue = Append(sw[s].queue, cmd) /\ sw'[s].st = sw[s].st
         /\ \A t \in PeerIds : t # s => sw'[t] = sw[t]
<1>1. sw[s] \in Swarms /\ sw[s].queue \in Seq(Commands)
  BY SwarmParts
<1>2. Append(sw[s].queue, cmd) \in Seq(Commands)
  BY <1>1
<1>3. sw' = [sw EXCEPT ![s] = [sw[s] EXCEPT !.queue = Append(sw[s].queue, cmd)]]
  BY DEF Enqueue
<1>4. [sw[s] EXCEPT !.queue = Append(sw[s].queue, cmd)] \in Swarms
  BY <1>1, <1>2 DEF Swarms
<1>5. sw'[s] = [sw[s] EXCEPT !.queue = Append(sw[s].queue, cmd)]
  BY <1>3 DEF TypeOK
<1>6. sw'[s].queue = Append(sw[s].queue, cmd) /\ sw'[s].st = sw[s].st
  BY <1>1, <1>5 DEF Swarms
<1> QED
  BY <1>3, <1>4, <1>6 DEF TypeOK

\* What is left when the first command is taken.
LEMMA DequeueTypes ==
  ASSUME TypeOK, NEW s \in PeerIds, sw[s].queue # <<>>, sw' = Dequeued(s)
  PROVE  /\ Head(sw[s].queue) \in Commands
         /\ sw' \in [PeerIds -> Swarms]
         /\ sw'[s].queue = Tail(sw[s].queue) /\ sw'[s].st = sw[s].st
         /\ \A t \in PeerIds : t # s => sw'[t] = sw[t]
<1>1. sw[s] \in Swarms /\ sw[s].queue \in Seq(Commands)
  BY SwarmParts
<1>2. Tail(sw[s].queue) \in Seq(Commands) /\ Head(sw[s].queue) \in Commands
  BY <1>1
<1>3. sw' = [sw EXCEPT ![s] = [sw[s] EXCEPT !.queue = Tail(sw[s].queue)]]
  BY DEF Dequeued
<1>4. [sw[s] EXCEPT !.queue = Tail(sw[s].queue)] \in Swarms
  BY <1>1, <1>2 DEF Swarms
<1>5. sw'[s] = [sw[s] EXCEPT !.queue = Tail(sw[s].queue)]
  BY <1>3 DEF TypeOK
<1>6. sw'[s].queue = Tail(sw[s].queue) /\ sw'[s].st = sw[s].st
  BY <1>1, <1>5 DEF Swarms
<1> QED
  BY <1>2, <1>3, <1>4, <1>6 DEF TypeOK

\* A request that a swarm sends, and the exchange it belongs to.
LEMMA SendTypes ==
  ASSUME TypeOK, NEW s \in PeerIds, NEW c \in Callers, NEW to \in PeerIds, NEW op \in Ops,
         NEW data \in Data, NEW step \in Steps, NEW rest \in SUBSET Snapshots,
         Send(s, c, to, op, data, step, rest)
  PROVE  /\ ids' \in [Callers -> Nat] /\ reqs' \in SUBSET Requests
         /\ ctx' \in [Callers -> Contexts \cup {NoCtx}]
<1>1. [step |-> step, swarm |-> s, to |-> to, rest |-> rest] \in Contexts
  BY DEF Contexts
<1>2. ids[c] \in Nat
  BY DEF TypeOK
<1>3. [c |-> c, k |-> ids[c] + 1, to |-> to, op |-> op, data |-> data] \in Requests
  BY <1>2 DEF Requests
<1> QED
  BY <1>1, <1>2, <1>3 DEF Send, TypeOK

\* The exchange that a send begins or goes on with.
LEMMA SentExchange ==
  ASSUME TypeOK, NEW s \in PeerIds, NEW c \in Callers, NEW to \in PeerIds, NEW op,
         NEW data, NEW step \in Steps, NEW rest \in SUBSET Snapshots,
         Send(s, c, to, op, data, step, rest)
  PROVE  /\ ctx'[c] # NoCtx /\ ctx'[c].swarm = s /\ ctx'[c].step = step
         /\ \A d \in Callers \ {c} : ctx'[d] = ctx[d]
<1>1. [step |-> step, swarm |-> s, to |-> to, rest |-> rest] \in Contexts
  BY DEF Contexts
<1>2. ctx'[c] = [step |-> step, swarm |-> s, to |-> to, rest |-> rest]
  BY DEF Send, TypeOK
<1> QED
  BY <1>1, <1>2, ContextAssumption DEF Send, TypeOK

LEMMA PushType == ASSUME NEW snap \in Snapshots PROVE Push(snap) \in Data
  BY EmptyData DEF Push, Data

\* Storing a batch or snapshots keeps the stores typed.
LEMMA StoreSteps ==
  ASSUME TypeOK, NEW n \in Nodes
  PROVE  /\ \A data \in Data : StoreBatch(n, data) =>
              wire' \in [Nodes -> Stores] /\ atts' \in [Nodes -> BlobStores]
         /\ \A snaps \in SUBSET Snapshots : StoreNotes(n, ImportSnapshots(wire[n], snaps)) =>
              wire' \in [Nodes -> Stores]
<1>1. wire[n] \in Stores /\ atts[n] \in BlobStores
  BY DEF TypeOK
<1>2. ASSUME NEW data \in Data, StoreBatch(n, data)
      PROVE  wire' \in [Nodes -> Stores] /\ atts' \in [Nodes -> BlobStores]
  BY <1>1, <1>2, ImportBatchTypes DEF StoreBatch, StoreNotes, StoreBlobs, TypeOK
<1>3. ASSUME NEW snaps \in SUBSET Snapshots, StoreNotes(n, ImportSnapshots(wire[n], snaps))
      PROVE  wire' \in [Nodes -> Stores]
  BY <1>1, <1>3, ImportSnapshotsType DEF StoreNotes, TypeOK
<1> QED
  BY <1>2, <1>3
-----------------------------------------------------------------------------
(* The types, one lemma for the steps of each part. *)

LEMMA AppTypes == ASSUME TypeOK, Controlled, NEW n \in Nodes, App(n) PROVE TypeOK'
<1> USE MeshAssumption, WireAssumption DEF counts, stores
<1>1. wire[n] \in Stores /\ atts[n] \in BlobStores /\ pushes \in Nat
  BY DEF TypeOK
<1>2. CASE WirePush(n)
  <2>1. PICK i \in Notes \cup {NoNote} : StoreNotes(n, Upsert(wire[n], [id |-> i, at |-> pushes + 1]))
    BY <1>2 DEF WirePush
  <2>2. [id |-> i, at |-> pushes + 1] \in Snapshots
    BY <1>1 DEF Snapshots
  <2>3. wire' \in [Nodes -> Stores]
    BY <1>1, <2>1, <2>2, StoreTypes DEF StoreNotes, TypeOK
  <2>4. call' \in [Callers -> SyncCalls]
    BY <1>2, DisturbedCalls DEF WirePush
  <2>5. pushes' \in 0..MaxPushes
    BY <1>2 DEF WirePush, TypeOK
  <2> QED
    BY <1>2, <2>3, <2>4, <2>5 DEF WirePush, TypeOK
<1>3. CASE WireAttachmentPush(n)
  <2>1. PICK blob \in [file : Files \cup {NoFile}, size : {0, MaxBytes, MaxBytes + 1}] :
          StoreBlobs(n, UpsertBlob(atts[n], blob))
    BY <1>3 DEF WireAttachmentPush
  <2>2. blob \in Blobs
    BY DEF Blobs
  <2>3. atts' \in [Nodes -> BlobStores]
    BY <1>1, <2>1, <2>2, BlobTypes DEF StoreBlobs, TypeOK
  <2>4. call' \in [Callers -> SyncCalls]
    BY <1>3, DisturbedCalls DEF WireAttachmentPush
  <2>5. pushes' \in 0..MaxPushes
    BY <1>3 DEF WireAttachmentPush, TypeOK
  <2> QED
    BY <1>3, <2>3, <2>4, <2>5 DEF WireAttachmentPush, TypeOK
<1>4. CASE WireBatchImport(n)
  <2>1. PICK v \in {0, 1}, i \in Notes :
          StoreBatch(n, [NoData EXCEPT !.version = v, !.notes = {[id |-> i, at |-> pushes + 1]}])
    BY <1>4 DEF WireBatchImport
  <2>2. [id |-> i, at |-> pushes + 1] \in Snapshots
    BY <1>1 DEF Snapshots
  <2>3. [NoData EXCEPT !.version = v, !.notes = {[id |-> i, at |-> pushes + 1]}] \in Data
    BY <2>2, EnvelopeType
  <2>4. wire' \in [Nodes -> Stores] /\ atts' \in [Nodes -> BlobStores]
    BY <2>1, <2>3, StoreSteps
  <2>5. call' \in [Callers -> SyncCalls]
    BY <1>4, DisturbedCalls DEF WireBatchImport
  <2>6. pushes' \in 0..MaxPushes
    BY <1>4 DEF WireBatchImport, TypeOK
  <2> QED
    BY <1>4, <2>4, <2>5, <2>6 DEF WireBatchImport, TypeOK
<1>5. CASE StartJson(n)
  <2> DEFINE s == <<n, Started(n) + 1>>
  <2>1. s \in PeerIds /\ Started(n) + 1 \in Nat
    BY <1>5, StartedId DEF StartJson
  <2>2. sw[s] \in Swarms
    BY <2>1, SwarmParts
  <2>3. sw' = [sw EXCEPT ![s] = [sw[s] EXCEPT !.st = "up"]] /\ p2p' = [p2p EXCEPT ![n] = Started(n) + 1]
    BY <1>5 DEF StartJson, Spawn
  <2>4. [sw[s] EXCEPT !.st = "up"] \in Swarms
    BY <2>2 DEF Swarms
  <2>5. sw' \in [PeerIds -> Swarms] /\ p2p' \in [Nodes -> Nat]
    BY <2>1, <2>3, <2>4 DEF TypeOK
  <2> QED
    BY <1>5, <2>5 DEF StartJson, TypeOK
<1>6. CASE StopTake(n)
  BY <1>6 DEF StopTake, TypeOK, Controlled
<1> QED
  BY <1>2, <1>3, <1>4, <1>5, <1>6 DEF App

LEMMA CallTypes == ASSUME TypeOK, Controlled, NEW c \in Callers, Sync(c) PROVE TypeOK'
<1> USE DEF counts, stores
<1>1. call[c] \in SyncCalls /\ c[1] \in Nodes /\ call[c].peer \in Nodes /\ call[c].data \in Data
  BY IdleCalls DEF TypeOK, SyncCalls
<1>2. ASSUME SyncByPeerId(c) \/ SyncByWireBase(c) PROVE TypeOK'
  <2>1. calls' \in [Callers -> 0..MaxCalls]
    <3>1. calls[c] + 1 \in 0..MaxCalls
      <4>1. calls[c] \in 0..MaxCalls /\ calls[c] < MaxCalls
        BY <1>2 DEF SyncByPeerId, SyncByWireBase, TypeOK
      <4> QED
        BY <4>1, MeshAssumption
    <3> QED
      BY <1>2, <3>1 DEF SyncByPeerId, SyncByWireBase, TypeOK
  <2>2. p2p[c[1]] \in Nat
    BY <1>1 DEF TypeOK
  <2>3. \A m \in Nodes : \A pc \in CallPhases, gen \in Nat :
          [IdleCall(c) EXCEPT !.gen = gen, !.peer = m, !.pc = pc] \in SyncCalls
    BY IdleCalls DEF SyncCalls
  <2>4. \A m \in Nodes : [IdleCall(c) EXCEPT !.pc = "httpExport", !.peer = m] \in SyncCalls
    BY IdleCalls DEF SyncCalls, CallPhases
  <2>5. call' \in [Callers -> SyncCalls]
    <3>1. CASE SyncByPeerId(c)
      <4>1. PICK m \in Nodes \ {c[1]} :
              call' = [call EXCEPT ![c] = [IdleCall(c) EXCEPT !.gen = p2p[c[1]], !.peer = m,
                                             !.pc = IF p2p[c[1]] = 0 THEN "emit" ELSE "ask"]]
        BY <3>1 DEF SyncByPeerId
      <4>2. (IF p2p[c[1]] = 0 THEN "emit" ELSE "ask") \in CallPhases
        BY DEF CallPhases
      <4> QED
        BY <2>2, <2>3, <4>1, <4>2 DEF TypeOK
    <3>2. CASE SyncByWireBase(c)
      BY <2>4, <3>2 DEF SyncByWireBase, TypeOK
    <3> QED
      BY <1>2, <3>1, <3>2
  <2> QED
    BY <1>2, <2>1, <2>5 DEF SyncByPeerId, SyncByWireBase, TypeOK
<1>3. ASSUME SendCommand(c) PROVE TypeOK'
  <2> DEFINE s == <<c[1], call[c].gen>>
  <2>1. s \in PeerIds
    BY <1>3 DEF SendCommand, Controlled
  <2>2. [kind |-> call[c].stage, c |-> c, peer |-> call[c].peer] \in Commands
    BY <1>1 DEF Commands, SyncCalls
  <2>3. sw' \in [PeerIds -> Swarms]
    BY <1>3, <2>1, <2>2, EnqueueTypes DEF SendCommand, TypeOK
  <2>4. [call[c] EXCEPT !.pc = "wait"] \in SyncCalls
    BY <1>1 DEF SyncCalls, CallPhases
  <2>5. AfterAnswer(call[c], FALSE) \in SyncCalls
    BY <1>1, AnsweredCall
  <2>6. call' \in [Callers -> SyncCalls]
    BY <1>3, <2>4, <2>5 DEF SendCommand, TypeOK
  <2> QED
    BY <1>3, <2>3, <2>6 DEF SendCommand, TypeOK
<1>4. ASSUME SyncCompleted(c) PROVE TypeOK'
  <2>1. call' \in [Callers -> SyncCalls]
    BY <1>4, IdleCalls DEF SyncCompleted, TypeOK
  <2> QED
    BY <1>4, <2>1 DEF SyncCompleted, TypeOK
<1>5. ASSUME Fails PROVE faults' \in 0..MaxFaults
  BY <1>5, MeshAssumption DEF Fails, TypeOK
<1>6. ASSUME NEW pc \in CallPhases, NEW data \in Data, Goes(c, pc, data)
      PROVE  call' \in [Callers -> SyncCalls]
  <2>1. [call[c] EXCEPT !.pc = pc, !.data = data] \in SyncCalls
    BY <1>1 DEF SyncCalls
  <2>2. call' = [call EXCEPT ![c] = [call[c] EXCEPT !.pc = pc, !.data = data]]
    BY <1>1, <1>6 DEF Goes, TypeOK, SyncCalls
  <2> QED
    BY <2>1, <2>2 DEF TypeOK
<1>7. ASSUME Ask(c) PROVE TypeOK'
  <2> DEFINE m == call[c].peer
  <2>1. /\ Batch(m) \in Data /\ Catalog(m) \in Data /\ NoData \in Data
        /\ [NoData EXCEPT !.notes = PullNotes(wire[m], call[c].data.ids)] \in Data
    <3>1. call[c].data.ids \in SUBSET Notes
      BY <1>1 DEF Data
    <3> QED
      BY <1>1, <3>1, OwnData, EmptyData
  <2>2. [call[c] EXCEPT !.pc = "httpPush", !.via = "http_catalog"] \in SyncCalls
    BY <1>1 DEF SyncCalls, CallPhases
  <2>3. [call EXCEPT ![c].pc = "httpPush", ![c].via = "http_catalog"] \in [Callers -> SyncCalls]
    <3>1. [call EXCEPT ![c].pc = "httpPush", ![c].via = "http_catalog"]
          = [call EXCEPT ![c] = [call[c] EXCEPT !.pc = "httpPush", !.via = "http_catalog"]]
      BY <1>1 DEF TypeOK, SyncCalls
    <3> QED
      BY <2>2, <3>1 DEF TypeOK
  <2>4. /\ \/ \E pc \in CallPhases, data \in Data : Goes(c, pc, data)
           \/ call' = [call EXCEPT ![c].pc = "httpPush", ![c].via = "http_catalog"]
        /\ UNCHANGED faults \/ Fails
    BY <1>7, <2>1 DEF Ask, CallPhases
  <2>5. call' \in [Callers -> SyncCalls]
    BY <1>6, <2>3, <2>4
  <2>6. faults' \in 0..MaxFaults
    BY <1>5, <2>4 DEF TypeOK
  <2> QED
    BY <1>7, <2>5, <2>6 DEF Ask, TypeOK
<1>8. ASSUME Import(c) PROVE TypeOK'
  <2> DEFINE n == c[1]
             next == IF call[c].pc = "httpNotes" \/ ImportedCount(call[c].data) > 0
                     THEN "httpPush" ELSE "httpCatalog"
             via == IF call[c].pc = "httpNotes" THEN "http_catalog"
                    ELSE IF next = "httpPush" THEN "http_batch" ELSE "none"
  <2>1. call[c].data.notes \in SUBSET Snapshots
    BY <1>1 DEF Data
  <2>2. wire' \in [Nodes -> Stores] /\ atts' \in [Nodes -> BlobStores]
    <3>1. CASE StoreBatch(n, call[c].data)
      BY <1>1, <3>1, StoreSteps
    <3>2. CASE StoreNotes(n, ImportSnapshots(wire[n], call[c].data.notes)) /\ UNCHANGED atts
      BY <1>1, <2>1, <3>2, StoreSteps DEF TypeOK
    <3> QED
      BY <1>8, <3>1, <3>2 DEF Import
  <2>3. next \in CallPhases /\ via \in {"none", "http_batch", "http_catalog", "libp2p_batch", "libp2p"}
    BY DEF CallPhases
  <2> HIDE DEF next, via
  <2>4. call' = [Disturbed(n, c) EXCEPT ![c].pc = next, ![c].via = via, ![c].data = NoData]
    BY <1>8 DEF Import, next, via
  <2>5. Disturbed(n, c) \in [Callers -> SyncCalls]
    BY DisturbedCalls
  <2>6. call' \in [Callers -> SyncCalls]
    <3> DEFINE new == Disturbed(n, c)
    <3> HIDE DEF new
    <3>1. new \in [Callers -> SyncCalls] /\ new[c] \in SyncCalls
      BY <2>5 DEF new
    <3>2. call' = [new EXCEPT ![c].pc = next, ![c].via = via, ![c].data = NoData]
      BY <2>4 DEF new
    <3>3. call' = [new EXCEPT ![c] = [new[c] EXCEPT !.pc = next, !.via = via, !.data = NoData]]
      BY <3>1, <3>2 DEF SyncCalls
    <3>4. [new[c] EXCEPT !.pc = next, !.via = via, !.data = NoData] \in SyncCalls
      BY <2>3, <3>1, EmptyData DEF SyncCalls
    <3> QED
      BY <3>1, <3>3, <3>4
  <2> QED
    BY <1>8, <2>2, <2>6 DEF Import, TypeOK
<1>9. ASSUME PushBatch(c) PROVE TypeOK'
  <2> DEFINE m == call[c].peer
             new == Disturbed(m, c)
  <2>1. Batch(c[1]) \in Data /\ NoData \in Data
    BY <1>1, OwnData, EmptyData
  <2>2. wire' \in [Nodes -> Stores] /\ atts' \in [Nodes -> BlobStores]
    <3>1. CASE StoreBatch(m, call[c].data)
      BY <1>1, <3>1, StoreSteps
    <3>2. CASE UNCHANGED stores
      BY <3>2 DEF TypeOK
    <3> QED
      BY <1>9, <3>1, <3>2 DEF PushBatch
  <2>3. new \in [Callers -> SyncCalls] /\ new[c] \in SyncCalls
    BY DisturbedCalls
  <2> HIDE DEF new
  <2>4. /\ [new EXCEPT ![c].pc = "emit", ![c].sent = TRUE, ![c].data = NoData]
           = [new EXCEPT ![c] = [new[c] EXCEPT !.pc = "emit", !.sent = TRUE, !.data = NoData]]
        /\ [new[c] EXCEPT !.pc = "emit", !.sent = TRUE, !.data = NoData] \in SyncCalls
    BY <2>1, <2>3 DEF SyncCalls, CallPhases
  <2>5. /\ [new EXCEPT ![c].pc = "emit", ![c].data = NoData]
           = [new EXCEPT ![c] = [new[c] EXCEPT !.pc = "emit", !.data = NoData]]
        /\ [new[c] EXCEPT !.pc = "emit", !.data = NoData] \in SyncCalls
    BY <2>1, <2>3 DEF SyncCalls, CallPhases
  <2>6. /\ \/ \E pc \in CallPhases, data \in Data : Goes(c, pc, data)
           \/ call' = [new EXCEPT ![c].pc = "emit", ![c].sent = TRUE, ![c].data = NoData]
           \/ call' = [new EXCEPT ![c].pc = "emit", ![c].data = NoData]
        /\ UNCHANGED faults \/ Fails
    BY <1>9, <2>1 DEF PushBatch, CallPhases, new
  <2>7. call' \in [Callers -> SyncCalls]
    BY <1>6, <2>3, <2>4, <2>5, <2>6
  <2>8. faults' \in 0..MaxFaults
    BY <1>5, <2>6 DEF TypeOK
  <2> QED
    BY <1>9, <2>2, <2>7, <2>8 DEF PushBatch, TypeOK
<1> QED
  BY <1>2, <1>3, <1>4, <1>7, <1>8, <1>9 DEF Sync

LEMMA SwarmTypes ==
  ASSUME TypeOK, Controlled, NEW s \in PeerIds,
         Swarm(s) \/ \E t \in PeerIds : Identify(s, t) \/ Expire(s, t)
  PROVE  TypeOK'
<1> USE DEF counts, stores
<1>1. s[1] \in Nodes /\ s # NoPeer
  BY PeerIdParts
<1>2. ASSUME RunCommand(s) PROVE TypeOK'
  <2> DEFINE cmd == Head(sw[s].queue)
             c == cmd.c
             to == sw[s].peers[cmd.peer]
             mine == AllSnapshots(wire[s[1]])
  <2>1. cmd \in Commands /\ sw' \in [PeerIds -> Swarms]
    BY <1>2, DequeueTypes DEF RunCommand
  <2>2. c \in Callers
    <3>1. sw[s].queue \in Seq(Commands) /\ sw[s].queue # <<>> /\ cmd.kind # "stop"
      BY <1>2, SwarmParts DEF RunCommand
    <3>2. 1 \in 1..Len(sw[s].queue) /\ sw[s].queue[1] = cmd
      BY <3>1
    <3> QED
      BY <3>1, <3>2 DEF Controlled
  <2>3. to \in PeerIds \cup {NoPeer}
    BY <2>1, SwarmParts DEF Commands
  <2>4. mine \in SUBSET Snapshots
    BY <1>1, OwnData, StoreTypes
  <2>5. call[c] \in SyncCalls
    BY <2>2 DEF TypeOK
  <2> HIDE DEF cmd, c, to, mine
  <2>6. /\ \/ call' = [call EXCEPT ![c] = AfterAnswer(@, to # NoPeer)] /\ UNCHANGED <<ctx, reqs, ids>>
           \/ /\ to # NoPeer /\ UNCHANGED call
              /\ \/ Send(s, c, to, "get_batch", NoData, "batch", {})
                 \/ Send(s, c, to, "get_catalog", NoData, "catalog", {})
                 \/ \E first \in mine : Send(s, c, to, "push", Push(first), "push", mine \ {first})
        /\ UNCHANGED <<stores, p2p, stopping, resps, counts>>
    BY <1>2 DEF RunCommand, cmd, c, to, mine
  <2>7. call' \in [Callers -> SyncCalls]
    BY <2>2, <2>5, <2>6, AnsweredCall DEF TypeOK
  <2>8. /\ ids' \in [Callers -> Nat] /\ reqs' \in SUBSET Requests
        /\ ctx' \in [Callers -> Contexts \cup {NoCtx}]
    <3>1. CASE UNCHANGED <<ctx, reqs, ids>>
      BY <3>1 DEF TypeOK
    <3>2. CASE to # NoPeer /\ Send(s, c, to, "get_batch", NoData, "batch", {})
      BY <2>2, <2>3, <3>2, SendTypes, EmptyData DEF Ops, Steps
    <3>3. CASE to # NoPeer /\ Send(s, c, to, "get_catalog", NoData, "catalog", {})
      BY <2>2, <2>3, <3>3, SendTypes, EmptyData DEF Ops, Steps
    <3>4. CASE to # NoPeer /\ \E first \in mine : Send(s, c, to, "push", Push(first), "push", mine \ {first})
      <4>1. PICK first \in mine : Send(s, c, to, "push", Push(first), "push", mine \ {first})
        BY <3>4
      <4>2. Push(first) \in Data /\ mine \ {first} \in SUBSET Snapshots
        BY <2>4, PushType
      <4> QED
        BY <2>2, <2>3, <3>4, <4>1, <4>2, SendTypes DEF Ops, Steps
    <3> QED
      BY <2>6, <3>1, <3>2, <3>3, <3>4
  <2> QED
    BY <2>1, <2>6, <2>7, <2>8 DEF TypeOK
<1>3. ASSUME SwarmEnd(s) PROVE TypeOK'
  <2>1. [NoSwarm EXCEPT !.st = "gone"] \in Swarms
    <3>1. <<>> \in Seq(Commands)
      OBVIOUS
    <3> QED
      BY <3>1 DEF NoSwarm, Swarms
  <2>2. sw' \in [PeerIds -> Swarms]
    BY <1>3, <2>1 DEF SwarmEnd, TypeOK
  <2>3. \A c \in Callers : AfterAnswer(call[c], FALSE) \in SyncCalls
    BY AnsweredCall DEF TypeOK
  <2>4. call' \in [Callers -> SyncCalls]
    BY <1>3, <2>3 DEF SwarmEnd, TypeOK
  <2> QED
    BY <1>3, <2>2, <2>4 DEF SwarmEnd, TypeOK
<1>4. ASSUME StopSend(s) PROVE TypeOK'
  <2>1. [kind |-> "stop", c |-> NoCaller, peer |-> s[1]] \in Commands
    BY <1>1 DEF Commands
  <2>2. sw' \in [PeerIds -> Swarms]
    BY <1>4, <2>1, EnqueueTypes DEF StopSend, TypeOK
  <2> QED
    BY <1>4, <2>2 DEF StopSend, TypeOK
<1>5. ASSUME NEW t \in PeerIds, Identify(s, t) \/ Expire(s, t) PROVE TypeOK'
  <2>1. sw[s] \in Swarms /\ t[1] \in Nodes
    BY SwarmParts, PeerIdParts
  <2>2. \A p \in PeerIds \cup {NoPeer} :
          [sw EXCEPT ![s].peers[t[1]] = p] \in [PeerIds -> Swarms]
    <3> SUFFICES ASSUME NEW p \in PeerIds \cup {NoPeer}
                 PROVE  [sw EXCEPT ![s].peers[t[1]] = p] \in [PeerIds -> Swarms]
      OBVIOUS
    <3>1. [sw[s].peers EXCEPT ![t[1]] = p] \in [Nodes -> PeerIds \cup {NoPeer}]
      BY SwarmParts
    <3>2. [sw[s] EXCEPT !.peers = [sw[s].peers EXCEPT ![t[1]] = p]] \in Swarms
      BY <2>1, <3>1 DEF Swarms
    <3> QED
      BY <3>2 DEF TypeOK
  <2>3. sw' \in [PeerIds -> Swarms]
    <3>1. CASE Identify(s, t)
      BY <2>2, <3>1 DEF Identify
    <3>2. CASE Expire(s, t)
      <4>1. sw' = [sw EXCEPT ![s].peers[t[1]] = NoPeer]
        BY <3>2 DEF Expire
      <4> QED
        BY <2>2, <4>1
    <3> QED
      BY <1>5, <3>1, <3>2
  <2> QED
    BY <1>5, <2>3 DEF Identify, Expire, TypeOK
<1> QED
  BY <1>2, <1>3, <1>4, <1>5 DEF Swarm

LEMMA ContextParts ==
  ASSUME TypeOK, NEW c \in Callers, Live(c)
  PROVE  /\ ctx[c] \in Contexts /\ ctx[c].swarm \in PeerIds /\ ctx[c].to \in PeerIds
         /\ ctx[c].swarm[1] \in Nodes /\ ctx[c].rest \in SUBSET Snapshots
<1>1. ctx[c] \in Contexts
  BY DEF TypeOK, Live
<1>2. ctx[c].swarm \in PeerIds
  BY <1>1 DEF Contexts
<1>3. ctx[c].swarm[1] \in Nodes
  BY <1>2, PeerIdParts
<1> QED
  BY <1>1, <1>3 DEF Contexts

LEMMA MessageTypes ==
  ASSUME TypeOK,
         \/ \E r \in reqs : Serve(r)
         \/ \E r \in resps : Respond(r)
         \/ \E c \in Callers : OutboundFailure(c)
  PROVE  TypeOK'
<1> USE DEF counts, stores
<1>1. ASSUME NEW r \in reqs, Serve(r) PROVE TypeOK'
  <2> DEFINE n == r.to[1]
             Answer(op, data) ==
               resps' = IF Awaited(r) THEN resps \cup {Reply(r, op, data)} ELSE resps
  <2>1. r \in Requests /\ r.data \in Data /\ r.c \in Callers /\ n \in Nodes
    BY PeerIdParts DEF TypeOK, Requests
  <2>2. \A op \in Replies, data \in Data : Reply(r, op, data) \in Responses
    BY <2>1 DEF Reply, Responses, Requests
  <2>3. /\ Catalog(n) \in Data /\ Batch(n) \in Data /\ NoData \in Data
        /\ [NoData EXCEPT !.notes = PullNotes(wire[n], r.data.ids)] \in Data
    <3>1. r.data.ids \in SUBSET Notes
      BY <2>1 DEF Data
    <3> QED
      BY <2>1, <3>1, OwnData, EmptyData
  <2>4. \E op \in Replies, data \in Data : Answer(op, data)
    BY <1>1, <2>3 DEF Serve, Replies
  <2>5. resps' \in SUBSET Responses
    BY <2>2, <2>4 DEF TypeOK
  <2>6. r.data.notes \in SUBSET Snapshots
    BY <2>1 DEF Data
  <2>7. wire' \in [Nodes -> Stores] /\ atts' \in [Nodes -> BlobStores]
    <3>1. CASE UNCHANGED stores
      BY <3>1 DEF TypeOK
    <3>2. CASE StoreNotes(n, ImportSnapshots(wire[n], r.data.notes)) /\ UNCHANGED atts
      BY <2>1, <2>6, <3>2, StoreSteps DEF TypeOK
    <3>3. CASE StoreBatch(n, r.data)
      BY <2>1, <3>3, StoreSteps
    <3> QED
      BY <1>1, <3>1, <3>2, <3>3 DEF Serve
  <2>8. call' \in [Callers -> SyncCalls]
    <3>1. UNCHANGED call \/ \E c : call' = Disturbed(n, c)
      BY <1>1 DEF Serve
    <3> QED
      BY <3>1, DisturbedCalls DEF TypeOK
  <2>9. reqs' \in SUBSET Requests
    BY <1>1 DEF Serve, TypeOK
  <2> QED
    BY <1>1, <2>5, <2>7, <2>8, <2>9 DEF Serve, TypeOK
<1>2. ASSUME NEW r \in resps, Respond(r) PROVE TypeOK'
  <2> DEFINE c == r.c
             n == ctx[c].swarm[1]
  <2>1. r \in Responses /\ r.data \in Data /\ c \in Callers /\ Live(c)
    BY <1>2 DEF TypeOK, Responses, Respond, Awaited
  <2>2. /\ ctx[c] \in Contexts /\ ctx[c].swarm \in PeerIds /\ ctx[c].to \in PeerIds
        /\ n \in Nodes /\ ctx[c].rest \in SUBSET Snapshots
    BY <2>1, ContextParts
  <2>3. r.data.ids \in SUBSET Notes /\ r.data.notes \in SUBSET Snapshots
    BY <2>1 DEF Data
  <2>4. call[c] \in SyncCalls
    BY <2>1 DEF TypeOK
  <2>5. resps' \in SUBSET Responses /\ UNCHANGED <<p2p, stopping, sw, counts>>
    BY <1>2 DEF Respond, TypeOK
  <2>6. ASSUME Answered(c, TRUE)
        PROVE  /\ ids' \in [Callers -> Nat] /\ reqs' \in SUBSET Requests
               /\ ctx' \in [Callers -> Contexts \cup {NoCtx}] /\ call' \in [Callers -> SyncCalls]
    BY <2>1, <2>4, <2>6, AnsweredCall DEF Answered, TypeOK
  <2>7. Disturbed(n, c) \in [Callers -> SyncCalls] /\ Disturbed(n, c)[c] \in SyncCalls
    BY <2>1, DisturbedCalls
  <2>8. CASE OnPullResponse(r) /\ UNCHANGED atts
    <3>1. CASE Answered(c, TRUE) /\ UNCHANGED wire
      BY <2>5, <2>6, <2>8, <3>1 DEF TypeOK
    <3>2. CASE /\ Send(ctx[c].swarm, c, ctx[c].to, "pull", [NoData EXCEPT !.ids = r.data.ids],
                       "notes", {})
               /\ UNCHANGED <<call, wire>>
      <4>1. [NoData EXCEPT !.ids = r.data.ids] \in Data
        BY <2>3, EmptyData DEF Data
      <4>2. /\ ids' \in [Callers -> Nat] /\ reqs' \in SUBSET Requests
            /\ ctx' \in [Callers -> Contexts \cup {NoCtx}]
        BY <2>1, <2>2, <3>2, <4>1, SendTypes DEF Ops, Steps
      <4> QED
        BY <2>5, <2>8, <3>2, <4>2 DEF TypeOK
    <3>3. CASE /\ StoreNotes(n, ImportSnapshots(wire[n], r.data.notes))
               /\ call' = [Disturbed(n, c) EXCEPT ![c] = AfterAnswer(@, TRUE)]
               /\ ctx' = [ctx EXCEPT ![c] = NoCtx]
               /\ UNCHANGED <<reqs, ids>>
      <4>1. wire' \in [Nodes -> Stores]
        BY <2>2, <2>3, <3>3, StoreSteps
      <4>2. call' \in [Callers -> SyncCalls]
        BY <2>7, <3>3, AnsweredCall
      <4>3. ctx' \in [Callers -> Contexts \cup {NoCtx}]
        BY <3>3 DEF TypeOK
      <4> QED
        BY <2>5, <2>8, <3>3, <4>1, <4>2, <4>3 DEF TypeOK
    <3> QED
      BY <2>8, <3>1, <3>2, <3>3 DEF OnPullResponse
  <2>9. CASE OnPushResponse(r) /\ UNCHANGED stores
    <3>1. CASE Answered(c, TRUE)
      BY <2>5, <2>6, <2>9, <3>1 DEF TypeOK
    <3>2. CASE \E snap \in ctx[c].rest :
                 /\ Send(ctx[c].swarm, c, ctx[c].to, "push", Push(snap), "push", ctx[c].rest \ {snap})
                 /\ UNCHANGED call
      <4>1. PICK snap \in ctx[c].rest :
              /\ Send(ctx[c].swarm, c, ctx[c].to, "push", Push(snap), "push", ctx[c].rest \ {snap})
              /\ UNCHANGED call
        BY <3>2
      <4>2. Push(snap) \in Data /\ ctx[c].rest \ {snap} \in SUBSET Snapshots
        BY <2>2, PushType
      <4>3. /\ ids' \in [Callers -> Nat] /\ reqs' \in SUBSET Requests
            /\ ctx' \in [Callers -> Contexts \cup {NoCtx}]
        BY <2>1, <2>2, <4>1, <4>2, SendTypes DEF Ops, Steps
      <4> QED
        BY <2>5, <2>9, <4>1, <4>3 DEF TypeOK
    <3> QED
      BY <2>9, <3>1, <3>2 DEF OnPushResponse
  <2>10. CASE OnBatchResponse(r)
    <3>1. CASE Answered(c, TRUE) /\ UNCHANGED stores
      BY <2>5, <2>6, <3>1 DEF TypeOK
    <3>2. CASE /\ StoreBatch(n, r.data)
               /\ Send(ctx[c].swarm, c, ctx[c].to, "push_batch", OwnBatch(n, r.data), "ack", {})
               /\ call' = Disturbed(n, c)
      <4>1. wire' \in [Nodes -> Stores] /\ atts' \in [Nodes -> BlobStores]
        BY <2>1, <2>2, <3>2, StoreSteps
      <4>2. OwnBatch(n, r.data) \in Data
        BY <2>1, <2>2, OwnData
      <4>3. /\ ids' \in [Callers -> Nat] /\ reqs' \in SUBSET Requests
            /\ ctx' \in [Callers -> Contexts \cup {NoCtx}]
        BY <2>1, <2>2, <3>2, <4>2, SendTypes DEF Ops, Steps
      <4> QED
        BY <2>5, <2>7, <3>2, <4>1, <4>3 DEF TypeOK
    <3> QED
      BY <2>10, <3>1, <3>2 DEF OnBatchResponse
  <2> QED
    BY <1>2, <2>8, <2>9, <2>10 DEF Respond
<1>3. ASSUME NEW c \in Callers, OutboundFailure(c) PROVE TypeOK'
  <2>1. call' \in [Callers -> SyncCalls]
    BY <1>3, AnsweredCall DEF OutboundFailure, TypeOK
  <2>2. faults' \in 0..MaxFaults
    BY <1>3, MeshAssumption DEF OutboundFailure, TypeOK
  <2>3. ctx' \in [Callers -> Contexts \cup {NoCtx}] /\ reqs' \in SUBSET Requests
        /\ resps' \in SUBSET Responses
    BY <1>3 DEF OutboundFailure, TypeOK
  <2> QED
    BY <1>3, <2>1, <2>2, <2>3 DEF OutboundFailure, TypeOK
<1> QED
  BY <1>1, <1>2, <1>3
-----------------------------------------------------------------------------
(* Where the command of a caller is. *)

\* A swarm that does not run holds no commands, and none holds two of one caller.
Queues ==
  \A s \in PeerIds :
    /\ ~Up(s) => sw[s].queue = <<>>
    /\ \A i, j \in 1..Len(sw[s].queue) :
         sw[s].queue[i].c = sw[s].queue[j].c /\ sw[s].queue[i].c \in Callers => i = j

\* CallerIsServed, said of a call that waits and of one that does not.
Served(c) ==
  LET s == <<c[1], call[c].gen>>
  IN IF call[c].pc = "wait"
     THEN /\ s \in PeerIds /\ Up(s)
          /\ Queued(c) \subseteq {s} /\ (Live(c) <=> Queued(c) = {}) /\ (Live(c) => ctx[c].swarm = s)
     ELSE Queued(c) = {} /\ ~Live(c)

Places == Queues /\ \A c \in Callers : Served(c)

LEMMA PlacesServe == Places => CallerIsServed
  BY DEF Places, Served, CallerIsServed

\* A queue that is as it was holds what it held.
LEMMA SameQueues ==
  ASSUME \A s \in PeerIds : sw'[s].queue = sw[s].queue
  PROVE  \A c \in Callers : Queued(c)' = Queued(c)
BY DEF Queued

LEMMA InQueue ==
  ASSUME TypeOK, NEW s \in PeerIds, NEW cmd \in Commands, Enqueue(s, cmd)
  PROVE  \A c \in Callers : Queued(c)' = IF cmd.c = c THEN Queued(c) \cup {s} ELSE Queued(c)
<1> DEFINE q == sw[s].queue
<1>1. q \in Seq(Commands) /\ sw'[s].queue = Append(q, cmd) /\ \A t \in PeerIds : t # s => sw'[t] = sw[t]
  BY SwarmParts, EnqueueTypes
<1>2. /\ Len(sw'[s].queue) = Len(q) + 1 /\ Len(q) \in Nat
      /\ \A j \in 1..Len(q) : sw'[s].queue[j] = q[j]
      /\ sw'[s].queue[Len(q) + 1] = cmd
  BY <1>1
<1>3. ASSUME NEW c \in Callers
      PROVE  s \in Queued(c)' <=> s \in Queued(c) \/ cmd.c = c
  <2>1. /\ s \in Queued(c) <=> \E j \in 1..Len(q) : q[j].c = c
        /\ s \in Queued(c)' <=> \E j \in 1..(Len(q) + 1) : sw'[s].queue[j].c = c
    BY <1>2 DEF Queued
  <2>2. ASSUME NEW j \in 1..Len(q), q[j].c = c PROVE s \in Queued(c)'
    BY <1>2, <2>1, <2>2
  <2>3. Len(q) + 1 \in 1..(Len(q) + 1)
    BY <1>2
  <2>4. cmd.c = c => s \in Queued(c)'
    BY <1>2, <2>1, <2>3
  <2>5. ASSUME NEW j \in 1..(Len(q) + 1), sw'[s].queue[j].c = c
        PROVE  cmd.c = c \/ \E i \in 1..Len(q) : q[i].c = c
    <3>1. CASE j = Len(q) + 1
      <4>1. sw'[s].queue[j] = cmd
        BY <1>2, <3>1
      <4> QED
        BY <2>5, <4>1
    <3>2. CASE j # Len(q) + 1
      <4>1. j \in 1..Len(q)
        BY <1>2, <2>5, <3>2
      <4>2. q[j].c = c
        BY <1>2, <2>5, <4>1
      <4> QED
        BY <4>1, <4>2
    <3> QED
      BY <3>1, <3>2
  <2> QED
    BY <2>1, <2>2, <2>4, <2>5
<1>4. ASSUME NEW c \in Callers, NEW t \in PeerIds, t # s
      PROVE  t \in Queued(c)' <=> t \in Queued(c)
  BY <1>1, <1>4 DEF Queued
<1>5. ASSUME NEW c \in Callers
      PROVE  Queued(c) \subseteq PeerIds /\ Queued(c)' \subseteq PeerIds
  BY DEF Queued
<1> SUFFICES ASSUME NEW c \in Callers
             PROVE  Queued(c)' = IF cmd.c = c THEN Queued(c) \cup {s} ELSE Queued(c)
  OBVIOUS
<1>6. CASE cmd.c = c
  BY <1>3, <1>4, <1>5, <1>6
<1>7. CASE cmd.c # c
  <2>1. \A t \in PeerIds : t \in Queued(c)' <=> t \in Queued(c)
    BY <1>3, <1>4, <1>7
  <2>2. Queued(c)' = Queued(c)
    BY <1>5, <2>1
  <2> QED
    BY <1>7, <2>2
<1> QED
  BY <1>6, <1>7

LEMMA OutOfQueue ==
  ASSUME TypeOK, Queues, NEW s \in PeerIds, sw[s].queue # <<>>, sw' = Dequeued(s)
  PROVE  \A c \in Callers :
           /\ Queued(c)' = IF Head(sw[s].queue).c = c THEN Queued(c) \ {s} ELSE Queued(c)
           /\ Head(sw[s].queue).c = c => s \in Queued(c)
<1> DEFINE q == sw[s].queue
<1>1. q \in Seq(Commands) /\ sw'[s].queue = Tail(q) /\ \A t \in PeerIds : t # s => sw'[t] = sw[t]
  BY SwarmParts, DequeueTypes
<1>2. /\ Len(sw'[s].queue) = Len(q) - 1 /\ Len(q) \in Nat \ {0} /\ Head(q) = q[1]
      /\ \A j \in 1..(Len(q) - 1) : sw'[s].queue[j] = q[j + 1]
  BY <1>1
<1>3. \A i, j \in 1..Len(q) : q[i].c = q[j].c /\ q[i].c \in Callers => i = j
  BY DEF Queues
<1> HIDE DEF q
<1>4. ASSUME NEW c \in Callers
      PROVE  /\ s \in Queued(c) <=> \E j \in 1..Len(q) : q[j].c = c
             /\ s \in Queued(c)' <=> \E j \in 1..(Len(q) - 1) : q[j + 1].c = c
  BY <1>2 DEF Queued, q
<1>5. ASSUME NEW c \in Callers, Head(q).c = c PROVE s \in Queued(c) /\ s \notin Queued(c)'
  <2>1. 1 \in 1..Len(q) /\ q[1].c = c
    BY <1>2, <1>5
  <2>2. ASSUME NEW j \in 1..(Len(q) - 1), q[j + 1].c = c PROVE FALSE
    <3>1. j + 1 \in 1..Len(q) /\ j + 1 # 1
      BY <1>2
    <3> QED
      BY <1>3, <2>1, <2>2, <3>1
  <2> QED
    BY <1>4, <2>1, <2>2
<1>6. ASSUME NEW c \in Callers, Head(q).c # c PROVE s \in Queued(c) <=> s \in Queued(c)'
  <2>1. ASSUME NEW j \in 1..Len(q), q[j].c = c PROVE \E i \in 1..(Len(q) - 1) : q[i + 1].c = c
    <3>1. j - 1 \in 1..(Len(q) - 1) /\ (j - 1) + 1 = j
      BY <1>2, <1>6, <2>1
    <3> QED
      BY <2>1, <3>1
  <2>2. \A j \in 1..(Len(q) - 1) : j + 1 \in 1..Len(q)
    BY <1>2
  <2> QED
    BY <1>4, <2>1, <2>2
<1>7. ASSUME NEW c \in Callers, NEW t \in PeerIds, t # s
      PROVE  t \in Queued(c)' <=> t \in Queued(c)
  BY <1>1, <1>7 DEF Queued
<1>8. ASSUME NEW c \in Callers
      PROVE  Queued(c) \subseteq PeerIds /\ Queued(c)' \subseteq PeerIds
  BY DEF Queued
<1> SUFFICES ASSUME NEW c \in Callers
             PROVE  /\ Queued(c)' = IF Head(q).c = c THEN Queued(c) \ {s} ELSE Queued(c)
                    /\ Head(q).c = c => s \in Queued(c)
  BY DEF q
<1>9. CASE Head(q).c = c
  BY <1>5, <1>7, <1>8, <1>9
<1>10. CASE Head(q).c # c
  <2>1. \A t \in PeerIds : t \in Queued(c)' <=> t \in Queued(c)
    BY <1>6, <1>7, <1>10
  <2>2. Queued(c)' = Queued(c)
    BY <1>8, <2>1
  <2> QED
    BY <1>10, <2>2
<1> QED
  BY <1>9, <1>10

\* The calls d that a step leaves where they are.
Stays(d) == call'[d].pc = call[d].pc /\ call'[d].gen = call[d].gen

\* A step that moves no command: calls may begin, end, or ask again.
LEMMA Aside ==
  ASSUME Places, UNCHANGED ctx,
         \A s \in PeerIds : sw'[s].queue = sw[s].queue /\ (Up(s) => Up(s)'),
         \A d \in Callers : Stays(d) \/ (call[d].pc # "wait" /\ call'[d].pc # "wait")
  PROVE  Places'
<1>1. \A c \in Callers : Queued(c)' = Queued(c)
  BY SameQueues
<1>2. Queues'
  BY DEF Places, Queues
<1>3. ASSUME NEW c \in Callers PROVE Served(c)'
  BY <1>1, <1>3 DEF Places, Served, Live, Stays, Up
<1> QED
  BY <1>2, <1>3 DEF Places

\* The exchange of c ends, and its call is answered; or the exchange goes on.
LEMMA ExchangeMoves ==
  ASSUME Places, NEW c \in Callers, Live(c), UNCHANGED sw,
         \A d \in Callers \ {c} : ctx'[d] = ctx[d] /\ Stays(d),
         \/ ctx'[c] = NoCtx /\ call'[c].pc # "wait"
         \/ ctx'[c] # NoCtx /\ ctx'[c].swarm = ctx[c].swarm /\ Stays(c)
  PROVE  Places'
<1>1. \A d \in Callers : Queued(d)' = Queued(d)
  BY SameQueues
<1>2. Queues'
  BY DEF Places, Queues, Up
<1>3. ASSUME NEW d \in Callers PROVE Served(d)'
  <2>1. Served(d) /\ Served(c)
    BY DEF Places
  <2>2. CASE d = c
    BY <1>1, <2>1, <2>2 DEF Served, Live, Stays, Up
  <2>3. CASE d # c
    BY <1>1, <2>1, <2>3 DEF Served, Live, Stays, Up
  <2> QED
    BY <2>2, <2>3
<1> QED
  BY <1>2, <1>3 DEF Places

\* A command that goes into a queue with room waits there alone for its caller.
LEMMA CommandSent ==
  ASSUME TypeOK, Places, NEW s \in PeerIds, NEW cmd \in Commands, Up(s), Enqueue(s, cmd),
         UNCHANGED ctx, \A d \in Callers : d # cmd.c => Stays(d),
         cmd.c \in Callers => /\ call[cmd.c].pc # "wait" /\ call'[cmd.c].pc = "wait"
                              /\ s = <<cmd.c[1], call'[cmd.c].gen>>
  PROVE  Places'
<1> DEFINE q == sw[s].queue
<1>1. /\ q \in Seq(Commands) /\ sw'[s].queue = Append(q, cmd) /\ sw'[s].st = sw[s].st
      /\ \A t \in PeerIds : t # s => sw'[t] = sw[t]
  BY SwarmParts, EnqueueTypes
<1>2. /\ Len(sw'[s].queue) = Len(q) + 1 /\ Len(q) \in Nat
      /\ \A j \in 1..Len(q) : sw'[s].queue[j] = q[j]
      /\ sw'[s].queue[Len(q) + 1] = cmd
  BY <1>1
<1>3. \A d \in Callers : Queued(d)' = IF cmd.c = d THEN Queued(d) \cup {s} ELSE Queued(d)
  BY InQueue
<1>4. cmd.c \in Callers => Queued(cmd.c) = {} /\ ~Live(cmd.c)
  BY DEF Places, Served
<1>5. \A t \in PeerIds : Up(t)' <=> Up(t)
  BY <1>1 DEF Up
<1>6. Queues'
  <2> SUFFICES ASSUME NEW t \in PeerIds
               PROVE  /\ ~Up(t)' => sw'[t].queue = <<>>
                      /\ \A i, j \in 1..Len(sw'[t].queue) :
                           sw'[t].queue[i].c = sw'[t].queue[j].c /\ sw'[t].queue[i].c \in Callers => i = j
    BY DEF Queues
  <2>1. CASE t # s
    BY <1>1, <1>5, <2>1 DEF Places, Queues
  <2>2. CASE t = s
    <3>1. \A j \in 1..Len(q) : cmd.c \in Callers => q[j].c # cmd.c
      BY <1>4 DEF Queued
    <3>2. \A i, j \in 1..Len(q) : q[i].c = q[j].c /\ q[i].c \in Callers => i = j
      BY DEF Places, Queues
    <3> HIDE DEF q
    <3>3. ASSUME NEW i \in 1..(Len(q) + 1), NEW j \in 1..(Len(q) + 1),
                 sw'[s].queue[i].c = sw'[s].queue[j].c, sw'[s].queue[i].c \in Callers
          PROVE  i = j
      <4>1. \A h \in 1..(Len(q) + 1) : h \in 1..Len(q) \/ h = Len(q) + 1
        BY <1>2
      <4> QED
        BY <1>2, <3>1, <3>2, <3>3, <4>1
    <3> QED
      BY <1>2, <1>5, <2>2, <3>3
  <2> QED
    BY <2>1, <2>2
<1>7. ASSUME NEW d \in Callers PROVE Served(d)'
  <2>1. Served(d)
    BY DEF Places
  <2>2. CASE d = cmd.c
    BY <1>3, <1>4, <1>5, <2>2 DEF Served, Live
  <2>3. CASE d # cmd.c
    <3>1. Queued(d)' = Queued(d) /\ Stays(d)
      BY <1>3, <2>3
    <3> QED
      BY <1>1, <2>1, <3>1 DEF Served, Live, Stays, Up
  <2> QED
    BY <2>2, <2>3
<1> QED
  BY <1>6, <1>7 DEF Places

\* A command that is taken out of the queue is answered, or becomes the caller's exchange.
LEMMA CommandTaken ==
  ASSUME TypeOK, Places, NEW s \in PeerIds, sw[s].queue # <<>>, sw' = Dequeued(s),
         NEW c \in Callers, c = Head(sw[s].queue).c,
         \A d \in Callers \ {c} : ctx'[d] = ctx[d] /\ Stays(d),
         \/ ctx'[c] = ctx[c] /\ call'[c].pc # "wait"
         \/ ctx'[c] # NoCtx /\ ctx'[c].swarm = s /\ Stays(c)
  PROVE  Places'
<1> DEFINE q == sw[s].queue
<1>1. /\ q \in Seq(Commands) /\ sw'[s].queue = Tail(q) /\ sw'[s].st = sw[s].st
      /\ \A t \in PeerIds : t # s => sw'[t] = sw[t]
  BY SwarmParts, DequeueTypes
<1>2. /\ Len(sw'[s].queue) = Len(q) - 1 /\ Len(q) \in Nat \ {0}
      /\ \A j \in 1..(Len(q) - 1) : sw'[s].queue[j] = q[j + 1]
  BY <1>1
<1>3. /\ \A d \in Callers \ {c} : Queued(d)' = Queued(d)
      /\ Queued(c)' = Queued(c) \ {s} /\ s \in Queued(c)
  BY OutOfQueue DEF Places
<1>4. \A t \in PeerIds : Up(t)' <=> Up(t)
  BY <1>1 DEF Up
<1>5. Served(c)
  BY DEF Places
<1>6. call[c].pc = "wait" /\ s = <<c[1], call[c].gen>> /\ Queued(c)' = {} /\ ~Live(c) /\ Up(s)
  BY <1>3, <1>5 DEF Served
<1>7. Queues'
  <2> SUFFICES ASSUME NEW t \in PeerIds
               PROVE  /\ ~Up(t)' => sw'[t].queue = <<>>
                      /\ \A i, j \in 1..Len(sw'[t].queue) :
                           sw'[t].queue[i].c = sw'[t].queue[j].c /\ sw'[t].queue[i].c \in Callers => i = j
    BY DEF Queues
  <2>1. CASE t # s
    BY <1>1, <1>4, <2>1 DEF Places, Queues
  <2>2. CASE t = s
    <3>1. \A i, j \in 1..Len(q) : q[i].c = q[j].c /\ q[i].c \in Callers => i = j
      BY DEF Places, Queues
    <3> HIDE DEF q
    <3>2. ASSUME NEW i \in 1..(Len(q) - 1), NEW j \in 1..(Len(q) - 1),
                 sw'[s].queue[i].c = sw'[s].queue[j].c, sw'[s].queue[i].c \in Callers
          PROVE  i = j
      <4>1. i + 1 \in 1..Len(q) /\ j + 1 \in 1..Len(q)
        BY <1>2
      <4>2. q[i + 1].c = q[j + 1].c /\ q[i + 1].c \in Callers
        BY <1>2, <3>2
      <4> QED
        BY <3>1, <4>1, <4>2
    <3> QED
      BY <1>2, <1>4, <1>6, <2>2, <3>2
  <2> QED
    BY <2>1, <2>2
<1>8. ASSUME NEW d \in Callers PROVE Served(d)'
  <2>1. Served(d)
    BY DEF Places
  <2>2. CASE d = c
    BY <1>4, <1>6, <2>2 DEF Served, Live, Stays
  <2>3. CASE d # c
    <3>1. /\ Queued(d)' = Queued(d) /\ ctx'[d] = ctx[d] /\ (Live(d)' <=> Live(d))
          /\ call'[d].pc = call[d].pc /\ call'[d].gen = call[d].gen
      BY <1>3, <2>3 DEF Live, Stays
    <3> HIDE DEF q
    <3> QED
      BY <1>4, <2>1, <3>1 DEF Served
  <2> QED
    BY <2>2, <2>3
<1> QED
  BY <1>7, <1>8 DEF Places
-----------------------------------------------------------------------------
(* What each step does to the places of the commands. *)

\* What calls a step may move: it begins one on a swarm there is, or answers one.
Moves ==
  \A d \in Callers :
    \/ Stays(d)
    \/ call'[d].pc \notin {"ask", "wait"}
    \/ call[d].pc \in {"ask", "wait"} /\ call'[d].gen = call[d].gen
    \/ call'[d].pc = "ask" /\ call'[d].gen = p2p[d[1]] /\ p2p[d[1]] # 0

LEMMA ControlledKept ==
  ASSUME TypeOK, Controlled, Moves,
         \A n \in Nodes : p2p'[n] \in {0, p2p[n]} \/ <<n, p2p'[n]>> \in PeerIds,
         \A s \in PeerIds : \A j \in 1..Len(sw'[s].queue) :
           \/ sw'[s].queue[j].kind = "stop" \/ sw'[s].queue[j].c \in Callers
  PROVE  Controlled'
<1>1. \A c \in Callers : c[1] \in Nodes
  BY MeshAssumption
<1>2. \A c \in Callers : call'[c].pc \in {"ask", "wait"} => <<c[1], call'[c].gen>> \in PeerIds
  BY <1>1 DEF Controlled, Moves, Stays
<1> QED
  BY <1>2 DEF Controlled

LEMMA AppPlaces ==
  ASSUME TypeOK, Controlled, Places, NEW n \in Nodes, App(n)
  PROVE  Controlled' /\ Places'
<1> USE DEF counts, stores
<1>1. ASSUME NEW m, NEW c, UNCHANGED <<sw, ctx, p2p>>, call' = Disturbed(m, c)
      PROVE  Controlled' /\ Places'
  <2>1. \A d \in Callers : Stays(d)
    BY <1>1, DisturbedCalls DEF Stays
  <2>2. Places'
    BY <1>1, <2>1, Aside DEF Up
  <2>3. Controlled'
    BY <1>1, <2>1 DEF Controlled, Stays
  <2> QED
    BY <2>2, <2>3
<1>2. CASE WirePush(n) \/ WireAttachmentPush(n) \/ WireBatchImport(n)
  BY <1>1, <1>2 DEF WirePush, WireAttachmentPush, WireBatchImport
<1>3. CASE StartJson(n)
  <2>1. PICK g : g = Started(n) + 1
    OBVIOUS
  <2> DEFINE s == <<n, g>>
  <2>2. s \in PeerIds
    BY <1>3, <2>1, StartedId DEF StartJson
  <2>3. sw' = [sw EXCEPT ![s] = [sw[s] EXCEPT !.st = "up"]] /\ p2p' = [p2p EXCEPT ![n] = g]
    BY <1>3, <2>1 DEF StartJson, Spawn
  <2>4. /\ \A t \in PeerIds : t # s => sw'[t] = sw[t]
        /\ sw'[s].queue = sw[s].queue /\ Up(s)'
    <3>1. sw'[s] = [sw[s] EXCEPT !.st = "up"] /\ \A t \in PeerIds : t # s => sw'[t] = sw[t]
      BY <2>2, <2>3 DEF TypeOK
    <3>2. sw[s] \in Swarms
      BY <2>2, SwarmParts
    <3>3. sw'[s].st = "up" /\ sw'[s].queue = sw[s].queue
      BY <3>1, <3>2 DEF Swarms
    <3> QED
      BY <3>1, <3>3 DEF Up
  <2>5. \A t \in PeerIds : sw'[t].queue = sw[t].queue /\ (Up(t) => Up(t)')
    BY <2>4 DEF Up
  <2>6. \A d \in Callers : Stays(d)
    BY <1>3 DEF StartJson, Stays
  <2>7. Places'
    BY <1>3, <2>5, <2>6, Aside DEF StartJson
  <2>8. \A m \in Nodes : p2p'[m] \in {0, p2p[m]} \/ <<m, p2p'[m]>> \in PeerIds
    <3>1. p2p'[n] = g /\ \A m \in Nodes : m # n => p2p'[m] = p2p[m]
      BY <2>3 DEF TypeOK
    <3>2. <<n, p2p'[n]>> \in PeerIds
      BY <2>2, <3>1
    <3> QED
      BY <3>1, <3>2
  <2>9. Controlled'
    BY <2>5, <2>6, <2>8, ControlledKept DEF Moves, Controlled
  <2> QED
    BY <2>7, <2>9
<1>4. CASE StopTake(n)
  <2>1. \A d \in Callers : Stays(d)
    BY <1>4 DEF StopTake, Stays
  <2>2. Places'
    BY <1>4, <2>1, Aside DEF StopTake, Up
  <2>3. \A m \in Nodes : p2p'[m] \in {0, p2p[m]}
    BY <1>4 DEF StopTake, TypeOK
  <2>4. Controlled'
    BY <1>4, <2>1, <2>3, ControlledKept DEF StopTake, Moves, Controlled
  <2> QED
    BY <2>2, <2>4
<1> QED
  BY <1>2, <1>3, <1>4 DEF App

LEMMA CallPlaces ==
  ASSUME TypeOK, Controlled, Places, NEW c \in Callers, Sync(c)
  PROVE  Controlled' /\ Places'
<1> USE DEF counts, stores
<1>1. call[c] \in SyncCalls /\ c[1] \in Nodes
  BY IdleCalls DEF TypeOK
<1>2. ASSUME UNCHANGED <<sw, ctx, p2p>>, Moves,
             call[c].pc # "wait", call'[c].pc # "wait", \A d \in Callers \ {c} : Stays(d)
      PROVE  Controlled' /\ Places'
  <2>1. Places'
    BY <1>2, Aside DEF Up
  <2>2. Controlled'
    BY <1>2, ControlledKept DEF Controlled
  <2> QED
    BY <2>1, <2>2
<1>3. CASE SyncByPeerId(c)
  <2>1. PICK m \in Nodes \ {c[1]} :
          call' = [call EXCEPT ![c] = [IdleCall(c) EXCEPT !.gen = p2p[c[1]], !.peer = m,
                                         !.pc = IF p2p[c[1]] = 0 THEN "emit" ELSE "ask"]]
    BY <1>3 DEF SyncByPeerId
  <2>2. /\ call'[c] = [IdleCall(c) EXCEPT !.gen = p2p[c[1]], !.peer = m,
                                          !.pc = IF p2p[c[1]] = 0 THEN "emit" ELSE "ask"]
        /\ \A d \in Callers \ {c} : Stays(d)
    BY <2>1 DEF TypeOK, Stays
  <2>3. /\ call'[c].pc = IF p2p[c[1]] = 0 THEN "emit" ELSE "ask"
        /\ call'[c].gen = p2p[c[1]]
    BY <2>2 DEF IdleCall
  <2>4. Moves
    BY <2>2, <2>3 DEF Moves
  <2> QED
    BY <1>2, <1>3, <2>2, <2>3, <2>4 DEF SyncByPeerId
<1>4. CASE SendCommand(c)
  <2> DEFINE s == <<c[1], call[c].gen>>
             cmd == [kind |-> call[c].stage, c |-> c, peer |-> call[c].peer]
  <2>1. s \in PeerIds /\ cmd \in Commands /\ cmd.c = c /\ call[c].pc = "ask"
    BY <1>1, <1>4 DEF SendCommand, Controlled, Commands, SyncCalls
  <2>2. CASE Room(s) /\ Enqueue(s, cmd) /\ call' = [call EXCEPT ![c].pc = "wait"]
    <3>1. call'[c] = [call[c] EXCEPT !.pc = "wait"] /\ \A d \in Callers \ {c} : Stays(d)
      BY <2>2 DEF TypeOK, Stays
    <3>2. call'[c].pc = "wait" /\ call'[c].gen = call[c].gen
      BY <1>1, <3>1 DEF SyncCalls
    <3>3. UNCHANGED <<ctx, p2p>>
      BY <1>4 DEF SendCommand
    <3> HIDE DEF cmd
    <3>4. Places'
      BY <2>1, <2>2, <3>1, <3>2, <3>3, CommandSent DEF Room, Up
    <3>5. Moves
      BY <2>1, <3>1, <3>2 DEF Moves
    <3>6. \A t \in PeerIds : \A j \in 1..Len(sw'[t].queue) :
            \/ sw'[t].queue[j].kind = "stop" \/ sw'[t].queue[j].c \in Callers
      <4>1. /\ sw[s].queue \in Seq(Commands) /\ sw'[s].queue = Append(sw[s].queue, cmd)
            /\ \A t \in PeerIds : t # s => sw'[t] = sw[t]
        BY <2>1, <2>2, SwarmParts, EnqueueTypes
      <4>2. \A j \in 1..Len(sw'[s].queue) :
              sw'[s].queue[j] = cmd \/ (j \in 1..Len(sw[s].queue) /\ sw'[s].queue[j] = sw[s].queue[j])
        BY <4>1
      <4>3. \A j \in 1..Len(sw'[s].queue) :
              \/ sw'[s].queue[j].kind = "stop" \/ sw'[s].queue[j].c \in Callers
        BY <2>1, <4>2 DEF Controlled
      <4>4. \A t \in PeerIds \ {s} : \A j \in 1..Len(sw'[t].queue) :
              \/ sw'[t].queue[j].kind = "stop" \/ sw'[t].queue[j].c \in Callers
        BY <4>1 DEF Controlled
      <4> QED
        BY <4>3, <4>4
    <3>7. Controlled'
      BY <3>3, <3>5, <3>6, ControlledKept
    <3> QED
      BY <3>4, <3>7
  <2>3. CASE call' = [call EXCEPT ![c] = AfterAnswer(@, FALSE)] /\ UNCHANGED sw
    <3>1. call'[c] = AfterAnswer(call[c], FALSE) /\ \A d \in Callers \ {c} : Stays(d)
      BY <2>3 DEF TypeOK, Stays
    <3>2. call'[c].pc \in {"ask", "emit"} /\ call'[c].gen = call[c].gen
      BY <1>1, <3>1, AnsweredCall
    <3>3. Moves
      BY <2>1, <3>1, <3>2 DEF Moves
    <3> QED
      BY <1>2, <1>4, <2>1, <2>3, <3>1, <3>2, <3>3 DEF SendCommand
  <2> QED
    BY <1>4, <2>2, <2>3 DEF SendCommand
<1>5. ASSUME UNCHANGED <<sw, ctx, p2p>>, call[c].pc \notin {"ask", "wait"},
             call'[c].pc \notin {"ask", "wait"}, \A d \in Callers \ {c} : Stays(d)
      PROVE  Controlled' /\ Places'
  <2>1. Moves
    BY <1>5 DEF Moves
  <2> QED
    BY <1>2, <1>5, <2>1
<1>6. CASE SyncCompleted(c)
  <2>1. call'[c] = IdleCall(c) /\ \A d \in Callers \ {c} : Stays(d)
    BY <1>6 DEF SyncCompleted, TypeOK, Stays
  <2> QED
    BY <1>5, <1>6, <2>1, IdleCalls DEF SyncCompleted
<1>7. CASE SyncByWireBase(c)
  <2>1. PICK m \in Nodes \ {c[1]} :
          call' = [call EXCEPT ![c] = [IdleCall(c) EXCEPT !.pc = "httpExport", !.peer = m]]
    BY <1>7 DEF SyncByWireBase
  <2>2. call'[c] = [IdleCall(c) EXCEPT !.pc = "httpExport", !.peer = m]
        /\ \A d \in Callers \ {c} : Stays(d)
    BY <2>1 DEF TypeOK, Stays
  <2>3. call'[c].pc = "httpExport"
    BY <2>2 DEF IdleCall
  <2> QED
    BY <1>5, <1>7, <2>2, <2>3 DEF SyncByWireBase
<1>8. call \in [Callers -> SyncCalls]
  BY DEF TypeOK
<1>9. CASE Ask(c)
  <2>1. \/ \E pc \in CallPhases \ {"ask", "wait"} : \E data : call' = [call EXCEPT ![c].pc = pc, ![c].data = data]
        \/ call' = [call EXCEPT ![c].pc = "httpPush", ![c].via = "http_catalog"]
    BY <1>9 DEF Ask, Goes, CallPhases
  <2>2. \A d \in Callers \ {c} : call'[d] = call[d]
    BY <1>8, <2>1
  <2>3. call'[c].pc \notin {"ask", "wait"}
    <3>1. CASE call' = [call EXCEPT ![c].pc = "httpPush", ![c].via = "http_catalog"]
      BY <1>1, <1>8, <3>1 DEF SyncCalls
    <3>2. ASSUME NEW pc \in CallPhases \ {"ask", "wait"}, NEW data,
                 call' = [call EXCEPT ![c].pc = pc, ![c].data = data]
          PROVE  call'[c].pc = pc
      BY <1>1, <1>8, <3>2 DEF SyncCalls
    <3> QED
      BY <2>1, <3>1, <3>2
  <2> QED
    BY <1>5, <1>9, <2>2, <2>3 DEF Ask, Stays
<1>10. CASE Import(c)
  <2> DEFINE new == Disturbed(c[1], c)
  <2>1. \E pc \in CallPhases \ {"ask", "wait"} : \E via, data :
          call' = [new EXCEPT ![c].pc = pc, ![c].via = via, ![c].data = data]
    BY <1>10 DEF Import, CallPhases
  <2>2. /\ new \in [Callers -> SyncCalls]
        /\ \A d \in Callers : new[d].pc = call[d].pc /\ new[d].gen = call[d].gen
    BY DisturbedCalls
  <2> HIDE DEF new
  <2>3. \A d \in Callers \ {c} : call'[d] = new[d]
    BY <2>1, <2>2
  <2>4. call'[c].pc \notin {"ask", "wait"}
    BY <2>1, <2>2 DEF SyncCalls
  <2> QED
    BY <1>5, <1>10, <2>2, <2>3, <2>4 DEF Import, Stays
<1>11. CASE PushBatch(c)
  <2> DEFINE new == Disturbed(call[c].peer, c)
  <2>1. \/ \E pc \in CallPhases \ {"ask", "wait"} : \E data : call' = [call EXCEPT ![c].pc = pc, ![c].data = data]
        \/ call' = [new EXCEPT ![c].pc = "emit", ![c].sent = TRUE, ![c].data = NoData]
        \/ call' = [new EXCEPT ![c].pc = "emit", ![c].data = NoData]
    BY <1>11 DEF PushBatch, Goes, CallPhases
  <2>2. /\ new \in [Callers -> SyncCalls]
        /\ \A d \in Callers : new[d].pc = call[d].pc /\ new[d].gen = call[d].gen
    BY DisturbedCalls
  <2> HIDE DEF new
  <2>3. \A d \in Callers \ {c} : Stays(d)
    BY <1>8, <2>1, <2>2 DEF Stays
  <2>4. call'[c].pc \notin {"ask", "wait"}
    <3>1. ASSUME NEW pc \in CallPhases \ {"ask", "wait"}, NEW data,
                 call' = [call EXCEPT ![c].pc = pc, ![c].data = data]
          PROVE  call'[c].pc = pc
      BY <1>1, <1>8, <3>1 DEF SyncCalls
    <3>2. CASE \/ call' = [new EXCEPT ![c].pc = "emit", ![c].sent = TRUE, ![c].data = NoData]
               \/ call' = [new EXCEPT ![c].pc = "emit", ![c].data = NoData]
      BY <2>2, <3>2 DEF SyncCalls
    <3> QED
      BY <2>1, <3>1, <3>2
  <2> QED
    BY <1>5, <1>11, <2>3, <2>4 DEF PushBatch
<1> QED
  BY <1>3, <1>4, <1>6, <1>7, <1>9, <1>10, <1>11 DEF Sync

LEMMA SwarmPlaces ==
  ASSUME TypeOK, Controlled, Places, NEW s \in PeerIds,
         Swarm(s) \/ \E t \in PeerIds : Identify(s, t) \/ Expire(s, t)
  PROVE  Controlled' /\ Places'
<1> USE DEF counts, stores
<1>1. CASE RunCommand(s)
  <2> DEFINE cmd == Head(sw[s].queue)
             to == sw[s].peers[cmd.peer]
             mine == AllSnapshots(wire[s[1]])
  <2>1. sw[s].queue # <<>> /\ sw' = Dequeued(s) /\ UNCHANGED p2p /\ cmd.kind # "stop"
    BY <1>1 DEF RunCommand
  <2>2. /\ sw[s].queue \in Seq(Commands) /\ sw'[s].queue = Tail(sw[s].queue)
        /\ \A t \in PeerIds : t # s => sw'[t] = sw[t]
    BY <2>1, SwarmParts, DequeueTypes
  <2>3. PICK c : c = cmd.c
    OBVIOUS
  <2>4. c \in Callers
    <3>1. 1 \in 1..Len(sw[s].queue) /\ sw[s].queue[1] = cmd
      BY <2>1, <2>2
    <3> QED
      BY <2>1, <2>3, <3>1 DEF Controlled
  <2>5. call[c] \in SyncCalls
    BY <2>4 DEF TypeOK
  <2> HIDE DEF cmd, to, mine
  <2>6. \/ \E ok \in BOOLEAN : call' = [call EXCEPT ![c] = AfterAnswer(@, ok)] /\ UNCHANGED ctx
        \/ \E op, data : \E step \in Steps, rest \in SUBSET Snapshots :
             Send(s, c, to, op, data, step, rest) /\ to \in PeerIds /\ UNCHANGED call
    <3>1. \/ call' = [call EXCEPT ![c] = AfterAnswer(@, to # NoPeer)] /\ UNCHANGED ctx
          \/ to # NoPeer /\ Send(s, c, to, "get_batch", NoData, "batch", {}) /\ UNCHANGED call
          \/ to # NoPeer /\ Send(s, c, to, "get_catalog", NoData, "catalog", {}) /\ UNCHANGED call
          \/ /\ to # NoPeer /\ UNCHANGED call
             /\ \E first \in mine : Send(s, c, to, "push", Push(first), "push", mine \ {first})
      BY <1>1, <2>3 DEF RunCommand, cmd, to, mine
    <3>2. (to # NoPeer) \in BOOLEAN /\ to \in PeerIds \cup {NoPeer}
      <4>1. cmd.peer \in Nodes
        BY <2>1, DequeueTypes DEF cmd, Commands
      <4> QED
        BY <4>1, SwarmParts DEF to
    <3>3. mine \in SUBSET Snapshots
      BY PeerIdParts, OwnData, StoreTypes DEF mine
    <3>4. ASSUME NEW op, NEW data, NEW step \in Steps, NEW rest \in SUBSET Snapshots, to # NoPeer,
                 Send(s, c, to, op, data, step, rest), UNCHANGED call
          PROVE  \E op1, data1 : \E step1 \in Steps, rest1 \in SUBSET Snapshots :
                   Send(s, c, to, op1, data1, step1, rest1) /\ to \in PeerIds /\ UNCHANGED call
      BY <3>2, <3>4
    <3>5. "batch" \in Steps /\ "catalog" \in Steps /\ "push" \in Steps /\ {} \in SUBSET Snapshots
      BY DEF Steps
    <3>6. ASSUME NEW first \in mine PROVE mine \ {first} \in SUBSET Snapshots
      BY <3>3
    <3> QED
      BY <3>1, <3>2, <3>4, <3>5, <3>6
  <2>7. \A d \in Callers \ {c} : ctx'[d] = ctx[d] /\ Stays(d)
    BY <2>6 DEF Send, Stays, TypeOK
  <2>8. \/ ctx'[c] = ctx[c] /\ call'[c].pc \in {"ask", "emit"} /\ call'[c].gen = call[c].gen
        \/ ctx'[c] # NoCtx /\ ctx'[c].swarm = s /\ Stays(c)
    <3>1. ASSUME NEW ok \in BOOLEAN, call' = [call EXCEPT ![c] = AfterAnswer(@, ok)], UNCHANGED ctx
          PROVE  ctx'[c] = ctx[c] /\ call'[c].pc \in {"ask", "emit"} /\ call'[c].gen = call[c].gen
      BY <2>4, <2>5, <3>1, AnsweredCall DEF TypeOK
    <3>2. ASSUME NEW op, NEW data, NEW step \in Steps, NEW rest \in SUBSET Snapshots,
                 Send(s, c, to, op, data, step, rest), to \in PeerIds, UNCHANGED call
          PROVE  ctx'[c] # NoCtx /\ ctx'[c].swarm = s /\ Stays(c)
      BY <2>4, <3>2, SentExchange DEF Stays
    <3> QED
      BY <2>6, <3>1, <3>2
  <2>9. call[c].pc = "wait"
    <3>1. s \in Queued(c)
      BY <2>1, <2>3, <2>4, OutOfQueue DEF Places, cmd
    <3> QED
      BY <2>4, <3>1 DEF Places, Served
  <2>10. Places'
    BY <2>1, <2>3, <2>4, <2>7, <2>8, CommandTaken DEF cmd
  <2>11. Moves
    BY <2>7, <2>8, <2>9 DEF Moves
  <2>12. \A t \in PeerIds : \A j \in 1..Len(sw'[t].queue) :
           \/ sw'[t].queue[j].kind = "stop" \/ sw'[t].queue[j].c \in Callers
    <3>1. \A j \in 1..Len(sw'[s].queue) :
            j + 1 \in 1..Len(sw[s].queue) /\ sw'[s].queue[j] = sw[s].queue[j + 1]
      BY <2>1, <2>2
    <3>2. \A j \in 1..Len(sw'[s].queue) :
            \/ sw'[s].queue[j].kind = "stop" \/ sw'[s].queue[j].c \in Callers
      BY <3>1 DEF Controlled
    <3>3. \A t \in PeerIds \ {s} : \A j \in 1..Len(sw'[t].queue) :
            \/ sw'[t].queue[j].kind = "stop" \/ sw'[t].queue[j].c \in Callers
      BY <2>2 DEF Controlled
    <3> QED
      BY <3>2, <3>3
  <2>13. Controlled'
    BY <2>1, <2>11, <2>12, ControlledKept
  <2> QED
    BY <2>10, <2>13
<1>2. CASE SwarmEnd(s)
  <2>1. /\ sw'[s].st = "gone" /\ sw'[s].queue = <<>>
        /\ \A t \in PeerIds : t # s => sw'[t] = sw[t]
    BY <1>2 DEF SwarmEnd, NoSwarm, TypeOK
  <2>2. Queues'
    <3> SUFFICES ASSUME NEW t \in PeerIds
                 PROVE  /\ ~Up(t)' => sw'[t].queue = <<>>
                        /\ \A i, j \in 1..Len(sw'[t].queue) :
                             sw'[t].queue[i].c = sw'[t].queue[j].c /\ sw'[t].queue[i].c \in Callers => i = j
      BY DEF Queues
    <3>1. CASE t = s
      BY <2>1, <3>1
    <3>2. CASE t # s
      BY <2>1, <3>2 DEF Places, Queues, Up
    <3> QED
      BY <3>1, <3>2
  <2>3. ASSUME NEW d \in Callers PROVE Queued(d)' = Queued(d) \ {s}
    <3>1. s \notin Queued(d)'
      BY <2>1 DEF Queued
    <3>2. \A t \in PeerIds : t # s => (t \in Queued(d)' <=> t \in Queued(d))
      BY <2>1 DEF Queued
    <3>3. Queued(d) \subseteq PeerIds /\ Queued(d)' \subseteq PeerIds
      BY DEF Queued
    <3>4. \A t \in PeerIds : t \in Queued(d)' <=> t \in Queued(d) \ {s}
      BY <3>1, <3>2
    <3> QED
      BY <3>3, <3>4
  <2>4. \A d \in Callers :
          IF d \in Waiting(s)
          THEN ctx'[d] = NoCtx /\ call'[d].pc \in {"ask", "emit"} /\ call'[d].gen = call[d].gen
          ELSE ctx'[d] = ctx[d] /\ Stays(d)
    <3> SUFFICES ASSUME NEW d \in Callers
                 PROVE  IF d \in Waiting(s)
                        THEN ctx'[d] = NoCtx /\ call'[d].pc \in {"ask", "emit"} /\ call'[d].gen = call[d].gen
                        ELSE ctx'[d] = ctx[d] /\ Stays(d)
      OBVIOUS
    <3>1. call[d] \in SyncCalls
      BY DEF TypeOK
    <3>2. AfterAnswer(call[d], FALSE).pc \in {"ask", "emit"} /\ AfterAnswer(call[d], FALSE).gen = call[d].gen
      BY <3>1, AnsweredCall
    <3>3. /\ call'[d] = IF d \in Waiting(s) THEN AfterAnswer(call[d], FALSE) ELSE call[d]
          /\ ctx'[d] = IF d \in Waiting(s) THEN NoCtx ELSE ctx[d]
      BY <1>2 DEF SwarmEnd
    <3> QED
      BY <3>2, <3>3 DEF Stays
  <2>5. \A d \in Callers : d \in Waiting(s) <=> call[d].pc = "wait" /\ s = <<d[1], call[d].gen>>
    BY PeerIdParts DEF Waiting
  <2>6. ASSUME NEW d \in Callers PROVE Served(d)'
    <3>1. Served(d)
      BY DEF Places
    <3>2. CASE d \in Waiting(s)
      BY <2>3, <2>4, <2>5, <3>1, <3>2 DEF Served, Live
    <3>3. CASE d \notin Waiting(s) /\ call[d].pc = "wait"
      <4>1. <<d[1], call[d].gen>> # s /\ Stays(d) /\ ctx'[d] = ctx[d]
        BY <2>4, <2>5, <3>3
      <4>2. Queued(d)' = Queued(d)
        BY <2>3, <3>1, <3>3, <4>1 DEF Served
      <4> QED
        BY <2>1, <3>1, <3>3, <4>1, <4>2 DEF Served, Live, Stays, Up
    <3>4. CASE call[d].pc # "wait"
      BY <2>3, <2>4, <2>5, <3>1, <3>4 DEF Served, Live, Stays
    <3> QED
      BY <3>2, <3>3, <3>4
  <2>7. Moves
    BY <2>4, <2>5 DEF Moves
  <2>8. \A t \in PeerIds : \A j \in 1..Len(sw'[t].queue) :
          \/ sw'[t].queue[j].kind = "stop" \/ sw'[t].queue[j].c \in Callers
    BY <2>1 DEF Controlled
  <2>9. Controlled'
    BY <1>2, <2>7, <2>8, ControlledKept DEF SwarmEnd
  <2> QED
    BY <2>2, <2>6, <2>9 DEF Places
<1>3. CASE StopSend(s)
  <2> DEFINE cmd == [kind |-> "stop", c |-> NoCaller, peer |-> s[1]]
  <2>1. cmd \in Commands /\ cmd.c \notin Callers /\ cmd.kind = "stop"
    BY PeerIdParts, MeshAssumption DEF Commands
  <2>2. \A d \in Callers : Stays(d)
    BY <1>3 DEF StopSend, Stays
  <2> HIDE DEF cmd
  <2>3. CASE UNCHANGED sw
    <3>1. Places'
      BY <1>3, <2>2, <2>3, Aside DEF StopSend, Up
    <3>2. Controlled'
      BY <1>3, <2>2, <2>3, ControlledKept DEF StopSend, Moves, Controlled
    <3> QED
      BY <3>1, <3>2
  <2>4. CASE Room(s) /\ Enqueue(s, cmd)
    <3>1. Places'
      BY <1>3, <2>1, <2>2, <2>4, CommandSent DEF StopSend, Room, Up
    <3>2. /\ sw[s].queue \in Seq(Commands) /\ sw'[s].queue = Append(sw[s].queue, cmd)
          /\ \A t \in PeerIds : t # s => sw'[t] = sw[t]
      BY <2>1, <2>4, SwarmParts, EnqueueTypes
    <3>3. \A j \in 1..Len(sw'[s].queue) :
            sw'[s].queue[j] = cmd \/ (j \in 1..Len(sw[s].queue) /\ sw'[s].queue[j] = sw[s].queue[j])
      BY <3>2
    <3>4. \A j \in 1..Len(sw'[s].queue) :
            \/ sw'[s].queue[j].kind = "stop" \/ sw'[s].queue[j].c \in Callers
      BY <2>1, <3>3 DEF Controlled
    <3>5. \A t \in PeerIds \ {s} : \A j \in 1..Len(sw'[t].queue) :
            \/ sw'[t].queue[j].kind = "stop" \/ sw'[t].queue[j].c \in Callers
      BY <3>2 DEF Controlled
    <3>6. Controlled'
      BY <1>3, <2>2, <3>4, <3>5, ControlledKept DEF StopSend, Moves
    <3> QED
      BY <3>1, <3>6
  <2> QED
    BY <1>3, <2>3, <2>4 DEF StopSend, cmd
<1>4. ASSUME NEW t \in PeerIds, Identify(s, t) \/ Expire(s, t) PROVE Controlled' /\ Places'
  <2>1. \A d \in Callers : Stays(d)
    BY <1>4 DEF Identify, Expire, Stays
  <2>2. sw[s] \in Swarms
    BY SwarmParts
  <2>3. sw'[s].queue = sw[s].queue /\ sw'[s].st = sw[s].st /\ \A u \in PeerIds : u # s => sw'[u] = sw[u]
    BY <1>4, <2>2 DEF Identify, Expire, TypeOK, Swarms
  <2>4. \A u \in PeerIds : sw'[u].queue = sw[u].queue /\ (Up(u) => Up(u)')
    BY <2>3 DEF Up
  <2>5. Places'
    BY <1>4, <2>1, <2>4, Aside DEF Identify, Expire
  <2>6. Controlled'
    BY <1>4, <2>1, <2>4, ControlledKept DEF Identify, Expire, Moves, Controlled
  <2> QED
    BY <2>5, <2>6
<1> QED
  BY <1>1, <1>2, <1>3, <1>4 DEF Swarm

\* An exchange that ends or goes on leaves the queues and the other calls alone.
LEMMA ExchangePlaces ==
  ASSUME TypeOK, Controlled, Places, NEW c \in Callers, Live(c), UNCHANGED <<sw, p2p>>,
         \A d \in Callers \ {c} : ctx'[d] = ctx[d] /\ Stays(d),
         \/ ctx'[c] = NoCtx /\ call'[c].pc \in {"ask", "emit"} /\ call'[c].gen = call[c].gen
         \/ ctx'[c] # NoCtx /\ ctx'[c].swarm = ctx[c].swarm /\ Stays(c)
  PROVE  Controlled' /\ Places'
<1>1. call[c].pc = "wait"
  BY DEF Places, Served
<1>2. Places'
  BY ExchangeMoves
<1>3. Moves
  BY <1>1 DEF Moves
<1>4. Controlled'
  BY <1>3, ControlledKept DEF Controlled
<1> QED
  BY <1>2, <1>4

LEMMA MessagePlaces ==
  ASSUME TypeOK, Controlled, Places,
         \/ \E r \in reqs : Serve(r)
         \/ \E r \in resps : Respond(r)
         \/ \E c \in Callers : OutboundFailure(c)
  PROVE  Controlled' /\ Places'
<1> USE DEF counts, stores
<1>1. ASSUME NEW r \in reqs, Serve(r) PROVE Controlled' /\ Places'
  <2>1. \A d \in Callers : Stays(d)
    BY <1>1, DisturbedCalls DEF Serve, Stays
  <2>2. Places'
    BY <1>1, <2>1, Aside DEF Serve, Up
  <2>3. Controlled'
    BY <1>1, <2>1, ControlledKept DEF Serve, Moves, Controlled
  <2> QED
    BY <2>2, <2>3
<1>2. ASSUME NEW r \in resps, Respond(r) PROVE Controlled' /\ Places'
  <2>1. PICK c : c = r.c
    OBVIOUS
  <2>2. c \in Callers /\ Live(c) /\ UNCHANGED <<sw, p2p>>
    BY <1>2, <2>1 DEF TypeOK, Responses, Respond, Awaited
  <2>3. /\ ctx[c].swarm \in PeerIds /\ ctx[c].to \in PeerIds /\ ctx[c].rest \in SUBSET Snapshots
    BY <2>2, ContextParts
  <2>4. call[c] \in SyncCalls /\ call \in [Callers -> SyncCalls]
    BY <2>2 DEF TypeOK
  <2>5. ASSUME NEW new \in [Callers -> SyncCalls],
               \A d \in Callers : new[d].pc = call[d].pc /\ new[d].gen = call[d].gen,
               ctx' = [ctx EXCEPT ![c] = NoCtx], call' = [new EXCEPT ![c] = AfterAnswer(@, TRUE)]
        PROVE  Controlled' /\ Places'
    <3>1. AfterAnswer(new[c], TRUE).pc \in {"ask", "emit"} /\ AfterAnswer(new[c], TRUE).gen = call[c].gen
      BY <2>2, <2>5, AnsweredCall
    <3>2. /\ ctx'[c] = NoCtx /\ call'[c].pc \in {"ask", "emit"} /\ call'[c].gen = call[c].gen
          /\ \A d \in Callers \ {c} : ctx'[d] = ctx[d] /\ Stays(d)
      BY <2>2, <2>5, <3>1 DEF TypeOK, Stays
    <3> QED
      BY <2>2, <3>2, ExchangePlaces
  <2>6. ASSUME NEW op, NEW data, NEW step \in Steps, NEW rest \in SUBSET Snapshots,
               Send(ctx[c].swarm, c, ctx[c].to, op, data, step, rest), \A d \in Callers : Stays(d)
        PROVE  Controlled' /\ Places'
    <3>1. /\ ctx'[c] # NoCtx /\ ctx'[c].swarm = ctx[c].swarm
          /\ \A d \in Callers \ {c} : ctx'[d] = ctx[d]
      BY <2>2, <2>3, <2>6, SentExchange
    <3> QED
      BY <2>2, <2>6, <3>1, ExchangePlaces
  <2>7. CASE Answered(c, TRUE)
    <3>1. /\ ctx' = [ctx EXCEPT ![c] = NoCtx] /\ call' = [call EXCEPT ![c] = AfterAnswer(@, TRUE)]
      BY <2>7 DEF Answered
    <3> QED
      BY <2>4, <2>5, <3>1
  <2>8. CASE /\ ctx' = [ctx EXCEPT ![c] = NoCtx]
             /\ call' = [Disturbed(ctx[c].swarm[1], c) EXCEPT ![c] = AfterAnswer(@, TRUE)]
    <3> DEFINE new == Disturbed(ctx[c].swarm[1], c)
    <3>1. /\ new \in [Callers -> SyncCalls]
          /\ \A d \in Callers : new[d].pc = call[d].pc /\ new[d].gen = call[d].gen
      BY DisturbedCalls
    <3>2. ctx' = [ctx EXCEPT ![c] = NoCtx] /\ call' = [new EXCEPT ![c] = AfterAnswer(@, TRUE)]
      BY <2>8
    <3> HIDE DEF new
    <3> QED
      BY <2>5, <3>1, <3>2
  <2>9. ASSUME UNCHANGED call \/ call' = Disturbed(ctx[c].swarm[1], c)
        PROVE  \A d \in Callers : Stays(d)
    BY <2>9, DisturbedCalls DEF Stays
  <2>10. ASSUME NEW op, NEW data, NEW step \in Steps, NEW rest \in SUBSET Snapshots,
                Send(ctx[c].swarm, c, ctx[c].to, op, data, step, rest),
                UNCHANGED call \/ call' = Disturbed(ctx[c].swarm[1], c)
         PROVE  Controlled' /\ Places'
    BY <2>6, <2>9, <2>10
  <2>11. "notes" \in Steps /\ "push" \in Steps /\ "ack" \in Steps /\ {} \in SUBSET Snapshots
    BY DEF Steps
  <2>12. CASE OnPullResponse(r)
    <3>1. \/ Answered(c, TRUE)
          \/ Send(ctx[c].swarm, c, ctx[c].to, "pull", [NoData EXCEPT !.ids = r.data.ids], "notes", {})
             /\ UNCHANGED call
          \/ /\ ctx' = [ctx EXCEPT ![c] = NoCtx]
             /\ call' = [Disturbed(ctx[c].swarm[1], c) EXCEPT ![c] = AfterAnswer(@, TRUE)]
      BY <2>1, <2>12 DEF OnPullResponse
    <3> QED
      BY <2>7, <2>8, <2>10, <2>11, <3>1
  <2>13. CASE OnPushResponse(r)
    <3>1. CASE \E snap \in ctx[c].rest :
                 Send(ctx[c].swarm, c, ctx[c].to, "push", Push(snap), "push", ctx[c].rest \ {snap})
                 /\ UNCHANGED call
      <4>1. PICK snap \in ctx[c].rest :
                   Send(ctx[c].swarm, c, ctx[c].to, "push", Push(snap), "push", ctx[c].rest \ {snap})
                   /\ UNCHANGED call
        BY <3>1
      <4>2. PICK rest : rest = ctx[c].rest \ {snap}
        OBVIOUS
      <4>3. rest \in SUBSET Snapshots
        BY <2>3, <4>2
      <4>4. Send(ctx[c].swarm, c, ctx[c].to, "push", Push(snap), "push", rest)
        BY <4>1, <4>2
      <4> QED
        BY <2>10, <2>11, <4>1, <4>3, <4>4
    <3> QED
      BY <2>1, <2>7, <2>13, <3>1 DEF OnPushResponse
  <2>14. CASE OnBatchResponse(r)
    <3>1. \/ Answered(c, TRUE)
          \/ /\ Send(ctx[c].swarm, c, ctx[c].to, "push_batch", OwnBatch(ctx[c].swarm[1], r.data), "ack", {})
             /\ call' = Disturbed(ctx[c].swarm[1], c)
      BY <2>1, <2>14 DEF OnBatchResponse
    <3> QED
      BY <2>7, <2>10, <2>11, <3>1
  <2> QED
    BY <1>2, <2>12, <2>13, <2>14 DEF Respond
<1>3. ASSUME NEW c \in Callers, OutboundFailure(c) PROVE Controlled' /\ Places'
  <2>1. call[c] \in SyncCalls
    BY DEF TypeOK
  <2>2. /\ ctx'[c] = NoCtx /\ call'[c] = AfterAnswer(call[c], FALSE)
        /\ \A d \in Callers \ {c} : ctx'[d] = ctx[d] /\ Stays(d)
    BY <1>3 DEF OutboundFailure, TypeOK, Stays
  <2>3. call'[c].pc \in {"ask", "emit"} /\ call'[c].gen = call[c].gen
    BY <2>1, <2>2, AnsweredCall
  <2> QED
    BY <1>3, <2>2, <2>3, ExchangePlaces DEF OutboundFailure
<1> QED
  BY <1>1, <1>2, <1>3
-----------------------------------------------------------------------------
(* Requests and responses. *)

\* What Serve answers to a request.
ReplyTo(op) == CASE op = "get_catalog" -> "catalog" [] op = "pull" -> "notes"
                 [] op = "push" -> "push_ack" [] op = "get_batch" -> "batch"
                 [] op = "push_batch" -> "batch_ack"

\* A request has a number of its own.  Of a caller's messages only one has the last number,
\* the request or its response, and it fits the exchange if the exchange still is.
Matched ==
  /\ \A r \in reqs : r.k <= ids[r.c] /\ (Awaited(r) => ReplyTo(r.op) = Fitting(ctx[r.c].step))
  /\ \A r, q \in reqs : r.c = q.c /\ r.k = q.k => r = q
  /\ \A r, q \in resps : r.c = q.c => r = q
  /\ \A r \in reqs, q \in resps : r.c = q.c => r.k # q.k
  /\ ResponsesFit

LEMMA SameMessages == Matched /\ UNCHANGED <<ctx, reqs, resps, ids>> => Matched'
  BY DEF Matched, ResponsesFit, Awaited, Live

\* What each exchange asks, and the answer its next step awaits.
LEMMA SentOps ==
  /\ {"get_batch", "get_catalog", "pull", "push", "push_batch"} \subseteq Ops
  /\ {"batch", "catalog", "notes", "push", "ack"} \subseteq Steps
  /\ ReplyTo("get_batch") = Fitting("batch") /\ ReplyTo("get_catalog") = Fitting("catalog")
  /\ ReplyTo("pull") = Fitting("notes") /\ ReplyTo("push") = Fitting("push")
  /\ ReplyTo("push_batch") = Fitting("ack")
BY DEF Ops, Steps, ReplyTo, Fitting

\* A request that takes the next number finds nothing of its caller unanswered.
LEMMA SendMatches ==
  ASSUME TypeOK, Matched, NEW s \in PeerIds, NEW c \in Callers, NEW to \in PeerIds, NEW op \in Ops,
         NEW data, NEW step \in Steps, NEW rest \in SUBSET Snapshots,
         Send(s, c, to, op, data, step, rest), ReplyTo(op) = Fitting(step),
         resps' \subseteq resps, \A q \in resps' : q.c # c
  PROVE  Matched'
<1>1. ctx'[c] # NoCtx /\ ctx'[c].step = step /\ \A d \in Callers \ {c} : ctx'[d] = ctx[d]
  BY SentExchange
<1>2. /\ ids[c] \in Nat /\ ids'[c] = ids[c] + 1 /\ \A d \in Callers \ {c} : ids'[d] = ids[d]
  BY DEF Send, TypeOK
<1>3. PICK new : new = [c |-> c, k |-> ids[c] + 1, to |-> to, op |-> op, data |-> data]
  OBVIOUS
<1>4. reqs' = reqs \cup {new} /\ new.c = c /\ new.k = ids[c] + 1 /\ new.op = op
  BY <1>3 DEF Send
<1>5. \A r \in reqs : r.c \in Callers /\ r.k \in Nat /\ r.k <= ids[r.c] /\ (r.c = c => r.k < ids[c] + 1)
  BY <1>2 DEF TypeOK, Requests, Matched
<1>6. \A q \in resps' : q \in resps /\ q.c \in Callers \ {c}
  BY DEF TypeOK, Responses
<1>7. ASSUME NEW r \in reqs' PROVE r.k <= ids'[r.c] /\ (Awaited(r)' => ReplyTo(r.op) = Fitting(ctx'[r.c].step))
  <2>1. CASE r = new
    BY <1>1, <1>2, <1>4, <2>1
  <2>2. CASE r \in reqs /\ r.c = c
    BY <1>2, <1>5, <2>2 DEF Awaited
  <2>3. CASE r \in reqs /\ r.c # c
    BY <1>1, <1>2, <1>5, <2>3 DEF Awaited, Live, Matched
  <2> QED
    BY <1>4, <2>1, <2>2, <2>3
<1>8. ASSUME NEW r \in reqs', NEW q \in reqs', r.c = q.c, r.k = q.k PROVE r = q
  BY <1>4, <1>5, <1>8, <1>2 DEF Matched
<1>9. ASSUME NEW r \in reqs', NEW q \in resps', r.c = q.c PROVE r.k # q.k
  BY <1>4, <1>6, <1>9 DEF Matched
<1>10. ASSUME NEW r \in resps' PROVE Awaited(r)' /\ r.op = Fitting(ctx'[r.c].step)
  BY <1>1, <1>2, <1>6 DEF Awaited, Live, Matched, ResponsesFit
<1>11. \A r, q \in resps' : r.c = q.c => r = q
  BY <1>6 DEF Matched
<1> QED
  BY <1>7, <1>8, <1>9, <1>10, <1>11 DEF Matched, ResponsesFit

\* Exchanges that end take their responses with them.
LEMMA EndMatches ==
  ASSUME TypeOK, Matched, NEW C \in SUBSET Callers, UNCHANGED ids,
         \A d \in Callers : ctx'[d] = IF d \in C THEN NoCtx ELSE ctx[d],
         reqs' \subseteq reqs, resps' \subseteq resps, \A q \in resps' : q.c \notin C
  PROVE  Matched'
<1>1. \A r \in reqs' : r \in reqs /\ r.c \in Callers
  BY DEF TypeOK, Requests
<1>2. \A r \in resps' : r \in resps /\ r.c \in Callers \ C
  BY DEF TypeOK, Responses
<1>3. \A r \in reqs' : r.k <= ids'[r.c] /\ (Awaited(r)' => ReplyTo(r.op) = Fitting(ctx'[r.c].step))
  BY <1>1 DEF Matched, Awaited, Live
<1>4. ResponsesFit'
  BY <1>2 DEF Matched, ResponsesFit, Awaited, Live
<1> QED
  BY <1>1, <1>2, <1>3, <1>4 DEF Matched

\* A command that a swarm takes has no response under way.
LEMMA CommandMatches ==
  ASSUME TypeOK, Controlled, Places, Matched, NEW s \in PeerIds, RunCommand(s)
  PROVE  Matched'
<1> DEFINE cmd == Head(sw[s].queue)
           to == sw[s].peers[cmd.peer]
           mine == AllSnapshots(wire[s[1]])
<1>1. sw[s].queue # <<>> /\ sw' = Dequeued(s) /\ UNCHANGED resps /\ cmd.kind # "stop"
  BY DEF RunCommand
<1>2. sw[s].queue \in Seq(Commands) /\ cmd \in Commands
  BY <1>1, SwarmParts, DequeueTypes
<1>3. PICK c : c = cmd.c
  OBVIOUS
<1>4. c \in Callers
  <2>1. 1 \in 1..Len(sw[s].queue) /\ sw[s].queue[1] = cmd
    BY <1>1, <1>2
  <2> QED
    BY <1>1, <1>3, <2>1 DEF Controlled
<1>5. to \in PeerIds \cup {NoPeer}
  <2>1. cmd.peer \in Nodes
    BY <1>2 DEF Commands
  <2> QED
    BY <2>1, SwarmParts
<1>6. mine \in SUBSET Snapshots
  BY PeerIdParts, OwnData, StoreTypes
<1>7. ~Live(c)
  <2>1. s \in Queued(c)
    BY <1>1, <1>3, <1>4, OutOfQueue DEF Places
  <2> QED
    BY <1>4, <2>1 DEF Places, Served
<1>8. \A q \in resps' : q.c # c
  BY <1>1, <1>7 DEF Matched, ResponsesFit, Awaited
<1>9. \/ UNCHANGED <<ctx, reqs, ids>>
      \/ to # NoPeer /\ Send(s, c, to, "get_batch", NoData, "batch", {})
      \/ to # NoPeer /\ Send(s, c, to, "get_catalog", NoData, "catalog", {})
      \/ to # NoPeer /\ \E first \in mine : Send(s, c, to, "push", Push(first), "push", mine \ {first})
  BY <1>3 DEF RunCommand
<1> HIDE DEF cmd, to, mine
<1>10. ASSUME NEW op \in Ops, NEW data, NEW step \in Steps, NEW rest \in SUBSET Snapshots,
              ReplyTo(op) = Fitting(step), to # NoPeer, Send(s, c, to, op, data, step, rest)
       PROVE  Matched'
  <2>1. to \in PeerIds /\ resps' \subseteq resps
    BY <1>1, <1>5, <1>10
  <2> QED
    BY <1>4, <1>8, <1>10, <2>1, SendMatches
<1>11. {} \in SUBSET Snapshots /\ \A first \in mine : mine \ {first} \in SUBSET Snapshots
  BY <1>6
<1> QED
  BY <1>1, <1>9, <1>10, <1>11, SameMessages, SentOps

\* A response that is delivered, and the request that may follow it.
LEMMA RespondMatches ==
  ASSUME TypeOK, Matched, NEW r \in resps, Respond(r)
  PROVE  Matched'
<1>1. PICK c : c = r.c
  OBVIOUS
<1>2. c \in Callers /\ Live(c) /\ resps' = resps \ {r}
  BY <1>1 DEF TypeOK, Responses, Respond, Awaited
<1>3. ctx[c].swarm \in PeerIds /\ ctx[c].to \in PeerIds /\ ctx[c].rest \in SUBSET Snapshots
  BY <1>2, ContextParts
<1>4. resps' \subseteq resps /\ \A q \in resps' : q.c # c
  BY <1>1, <1>2 DEF Matched
<1>5. ASSUME ctx' = [ctx EXCEPT ![c] = NoCtx], UNCHANGED <<reqs, ids>> PROVE Matched'
  <2>1. \A d \in Callers : ctx'[d] = IF d \in {c} THEN NoCtx ELSE ctx[d]
    BY <1>5 DEF TypeOK
  <2> QED
    BY <1>2, <1>4, <1>5, <2>1, EndMatches
<1>6. ASSUME NEW op \in Ops, NEW data, NEW step \in Steps, NEW rest \in SUBSET Snapshots,
             ReplyTo(op) = Fitting(step), Send(ctx[c].swarm, c, ctx[c].to, op, data, step, rest)
      PROVE  Matched'
  BY <1>2, <1>3, <1>4, <1>6, SendMatches
<1>7. \A snap : ctx[c].rest \ {snap} \in SUBSET Snapshots
  BY <1>3
<1>8. \/ ctx' = [ctx EXCEPT ![c] = NoCtx] /\ UNCHANGED <<reqs, ids>>
      \/ Send(ctx[c].swarm, c, ctx[c].to, "pull", [NoData EXCEPT !.ids = r.data.ids], "notes", {})
      \/ \E snap \in ctx[c].rest :
           Send(ctx[c].swarm, c, ctx[c].to, "push", Push(snap), "push", ctx[c].rest \ {snap})
      \/ Send(ctx[c].swarm, c, ctx[c].to, "push_batch", OwnBatch(ctx[c].swarm[1], r.data), "ack", {})
  <2>1. CASE OnPullResponse(r)
    BY <1>1, <2>1 DEF OnPullResponse, Answered
  <2>2. CASE OnPushResponse(r)
    BY <1>1, <2>2 DEF OnPushResponse, Answered
  <2>3. CASE OnBatchResponse(r)
    BY <1>1, <2>3 DEF OnBatchResponse, Answered
  <2> QED
    BY <2>1, <2>2, <2>3 DEF Respond
<1>9. {} \in SUBSET Snapshots
  OBVIOUS
<1> QED
  BY <1>5, <1>6, <1>7, <1>8, <1>9, SentOps

\* A request that is served leaves its response in its place.
LEMMA ServeMatches ==
  ASSUME TypeOK, Matched, NEW r \in reqs, Serve(r)
  PROVE  Matched'
<1>1. UNCHANGED <<ctx, ids>> /\ reqs' = reqs \ {r} /\ r.op \in Ops /\ r.c \in Callers
  BY DEF Serve, TypeOK, Requests
<1>2. \E data : resps' = IF Awaited(r) THEN resps \cup {Reply(r, ReplyTo(r.op), data)} ELSE resps
  BY DEF Serve, ReplyTo
<1>3. PICK data : resps' = IF Awaited(r) THEN resps \cup {Reply(r, ReplyTo(r.op), data)} ELSE resps
  BY <1>2
<1>4. PICK new : new = Reply(r, ReplyTo(r.op), data)
  OBVIOUS
<1>5. new.c = r.c /\ new.k = r.k /\ new.op = ReplyTo(r.op)
  BY <1>4 DEF Reply
<1>6. \A q \in resps : Awaited(q) /\ (q.c = r.c => ~Awaited(r))
  BY DEF Matched, ResponsesFit, Awaited
<1>7. ResponsesFit'
  BY <1>1, <1>3, <1>4, <1>5 DEF Matched, ResponsesFit, Awaited, Live
<1>8. \A p, q \in resps' : p.c = q.c => p = q
  BY <1>3, <1>4, <1>5, <1>6 DEF Matched
<1>9. \A p \in reqs', q \in resps' : p.c = q.c => p.k # q.k
  BY <1>1, <1>3, <1>4, <1>5 DEF Matched
<1>10. \A p \in reqs' : p.k <= ids'[p.c] /\ (Awaited(p)' => ReplyTo(p.op) = Fitting(ctx'[p.c].step))
  BY <1>1 DEF Matched, Awaited, Live
<1>11. \A p, q \in reqs' : p.c = q.c /\ p.k = q.k => p = q
  BY <1>1 DEF Matched
<1> QED
  BY <1>7, <1>8, <1>9, <1>10, <1>11 DEF Matched

\* A swarm that ends, or a request that fails, takes the responses of its exchanges with it.
LEMMA LossMatches ==
  ASSUME TypeOK, Matched,
         (\E s \in PeerIds : SwarmEnd(s)) \/ (\E c \in Callers : OutboundFailure(c))
  PROVE  Matched'
<1>1. ASSUME NEW s \in PeerIds, SwarmEnd(s) PROVE Matched'
  <2>1. /\ Waiting(s) \in SUBSET Callers /\ UNCHANGED ids
        /\ \A d \in Callers : ctx'[d] = IF d \in Waiting(s) THEN NoCtx ELSE ctx[d]
        /\ reqs' \subseteq reqs /\ resps' \subseteq resps /\ \A q \in resps' : q.c \notin Waiting(s)
    BY <1>1 DEF SwarmEnd, Waiting
  <2> QED
    BY <2>1, EndMatches
<1>2. ASSUME NEW c \in Callers, OutboundFailure(c) PROVE Matched'
  <2>1. /\ UNCHANGED ids
        /\ \A d \in Callers : ctx'[d] = IF d \in {c} THEN NoCtx ELSE ctx[d]
        /\ reqs' \subseteq reqs /\ resps' \subseteq resps /\ \A q \in resps' : q.c \notin {c}
    BY <1>2 DEF OutboundFailure, TypeOK
  <2> QED
    BY <2>1, EndMatches
<1> QED
  BY <1>1, <1>2
-----------------------------------------------------------------------------
(* The invariant. *)

IInv == TypeOK /\ Controlled /\ Places /\ Matched

LEMMA InitInv == Init => IInv
<1> SUFFICES ASSUME Init PROVE IInv
  OBVIOUS
<1>1. NoSwarm \in Swarms /\ NoSwarm.queue = <<>> /\ NoSwarm.st = "none"
  BY DEF NoSwarm, Swarms
<1>2. EmptyStore \in Stores /\ EmptyBlobs \in BlobStores
  BY DEF EmptyStore, Stores, EmptyBlobs, BlobStores, Missing
<1>3. \A s \in PeerIds : sw[s].queue = <<>>
  BY <1>1 DEF Init
<1>4. \A c \in Callers : call[c].pc = "idle" /\ ~Live(c) /\ Queued(c) = {}
  BY <1>3, IdleCalls DEF Init, Live, Queued
<1>5. TypeOK
  BY <1>1, <1>2, IdleCalls, MeshAssumption DEF Init, TypeOK
<1>6. Controlled
  BY <1>3, <1>4 DEF Init, Controlled
<1>7. Places
  BY <1>3, <1>4 DEF Places, Queues, Served
<1>8. Matched
  BY DEF Init, Matched, ResponsesFit
<1> QED
  BY <1>5, <1>6, <1>7, <1>8 DEF IInv

LEMMA NextInv == IInv /\ [Next]_vars => IInv'
<1> SUFFICES ASSUME IInv, [Next]_vars PROVE IInv'
  OBVIOUS
<1> USE DEF IInv
<1>1. ASSUME NEW n \in Nodes, App(n) PROVE IInv'
  <2>1. UNCHANGED <<ctx, reqs, resps, ids>>
    BY <1>1 DEF App, WirePush, WireAttachmentPush, WireBatchImport, StartJson, StopTake
  <2> QED
    BY <1>1, <2>1, AppTypes, AppPlaces, SameMessages
<1>2. ASSUME NEW c \in Callers, Sync(c) PROVE IInv'
  <2>1. UNCHANGED <<ctx, reqs, resps, ids>>
    BY <1>2 DEF Sync, SyncByPeerId, SendCommand, SyncByWireBase, Ask, Import, PushBatch, SyncCompleted
  <2> QED
    BY <1>2, <2>1, CallTypes, CallPlaces, SameMessages
<1>3. ASSUME NEW s \in PeerIds, Swarm(s) \/ \E t \in PeerIds : Identify(s, t) \/ Expire(s, t)
      PROVE  IInv'
  <2>1. TypeOK' /\ Controlled' /\ Places'
    BY <1>3, SwarmTypes, SwarmPlaces
  <2>2. CASE RunCommand(s)
    BY <2>1, <2>2, CommandMatches
  <2>3. CASE SwarmEnd(s)
    BY <2>1, <2>3, LossMatches
  <2>4. CASE StopSend(s) \/ \E t \in PeerIds : Identify(s, t) \/ Expire(s, t)
    <3>1. UNCHANGED <<ctx, reqs, resps, ids>>
      BY <2>4 DEF StopSend, Identify, Expire
    <3> QED
      BY <2>1, <3>1, SameMessages
  <2> QED
    BY <1>3, <2>2, <2>3, <2>4 DEF Swarm
<1>4. ASSUME NEW r \in reqs, Serve(r) PROVE IInv'
  BY <1>4, MessageTypes, MessagePlaces, ServeMatches
<1>5. ASSUME NEW r \in resps, Respond(r) PROVE IInv'
  BY <1>5, MessageTypes, MessagePlaces, RespondMatches
<1>6. ASSUME NEW c \in Callers, OutboundFailure(c) PROVE IInv'
  BY <1>6, MessageTypes, MessagePlaces, LossMatches
<1>7. CASE UNCHANGED vars
  <2>1. UNCHANGED <<ctx, reqs, resps, ids>>
    BY <1>7 DEF vars
  <2>2. TypeOK'
    BY <1>7 DEF TypeOK, vars
  <2>3. Controlled'
    BY <1>7 DEF Controlled, vars
  <2>4. Places'
    BY <1>7, Aside DEF vars, Stays, Up
  <2> QED
    BY <2>1, <2>2, <2>3, <2>4, SameMessages
<1> QED
  BY <1>1, <1>2, <1>3, <1>4, <1>5, <1>6, <1>7 DEF Next

\* The invariant holds of every run of the sidecars.
THEOREM InvHolds == Spec => []IInv
<1>1. Init => IInv
  BY InitInv
<1>2. IInv /\ [Next]_vars => IInv'
  BY NextInv
<1> QED
  BY <1>1, <1>2, PTL DEF Spec

\* Every variable of the sidecars has its type, and no store ever holds an attachment
\* above the limit (upsert_attachment, wire_attachment_store.rs).
THEOREM TypeCorrect == Spec => []TypeOK
<1>1. IInv => TypeOK
  BY DEF IInv
<1> QED
  BY <1>1, InvHolds, PTL

\* Whatever stops, starts, is replaced or fails, a sync call that waits has its command in
\* one place, the queue or an exchange, of a swarm that runs (sync_json, run_swarm).
THEOREM CallersAreServed == Spec => []CallerIsServed
<1>1. IInv => CallerIsServed
  BY PlacesServe DEF IInv
<1> QED
  BY <1>1, InvHolds, PTL

\* A response that an exchange gets is of the kind its step awaits (handle_swarm_event), for
\* any number of requests given up and asked again.
THEOREM ResponsesAlwaysFit == Spec => []ResponsesFit
<1>1. IInv => ResponsesFit
  BY DEF IInv, Matched
<1> QED
  BY <1>1, InvHolds, PTL

-----------------------------------------------------------------------------
(* When a sync makes two devices equal.  First the stores alone: a device    *)
(* covers another if it has all that the other has.                          *)

Covers(wn, wm) == \A i \in Held(wm) : wn[i] = wm[i]
CoversBlobs(an, am) == \A f \in Files : am[f] \notin {NoBlob, 0} => an[f] = am[f]

\* All notes of wn are in wm, but those in rest.
AllBut(rest, wn, wm) == \A i \in Held(wn) : wm[i] = wn[i] \/ [id |-> i, at |-> wn[i]] \in rest

\* The snapshots of a store are those of the notes held.
LEMMA SnapshotParts ==
  ASSUME NEW s \in Stores
  PROVE  /\ \A x \in AllSnapshots(s) : /\ x \in Snapshots /\ x.id \in Held(s) /\ x.at = s[x.id]
                                       /\ x = [id |-> x.id, at |-> s[x.id]]
         /\ \A i \in Held(s) : \E x \in AllSnapshots(s) : x.id = i
         /\ \A i \in Notes : i \in Held(s) <=> s[i] # Missing
<1>1. ASSUME NEW x \in AllSnapshots(s)
      PROVE  /\ x \in Snapshots /\ x.id \in Held(s) /\ x.at = s[x.id]
             /\ x = [id |-> x.id, at |-> s[x.id]]
  BY DEF AllSnapshots, Held, Snapshots, Stores
<1>2. ASSUME NEW i \in Held(s) PROVE \E x \in AllSnapshots(s) : x.id = i
  <2>1. [id |-> i, at |-> s[i]] \in AllSnapshots(s)
    BY DEF AllSnapshots
  <2>2. [id |-> i, at |-> s[i]].id = i
    OBVIOUS
  <2> QED
    BY <2>1, <2>2
<1> QED
  BY <1>1, <1>2 DEF Held

\* What importing a whole store does to each note ...
LEMMA ImportAll ==
  ASSUME NEW s \in Stores, NEW t \in Stores
  PROVE  ImportSnapshots(t, AllSnapshots(s)) =
           [i \in Notes |-> IF s[i] # Missing THEN s[i] ELSE t[i]]
<1> DEFINE snaps == AllSnapshots(s)
<1>1. ASSUME NEW i \in Notes
      PROVE  (IF \E x \in snaps : x.id = i THEN SnapshotOf(snaps, i).at ELSE t[i])
               = IF s[i] # Missing THEN s[i] ELSE t[i]
  <2>1. (\E x \in snaps : x.id = i) <=> s[i] # Missing
    BY SnapshotParts
  <2>2. \A x \in snaps : x.id = i => x.at = s[i]
    BY SnapshotParts
  <2>3. ASSUME \E x \in snaps : x.id = i PROVE SnapshotOf(snaps, i).at = s[i]
    <3>1. SnapshotOf(snaps, i) \in snaps /\ SnapshotOf(snaps, i).id = i
      BY <2>3 DEF SnapshotOf
    <3> QED
      BY <2>2, <3>1
  <2> QED
    BY <2>1, <2>3
<1> QED
  BY <1>1 DEF ImportSnapshots

\* ... and importing one snapshot.
LEMMA ImportOne ==
  ASSUME NEW t \in Stores, NEW snap \in Snapshots
  PROVE  ImportSnapshots(t, Push(snap).notes) =
           [i \in Notes |-> IF snap.id = i THEN snap.at ELSE t[i]]
<1>1. Push(snap).notes = {snap}
  BY DEF Push, NoData
<1>2. ASSUME NEW i \in Notes, snap.id = i PROVE SnapshotOf({snap}, i) = snap
  BY <1>2 DEF SnapshotOf
<1> QED
  BY <1>1, <1>2 DEF ImportSnapshots

\* A batch carries the whole store, and the attachments that are not empty.
LEMMA ImportOfExport ==
  ASSUME NEW s \in Stores, NEW t \in Stores, NEW a \in BlobStores, NEW b \in BlobStores
  PROVE  /\ ImportBatchNotes(ExportBatch(s, a), t) = ImportSnapshots(t, AllSnapshots(s))
         /\ ImportBatchBlobs(ExportBatch(s, a), b) =
              [f \in Files |-> IF a[f] \notin {NoBlob, 0} THEN a[f] ELSE b[f]]
<1> DEFINE batch == ExportBatch(s, a)
<1>1. batch.version = 1 /\ batch.notes = AllSnapshots(s) /\ batch.blobs = AllBlobs(a)
  BY DEF ExportBatch, NoData
<1>2. ASSUME NEW f \in Files
      PROVE  (IF \E x \in Taken(batch) : x.file = f THEN BlobOf(Taken(batch), f).size ELSE b[f])
               = IF a[f] \notin {NoBlob, 0} THEN a[f] ELSE b[f]
  <2>1. a[f] # NoBlob => a[f] \in 0..MaxBytes
    BY DEF BlobStores
  <2>2. (\E x \in Taken(batch) : x.file = f) <=> a[f] \notin {NoBlob, 0}
    <3>1. ASSUME NEW x \in Taken(batch), x.file = f PROVE a[f] \notin {NoBlob, 0}
      BY <1>1, <3>1 DEF Taken, AllBlobs
    <3>2. ASSUME a[f] \notin {NoBlob, 0} PROVE \E x \in Taken(batch) : x.file = f
      <4> DEFINE x == [file |-> f, size |-> a[f]]
      <4>1. x \in AllBlobs(a) /\ x.file = f /\ x.size = a[f]
        BY <3>2 DEF AllBlobs
      <4>2. x.size # 0 /\ BlobAccepted(x)
        BY <2>1, <3>2, <4>1, WireAssumption DEF BlobAccepted
      <4>3. x \in Taken(batch)
        BY <1>1, <4>1, <4>2 DEF Taken
      <4> QED
        BY <4>1, <4>3
    <3> QED
      BY <3>1, <3>2
  <2>3. \A x \in Taken(batch) : x.file = f => x.size = a[f]
    BY <1>1 DEF Taken, AllBlobs
  <2>4. ASSUME \E x \in Taken(batch) : x.file = f PROVE BlobOf(Taken(batch), f).size = a[f]
    <3>1. BlobOf(Taken(batch), f) \in Taken(batch) /\ BlobOf(Taken(batch), f).file = f
      BY <2>4 DEF BlobOf
    <3> QED
      BY <2>3, <3>1
  <2> QED
    BY <2>2, <2>4
<1>3. ImportBatchBlobs(batch, b) =
        [f \in Files |-> IF a[f] \notin {NoBlob, 0} THEN a[f] ELSE b[f]]
  BY <1>1, <1>2 DEF ImportBatchBlobs
<1>4. ImportBatchNotes(batch, t) = ImportSnapshots(t, AllSnapshots(s))
  BY <1>1 DEF ImportBatchNotes
<1> QED
  BY <1>3, <1>4

\* After the import the device covers the other one.
LEMMA ImportCovers ==
  ASSUME NEW wn \in Stores, NEW wm \in Stores, NEW an \in BlobStores, NEW am \in BlobStores
  PROVE  /\ Covers(ImportSnapshots(wn, AllSnapshots(wm)), wm)
         /\ Covers(ImportBatchNotes(ExportBatch(wm, am), wn), wm)
         /\ CoversBlobs(ImportBatchBlobs(ExportBatch(wm, am), an), am)
<1>1. Covers(ImportSnapshots(wn, AllSnapshots(wm)), wm)
  BY ImportAll DEF Covers, Held
<1> QED
  BY <1>1, ImportOfExport DEF CoversBlobs

\* When a device that covers another sends it all, they are equal.
LEMMA ImportEquals ==
  ASSUME NEW wn \in Stores, NEW wm \in Stores, NEW an \in BlobStores, NEW am \in BlobStores
  PROVE  /\ Covers(wn, wm) => ImportBatchNotes(ExportBatch(wn, an), wm) = wn
         /\ CoversBlobs(an, am) =>
              Carried(ImportBatchBlobs(ExportBatch(wn, an), am)) = Carried(an)
<1>1. ASSUME Covers(wn, wm) PROVE ImportBatchNotes(ExportBatch(wn, an), wm) = wn
  <2>1. \A i \in Notes : wn[i] = Missing => wm[i] = Missing
    BY <1>1 DEF Covers, Held
  <2>2. ImportBatchNotes(ExportBatch(wn, an), wm) =
          [i \in Notes |-> IF wn[i] # Missing THEN wn[i] ELSE wm[i]]
    BY ImportOfExport, ImportAll
  <2>3. wn = [i \in Notes |-> wn[i]]
    BY DEF Stores
  <2> QED
    BY <2>1, <2>2, <2>3
<1>2. ASSUME CoversBlobs(an, am)
      PROVE  Carried(ImportBatchBlobs(ExportBatch(wn, an), am)) = Carried(an)
  <2> DEFINE new == ImportBatchBlobs(ExportBatch(wn, an), am)
  <2>1. new = [f \in Files |-> IF an[f] \notin {NoBlob, 0} THEN an[f] ELSE am[f]]
    BY ImportOfExport
  <2>2. ASSUME NEW f \in Files
        PROVE  (IF new[f] = 0 THEN NoBlob ELSE new[f]) = IF an[f] = 0 THEN NoBlob ELSE an[f]
    <3>1. new[f] = IF an[f] \notin {NoBlob, 0} THEN an[f] ELSE am[f]
      BY <2>1
    <3> HIDE DEF new
    <3> QED
      BY <1>2, <3>1 DEF CoversBlobs
  <2> QED
    BY <2>2 DEF Carried
<1> QED
  BY <1>1, <1>2

\* The catalog names the notes held, and a pull of all of them brings all.
LEMMA CatalogAndPull ==
  ASSUME NEW s \in Stores
  PROVE  /\ {head.id : head \in CatalogHeads(s)} = Held(s)
         /\ PullNotes(s, Held(s)) = AllSnapshots(s)
<1>1. Held(s) \cap Held(s) = Held(s)
  OBVIOUS
<1>2. PullNotes(s, Held(s)) = {[id |-> i, at |-> s[i]] : i \in Held(s)}
  BY <1>1 DEF PullNotes
<1>3. \A head \in CatalogHeads(s) : head.id \in Held(s)
  BY DEF CatalogHeads
<1>4. ASSUME NEW i \in Held(s) PROVE \E head \in CatalogHeads(s) : head.id = i
  <2>1. [id |-> i, at |-> s[i]] \in CatalogHeads(s) /\ [id |-> i, at |-> s[i]].id = i
    BY DEF CatalogHeads
  <2> QED
    BY <2>1
<1> QED
  BY <1>2, <1>3, <1>4 DEF AllSnapshots

\* The pushes one after the other.
LEMMA PushesCover ==
  ASSUME NEW wn \in Stores, NEW wm \in Stores
  PROVE  /\ AllBut(AllSnapshots(wn), wn, wm)
         /\ \A rest, first : first \in AllSnapshots(wn) /\ AllBut(rest \cup {first}, wn, wm) =>
              AllBut(rest, wn, ImportSnapshots(wm, Push(first).notes))
         /\ \A first \in AllSnapshots(wn) : Covers(wn, wm) =>
              Covers(wn, ImportSnapshots(wm, Push(first).notes))
         /\ AllBut({}, wn, wm) /\ Covers(wn, wm) => wn = wm
         /\ AllSnapshots(wn) = {} => AllBut({}, wn, wm)
<1>1. AllBut(AllSnapshots(wn), wn, wm) /\ (AllSnapshots(wn) = {} => AllBut({}, wn, wm))
  BY DEF AllBut, AllSnapshots
<1>2. ASSUME NEW first \in AllSnapshots(wn)
      PROVE  /\ first \in Snapshots /\ first.id \in Held(wn) /\ first.at = wn[first.id]
             /\ first = [id |-> first.id, at |-> wn[first.id]]
  BY SnapshotParts
<1>3. ASSUME NEW rest, NEW first \in AllSnapshots(wn), AllBut(rest \cup {first}, wn, wm)
      PROVE  AllBut(rest, wn, ImportSnapshots(wm, Push(first).notes))
  <2> SUFFICES ASSUME NEW i \in Held(wn)
               PROVE  \/ ImportSnapshots(wm, Push(first).notes)[i] = wn[i]
                      \/ [id |-> i, at |-> wn[i]] \in rest
    BY DEF AllBut
  <2>1. i \in Notes
    BY DEF Held
  <2>2. ImportSnapshots(wm, Push(first).notes) =
          [j \in Notes |-> IF first.id = j THEN first.at ELSE wm[j]]
    BY <1>2, ImportOne
  <2>3. ImportSnapshots(wm, Push(first).notes)[i] = IF first.id = i THEN first.at ELSE wm[i]
    BY <2>1, <2>2
  <2> QED
    BY <1>2, <1>3, <2>3 DEF AllBut
<1>4. ASSUME NEW first \in AllSnapshots(wn), Covers(wn, wm)
      PROVE  Covers(wn, ImportSnapshots(wm, Push(first).notes))
  <2>1. ImportSnapshots(wm, Push(first).notes) =
          [j \in Notes |-> IF first.id = j THEN first.at ELSE wm[j]]
    BY <1>2, ImportOne
  <2> QED
    BY <1>2, <1>4, <2>1 DEF Covers, Held
<1>5. ASSUME AllBut({}, wn, wm), Covers(wn, wm) PROVE wn = wm
  <2>1. \A i \in Notes : wn[i] = wm[i]
    BY <1>5 DEF AllBut, Covers, Held
  <2> QED
    BY <2>1 DEF Stores
<1> QED
  BY <1>1, <1>3, <1>4, <1>5

-----------------------------------------------------------------------------
(* What a sync call knows of the two stores while it is calm.               *)

\* What the answer of a call promises.
Equal(cl, wn, wm, an, am) ==
  /\ cl.via # "none" => wn = wm
  /\ cl.via \in {"http_batch", "libp2p_batch"} => Carried(an) = Carried(am)

HttpPulls == {"httpExport", "httpImport", "httpCatalog", "httpPull", "httpNotes"}

\* Where a call can have what "via", and that only an answer has been sent.
Shaped(c, cl) ==
  /\ cl.pc # "idle" => cl.peer # c[1]
  /\ cl.pc # "emit" => ~cl.sent
  /\ cl.pc \in {"ask", "wait"} => cl.via = "none" \/ (cl.stage = "push" /\ cl.via = "libp2p")
  /\ cl.pc \in HttpPulls => cl.via = "none"
  /\ cl.pc \in {"httpPush", "httpAck"} => cl.via \in {"none", "http_catalog", "http_batch"}

\* After an import the device covers its peer; what a call holds is what was exported.
CallKnows(cl, wn, wm, an, am) ==
  /\ cl.pc = "httpImport" => cl.data = ExportBatch(wm, am)
  /\ cl.pc = "httpPull" => cl.data.ids = Held(wm)
  /\ cl.pc = "httpNotes" => cl.data.notes = AllSnapshots(wm)
  /\ /\ cl.pc \in {"httpPush", "httpAck"} \/ (cl.pc \in {"ask", "wait"} /\ cl.stage = "push")
     /\ cl.via # "none"
     => Covers(wn, wm)
  /\ cl.pc \in {"httpPush", "httpAck"} /\ cl.via = "http_batch" => CoversBlobs(an, am)
  /\ cl.pc = "httpAck" => cl.data = ExportBatch(wn, an)
  /\ cl.pc = "emit" /\ cl.sent => Equal(cl, wn, wm, an, am)

\* The command an exchange serves.
StageOf(step) == CASE step \in {"batch", "ack"} -> "batch"
                   [] step \in {"catalog", "notes"} -> "pull" [] step = "push" -> "push"

\* The last request of exchange x, and the response to it.
AskedKnows(x, r, wn, wm, an, am) ==
  /\ r.op = "pull" => r.data.ids = Held(wm)
  /\ r.op = "push" => \E first \in AllSnapshots(wn) :
                         r.data = Push(first) /\ AllBut(x.rest \cup {first}, wn, wm)
  /\ r.op = "push_batch" => /\ r.data = ExportBatch(wn, an)
                            /\ Covers(wn, wm) /\ CoversBlobs(an, am)
AnswerKnows(x, r, wn, wm, an, am) ==
  /\ r.op = "catalog" => r.data.ids = Held(wm)
  /\ r.op = "notes" => r.data.notes = AllSnapshots(wm)
  /\ r.op = "push_ack" => AllBut(x.rest, wn, wm)
  /\ r.op = "batch" => r.data = ExportBatch(wm, am)
  /\ r.op = "batch_ack" => wn = wm /\ Carried(an) = Carried(am)

Asked(c) == {r \in reqs : r.c = c /\ r.k = ids[c]}
Answers(c) == {r \in resps : r.c = c}

\* An exchange is with the peer its call names.
Addressed(c) ==
  Live(c) => /\ call[c].stage = StageOf(ctx[c].step)
             /\ ctx[c].to[1] = call[c].peer
             /\ \A r \in Asked(c) : r.to[1] = call[c].peer
Knows(c) ==
  LET n == c[1]  m == call[c].peer
  IN call[c].calm =>
       /\ CallKnows(call[c], wire[n], wire[m], atts[n], atts[m])
       /\ Live(c) =>
            /\ ctx[c].step = "push" => ctx[c].rest \subseteq AllSnapshots(wire[n])
            /\ \A r \in Asked(c) : AskedKnows(ctx[c], r, wire[n], wire[m], atts[n], atts[m])
            /\ \A r \in Answers(c) : AnswerKnows(ctx[c], r, wire[n], wire[m], atts[n], atts[m])
Informed(c) == Shaped(c, call[c]) /\ Addressed(c) /\ Knows(c)

\* A swarm knows PeerIds of the devices they belong to, and has commands as they were sent.
Routed ==
  /\ \A s \in PeerIds, m \in Nodes : sw[s].peers[m] # NoPeer => sw[s].peers[m][1] = m
  /\ \A s \in PeerIds : \A j \in 1..Len(sw[s].queue) :
       LET cmd == sw[s].queue[j]
       IN cmd.c \in Callers => cmd.kind = call[cmd.c].stage /\ cmd.peer = call[cmd.c].peer

SyncInv == Routed /\ \A c \in Callers : Informed(c)

\* A command is answered when what it was to bring about is so.
LEMMA AnsweredKnows ==
  ASSUME NEW c \in Callers, NEW cl \in SyncCalls, cl.pc \in {"ask", "wait"}, Shaped(c, cl),
         NEW ok \in BOOLEAN, NEW wn, NEW wm, NEW an, NEW am,
         ok /\ cl.calm /\ cl.stage = "batch" => wn = wm /\ Carried(an) = Carried(am),
         ok /\ cl.calm /\ cl.stage = "pull" => Covers(wn, wm),
         ok /\ cl.calm /\ cl.stage = "push" /\ cl.via # "none" => wn = wm
  PROVE  /\ Shaped(c, AfterAnswer(cl, ok))
         /\ AfterAnswer(cl, ok).peer = cl.peer /\ AfterAnswer(cl, ok).calm = cl.calm
         /\ cl.calm => CallKnows(AfterAnswer(cl, ok), wn, wm, an, am)
<1> DEFINE new == AfterAnswer(cl, ok)
<1>1. /\ new.peer = cl.peer /\ new.calm = cl.calm
      /\ new.pc = IF cl.stage = "push" \/ (cl.stage = "batch" /\ ok) THEN "emit" ELSE "ask"
      /\ new.stage = IF cl.stage = "batch" /\ ~ok THEN "pull" ELSE "push"
      /\ new.via = IF ok /\ cl.stage = "batch" THEN "libp2p_batch"
                   ELSE IF ok /\ cl.stage = "pull" THEN "libp2p" ELSE cl.via
      /\ new.sent = (ok /\ cl.stage # "pull")
  BY DEF AfterAnswer, SyncCalls
<1>2. cl.stage \in {"batch", "pull", "push"}
  BY DEF SyncCalls
<1> HIDE DEF new
<1>3. Shaped(c, new)
  BY <1>1, <1>2 DEF Shaped, HttpPulls
<1>4. ASSUME cl.calm PROVE CallKnows(new, wn, wm, an, am)
  BY <1>1, <1>2, <1>4 DEF CallKnows, Equal, Shaped
<1> QED
  BY <1>1, <1>3, <1>4 DEF new

\* A caller that a step passes by: its exchange goes on, and if it is still calm neither of
\* its two devices was written to.
PassedBy(d) ==
  /\ call'[d] = call[d] \/ call'[d] = [call[d] EXCEPT !.calm = FALSE]
  /\ ctx'[d] = ctx[d] /\ ids'[d] = ids[d]
  /\ \A r \in reqs' : r.c = d /\ r.k = ids[d] => r \in reqs
  /\ \A r \in resps' : r.c = d => r \in resps
  /\ call[d].pc # "idle" /\ call'[d].calm =>
       /\ wire'[d[1]] = wire[d[1]] /\ wire'[call[d].peer] = wire[call[d].peer]
       /\ atts'[d[1]] = atts[d[1]] /\ atts'[call[d].peer] = atts[call[d].peer]

LEMMA PassedByKnows ==
  ASSUME TypeOK, Places, NEW d \in Callers, Informed(d), PassedBy(d)
  PROVE  Informed(d)'
<1>1. call[d] \in SyncCalls
  BY DEF TypeOK
<1>2. /\ call'[d].pc = call[d].pc /\ call'[d].peer = call[d].peer /\ call'[d].sent = call[d].sent
      /\ call'[d].via = call[d].via /\ call'[d].stage = call[d].stage
      /\ call'[d].data = call[d].data /\ (call'[d].calm => call'[d] = call[d])
  BY <1>1 DEF PassedBy, SyncCalls
<1>3. Shaped(d, call[d])'
  BY <1>2 DEF Informed, Shaped
<1>4. /\ ctx'[d] = ctx[d] /\ (Live(d)' <=> Live(d)) /\ Asked(d)' \subseteq Asked(d)
      /\ Answers(d)' \subseteq Answers(d)
  BY DEF PassedBy, Live, Asked, Answers
<1>5. Addressed(d)'
  BY <1>2, <1>4 DEF Informed, Addressed
<1>6. Knows(d)'
  <2>1. CASE call[d].pc = "idle"
    <3>1. ~Live(d)
      BY <2>1 DEF Places, Served
    <3>2. CallKnows(call'[d], wire'[d[1]], wire'[call'[d].peer], atts'[d[1]], atts'[call'[d].peer])
      BY <1>2, <2>1 DEF CallKnows
    <3> QED
      BY <1>4, <3>1, <3>2 DEF Knows
  <2>2. CASE call[d].pc # "idle"
    BY <1>2, <1>4, <2>2 DEF Informed, Knows, PassedBy
  <2> QED
    BY <2>1, <2>2
<1> QED
  BY <1>3, <1>5, <1>6 DEF Informed

\* A step that writes to a store of n, or to none, passes by all but the caller it is for.
LEMMA WritePassesBy ==
  ASSUME TypeOK, NEW n, NEW c, NEW d \in Callers, d # c,
         call'[d] = Disturbed(n, c)[d],
         \A e \in Nodes : e # n => wire'[e] = wire[e] /\ atts'[e] = atts[e],
         ctx'[d] = ctx[d], ids'[d] = ids[d],
         \A r \in reqs' : r.c = d /\ r.k = ids[d] => r \in reqs,
         \A r \in resps' : r.c = d => r \in resps
  PROVE  PassedBy(d)
<1>1. call[d] \in SyncCalls /\ d[1] \in Nodes /\ call[d].peer \in Nodes
  BY MeshAssumption DEF TypeOK, SyncCalls
<1>2. call'[d] = IF call[d].pc # "idle" /\ n \in {d[1], call[d].peer}
                 THEN [call[d] EXCEPT !.calm = FALSE] ELSE call[d]
  BY DEF Disturbed
<1>3. call[d].pc # "idle" /\ call'[d].calm => n \notin {d[1], call[d].peer}
  BY <1>1, <1>2 DEF SyncCalls
<1> QED
  BY <1>1, <1>2, <1>3 DEF PassedBy

\* Queues and known peers that stay as they are fit calls that stay in their stage.
LEMMA RoutedKept ==
  ASSUME TypeOK, Routed,
         \A s \in PeerIds : sw'[s].queue = sw[s].queue /\ sw'[s].peers = sw[s].peers,
         \A d \in Callers : Queued(d) # {} =>
           call'[d].stage = call[d].stage /\ call'[d].peer = call[d].peer
  PROVE  Routed'
<1>1. ASSUME NEW s \in PeerIds, NEW j \in 1..Len(sw[s].queue), sw[s].queue[j].c \in Callers
      PROVE  /\ sw[s].queue[j].kind = call'[sw[s].queue[j].c].stage
             /\ sw[s].queue[j].peer = call'[sw[s].queue[j].c].peer
  <2>1. s \in Queued(sw[s].queue[j].c)
    BY <1>1 DEF Queued
  <2> QED
    BY <1>1, <2>1 DEF Routed
<1> QED
  BY <1>1 DEF Routed

\* The steps of an app leave every exchange where it is, and no call on n calm.
LEMMA AppSync ==
  ASSUME TypeOK, Controlled, Places, SyncInv, NEW n \in Nodes, App(n)
  PROVE  SyncInv'
<1>1. UNCHANGED <<ctx, reqs, resps, ids>>
  BY DEF App, WirePush, WireAttachmentPush, WireBatchImport, StartJson, StopTake
<1>2. ASSUME call' = Disturbed(n, NoCaller), UNCHANGED sw,
             \A e \in Nodes : e # n => wire'[e] = wire[e] /\ atts'[e] = atts[e]
      PROVE  SyncInv'
  <2>1. ASSUME NEW d \in Callers PROVE Informed(d)'
    <3>1. d # NoCaller /\ call'[d] = Disturbed(n, NoCaller)[d]
      BY <1>2, MeshAssumption
    <3>2. PassedBy(d)
      BY <1>1, <1>2, <3>1, WritePassesBy
    <3> QED
      BY <3>2, PassedByKnows DEF SyncInv
  <2>2. Routed'
    BY <1>2, DisturbedCalls, RoutedKept DEF SyncInv
  <2> QED
    BY <2>1, <2>2 DEF SyncInv
<1>3. ASSUME UNCHANGED <<call, wire, atts>>,
             \A s \in PeerIds : sw'[s].queue = sw[s].queue /\ sw'[s].peers = sw[s].peers
      PROVE  SyncInv'
  <2>1. ASSUME NEW d \in Callers PROVE Informed(d)'
    <3>1. PassedBy(d)
      BY <1>1, <1>3 DEF PassedBy
    <3> QED
      BY <3>1, PassedByKnows DEF SyncInv
  <2>2. Routed'
    BY <1>3, RoutedKept DEF SyncInv
  <2> QED
    BY <2>1, <2>2 DEF SyncInv
<1>4. CASE WirePush(n)
  <2>1. \A e \in Nodes : e # n => wire'[e] = wire[e] /\ atts'[e] = atts[e]
    BY <1>4 DEF WirePush, StoreNotes, TypeOK
  <2> QED
    BY <1>2, <1>4, <2>1 DEF WirePush
<1>5. CASE WireAttachmentPush(n)
  <2>1. \A e \in Nodes : e # n => wire'[e] = wire[e] /\ atts'[e] = atts[e]
    BY <1>5 DEF WireAttachmentPush, StoreBlobs, TypeOK
  <2> QED
    BY <1>2, <1>5, <2>1 DEF WireAttachmentPush
<1>6. CASE WireBatchImport(n)
  <2>1. \A e \in Nodes : e # n => wire'[e] = wire[e] /\ atts'[e] = atts[e]
    BY <1>6 DEF WireBatchImport, StoreBatch, StoreNotes, StoreBlobs, TypeOK
  <2> QED
    BY <1>2, <1>6, <2>1 DEF WireBatchImport
<1>7. CASE StartJson(n)
  <2>1. UNCHANGED <<call, wire, atts>>
    BY <1>7 DEF StartJson, stores
  <2>2. \A s \in PeerIds : sw'[s].queue = sw[s].queue /\ sw'[s].peers = sw[s].peers
    BY <1>7 DEF StartJson, Spawn, TypeOK, Swarms
  <2> QED
    BY <1>3, <2>1, <2>2
<1>8. CASE StopTake(n)
  BY <1>3, <1>8 DEF StopTake, stores
<1> QED
  BY <1>4, <1>5, <1>6, <1>7, <1>8 DEF App

\* A call without an exchange is informed if its record is as said.
LEMMA RecordInformed ==
  ASSUME NEW c \in Callers, ~Live(c)', Shaped(c, call'[c]),
         call'[c].calm => CallKnows(call'[c], wire'[c[1]], wire'[call'[c].peer],
                                    atts'[c[1]], atts'[call'[c].peer])
  PROVE  Informed(c)'
<1>1. Shaped(c, call[c])'
  BY DEF Shaped
<1>2. Addressed(c)'
  BY DEF Addressed
<1>3. Knows(c)'
  BY DEF Knows
<1> QED
  BY <1>1, <1>2, <1>3 DEF Informed

\* A step of a call, after which it has no exchange, passes by the others.
LEMMA CallMoves ==
  ASSUME TypeOK, Places, SyncInv, NEW c \in Callers, ~Live(c)',
         \A d \in Callers \ {c} : PassedBy(d),
         Shaped(c, call'[c]),
         call'[c].calm => CallKnows(call'[c], wire'[c[1]], wire'[call'[c].peer],
                                    atts'[c[1]], atts'[call'[c].peer])
  PROVE  \A d \in Callers : Informed(d)'
<1>1. Informed(c)'
  BY RecordInformed
<1>2. ASSUME NEW d \in Callers, d # c PROVE Informed(d)'
  <2>1. PassedBy(d)
    BY <1>2
  <2> QED
    BY <2>1, PassedByKnows DEF SyncInv
<1> QED
  BY <1>1, <1>2

\* A command that is as its call says joins a queue.
LEMMA RoutedGrows ==
  ASSUME TypeOK, Routed, NEW s \in PeerIds, NEW cmd \in Commands, Enqueue(s, cmd),
         \A d \in Callers : call'[d].stage = call[d].stage /\ call'[d].peer = call[d].peer,
         cmd.c \in Callers => cmd.kind = call'[cmd.c].stage /\ cmd.peer = call'[cmd.c].peer
  PROVE  Routed'
<1>1. /\ sw'[s].queue = Append(sw[s].queue, cmd) /\ \A t \in PeerIds : t # s => sw'[t] = sw[t]
      /\ sw[s].queue \in Seq(Commands)
  BY EnqueueTypes, SwarmParts
<1>2. sw'[s].peers = sw[s].peers
  BY DEF Enqueue, TypeOK, Swarms
<1>3. ASSUME NEW t \in PeerIds, NEW j \in 1..Len(sw'[t].queue), sw'[t].queue[j].c \in Callers
      PROVE  /\ sw'[t].queue[j].kind = call'[sw'[t].queue[j].c].stage
             /\ sw'[t].queue[j].peer = call'[sw'[t].queue[j].c].peer
  <2>1. CASE t = s /\ j = Len(sw[s].queue) + 1
    <3>1. sw'[t].queue[j] = cmd
      BY <1>1, <2>1
    <3> QED
      BY <1>3, <3>1
  <2>2. CASE ~(t = s /\ j = Len(sw[s].queue) + 1)
    <3>1. j \in 1..Len(sw[t].queue) /\ sw'[t].queue[j] = sw[t].queue[j]
      BY <1>1, <1>3, <2>2
    <3> QED
      BY <1>3, <3>1 DEF Routed
  <2> QED
    BY <2>1, <2>2
<1>4. \A t \in PeerIds : sw'[t].peers = sw[t].peers
  BY <1>1, <1>2
<1> QED
  BY <1>3, <1>4 DEF Routed

\* The steps of a sync call: what it starts, asks and sends, on either route.
LEMMA CallSync ==
  ASSUME TypeOK, Controlled, Places, SyncInv, NEW c \in Callers, Sync(c)
  PROVE  SyncInv'
<1> DEFINE n == c[1]  m == call[c].peer  cl == call[c]  new == call'[c]
<1>1. /\ cl \in SyncCalls /\ c[1] \in Nodes /\ m \in Nodes /\ call \in [Callers -> SyncCalls]
      /\ wire \in [Nodes -> Stores] /\ atts \in [Nodes -> BlobStores] /\ IdleCall(c) \in SyncCalls
  BY MeshAssumption, IdleCalls DEF TypeOK, SyncCalls
<1>2. UNCHANGED <<ctx, reqs, resps, ids>> /\ cl.pc # "wait"
  BY DEF Sync, SyncByPeerId, SendCommand, SyncByWireBase, Ask, Import, PushBatch, SyncCompleted
<1>3. ~Live(c) /\ ~Live(c)' /\ Queued(c) = {}
  BY <1>2 DEF Places, Served, Live
<1>4. Shaped(c, cl) /\ Knows(c)
  BY DEF SyncInv, Informed
<1>5. ASSUME UNCHANGED <<wire, atts>>, \A d \in Callers \ {c} : call'[d] = call[d],
             Shaped(c, new),
             new.calm => CallKnows(new, wire[n], wire[new.peer], atts[n], atts[new.peer])
      PROVE  \A d \in Callers : Informed(d)'
  <2>1. \A d \in Callers \ {c} : PassedBy(d)
    BY <1>2, <1>5 DEF PassedBy
  <2> QED
    BY <1>3, <1>5, <2>1, CallMoves
<1>6. ASSUME NEW w \in Nodes, \A e \in Nodes : e # w => wire'[e] = wire[e] /\ atts'[e] = atts[e],
             \A d \in Callers \ {c} : call'[d] = Disturbed(w, c)[d],
             Shaped(c, new),
             new.calm => CallKnows(new, wire'[n], wire'[new.peer], atts'[n], atts'[new.peer])
      PROVE  \A d \in Callers : Informed(d)'
  <2>1. \A d \in Callers \ {c} : PassedBy(d)
    BY <1>2, <1>6, WritePassesBy
  <2> QED
    BY <1>3, <1>6, <2>1, CallMoves
<1>7. ASSUME UNCHANGED sw,
             \A d \in Callers \ {c} : call'[d].stage = call[d].stage /\ call'[d].peer = call[d].peer
      PROVE  Routed'
  BY <1>3, <1>7, RoutedKept DEF SyncInv
<1>8. CASE SyncByPeerId(c)
  <2>1. PICK p \in Nodes \ {c[1]} :
          call' = [call EXCEPT ![c] = [IdleCall(c) EXCEPT !.gen = p2p[c[1]], !.peer = p,
                                         !.pc = IF p2p[c[1]] = 0 THEN "emit" ELSE "ask"]]
    BY <1>8 DEF SyncByPeerId
  <2>2. /\ new.pc \in {"emit", "ask"} /\ new.stage = "batch" /\ new.via = "none" /\ ~new.sent
        /\ new.peer = p /\ \A d \in Callers \ {c} : call'[d] = call[d]
    BY <1>1, <2>1 DEF IdleCall
  <2>3. Shaped(c, new)
    BY <2>2 DEF Shaped, HttpPulls
  <2>4. \A wn, wm, an, am : CallKnows(new, wn, wm, an, am)
    BY <2>2 DEF CallKnows
  <2>5. UNCHANGED <<wire, atts, sw>>
    BY <1>8 DEF SyncByPeerId, stores
  <2> QED
    BY <1>5, <1>7, <2>2, <2>3, <2>4, <2>5 DEF SyncInv
<1>9. CASE SyncByWireBase(c)
  <2>1. PICK p \in Nodes \ {c[1]} :
          call' = [call EXCEPT ![c] = [IdleCall(c) EXCEPT !.pc = "httpExport", !.peer = p]]
    BY <1>9 DEF SyncByWireBase
  <2>2. /\ new.pc = "httpExport" /\ new.via = "none" /\ ~new.sent
        /\ new.peer = p /\ \A d \in Callers \ {c} : call'[d] = call[d]
    BY <1>1, <2>1 DEF IdleCall
  <2>3. Shaped(c, new)
    BY <2>2 DEF Shaped, HttpPulls
  <2>4. \A wn, wm, an, am : CallKnows(new, wn, wm, an, am)
    BY <2>2 DEF CallKnows
  <2>5. UNCHANGED <<wire, atts, sw>>
    BY <1>9 DEF SyncByWireBase, stores
  <2> QED
    BY <1>5, <1>7, <2>2, <2>3, <2>4, <2>5 DEF SyncInv
<1>10. CASE SyncCompleted(c)
  <2>1. /\ new.pc = "idle" /\ ~new.sent /\ \A d \in Callers \ {c} : call'[d] = call[d]
    BY <1>1, <1>10 DEF SyncCompleted, IdleCall
  <2>2. Shaped(c, new)
    BY <2>1 DEF Shaped, HttpPulls
  <2>3. \A wn, wm, an, am : CallKnows(new, wn, wm, an, am)
    BY <2>1 DEF CallKnows
  <2>4. UNCHANGED <<wire, atts, sw>>
    BY <1>10 DEF SyncCompleted, stores
  <2> QED
    BY <1>5, <1>7, <2>1, <2>2, <2>3, <2>4 DEF SyncInv
<1>11. CASE SendCommand(c)
  <2>1. cl.pc = "ask" /\ UNCHANGED <<wire, atts>>
    BY <1>11 DEF SendCommand, stores
  <2>2. CASE call' = [call EXCEPT ![c] = AfterAnswer(@, FALSE)] /\ UNCHANGED sw
    <3>1. new = AfterAnswer(cl, FALSE) /\ \A d \in Callers \ {c} : call'[d] = call[d]
      BY <1>1, <2>2
    <3>2. /\ Shaped(c, new) /\ new.peer = m
          /\ cl.calm => CallKnows(new, wire[n], wire[m], atts[n], atts[m])
          /\ new.calm = cl.calm
      <4> HIDE DEF cl, new
      <4> QED
        BY <1>1, <1>4, <2>1, <3>1, AnsweredKnows DEF cl
    <3> HIDE DEF new
    <3> QED
      BY <1>5, <1>7, <2>1, <2>2, <3>1, <3>2 DEF SyncInv, new
  <2>3. CASE /\ Enqueue(<<c[1], cl.gen>>, [kind |-> cl.stage, c |-> c, peer |-> m])
             /\ call' = [call EXCEPT ![c].pc = "wait"]
    <3> DEFINE s == <<c[1], cl.gen>>  cmd == [kind |-> cl.stage, c |-> c, peer |-> m]
    <3>1. /\ new.pc = "wait" /\ new.via = cl.via /\ new.stage = cl.stage /\ new.peer = m
          /\ new.sent = cl.sent /\ new.calm = cl.calm /\ new.data = cl.data
          /\ \A d \in Callers \ {c} : call'[d] = call[d]
      BY <1>1, <2>3 DEF SyncCalls
    <3>2. Shaped(c, new)
      BY <1>4, <2>1, <3>1 DEF Shaped, HttpPulls
    <3>3. new.calm => CallKnows(new, wire[n], wire[m], atts[n], atts[m])
      BY <1>4, <2>1, <3>1 DEF Knows, CallKnows
    <3>4. \A d \in Callers : Informed(d)'
      BY <1>5, <2>1, <3>1, <3>2, <3>3
    <3>5. s \in PeerIds /\ cmd \in Commands
      BY <1>1, <2>1 DEF Controlled, Commands, SyncCalls
    <3>6. \A d \in Callers : call'[d].stage = call[d].stage /\ call'[d].peer = call[d].peer
      BY <3>1
    <3>7. cmd.kind = call'[c].stage /\ cmd.peer = call'[c].peer /\ cmd.c = c /\ Enqueue(s, cmd)
      BY <2>3, <3>1
    <3> HIDE DEF s, cmd
    <3>8. Routed'
      BY <3>5, <3>6, <3>7, RoutedGrows DEF SyncInv
    <3> QED
      BY <3>4, <3>8 DEF SyncInv
  <2> QED
    BY <1>11, <2>2, <2>3 DEF SendCommand
<1>12. CASE Ask(c)
  <2>1. UNCHANGED <<wire, atts, sw>>
    BY <1>12 DEF Ask, stores
  <2>2. /\ {head.id : head \in CatalogHeads(wire[m])} = Held(wire[m])
        /\ PullNotes(wire[m], Held(wire[m])) = AllSnapshots(wire[m])
        /\ Catalog(m).ids = Held(wire[m])
    BY <1>1, CatalogAndPull DEF Catalog, NoData
  <2>3. ASSUME new.peer = m, new.calm = cl.calm, new.sent = cl.sent,
               \A d \in Callers \ {c} : call'[d] = call[d],
               \/ cl.pc = "httpExport" /\ new.pc = "httpImport" /\ new.via = cl.via
                  /\ new.data = Batch(m)
               \/ new.pc = "httpCatalog" /\ cl.pc = "httpExport" /\ new.via = cl.via
               \/ new.pc = "httpPush" /\ cl.pc = "httpCatalog" /\ new.via = "http_catalog"
                  /\ Catalog(m).ids = {}
               \/ new.pc = "httpPull" /\ cl.pc = "httpCatalog" /\ new.via = cl.via
                  /\ new.data = Catalog(m)
               \/ new.pc = "httpPush" /\ cl.pc \in {"httpCatalog", "httpPull"} /\ new.via = cl.via
               \/ new.pc = "httpNotes" /\ cl.pc = "httpPull" /\ new.via = cl.via
                  /\ new.data.notes = PullNotes(wire[m], cl.data.ids)
        PROVE  SyncInv'
    <3>1. Shaped(c, new)
      BY <1>4, <2>3 DEF Shaped, HttpPulls
    <3>2. new.calm => CallKnows(new, wire[n], wire[m], atts[n], atts[m])
      BY <1>4, <2>2, <2>3 DEF Knows, CallKnows, Batch, Shaped, HttpPulls, Covers
    <3>3. \A d \in Callers : Informed(d)'
      BY <1>5, <2>1, <2>3, <3>1, <3>2
    <3> QED
      BY <1>7, <2>1, <2>3, <3>3 DEF SyncInv
  <2>4. ASSUME NEW next, NEW data, Goes(c, next, data)
        PROVE  /\ new.peer = m /\ new.calm = cl.calm /\ new.sent = cl.sent /\ new.via = cl.via
               /\ new.pc = next /\ new.data = data
               /\ \A d \in Callers \ {c} : call'[d] = call[d]
    BY <1>1, <2>4 DEF Goes, SyncCalls
  <2>5. CASE cl.pc = "httpExport" /\ (Goes(c, "httpImport", Batch(m)) \/ Goes(c, "httpCatalog", NoData))
    BY <2>3, <2>4, <2>5
  <2>6. CASE /\ cl.pc = "httpCatalog" /\ Catalog(m).ids = {}
             /\ call' = [call EXCEPT ![c].pc = "httpPush", ![c].via = "http_catalog"]
    <3>1. /\ new.peer = m /\ new.calm = cl.calm /\ new.sent = cl.sent
          /\ new.via = "http_catalog" /\ new.pc = "httpPush"
          /\ \A d \in Callers \ {c} : call'[d] = call[d]
      BY <1>1, <2>6 DEF SyncCalls
    <3> QED
      BY <2>3, <2>6, <3>1
  <2>7. CASE /\ cl.pc = "httpCatalog"
             /\ Goes(c, "httpPull", Catalog(m)) \/ Goes(c, "httpPush", NoData)
    BY <2>3, <2>4, <2>7
  <2>8. CASE /\ cl.pc = "httpPull"
             /\ \/ Goes(c, "httpNotes", [NoData EXCEPT !.notes = PullNotes(wire[m], cl.data.ids)])
                \/ Goes(c, "httpPush", NoData)
    <3>1. [NoData EXCEPT !.notes = PullNotes(wire[m], cl.data.ids)].notes
            = PullNotes(wire[m], cl.data.ids)
      BY DEF NoData
    <3> QED
      BY <2>3, <2>4, <2>8, <3>1
  <2> QED
    BY <1>12, <2>5, <2>6, <2>7, <2>8 DEF Ask
<1>13. CASE Import(c)
  <2>1. cl.pc \in {"httpImport", "httpNotes"} /\ n # m /\ ~cl.sent /\ UNCHANGED sw
    BY <1>4, <1>13 DEF Import, Shaped
  <2>2. /\ \A e \in Nodes : e # n => wire'[e] = wire[e] /\ atts'[e] = atts[e]
        /\ cl.pc = "httpImport" => /\ wire'[n] = ImportBatchNotes(cl.data, wire[n])
                                   /\ atts'[n] = ImportBatchBlobs(cl.data, atts[n])
        /\ cl.pc = "httpNotes" => wire'[n] = ImportSnapshots(wire[n], cl.data.notes)
    BY <1>1, <1>13 DEF Import, StoreBatch, StoreNotes, StoreBlobs
  <2>3. Disturbed(n, c)[c] = cl
    BY DEF Disturbed
  <2>4. /\ new.pc \in {"httpPush", "httpCatalog"} /\ new.peer = m /\ new.calm = cl.calm /\ ~new.sent
        /\ new.via \in {"http_catalog", "http_batch", "none"}
        /\ cl.pc = "httpNotes" => new.pc = "httpPush" /\ new.via = "http_catalog"
        /\ new.pc = "httpCatalog" => new.via = "none"
        /\ \A d \in Callers \ {c} : call'[d] = Disturbed(n, c)[d]
    BY <1>1, <1>13, <2>1, <2>3, DisturbedCalls DEF Import, SyncCalls
  <2>5. ASSUME new.calm
        PROVE  /\ Covers(wire'[n], wire'[m])
               /\ cl.pc = "httpImport" => CoversBlobs(atts'[n], atts'[m])
    <3>1. /\ cl.pc = "httpImport" => cl.data = ExportBatch(wire[m], atts[m])
          /\ cl.pc = "httpNotes" => cl.data.notes = AllSnapshots(wire[m])
      BY <1>4, <2>4, <2>5 DEF Knows, CallKnows
    <3>2. wire'[m] = wire[m] /\ atts'[m] = atts[m] /\ wire[n] \in Stores /\ wire[m] \in Stores
          /\ atts[n] \in BlobStores /\ atts[m] \in BlobStores
      BY <1>1, <2>1, <2>2
    <3> QED
      BY <2>1, <2>2, <3>1, <3>2, ImportCovers
  <2>6. Shaped(c, new)
    BY <2>1, <2>4 DEF Shaped, HttpPulls
  <2>7. new.calm => CallKnows(new, wire'[n], wire'[m], atts'[n], atts'[m])
    BY <2>1, <2>4, <2>5 DEF CallKnows
  <2>8. \A d \in Callers : Informed(d)'
    BY <1>1, <1>6, <2>2, <2>4, <2>6, <2>7
  <2>9. Routed'
    BY <1>7, <2>1, <2>4, DisturbedCalls
  <2> QED
    BY <2>8, <2>9 DEF SyncInv
<1>14. CASE PushBatch(c)
  <2>1. UNCHANGED sw /\ cl.pc \in {"httpPush", "httpAck"} /\ n # m /\ ~cl.sent
        /\ cl.via \in {"none", "http_catalog", "http_batch"}
    BY <1>4, <1>14 DEF PushBatch, Shaped
  <2>2. CASE /\ cl.pc = "httpPush" /\ Goes(c, "httpAck", Batch(n)) /\ UNCHANGED stores
    <3>1. /\ new.pc = "httpAck" /\ new.peer = m /\ new.calm = cl.calm /\ new.sent = cl.sent
          /\ new.via = cl.via /\ new.data = Batch(n) /\ \A d \in Callers \ {c} : call'[d] = call[d]
      BY <1>1, <2>2 DEF Goes, SyncCalls
    <3>2. Shaped(c, new)
      BY <2>1, <3>1 DEF Shaped, HttpPulls
    <3>3. new.calm => CallKnows(new, wire[n], wire[m], atts[n], atts[m])
      BY <1>4, <2>2, <3>1 DEF Knows, CallKnows, Batch
    <3> QED
      BY <1>5, <1>7, <2>1, <2>2, <3>1, <3>2, <3>3 DEF SyncInv, stores
  <2>3. CASE /\ cl.pc = "httpAck" /\ Goes(c, "emit", NoData) /\ UNCHANGED stores
    <3>1. /\ new.pc = "emit" /\ new.peer = m /\ new.calm = cl.calm /\ ~new.sent
          /\ \A d \in Callers \ {c} : call'[d] = call[d]
      BY <1>1, <2>1, <2>3 DEF Goes, SyncCalls
    <3>2. Shaped(c, new)
      BY <2>1, <3>1 DEF Shaped, HttpPulls
    <3>3. new.calm => CallKnows(new, wire[n], wire[m], atts[n], atts[m])
      BY <3>1 DEF CallKnows
    <3> QED
      BY <1>5, <1>7, <2>1, <2>3, <3>1, <3>2, <3>3 DEF SyncInv, stores
  <2>4. CASE /\ cl.pc = "httpAck" /\ StoreBatch(m, cl.data)
             /\ \/ call' = [Disturbed(m, c) EXCEPT ![c].pc = "emit", ![c].sent = TRUE,
                                                   ![c].data = NoData]
                \/ call' = [Disturbed(m, c) EXCEPT ![c].pc = "emit", ![c].data = NoData]
    <3>1. /\ \A e \in Nodes : e # m => wire'[e] = wire[e] /\ atts'[e] = atts[e]
          /\ wire'[m] = ImportBatchNotes(cl.data, wire[m])
          /\ atts'[m] = ImportBatchBlobs(cl.data, atts[m])
      BY <1>1, <2>4 DEF StoreBatch, StoreNotes, StoreBlobs
    <3>2. Disturbed(m, c)[c] = cl
      BY DEF Disturbed
    <3>3. /\ new.pc = "emit" /\ new.peer = m /\ new.calm = cl.calm /\ new.via = cl.via
          /\ \A d \in Callers \ {c} : call'[d] = Disturbed(m, c)[d]
      BY <1>1, <2>4, <3>2, DisturbedCalls DEF SyncCalls
    <3>4. ASSUME new.calm PROVE Equal(new, wire'[n], wire'[m], atts'[n], atts'[m])
      <4>1. /\ cl.data = ExportBatch(wire[n], atts[n])
            /\ cl.via # "none" => Covers(wire[n], wire[m])
            /\ cl.via = "http_batch" => CoversBlobs(atts[n], atts[m])
        BY <1>4, <2>4, <3>3, <3>4 DEF Knows, CallKnows
      <4>2. wire'[n] = wire[n] /\ atts'[n] = atts[n] /\ wire[n] \in Stores /\ wire[m] \in Stores
            /\ atts[n] \in BlobStores /\ atts[m] \in BlobStores
        BY <1>1, <2>1, <3>1
      <4>3. /\ cl.via # "none" => wire'[m] = wire[n]
            /\ cl.via = "http_batch" => Carried(atts'[m]) = Carried(atts[n])
        BY <3>1, <4>1, <4>2, ImportEquals
      <4> QED
        BY <2>1, <3>3, <4>2, <4>3 DEF Equal
    <3>5. Shaped(c, new)
      BY <2>1, <3>3 DEF Shaped, HttpPulls
    <3>6. new.calm => CallKnows(new, wire'[n], wire'[m], atts'[n], atts'[m])
      BY <3>3, <3>4 DEF CallKnows
    <3>7. \A d \in Callers : Informed(d)'
      BY <1>1, <1>6, <3>1, <3>3, <3>5, <3>6
    <3>8. Routed'
      BY <1>7, <2>1, <3>3, DisturbedCalls
    <3> QED
      BY <3>7, <3>8 DEF SyncInv
  <2> QED
    BY <1>14, <2>2, <2>3, <2>4 DEF PushBatch
<1> QED
  BY <1>8, <1>9, <1>10, <1>11, <1>12, <1>13, <1>14 DEF Sync

\* Commands that stay in a queue fit calls that stay in their stage.
LEMMA RoutedShrinks ==
  ASSUME TypeOK, Routed,
         \A s \in PeerIds, m \in Nodes : sw'[s].peers[m] # NoPeer => sw'[s].peers[m][1] = m,
         \A s \in PeerIds : \A j \in 1..Len(sw'[s].queue) :
           \E i \in 1..Len(sw[s].queue) : sw'[s].queue[j] = sw[s].queue[i],
         \A d \in Callers : Queued(d)' # {} =>
           call'[d].stage = call[d].stage /\ call'[d].peer = call[d].peer
  PROVE  Routed'
<1>1. ASSUME NEW s \in PeerIds, NEW j \in 1..Len(sw'[s].queue),
             NEW d \in Callers, sw'[s].queue[j].c = d
      PROVE  sw'[s].queue[j].kind = call'[d].stage /\ sw'[s].queue[j].peer = call'[d].peer
  <2>1. s \in Queued(d)'
    BY <1>1 DEF Queued
  <2>2. PICK i \in 1..Len(sw[s].queue) : sw'[s].queue[j] = sw[s].queue[i]
    OBVIOUS
  <2>3. sw[s].queue[i].kind = call[d].stage /\ sw[s].queue[i].peer = call[d].peer
    BY <1>1, <2>2 DEF Routed
  <2> QED
    BY <2>1, <2>2, <2>3
<1> QED
  BY <1>1 DEF Routed

\* A request sent for c tells what its exchange has reached; the others are passed by.
LEMMA SendInformed ==
  ASSUME TypeOK, Places, Matched, SyncInv,
         NEW c \in Callers, NEW s \in PeerIds, NEW to \in PeerIds, NEW op, NEW data, NEW step, NEW rest,
         Send(s, c, to, op, data, step, rest), \A q \in resps' : q.c # c,
         call'[c] = call[c], StageOf(step) = call[c].stage, to[1] = call[c].peer,
         [step |-> step, swarm |-> s, to |-> to, rest |-> rest] # NoCtx,
         \A d \in Callers \ {c} : PassedBy(d),
         call[c].calm =>
           /\ CallKnows(call[c], wire'[c[1]], wire'[call[c].peer], atts'[c[1]], atts'[call[c].peer])
           /\ step = "push" => rest \subseteq AllSnapshots(wire'[c[1]])
           /\ \A x, r : x.rest = rest /\ r.op = op /\ r.data = data =>
                AskedKnows(x, r, wire'[c[1]], wire'[call[c].peer], atts'[c[1]], atts'[call[c].peer])
  PROVE  \A d \in Callers : Informed(d)'
<1>1. /\ ctx'[c] = [step |-> step, swarm |-> s, to |-> to, rest |-> rest] /\ Live(c)'
      /\ ids[c] \in Nat /\ ids'[c] = ids[c] + 1
  BY DEF Send, TypeOK, Live
<1>2. \A r \in reqs : r.c = c => r.k \in Nat /\ r.k <= ids[c]
  BY DEF Matched, TypeOK, Requests
<1>3. ASSUME NEW r \in Asked(c)'
      PROVE  r = [c |-> c, k |-> ids[c] + 1, to |-> to, op |-> op, data |-> data]
  <2>1. r \in reqs' /\ r.c = c /\ r.k = ids[c] + 1
    BY <1>1 DEF Asked
  <2>2. r \notin reqs
    BY <1>1, <1>2, <2>1
  <2> QED
    BY <2>1, <2>2 DEF Send
<1>4. Answers(c)' = {}
  BY DEF Answers
<1>5. Informed(c)'
  <2>1. Shaped(c, call[c])'
    BY DEF SyncInv, Informed, Shaped
  <2>2. Addressed(c)'
    BY <1>1, <1>3 DEF Addressed
  <2>3. Knows(c)'
    BY <1>1, <1>3, <1>4 DEF Knows
  <2> QED
    BY <2>1, <2>2, <2>3 DEF Informed
<1>6. ASSUME NEW d \in Callers, d # c PROVE Informed(d)'
  <2>1. PassedBy(d)
    BY <1>6
  <2> QED
    BY <2>1, PassedByKnows DEF SyncInv
<1> QED
  BY <1>5, <1>6

\* A swarm takes a command: it answers it, or asks the peer the call names.
LEMMA CommandSync ==
  ASSUME TypeOK, Controlled, Places, Matched, SyncInv, NEW s \in PeerIds, RunCommand(s)
  PROVE  SyncInv'
<1> DEFINE cmd == Head(sw[s].queue)
           to == sw[s].peers[cmd.peer]
           mine == AllSnapshots(wire[s[1]])
<1>1. /\ sw[s].queue # <<>> /\ sw' = Dequeued(s) /\ UNCHANGED <<resps, wire, atts>>
      /\ cmd.kind # "stop"
  BY DEF RunCommand, stores
<1>2. sw[s].queue \in Seq(Commands) /\ cmd \in Commands
  BY <1>1, SwarmParts, DequeueTypes
<1>3. PICK c : c = cmd.c
  OBVIOUS
<1>4. 1 \in 1..Len(sw[s].queue) /\ sw[s].queue[1] = cmd
  BY <1>1, <1>2
<1>5. c \in Callers /\ cmd.kind = call[c].stage /\ cmd.peer = call[c].peer
  BY <1>1, <1>3, <1>4 DEF Controlled, SyncInv, Routed
<1>6. /\ s \in Queued(c) /\ call[c].pc = "wait" /\ s[1] = c[1] /\ ~Live(c)
      /\ Queued(c)' = {} /\ \A d \in Callers \ {c} : Queued(d)' = Queued(d)
  <2>1. /\ s \in Queued(c) /\ Queued(c)' = Queued(c) \ {s}
        /\ \A d \in Callers \ {c} : Queued(d)' = Queued(d)
    BY <1>1, <1>3, <1>5, OutOfQueue DEF Places
  <2>2. Served(c)
    BY <1>5 DEF Places
  <2>3. call[c].pc = "wait" /\ s = <<c[1], call[c].gen>> /\ Queued(c) = {s} /\ ~Live(c)
    BY <2>1, <2>2 DEF Served
  <2> QED
    BY <2>1, <2>3
<1>7. \A q \in resps' : q.c # c
  BY <1>1, <1>6 DEF Matched, ResponsesFit, Awaited
<1>8. to \in PeerIds \cup {NoPeer} /\ (to # NoPeer => to[1] = call[c].peer)
  <2>1. cmd.peer \in Nodes
    BY <1>2 DEF Commands
  <2> QED
    BY <1>5, <2>1, SwarmParts DEF SyncInv, Routed
<1>9. /\ call[c] \in SyncCalls /\ c[1] \in Nodes /\ call[c].peer \in Nodes
      /\ wire[c[1]] \in Stores /\ wire[call[c].peer] \in Stores /\ Shaped(c, call[c]) /\ Knows(c)
  BY <1>5, MeshAssumption DEF TypeOK, SyncCalls, SyncInv, Informed
<1>10. \/ /\ to = NoPeer \/ (cmd.kind = "push" /\ mine = {})
          /\ call' = [call EXCEPT ![c] = AfterAnswer(@, to # NoPeer)] /\ UNCHANGED <<ctx, reqs, ids>>
       \/ /\ cmd.kind = "batch" /\ to # NoPeer /\ UNCHANGED call
          /\ Send(s, c, to, "get_batch", NoData, "batch", {})
       \/ /\ cmd.kind = "pull" /\ to # NoPeer /\ UNCHANGED call
          /\ Send(s, c, to, "get_catalog", NoData, "catalog", {})
       \/ /\ cmd.kind = "push" /\ to # NoPeer /\ UNCHANGED call
          /\ \E first \in mine : Send(s, c, to, "push", Push(first), "push", mine \ {first})
  BY <1>3 DEF RunCommand
<1>11. \A d \in Callers \ {c} : call'[d] = call[d]
  BY <1>5, <1>10 DEF TypeOK
<1>12. Routed'
  <2>1. sw'[s].queue = Tail(sw[s].queue) /\ \A t \in PeerIds : t # s => sw'[t] = sw[t]
    BY <1>1, DequeueTypes
  <2>2. sw'[s].peers = sw[s].peers
    BY <1>1 DEF Dequeued, TypeOK, Swarms
  <2>3. ASSUME NEW t \in PeerIds, NEW j \in 1..Len(sw'[t].queue)
        PROVE  \E i \in 1..Len(sw[t].queue) : sw'[t].queue[j] = sw[t].queue[i]
    <3>1. CASE t = s
      <4>1. /\ Len(sw'[s].queue) = Len(sw[s].queue) - 1 /\ Len(sw[s].queue) \in Nat
            /\ \A i \in 1..(Len(sw[s].queue) - 1) : sw'[s].queue[i] = sw[s].queue[i + 1]
        BY <1>1, <1>2, <2>1
      <4>2. j + 1 \in 1..Len(sw[s].queue) /\ sw'[s].queue[j] = sw[s].queue[j + 1]
        BY <2>3, <3>1, <4>1
      <4> QED
        BY <3>1, <4>2
    <3>2. CASE t # s
      BY <2>1, <2>3, <3>2
    <3> QED
      BY <3>1, <3>2
  <2>4. \A t \in PeerIds : sw'[t].peers = sw[t].peers
    BY <2>1, <2>2
  <2>5. \A d \in Callers : Queued(d)' # {} =>
          call'[d].stage = call[d].stage /\ call'[d].peer = call[d].peer
    BY <1>6, <1>11
  <2>6. \A t \in PeerIds, m \in Nodes : sw'[t].peers[m] # NoPeer => sw'[t].peers[m][1] = m
    BY <2>4 DEF SyncInv, Routed
  <2> QED
    BY <2>3, <2>5, <2>6, RoutedShrinks DEF SyncInv
<1>13. ASSUME UNCHANGED <<call, wire, atts, resps>>, NEW op, NEW data, NEW step, NEW rest,
              Send(s, c, to, op, data, step, rest)
       PROVE  \A d \in Callers \ {c} : PassedBy(d)
  <2>1. \A d \in Callers \ {c} : ctx'[d] = ctx[d] /\ ids'[d] = ids[d]
    BY <1>5, <1>13 DEF Send, TypeOK
  <2>2. \A d \in Callers \ {c} : \A r \in reqs' : r.c = d => r \in reqs
    BY <1>13 DEF Send
  <2> QED
    BY <1>13, <2>1, <2>2 DEF PassedBy
<1>14. CASE /\ to = NoPeer \/ (cmd.kind = "push" /\ mine = {})
            /\ call' = [call EXCEPT ![c] = AfterAnswer(@, to # NoPeer)]
            /\ UNCHANGED <<ctx, reqs, ids>>
  <2>1. \A d \in Callers \ {c} : PassedBy(d)
    BY <1>1, <1>11, <1>14 DEF PassedBy
  <2>2. call'[c] = AfterAnswer(call[c], to # NoPeer) /\ ~Live(c)'
    BY <1>5, <1>6, <1>14 DEF TypeOK, Live
  <2>3. ASSUME to # NoPeer, call[c].calm, call[c].via # "none"
        PROVE  wire[c[1]] = wire[call[c].peer]
    <3>1. call[c].stage = "push" /\ AllSnapshots(wire[c[1]]) = {}
      BY <1>5, <1>6, <1>14, <2>3
    <3>2. Covers(wire[c[1]], wire[call[c].peer])
      BY <1>6, <1>9, <2>3, <3>1 DEF Knows, CallKnows
    <3> QED
      BY <1>9, <3>1, <3>2, PushesCover
  <2>4. to # NoPeer => call[c].stage = "push"
    BY <1>5, <1>14
  <2>5. PICK ok \in BOOLEAN : ok = (to # NoPeer)
    OBVIOUS
  <2> HIDE DEF to, mine, cmd
  <2>6. /\ Shaped(c, call'[c]) /\ call'[c].peer = call[c].peer /\ call'[c].calm = call[c].calm
        /\ call[c].calm => CallKnows(call'[c], wire[c[1]], wire[call[c].peer],
                                     atts[c[1]], atts[call[c].peer])
    <3>1. call'[c] = AfterAnswer(call[c], ok)
      BY <2>2, <2>5
    <3>2. ok => call[c].stage = "push"
      BY <2>4, <2>5
    <3>3. ok /\ call[c].calm /\ call[c].via # "none" => wire[c[1]] = wire[call[c].peer]
      BY <2>3, <2>5
    <3>4. call[c].pc \in {"ask", "wait"} /\ call[c] \in SyncCalls /\ Shaped(c, call[c])
      BY <1>6, <1>9
    <3>5. /\ Shaped(c, AfterAnswer(call[c], ok))
          /\ AfterAnswer(call[c], ok).peer = call[c].peer
          /\ AfterAnswer(call[c], ok).calm = call[c].calm
          /\ call[c].calm => CallKnows(AfterAnswer(call[c], ok), wire[c[1]], wire[call[c].peer],
                                       atts[c[1]], atts[call[c].peer])
      BY <1>5, <3>2, <3>3, <3>4, AnsweredKnows
    <3> QED
      BY <3>1, <3>5
  <2>7. \A d \in Callers : Informed(d)'
    BY <1>1, <1>5, <2>1, <2>2, <2>6, CallMoves
  <2> QED
    BY <1>12, <2>7 DEF SyncInv
<1>15. ASSUME NEW op, NEW data, NEW step \in Steps, NEW rest \in SUBSET Snapshots,
              UNCHANGED call, to # NoPeer,
              Send(s, c, to, op, data, step, rest), StageOf(step) = call[c].stage,
              call[c].calm =>
                /\ step = "push" => rest \subseteq AllSnapshots(wire[c[1]])
                /\ \A x, r : x.rest = rest /\ r.op = op /\ r.data = data =>
                     AskedKnows(x, r, wire[c[1]], wire[call[c].peer], atts[c[1]], atts[call[c].peer])
       PROVE  SyncInv'
  <2>1. \A d \in Callers \ {c} : PassedBy(d)
    BY <1>1, <1>13, <1>15
  <2>2. to \in PeerIds /\ to[1] = call[c].peer
    BY <1>8, <1>15
  <2>3. [step |-> step, swarm |-> s, to |-> to, rest |-> rest] # NoCtx
    BY <1>15, <2>2, ContextAssumption DEF Contexts
  <2>4. call[c].calm => CallKnows(call[c], wire[c[1]], wire[call[c].peer],
                                  atts[c[1]], atts[call[c].peer])
    BY <1>9 DEF Knows
  <2> HIDE DEF to, mine, cmd
  <2>5. \A d \in Callers : Informed(d)'
    BY <1>1, <1>5, <1>7, <1>15, <2>1, <2>2, <2>3, <2>4, SendInformed
  <2> QED
    BY <1>12, <2>5 DEF SyncInv
<1>16. CASE /\ cmd.kind = "batch" /\ to # NoPeer /\ UNCHANGED call
            /\ Send(s, c, to, "get_batch", NoData, "batch", {})
  <2>1. \A x, r, wn, wm, an, am : r.op = "get_batch" => AskedKnows(x, r, wn, wm, an, am)
    BY DEF AskedKnows
  <2>2. StageOf("batch") = call[c].stage /\ "batch" \in Steps
    BY <1>5, <1>16 DEF StageOf, Steps
  <2> HIDE DEF to, mine, cmd
  <2> QED
    BY <1>15, <1>16, <2>1, <2>2
<1>17. CASE /\ cmd.kind = "pull" /\ to # NoPeer /\ UNCHANGED call
            /\ Send(s, c, to, "get_catalog", NoData, "catalog", {})
  <2>1. \A x, r, wn, wm, an, am : r.op = "get_catalog" => AskedKnows(x, r, wn, wm, an, am)
    BY DEF AskedKnows
  <2>2. StageOf("catalog") = call[c].stage /\ "catalog" \in Steps
    BY <1>5, <1>17 DEF StageOf, Steps
  <2> HIDE DEF to, mine, cmd
  <2> QED
    BY <1>15, <1>17, <2>1, <2>2
<1>18. CASE /\ cmd.kind = "push" /\ to # NoPeer /\ UNCHANGED call
            /\ \E first \in mine : Send(s, c, to, "push", Push(first), "push", mine \ {first})
  <2>1. PICK first \in mine : Send(s, c, to, "push", Push(first), "push", mine \ {first})
    BY <1>18
  <2>2. first \in AllSnapshots(wire[c[1]]) /\ mine = AllSnapshots(wire[c[1]])
    BY <1>6
  <2> HIDE DEF to, mine, cmd
  <2>3. (mine \ {first}) \cup {first} = AllSnapshots(wire[c[1]])
    BY <2>2
  <2>4. ASSUME NEW x, NEW r, x.rest = mine \ {first}, r.op = "push", r.data = Push(first)
        PROVE  AskedKnows(x, r, wire[c[1]], wire[call[c].peer], atts[c[1]], atts[call[c].peer])
    <3>1. AllBut(AllSnapshots(wire[c[1]]), wire[c[1]], wire[call[c].peer])
      BY <1>9, PushesCover
    <3> QED
      BY <2>2, <2>3, <2>4, <3>1 DEF AskedKnows
  <2>5. StageOf("push") = call[c].stage /\ "push" \in Steps /\ mine \ {first} \in SUBSET Snapshots
    BY <1>5, <1>9, <1>18, <2>2, StoreTypes DEF StageOf, Steps
  <2>6. mine \ {first} \subseteq AllSnapshots(wire[c[1]])
    BY <2>2
  <2> QED
    BY <1>15, <1>18, <2>1, <2>4, <2>5, <2>6
<1> QED
  BY <1>10, <1>14, <1>16, <1>17, <1>18

\* A swarm that ends fails the calls it held, and no command of theirs is left.
LEMMA EndSync ==
  ASSUME TypeOK, Controlled, Places, Matched, SyncInv, NEW s \in PeerIds, SwarmEnd(s)
  PROVE  SyncInv'
<1>1. ASSUME NEW d \in Callers, d \in Waiting(s) PROVE Informed(d)'
  <2>1. call[d].pc = "wait" /\ call[d] \in SyncCalls /\ Shaped(d, call[d])
    BY <1>1 DEF Waiting, TypeOK, SyncInv, Informed
  <2>2. call'[d] = AfterAnswer(call[d], FALSE) /\ ~Live(d)'
    BY <1>1 DEF SwarmEnd, Live
  <2>3. \A wn, wm, an, am :
          /\ Shaped(d, AfterAnswer(call[d], FALSE))
          /\ AfterAnswer(call[d], FALSE).calm = call[d].calm
          /\ call[d].calm => CallKnows(AfterAnswer(call[d], FALSE), wn, wm, an, am)
    BY <2>1, AnsweredKnows
  <2> QED
    BY <2>2, <2>3, RecordInformed
<1>2. ASSUME NEW d \in Callers, d \notin Waiting(s) PROVE Informed(d)'
  <2>1. PassedBy(d)
    BY <1>2 DEF SwarmEnd, PassedBy, stores
  <2> QED
    BY <2>1, PassedByKnows DEF SyncInv
<1>3. /\ sw'[s].queue = <<>> /\ \A t \in PeerIds : t # s => sw'[t] = sw[t]
      /\ \A m \in Nodes : sw'[s].peers[m] = NoPeer
  BY DEF SwarmEnd, NoSwarm, TypeOK
<1>4. ASSUME NEW d \in Callers, Queued(d)' # {} PROVE d \notin Waiting(s)
  <2>1. PICK t \in PeerIds : \E j \in 1..Len(sw'[t].queue) : sw'[t].queue[j].c = d
    BY <1>4 DEF Queued
  <2>2. t # s /\ t \in Queued(d)
    BY <1>3, <2>1 DEF Queued
  <2>3. t = <<d[1], call[d].gen>>
    BY <2>2 DEF Places, Served
  <2>4. s = <<s[1], s[2]>>
    BY PeerIdParts
  <2> QED
    BY <2>2, <2>3, <2>4 DEF Waiting
<1>5. \A d \in Callers : Queued(d)' # {} => call'[d] = call[d]
  BY <1>4 DEF SwarmEnd
<1>6. \A t \in PeerIds : \A j \in 1..Len(sw'[t].queue) :
        \E i \in 1..Len(sw[t].queue) : sw'[t].queue[j] = sw[t].queue[i]
  BY <1>3
<1>7. \A t \in PeerIds, m \in Nodes : sw'[t].peers[m] # NoPeer => sw'[t].peers[m][1] = m
  BY <1>3 DEF SyncInv, Routed
<1>8. Routed'
  BY <1>5, <1>6, <1>7, RoutedShrinks DEF SyncInv
<1> QED
  BY <1>1, <1>2, <1>8 DEF SyncInv

\* The other steps of a swarm concern no call.
LEMMA SwarmSync ==
  ASSUME TypeOK, Controlled, Places, Matched, SyncInv, NEW s \in PeerIds,
         Swarm(s) \/ \E t \in PeerIds : Identify(s, t) \/ Expire(s, t)
  PROVE  SyncInv'
<1>1. ASSUME UNCHANGED <<ctx, call, reqs, resps, ids, wire, atts>>
      PROVE  \A d \in Callers : Informed(d)'
  <2>1. \A d \in Callers : PassedBy(d)
    BY <1>1 DEF PassedBy
  <2> QED
    BY <2>1, PassedByKnows DEF SyncInv
<1>2. CASE StopSend(s)
  <2>1. UNCHANGED <<ctx, call, reqs, resps, ids, wire, atts>>
    BY <1>2 DEF StopSend, stores
  <2>2. CASE Enqueue(s, [kind |-> "stop", c |-> NoCaller, peer |-> s[1]])
    <3> DEFINE cmd == [kind |-> "stop", c |-> NoCaller, peer |-> s[1]]
    <3>1. cmd \in Commands /\ cmd.c \notin Callers
      BY PeerIdParts, MeshAssumption DEF Commands
    <3> HIDE DEF cmd
    <3>2. Routed'
      BY <2>1, <2>2, <3>1, RoutedGrows DEF SyncInv, cmd
    <3> QED
      BY <1>1, <2>1, <3>2 DEF SyncInv
  <2>3. CASE UNCHANGED sw
    BY <1>1, <2>1, <2>3, RoutedKept DEF SyncInv
  <2> QED
    BY <1>2, <2>2, <2>3 DEF StopSend
<1>3. ASSUME NEW t \in PeerIds, Identify(s, t) \/ Expire(s, t) PROVE SyncInv'
  <2>1. UNCHANGED <<ctx, call, reqs, resps, ids, wire, atts>>
    BY <1>3 DEF Identify, Expire, stores
  <2>2. PICK p \in {t, NoPeer} : sw' = [sw EXCEPT ![s].peers[t[1]] = p]
    BY <1>3 DEF Identify, Expire
  <2>3. /\ \A u \in PeerIds : sw'[u].queue = sw[u].queue
        /\ \A u \in PeerIds, m \in Nodes :
             sw'[u].peers[m] = sw[u].peers[m] \/ (sw'[u].peers[m] = p /\ m = t[1])
    <3>1. /\ sw[s] \in Swarms /\ sw[s].peers \in [Nodes -> PeerIds \cup {NoPeer}] /\ t[1] \in Nodes
      BY SwarmParts, PeerIdParts
    <3>2. sw'[s] = [sw[s] EXCEPT !.peers = [sw[s].peers EXCEPT ![t[1]] = p]]
      BY <2>2 DEF TypeOK
    <3>3. \A u \in PeerIds : u # s => sw'[u] = sw[u]
      BY <2>2 DEF TypeOK
    <3>4. sw'[s].queue = sw[s].queue /\ sw'[s].peers = [sw[s].peers EXCEPT ![t[1]] = p]
      BY <3>1, <3>2 DEF Swarms
    <3> QED
      BY <3>1, <3>3, <3>4
  <2>4. \A u \in PeerIds, m \in Nodes : sw'[u].peers[m] # NoPeer => sw'[u].peers[m][1] = m
    BY <2>2, <2>3 DEF SyncInv, Routed
  <2>5. \A u \in PeerIds : \A j \in 1..Len(sw'[u].queue) :
          \E i \in 1..Len(sw[u].queue) : sw'[u].queue[j] = sw[u].queue[i]
    BY <2>3
  <2>6. Routed'
    BY <2>1, <2>4, <2>5, RoutedShrinks DEF SyncInv
  <2> QED
    BY <1>1, <2>1, <2>6 DEF SyncInv
<1> QED
  BY <1>2, <1>3, CommandSync, EndSync DEF Swarm

\* A peer serves a request: the response tells what the caller may go on from.
LEMMA ServeSync ==
  ASSUME TypeOK, Controlled, Places, Matched, SyncInv, NEW r \in reqs, Serve(r)
  PROVE  SyncInv'
<1> DEFINE n == r.to[1]  c == r.c  who == IF Awaited(r) THEN c ELSE NoCaller
<1>1. /\ c \in Callers /\ n \in Nodes /\ r.data \in Data /\ r.op \in Ops
      /\ UNCHANGED <<sw, ctx, ids>> /\ reqs' = reqs \ {r}
  BY PeerIdParts DEF TypeOK, Requests, Serve
<1>2. /\ wire \in [Nodes -> Stores] /\ atts \in [Nodes -> BlobStores] /\ call \in [Callers -> SyncCalls]
  BY DEF TypeOK
<1>3. PICK op, data :
        /\ resps' = IF Awaited(r) THEN resps \cup {Reply(r, op, data)} ELSE resps
        /\ \/ /\ r.op = "get_catalog" /\ op = "catalog" /\ data = Catalog(n)
              /\ UNCHANGED <<wire, atts, call>>
           \/ /\ r.op = "pull" /\ op = "notes"
              /\ data = [NoData EXCEPT !.notes = PullNotes(wire[n], r.data.ids)]
              /\ UNCHANGED <<wire, atts, call>>
           \/ /\ r.op = "get_batch" /\ op = "batch" /\ data = Batch(n)
              /\ UNCHANGED <<wire, atts, call>>
           \/ /\ r.op = "push" /\ op = "push_ack"
              /\ StoreNotes(n, ImportSnapshots(wire[n], r.data.notes)) /\ UNCHANGED atts
              /\ call' = Disturbed(n, who)
           \/ /\ r.op = "push_batch" /\ op = "batch_ack"
              /\ StoreBatch(n, r.data)
              /\ call' = Disturbed(n, who)
  BY DEF Serve, stores
<1>4. \A e \in Nodes : e # n => wire'[e] = wire[e] /\ atts'[e] = atts[e]
  BY <1>1, <1>2, <1>3 DEF StoreBatch, StoreNotes, StoreBlobs
<1>5. call' = Disturbed(n, who) \/ UNCHANGED <<call, wire, atts>>
  BY <1>3
<1>6. /\ \A d \in Callers \ {who} : \A q \in resps' : q.c = d => q \in resps
      /\ \A d \in Callers : ctx'[d] = ctx[d] /\ ids'[d] = ids[d]
      /\ \A q \in reqs' : q \in reqs /\ q # r
  BY <1>1, <1>3, MeshAssumption DEF Reply
<1> HIDE DEF who
<1>7. ASSUME NEW d \in Callers, d # who PROVE Informed(d)'
  <2>1. PassedBy(d)
    <3>1. CASE call' = Disturbed(n, who)
      <4> HIDE DEF n
      <4> QED
        BY <1>4, <1>6, <1>7, <3>1, WritePassesBy
    <3>2. CASE UNCHANGED <<call, wire, atts>>
      BY <1>6, <1>7, <3>2 DEF PassedBy
    <3> QED
      BY <1>5, <3>1, <3>2
  <2> QED
    BY <2>1, PassedByKnows DEF SyncInv
<1>8. ASSUME Awaited(r) PROVE Informed(c)'
  <2>1. /\ Live(c) /\ ids[c] = r.k /\ r \in Asked(c) /\ who = c
        /\ Shaped(c, call[c]) /\ Addressed(c) /\ Knows(c)
    BY <1>1, <1>8 DEF Awaited, Asked, SyncInv, Informed, who
  <2>2. call[c].pc = "wait"
    BY <1>1, <2>1 DEF Places, Served
  <2>3. n = call[c].peer /\ n # c[1] /\ call[c].stage = StageOf(ctx[c].step)
    BY <2>1, <2>2 DEF Addressed, Shaped
  <2>4. call'[c] = call[c]
    BY <1>1, <1>5, <2>1 DEF Disturbed
  <2>5. Asked(c)' = {}
    BY <1>1, <1>6, <2>1 DEF Asked, Matched
  <2>6. \A q \in Answers(c)' : q.op = op /\ q.data = data
    <3>1. \A q \in resps : q.c # c
      BY <2>1 DEF Matched, ResponsesFit, Awaited
    <3> QED
      BY <1>3, <1>8, <3>1 DEF Answers, Reply
  <2>7. c[1] \in Nodes /\ wire'[c[1]] = wire[c[1]] /\ atts'[c[1]] = atts[c[1]]
    BY <1>1, <1>4, <2>3, MeshAssumption
  <2>8. ctx'[c] = ctx[c] /\ (Live(c)' <=> Live(c)) /\ ctx[c].step \in Steps
    BY <1>1, <2>1, ContextParts DEF Live, Contexts
  <2> DEFINE wn == wire[c[1]]  wm == wire[n]  an == atts[c[1]]  am == atts[n]
  <2>9. wn \in Stores /\ wm \in Stores /\ an \in BlobStores /\ am \in BlobStores
    BY <1>1, <1>2, <2>7
  <2>10. ASSUME call[c].calm
         PROVE  /\ CallKnows(call[c], wn, wire'[n], an, atts'[n])
                /\ \A q \in Answers(c)' : AnswerKnows(ctx[c], q, wn, wire'[n], an, atts'[n])
    <3>1. CallKnows(call[c], wn, wm, an, am) /\ AskedKnows(ctx[c], r, wn, wm, an, am)
      BY <2>1, <2>3, <2>10 DEF Knows
    <3>2. CASE r.op = "get_catalog" /\ op = "catalog" /\ data = Catalog(n) /\ UNCHANGED <<wire, atts>>
      <4>1. data.ids = Held(wm)
        BY <2>9, <3>2, CatalogAndPull DEF Catalog, NoData
      <4> QED
        BY <2>6, <3>1, <3>2, <4>1 DEF AnswerKnows
    <3>3. CASE /\ r.op = "pull" /\ op = "notes" /\ UNCHANGED <<wire, atts>>
               /\ data = [NoData EXCEPT !.notes = PullNotes(wire[n], r.data.ids)]
      <4>1. data.notes = PullNotes(wm, Held(wm))
        BY <3>1, <3>3 DEF AskedKnows, NoData
      <4>2. data.notes = AllSnapshots(wm)
        BY <2>9, <4>1, CatalogAndPull
      <4> QED
        BY <2>6, <3>1, <3>3, <4>2 DEF AnswerKnows
    <3>4. CASE r.op = "get_batch" /\ op = "batch" /\ data = Batch(n) /\ UNCHANGED <<wire, atts>>
      BY <2>6, <3>1, <3>4 DEF AnswerKnows, Batch
    <3>5. CASE /\ r.op = "push" /\ op = "push_ack" /\ UNCHANGED atts
               /\ StoreNotes(n, ImportSnapshots(wire[n], r.data.notes))
      <4>1. PICK first \in AllSnapshots(wn) :
              r.data = Push(first) /\ AllBut(ctx[c].rest \cup {first}, wn, wm)
        BY <3>1, <3>5 DEF AskedKnows
      <4>2. wire'[n] = ImportSnapshots(wm, Push(first).notes)
        BY <1>1, <1>2, <3>5, <4>1 DEF StoreNotes
      <4> HIDE DEF wn, wm
      <4>3. AllBut(ctx[c].rest, wn, wire'[n]) /\ (Covers(wn, wm) => Covers(wn, wire'[n]))
        <5>1. PICK new, rest : new = ImportSnapshots(wm, Push(first).notes) /\ rest = ctx[c].rest
          OBVIOUS
        <5>2. AllBut(rest, wn, new)
          BY <2>9, <4>1, <5>1, PushesCover
        <5>3. Covers(wn, wm) => Covers(wn, new)
          BY <2>9, <5>1, PushesCover
        <5> QED
          BY <4>2, <5>1, <5>2, <5>3
      <4>4. CallKnows(call[c], wn, wire'[n], an, atts'[n])
        BY <2>2, <3>1, <4>3 DEF CallKnows
      <4> QED
        BY <2>6, <3>5, <4>3, <4>4 DEF AnswerKnows
    <3>6. CASE r.op = "push_batch" /\ op = "batch_ack" /\ StoreBatch(n, r.data)
      <4>1. /\ r.data = ExportBatch(wn, an) /\ Covers(wn, wm) /\ CoversBlobs(an, am)
        BY <3>1, <3>6 DEF AskedKnows
      <4>2. wire'[n] = ImportBatchNotes(r.data, wm) /\ atts'[n] = ImportBatchBlobs(r.data, am)
        BY <1>1, <1>2, <3>6 DEF StoreBatch, StoreNotes, StoreBlobs
      <4>3. call[c].stage = "batch"
        BY <1>8, <2>3, <2>8, <3>6 DEF Matched, ReplyTo, Fitting, StageOf, Steps
      <4> HIDE DEF wn, wm, an, am
      <4>4. wn = wire'[n] /\ Carried(an) = Carried(atts'[n])
        BY <2>9, <4>1, <4>2, ImportEquals
      <4>5. CallKnows(call[c], wn, wire'[n], an, atts'[n])
        BY <2>2, <4>3 DEF CallKnows
      <4> QED
        BY <2>6, <3>6, <4>4, <4>5 DEF AnswerKnows
    <3> QED
      BY <1>3, <3>2, <3>3, <3>4, <3>5, <3>6
  <2>11. Shaped(c, call[c])'
    BY <2>1, <2>4 DEF Shaped
  <2>12. Addressed(c)'
    BY <2>1, <2>4, <2>5, <2>8 DEF Addressed
  <2>13. Knows(c)'
    <3>1. call[c].calm /\ ctx[c].step = "push" => ctx[c].rest \subseteq AllSnapshots(wn)
      BY <2>1 DEF Knows
    <3> QED
      BY <2>3, <2>4, <2>5, <2>7, <2>8, <2>10, <3>1 DEF Knows
  <2> QED
    BY <2>11, <2>12, <2>13 DEF Informed
<1>9. Routed'
  <2>1. \A d \in Callers : call'[d].stage = call[d].stage /\ call'[d].peer = call[d].peer
    BY <1>5, DisturbedCalls
  <2> QED
    BY <1>1, <2>1, RoutedKept DEF SyncInv
<1>10. ASSUME NEW d \in Callers PROVE Informed(d)'
  <2>1. CASE d = who
    BY <1>8, <2>1, <1>10, MeshAssumption DEF who
  <2> QED
    BY <1>7, <2>1
<1> QED
  BY <1>9, <1>10 DEF SyncInv

\* A request that fails ends the exchange and answers the command with an error.
LEMMA FailureSync ==
  ASSUME TypeOK, Controlled, Places, Matched, SyncInv, NEW c \in Callers, OutboundFailure(c)
  PROVE  SyncInv'
<1>1. /\ Live(c) /\ call' = [call EXCEPT ![c] = AfterAnswer(@, FALSE)]
      /\ ctx' = [ctx EXCEPT ![c] = NoCtx] /\ reqs' \subseteq reqs /\ resps' \subseteq resps
      /\ UNCHANGED <<wire, atts, sw, ids>>
  BY DEF OutboundFailure, stores
<1>2. /\ call'[c] = AfterAnswer(call[c], FALSE) /\ ~Live(c)'
      /\ \A d \in Callers \ {c} : call'[d] = call[d] /\ ctx'[d] = ctx[d]
  BY <1>1 DEF TypeOK, Live
<1>3. \A d \in Callers \ {c} : PassedBy(d)
  BY <1>1, <1>2 DEF PassedBy
<1>4. call[c].pc = "wait" /\ call[c] \in SyncCalls /\ Shaped(c, call[c]) /\ Queued(c) = {} /\ Knows(c)
  BY <1>1 DEF Places, Served, TypeOK, SyncInv, Informed
<1>5. \A wn, wm, an, am :
        /\ Shaped(c, AfterAnswer(call[c], FALSE))
        /\ AfterAnswer(call[c], FALSE).calm = call[c].calm
        /\ call[c].calm => CallKnows(AfterAnswer(call[c], FALSE), wn, wm, an, am)
  BY <1>4, AnsweredKnows
<1>6. \A d \in Callers : Informed(d)'
  BY <1>2, <1>3, <1>5, CallMoves
<1>7. Routed'
  BY <1>1, <1>2, <1>4, RoutedKept DEF SyncInv
<1> QED
  BY <1>6, <1>7 DEF SyncInv

\* A swarm gets the response it awaits: it imports it, and answers its caller or asks again.
LEMMA RespondSync ==
  ASSUME TypeOK, Controlled, Places, Matched, SyncInv, NEW r \in resps, Respond(r)
  PROVE  SyncInv'
<1> DEFINE c == r.c  x == ctx[c]  cl == call[c]  n == c[1]  m == call[c].peer
           wn == wire[n]  wm == wire[m]  an == atts[n]  am == atts[m]
<1>1. /\ c \in Callers /\ Live(c) /\ r \in Answers(c) /\ resps' = resps \ {r} /\ UNCHANGED sw
  BY DEF TypeOK, Responses, Respond, Awaited, Answers
<1>2. /\ cl.pc = "wait" /\ x.swarm[1] = n /\ Queued(c) = {}
      /\ Shaped(c, cl) /\ Addressed(c) /\ Knows(c)
  <2>1. Served(c) /\ Informed(c)
    BY <1>1 DEF Places, SyncInv
  <2>2. cl.pc = "wait" /\ x.swarm = <<c[1], cl.gen>> /\ Queued(c) = {}
    BY <1>1, <2>1 DEF Served
  <2> QED
    BY <2>1, <2>2 DEF Informed
<1>3. /\ cl \in SyncCalls /\ n \in Nodes /\ m \in Nodes /\ n # m
      /\ cl.stage = StageOf(x.step) /\ x.to[1] = m
  BY <1>1, <1>2, MeshAssumption DEF TypeOK, SyncCalls, Shaped, Addressed
<1>4. /\ wire \in [Nodes -> Stores] /\ atts \in [Nodes -> BlobStores] /\ call \in [Callers -> SyncCalls]
      /\ wn \in Stores /\ wm \in Stores /\ an \in BlobStores /\ am \in BlobStores
  BY <1>3 DEF TypeOK
<1>5. x.swarm \in PeerIds /\ x.to \in PeerIds /\ x.rest \in SUBSET Snapshots
  BY <1>1, ContextParts
<1>6. (\A q \in resps' : q.c # c) /\ \A q \in resps' : q \in resps
  BY <1>1 DEF Matched
<1>7. cl.calm => /\ CallKnows(cl, wn, wm, an, am)
                 /\ x.step = "push" => x.rest \subseteq AllSnapshots(wn)
                 /\ AnswerKnows(x, r, wn, wm, an, am)
  BY <1>1, <1>2 DEF Knows
<1> HIDE DEF x, cl, n, m, wn, wm, an, am
\* The others, when the step writes to no store, or to the one of n.
<1>8. ASSUME NEW d \in Callers \ {c}, ctx'[d] = ctx[d], ids'[d] = ids[d],
             \A q \in reqs' : q.c = d => q \in reqs,
             \/ UNCHANGED <<wire, atts>> /\ call'[d] = call[d]
             \/ /\ \A e \in Nodes : e # n => wire'[e] = wire[e] /\ atts'[e] = atts[e]
                /\ call'[d] = Disturbed(n, c)[d]
      PROVE  PassedBy(d) /\ call'[d].stage = call[d].stage /\ call'[d].peer = call[d].peer
  <2>1. CASE UNCHANGED <<wire, atts>> /\ call'[d] = call[d]
    BY <1>6, <1>8, <2>1 DEF PassedBy
  <2>2. CASE /\ \A e \in Nodes : e # n => wire'[e] = wire[e] /\ atts'[e] = atts[e]
             /\ call'[d] = Disturbed(n, c)[d]
    <3>1. d # c /\ (\A q \in reqs' : q.c = d /\ q.k = ids[d] => q \in reqs)
          /\ \A q \in resps' : q.c = d => q \in resps
      BY <1>6, <1>8
    <3>2. PassedBy(d)
      BY <1>8, <2>2, <3>1, WritePassesBy
    <3> QED
      BY <2>2, <3>2, DisturbedCalls
  <2> QED
    BY <1>8, <2>1, <2>2
<1>9. ASSUME \A d \in Callers \ {c} : /\ PassedBy(d) /\ call'[d].stage = call[d].stage
                                       /\ call'[d].peer = call[d].peer
       PROVE  Routed'
  BY <1>1, <1>2, <1>9, RoutedKept DEF SyncInv
\* The caller, when its command is answered, and when its exchange goes on.
<1>10. ASSUME call'[c] = AfterAnswer(cl, TRUE), ctx' = [ctx EXCEPT ![c] = NoCtx], UNCHANGED <<reqs, ids>>,
              \A d \in Callers \ {c} :
                \/ UNCHANGED <<wire, atts>> /\ call'[d] = call[d]
                \/ /\ \A e \in Nodes : e # n => wire'[e] = wire[e] /\ atts'[e] = atts[e]
                   /\ call'[d] = Disturbed(n, c)[d],
              cl.calm => /\ cl.stage = "batch" => wire'[n] = wire'[m] /\ Carried(atts'[n]) = Carried(atts'[m])
                         /\ cl.stage = "pull" => Covers(wire'[n], wire'[m])
                         /\ cl.stage = "push" /\ cl.via # "none" => wire'[n] = wire'[m]
       PROVE  SyncInv'
  <2>1. ~Live(c)' /\ \A d \in Callers \ {c} : ctx'[d] = ctx[d] /\ ids'[d] = ids[d]
    BY <1>1, <1>10 DEF TypeOK, Live
  <2>2. \A d \in Callers \ {c} : /\ PassedBy(d) /\ call'[d].stage = call[d].stage
                                 /\ call'[d].peer = call[d].peer
    BY <1>8, <1>10, <2>1
  <2>3. PICK nn, mm, bn, bm : nn = wire'[n] /\ mm = wire'[m] /\ bn = atts'[n] /\ bm = atts'[m]
    OBVIOUS
  <2>4. /\ cl.calm /\ cl.stage = "batch" => nn = mm /\ Carried(bn) = Carried(bm)
        /\ cl.calm /\ cl.stage = "pull" => Covers(nn, mm)
        /\ cl.calm /\ cl.stage = "push" /\ cl.via # "none" => nn = mm
    BY <1>10, <2>3
  <2>5. cl.pc \in {"ask", "wait"}
    BY <1>2
  <2>6. /\ Shaped(c, AfterAnswer(cl, TRUE)) /\ AfterAnswer(cl, TRUE).peer = cl.peer
        /\ AfterAnswer(cl, TRUE).calm = cl.calm
        /\ cl.calm => CallKnows(AfterAnswer(cl, TRUE), nn, mm, bn, bm)
    BY <1>1, <1>2, <1>3, <2>4, <2>5, AnsweredKnows
  <2>7. /\ Shaped(c, call'[c])
        /\ call'[c].calm => CallKnows(call'[c], wire'[c[1]], wire'[call'[c].peer],
                                      atts'[c[1]], atts'[call'[c].peer])
    BY <1>10, <2>3, <2>6 DEF n, m, cl
  <2>8. \A d \in Callers : Informed(d)'
    BY <1>1, <2>1, <2>2, <2>7, CallMoves
  <2> QED
    BY <1>9, <2>2, <2>8 DEF SyncInv
<1>11. ASSUME NEW op, NEW data, NEW step \in Steps, NEW rest \in SUBSET Snapshots,
              Send(x.swarm, c, x.to, op, data, step, rest), call'[c] = cl, StageOf(step) = cl.stage,
              \A d \in Callers \ {c} :
                \/ UNCHANGED <<wire, atts>> /\ call'[d] = call[d]
                \/ /\ \A e \in Nodes : e # n => wire'[e] = wire[e] /\ atts'[e] = atts[e]
                   /\ call'[d] = Disturbed(n, c)[d],
              cl.calm =>
                /\ CallKnows(cl, wire'[n], wire'[m], atts'[n], atts'[m])
                /\ step = "push" => rest \subseteq AllSnapshots(wire'[n])
                /\ \A y, q : y.rest = rest /\ q.op = op /\ q.data = data =>
                     AskedKnows(y, q, wire'[n], wire'[m], atts'[n], atts'[m])
       PROVE  SyncInv'
  <2>1. \A d \in Callers \ {c} : /\ ctx'[d] = ctx[d] /\ ids'[d] = ids[d]
                                 /\ \A q \in reqs' : q.c = d => q \in reqs
    BY <1>1, <1>11 DEF Send, TypeOK
  <2>2. \A d \in Callers \ {c} : /\ PassedBy(d) /\ call'[d].stage = call[d].stage
                                 /\ call'[d].peer = call[d].peer
    BY <1>8, <1>11, <2>1
  <2>3. [step |-> step, swarm |-> x.swarm, to |-> x.to, rest |-> rest] # NoCtx
    BY <1>5, <1>11, ContextAssumption DEF Contexts
  <2>4. call'[c] = call[c] /\ StageOf(step) = call[c].stage /\ x.to[1] = call[c].peer
    BY <1>3, <1>11 DEF cl, m
  <2>5. call[c].calm =>
           /\ CallKnows(call[c], wire'[c[1]], wire'[call[c].peer], atts'[c[1]], atts'[call[c].peer])
           /\ step = "push" => rest \subseteq AllSnapshots(wire'[c[1]])
           /\ \A y, q : y.rest = rest /\ q.op = op /\ q.data = data =>
                AskedKnows(y, q, wire'[c[1]], wire'[call[c].peer], atts'[c[1]], atts'[call[c].peer])
    BY <1>11 DEF cl, n, m
  <2>6. \A d \in Callers : Informed(d)'
    BY <1>1, <1>5, <1>6, <1>11, <2>2, <2>3, <2>4, <2>5, SendInformed
  <2> QED
    BY <1>9, <2>2, <2>6 DEF SyncInv
<1>12. ASSUME Answered(c, TRUE), UNCHANGED <<wire, atts>>,
              cl.calm => /\ cl.stage = "batch" => wn = wm /\ Carried(an) = Carried(am)
                         /\ cl.stage = "pull" => Covers(wn, wm)
                         /\ cl.stage = "push" /\ cl.via # "none" => wn = wm
       PROVE  SyncInv'
  <2>1. /\ call'[c] = AfterAnswer(cl, TRUE) /\ ctx' = [ctx EXCEPT ![c] = NoCtx]
        /\ UNCHANGED <<reqs, ids>> /\ \A d \in Callers \ {c} : call'[d] = call[d]
    BY <1>1, <1>4, <1>12 DEF Answered, cl
  <2>2. wire'[n] = wn /\ wire'[m] = wm /\ atts'[n] = an /\ atts'[m] = am
    BY <1>12 DEF wn, wm, an, am
  <2> QED
    BY <1>10, <1>12, <2>1, <2>2
<1>13. CASE OnPullResponse(r) /\ UNCHANGED atts
  <2>1. CASE x.step = "catalog" /\ r.op = "catalog" /\ r.data.ids = {} /\ Answered(c, TRUE) /\ UNCHANGED wire
    <3>1. cl.stage = "pull"
      BY <1>3, <2>1 DEF StageOf
    <3>2. cl.calm => Held(wm) = {}
      BY <1>7, <2>1 DEF AnswerKnows
    <3>3. cl.calm => Covers(wn, wm)
      BY <3>2 DEF Covers
    <3> QED
      BY <1>12, <1>13, <2>1, <3>1, <3>3
  <2>2. CASE /\ x.step = "catalog" /\ r.op = "catalog" /\ UNCHANGED <<call, wire>>
             /\ Send(x.swarm, c, x.to, "pull", [NoData EXCEPT !.ids = r.data.ids], "notes", {})
    <3>1. StageOf("notes") = cl.stage /\ "notes" \in Steps
      BY <1>3, <2>2 DEF StageOf, Steps
    <3>2. cl.calm => r.data.ids = Held(wm)
      BY <1>7, <2>2 DEF AnswerKnows
    <3>3. [NoData EXCEPT !.ids = r.data.ids].ids = r.data.ids
      BY DEF NoData
    <3>4. cl.calm => \A y, q : y.rest = {} /\ q.op = "pull" /\ q.data = [NoData EXCEPT !.ids = r.data.ids] =>
            AskedKnows(y, q, wn, wm, an, am)
      BY <3>2, <3>3 DEF AskedKnows
    <3>5. wire'[n] = wn /\ wire'[m] = wm /\ atts'[n] = an /\ atts'[m] = am
      BY <1>13, <2>2 DEF wn, wm, an, am
    <3>6. call'[c] = cl /\ \A d \in Callers \ {c} : call'[d] = call[d]
      BY <2>2 DEF cl
    <3> QED
      BY <1>7, <1>11, <1>13, <2>2, <3>1, <3>4, <3>5, <3>6
  <2>3. CASE /\ x.step = "notes" /\ r.op = "notes"
             /\ StoreNotes(n, ImportSnapshots(wire[n], r.data.notes))
             /\ call' = [Disturbed(n, c) EXCEPT ![c] = AfterAnswer(@, TRUE)]
             /\ ctx' = [ctx EXCEPT ![c] = NoCtx] /\ UNCHANGED <<reqs, ids>>
    <3>1. cl.stage = "pull"
      BY <1>3, <2>3 DEF StageOf
    <3>2. /\ wire'[n] = ImportSnapshots(wn, r.data.notes) /\ wire'[m] = wm
          /\ \A e \in Nodes : e # n => wire'[e] = wire[e] /\ atts'[e] = atts[e]
      BY <1>3, <1>4, <1>13, <2>3 DEF StoreNotes, wn, wm
    <3>3. cl.calm => r.data.notes = AllSnapshots(wm)
      BY <1>7, <2>3 DEF AnswerKnows
    <3>4. cl.calm => Covers(wire'[n], wire'[m])
      BY <1>4, <3>2, <3>3, ImportCovers
    <3>5. Disturbed(n, c)[c] = cl
      BY <1>1 DEF Disturbed, cl
    <3>6. /\ call'[c] = AfterAnswer(cl, TRUE)
          /\ \A d \in Callers \ {c} : call'[d] = Disturbed(n, c)[d]
      BY <1>1, <2>3, <3>5, DisturbedCalls
    <3> QED
      BY <1>10, <2>3, <3>1, <3>2, <3>4, <3>6
  <2> QED
    BY <1>2, <1>13, <2>1, <2>2, <2>3 DEF OnPullResponse, x
<1>14. CASE OnPushResponse(r) /\ UNCHANGED stores
  <2>1. UNCHANGED <<wire, atts>> /\ x.step = "push" /\ r.op = "push_ack" /\ cl.stage = "push"
    BY <1>3, <1>14 DEF OnPushResponse, stores, StageOf, x
  <2>2. cl.calm => AllBut(x.rest, wn, wm)
    BY <1>7, <2>1 DEF AnswerKnows
  <2>3. CASE x.rest = {} /\ Answered(c, TRUE)
    <3>1. cl.calm /\ cl.via # "none" => Covers(wn, wm)
      BY <1>2, <1>7, <2>1 DEF CallKnows
    <3>2. cl.calm /\ cl.via # "none" => wn = wm
      BY <1>4, <2>2, <2>3, <3>1, PushesCover
    <3> QED
      BY <1>12, <2>1, <2>3, <3>2
  <2>4. CASE /\ UNCHANGED call
             /\ \E snap \in x.rest :
                  Send(x.swarm, c, x.to, "push", Push(snap), "push", x.rest \ {snap})
    <3>1. PICK snap \in x.rest : Send(x.swarm, c, x.to, "push", Push(snap), "push", x.rest \ {snap})
      BY <2>4
    <3>2. (x.rest \ {snap}) \cup {snap} = x.rest /\ x.rest \ {snap} \in SUBSET Snapshots
      BY <1>5
    <3>3. cl.calm => snap \in AllSnapshots(wn) /\ x.rest \ {snap} \subseteq AllSnapshots(wn)
      BY <1>7, <2>1
    <3>4. cl.calm => \A y, q : y.rest = x.rest \ {snap} /\ q.op = "push" /\ q.data = Push(snap) =>
            AskedKnows(y, q, wn, wm, an, am)
      BY <2>2, <3>2, <3>3 DEF AskedKnows
    <3>5. wire'[n] = wn /\ wire'[m] = wm /\ atts'[n] = an /\ atts'[m] = am
      BY <2>1 DEF wn, wm, an, am
    <3>6. call'[c] = cl /\ (\A d \in Callers \ {c} : call'[d] = call[d])
          /\ StageOf("push") = cl.stage /\ "push" \in Steps
      BY <1>3, <2>1, <2>4 DEF cl, Steps
    <3> QED
      BY <1>7, <1>11, <2>1, <3>1, <3>2, <3>3, <3>4, <3>5, <3>6
  <2> QED
    BY <1>14, <2>3, <2>4 DEF OnPushResponse, x
<1>15. CASE OnBatchResponse(r)
  <2>1. CASE x.step = "ack" /\ r.op = "batch_ack" /\ Answered(c, TRUE) /\ UNCHANGED stores
    <3>1. cl.stage = "batch"
      BY <1>3, <2>1 DEF StageOf
    <3>2. cl.calm => wn = wm /\ Carried(an) = Carried(am)
      BY <1>7, <2>1 DEF AnswerKnows
    <3> QED
      BY <1>12, <2>1, <3>1, <3>2 DEF stores
  <2>2. CASE /\ x.step = "batch" /\ r.op = "batch" /\ StoreBatch(n, r.data)
             /\ Send(x.swarm, c, x.to, "push_batch", OwnBatch(n, r.data), "ack", {})
             /\ call' = Disturbed(n, c)
    <3>1. StageOf("ack") = cl.stage /\ cl.stage = "batch" /\ "ack" \in Steps
      BY <1>3, <2>2 DEF StageOf, Steps
    <3>2. /\ wire'[n] = ImportBatchNotes(r.data, wn) /\ atts'[n] = ImportBatchBlobs(r.data, an)
          /\ wire'[m] = wm /\ atts'[m] = am
          /\ \A e \in Nodes : e # n => wire'[e] = wire[e] /\ atts'[e] = atts[e]
      BY <1>3, <1>4, <2>2 DEF StoreBatch, StoreNotes, StoreBlobs, wn, wm, an, am
    <3>3. OwnBatch(n, r.data) = ExportBatch(wire'[n], atts'[n])
      BY <3>2 DEF OwnBatch, wn, an
    <3>4. cl.calm => r.data = ExportBatch(wm, am)
      BY <1>7, <2>2 DEF AnswerKnows
    <3>5. cl.calm => Covers(wire'[n], wire'[m]) /\ CoversBlobs(atts'[n], atts'[m])
      BY <1>4, <3>2, <3>4, ImportCovers
    <3>6. cl.calm => \A y, q : y.rest = {} /\ q.op = "push_batch" /\ q.data = OwnBatch(n, r.data) =>
            AskedKnows(y, q, wire'[n], wire'[m], atts'[n], atts'[m])
      BY <3>3, <3>5 DEF AskedKnows
    <3>7. CallKnows(cl, wire'[n], wire'[m], atts'[n], atts'[m])
      BY <1>2, <3>1 DEF CallKnows
    <3>8. call'[c] = cl /\ \A d \in Callers \ {c} : call'[d] = Disturbed(n, c)[d]
      BY <1>1, <2>2 DEF Disturbed, cl
    <3>9. {} \in SUBSET Snapshots
      OBVIOUS
    <3> QED
      BY <1>11, <2>2, <3>1, <3>2, <3>6, <3>7, <3>8, <3>9
  <2> QED
    BY <1>2, <1>15, <2>1, <2>2 DEF OnBatchResponse, x
<1> QED
  BY <1>13, <1>14, <1>15 DEF Respond

\* Before the first step no call has begun and no swarm holds anything.
LEMMA InitSync == Init => SyncInv
<1> SUFFICES ASSUME Init PROVE SyncInv
  OBVIOUS
<1>1. NoSwarm.queue = <<>> /\ \A m \in Nodes : NoSwarm.peers[m] = NoPeer
  BY DEF NoSwarm
<1>2. Routed
  BY <1>1 DEF Init, Routed
<1>3. ASSUME NEW c \in Callers PROVE Informed(c)
  <2>1. /\ call[c].pc = "idle" /\ ~call[c].sent /\ ~Live(c)
    BY DEF Init, IdleCall, Live
  <2>2. Shaped(c, call[c])
    BY <2>1 DEF Shaped, HttpPulls
  <2>3. \A wn, wm, an, am : CallKnows(call[c], wn, wm, an, am)
    BY <2>1 DEF CallKnows
  <2> QED
    BY <2>1, <2>2, <2>3 DEF Informed, Addressed, Knows
<1> QED
  BY <1>2, <1>3 DEF SyncInv

LEMMA NextSync == IInv /\ SyncInv /\ [Next]_vars => SyncInv'
<1> SUFFICES ASSUME IInv, SyncInv, [Next]_vars PROVE SyncInv'
  OBVIOUS
<1>1. TypeOK /\ Controlled /\ Places /\ Matched
  BY DEF IInv
<1>2. ASSUME NEW n \in Nodes, App(n) PROVE SyncInv'
  BY <1>1, <1>2, AppSync
<1>3. ASSUME NEW c \in Callers, Sync(c) PROVE SyncInv'
  BY <1>1, <1>3, CallSync
<1>4. ASSUME NEW s \in PeerIds, Swarm(s) \/ \E t \in PeerIds : Identify(s, t) \/ Expire(s, t)
      PROVE  SyncInv'
  BY <1>1, <1>4, SwarmSync
<1>5. ASSUME NEW r \in reqs, Serve(r) PROVE SyncInv'
  BY <1>1, <1>5, ServeSync
<1>6. ASSUME NEW r \in resps, Respond(r) PROVE SyncInv'
  BY <1>1, <1>6, RespondSync
<1>7. ASSUME NEW c \in Callers, OutboundFailure(c) PROVE SyncInv'
  BY <1>1, <1>7, FailureSync
<1>8. CASE UNCHANGED vars
  <2>1. ASSUME NEW d \in Callers PROVE Informed(d)'
    <3>1. PassedBy(d)
      BY <1>8 DEF vars, PassedBy
    <3> QED
      BY <1>1, <3>1, PassedByKnows DEF SyncInv
  <2>2. Routed'
    BY <1>1, <1>8, RoutedKept DEF vars, SyncInv
  <2> QED
    BY <2>1, <2>2 DEF SyncInv
<1> QED
  BY <1>2, <1>3, <1>4, <1>5, <1>6, <1>7, <1>8 DEF Next

\* When a sync has imported the peer's notes and pushed its own, on either route (sync_json:
\* handle_batch_sync_response, handle_pull_response and handle_push_response, or
\* import_wire_from_http and push_wire_batch_to_http), and no app and no other sync has
\* written to either store meanwhile, both hold the same notes, and after a batch the same
\* attachments: for any number of devices, callers, swarms started again, requests that
\* fail, and requests served after they were given up.
THEOREM SyncAlwaysEqual == Spec => []SyncMakesEqual
<1>1. SyncInv => SyncMakesEqual
  BY DEF SyncInv, Informed, Knows, CallKnows, Equal, SyncMakesEqual
<1>2. Spec => []SyncInv
  <2>1. Init => SyncInv
    BY InitSync
  <2>2. IInv /\ SyncInv /\ [Next]_vars => SyncInv'
    BY NextSync
  <2> QED
    BY <2>1, <2>2, InvHolds, PTL DEF Spec
<1> QED
  BY <1>1, <1>2, PTL

=============================================================================
