------------------------------ MODULE SidecarMesh ------------------------------
(***************************************************************************)
(* The libp2p sidecars of several devices: the in-memory stores, the swarm *)
(* each runs (p2p.rs), and /v1/start, /v1/stop and /v1/sync of its API     *)
(* (sidecar_api.rs).                                                       *)
(*                                                                         *)
(* A swarm is a task with a queue of commands.  A sync call sends it a     *)
(* command and waits for the answer; the swarm answers when its exchange   *)
(* of requests with the swarm of a peer is over.  A sync with a wire_base  *)
(* talks to the peer's HTTP API instead.  The stores are locked only       *)
(* within one step, so calls, swarms and the app meet on them freely.      *)
(***************************************************************************)
EXTENDS WireStore, Sequences

CONSTANTS
  Nodes,      \* the devices; also their MeshPad peer ids
  Callers,    \* <<n, k>>: the k-th client of n's API that calls /v1/sync
  NoCaller,   \* nobody
  NoPeer,     \* no PeerId
  NoCtx,      \* no exchange
  Routes,     \* what sync calls name: "peer_id", "remote_wire_base"
  QueueSize,  \* capacity of the command channel
  MaxGen,     \* bound: MaxGen[n] is how many swarms n starts
  MaxCalls,   \* bound: the sync calls of one client
  MaxPushes,  \* bound: what the apps put into their sidecars
  MaxFaults   \* bound: requests that fail although the peer is there

ASSUME MeshAssumption ==
  /\ Callers \subseteq Nodes \X Nat
  /\ NoCaller \notin Callers
  /\ NoPeer \notin Nodes \X Nat
  /\ Routes \subseteq {"peer_id", "remote_wire_base"}
  /\ QueueSize \in Nat \ {0}
  /\ MaxGen \in [Nodes -> Nat] /\ MaxCalls \in Nat /\ MaxPushes \in Nat /\ MaxFaults \in Nat

\* A swarm makes itself a new key, so a device that starts again has a new PeerId.
PeerIds == UNION {{n} \X (1..MaxGen[n]) : n \in Nodes}

VARIABLES
  wire, atts,  \* wire[n], atts[n]: the stores of n
  p2p,         \* p2p[n]: the generation of n's controller, 0 when there is none
  stopping,    \* swarms that a /v1/stop is about to send Stop to
  sw,          \* sw[s]: the swarm with PeerId s
  ctx,         \* ctx[c]: the exchange a swarm conducts for the command of c
  call,        \* call[c]: the sync call of c
  reqs, resps, \* requests and responses under way
  ids,         \* ids[c]: how many requests were sent for c; the last is its request id
  calls, pushes, faults  \* counters for the bounds

counts == <<calls, pushes, faults>>
stores == <<wire, atts>>
vars == <<wire, atts, p2p, stopping, sw, ctx, call, reqs, resps, ids, calls, pushes, faults>>

Commands == [kind : {"stop", "batch", "pull", "push"}, c : Callers \cup {NoCaller}, peer : Nodes]

Swarms == [st : {"none", "up", "gone"}, queue : Seq(Commands), peers : [Nodes -> PeerIds \cup {NoPeer}]]
NoSwarm == [st |-> "none", queue |-> <<>>, peers |-> [m \in Nodes |-> NoPeer]]

\* What an exchange awaits: PullStep, BatchSyncStep, and the ack of one push.
Steps == {"catalog", "notes", "push", "batch", "ack"}
Contexts == [step : Steps, swarm : PeerIds, to : PeerIds, rest : SUBSET Snapshots]

ASSUME ContextAssumption == NoCtx \notin Contexts

\* Where a call is.  "ask" and "wait": its command is to be sent, is answered; "http..."
\* names what it awaits from the peer's API; "emit": the answer is ready.
CallPhases == {"idle", "ask", "wait", "httpExport", "httpImport", "httpCatalog", "httpPull",
               "httpNotes", "httpPush", "httpAck", "emit"}
\* calm: no other call and no app has written to either store since the call began.
SyncCalls == [pc : CallPhases, stage : {"batch", "pull", "push"}, gen : Nat, peer : Nodes,
              via : {"none", "http_batch", "http_catalog", "libp2p_batch", "libp2p"},
              sent : BOOLEAN, calm : BOOLEAN, data : Data]
IdleCall(c) == [pc |-> "idle", stage |-> "batch", gen |-> 0, peer |-> c[1], via |-> "none",
                sent |-> FALSE, calm |-> TRUE, data |-> NoData]

Ops == {"get_catalog", "pull", "push", "get_batch", "push_batch"}
Replies == {"catalog", "notes", "push_ack", "batch", "batch_ack"}
Requests == [c : Callers, k : Nat, to : PeerIds, op : Ops, data : Data]
Responses == [c : Callers, k : Nat, op : Replies, data : Data]

Init ==
  /\ wire = [n \in Nodes |-> EmptyStore]
  /\ atts = [n \in Nodes |-> EmptyBlobs]
  /\ p2p = [n \in Nodes |-> 0]
  /\ stopping = {}
  /\ sw = [s \in PeerIds |-> NoSwarm]
  /\ ctx = [c \in Callers |-> NoCtx]
  /\ call = [c \in Callers |-> IdleCall(c)]
  /\ reqs = {} /\ resps = {}
  /\ ids = [c \in Callers |-> 0]
  /\ calls = [c \in Callers |-> 0] /\ pushes = 0 /\ faults = 0
-----------------------------------------------------------------------------
(* Writes to the stores, and what they mean for the calls under way. *)

\* The calls after someone other than c has written to a store of n.
Disturbed(n, c) ==
  [d \in Callers |-> IF d # c /\ call[d].pc # "idle" /\ n \in {d[1], call[d].peer}
                     THEN [call[d] EXCEPT !.calm = FALSE] ELSE call[d]]

StoreNotes(n, s) == wire' = [wire EXCEPT ![n] = s]
StoreBlobs(n, a) == atts' = [atts EXCEPT ![n] = a]
StoreBatch(n, data) == /\ StoreNotes(n, ImportBatchNotes(data, wire[n]))
                       /\ StoreBlobs(n, ImportBatchBlobs(data, atts[n]))
Batch(n) == ExportBatch(wire[n], atts[n])
Catalog(n) == [NoData EXCEPT !.ids = {head.id : head \in CatalogHeads(wire[n])}]

\* POST /v1/wire/push by the app: an edit it has just made, or the empty probe.
WirePush(n) ==
  /\ pushes < MaxPushes
  /\ \E i \in Notes \cup {NoNote} : StoreNotes(n, Upsert(wire[n], [id |-> i, at |-> pushes + 1]))
  /\ pushes' = pushes + 1
  /\ call' = Disturbed(n, NoCaller)
  /\ UNCHANGED <<atts, p2p, stopping, sw, ctx, reqs, resps, ids, calls, faults>>

\* POST /v1/wire/attachment/push; text that is not base64 is stored as no bytes.
WireAttachmentPush(n) ==
  /\ pushes < MaxPushes
  /\ \E blob \in [file : Files \cup {NoFile}, size : {0, MaxBytes, MaxBytes + 1}] :
       StoreBlobs(n, UpsertBlob(atts[n], blob))
  /\ pushes' = pushes + 1
  /\ call' = Disturbed(n, NoCaller)
  /\ UNCHANGED <<wire, p2p, stopping, sw, ctx, reqs, resps, ids, calls, faults>>

\* POST /v1/wire/batch/import by the app: an edit in an envelope of some version.
WireBatchImport(n) ==
  /\ pushes < MaxPushes
  /\ \E v \in {0, 1}, i \in Notes :
       StoreBatch(n, [NoData EXCEPT !.version = v, !.notes = {[id |-> i, at |-> pushes + 1]}])
  /\ pushes' = pushes + 1
  /\ call' = Disturbed(n, NoCaller)
  /\ UNCHANGED <<p2p, stopping, sw, ctx, reqs, resps, ids, calls, faults>>
-----------------------------------------------------------------------------
(* Start and stop. *)

Started(n) == Cardinality({g \in 1..MaxGen[n] : sw[<<n, g>>].st # "none"})

\* A task of its own, with a new key, an empty queue and nobody known.  One that fails
\* before its loop (p2p.rs:176-217) is a swarm that is gone: it is as if it ended at once.
Spawn(s) == sw' = [sw EXCEPT ![s].st = "up"]

\* start_json: a new swarm whatever was there; the old controller is dropped, not stopped.
StartJson(n) ==
  /\ Started(n) < MaxGen[n]
  /\ LET g == Started(n) + 1
     IN /\ p2p' = [p2p EXCEPT ![n] = g]
        /\ Spawn(<<n, g>>)
  /\ UNCHANGED <<stores, stopping, ctx, call, reqs, resps, ids, counts>>

\* stop_json takes the controller out of the state, and then sends Stop.
StopTake(n) ==
  /\ p2p[n] # 0
  /\ p2p' = [p2p EXCEPT ![n] = 0]
  /\ stopping' = stopping \cup {<<n, p2p[n]>>}
  /\ UNCHANGED <<stores, sw, ctx, call, reqs, resps, ids, counts>>

\* A send on the command channel waits for room and fails when the swarm is gone.
Room(s) == sw[s].st = "up" /\ Len(sw[s].queue) < QueueSize
Enqueue(s, cmd) == sw' = [sw EXCEPT ![s].queue = Append(@, cmd)]

StopSend(s) ==
  /\ s \in stopping
  /\ \/ /\ Room(s)
        /\ Enqueue(s, [kind |-> "stop", c |-> NoCaller, peer |-> s[1]])
     \/ /\ sw[s].st = "gone"
        /\ UNCHANGED sw
  /\ stopping' = stopping \ {s}
  /\ UNCHANGED <<stores, p2p, ctx, call, reqs, resps, ids, counts>>
-----------------------------------------------------------------------------
(* The sync call: sync_json. *)

\* With a peer_id and a controller the call clones the controller and begins with a batch.
SyncByPeerId(c) ==
  /\ "peer_id" \in Routes
  /\ call[c].pc = "idle" /\ calls[c] < MaxCalls
  /\ calls' = [calls EXCEPT ![c] = @ + 1]
  /\ \E m \in Nodes \ {c[1]} :
       call' = [call EXCEPT ![c] = [IdleCall(c) EXCEPT !.gen = p2p[c[1]], !.peer = m,
                                      !.pc = IF p2p[c[1]] = 0 THEN "emit" ELSE "ask"]]
  /\ UNCHANGED <<stores, p2p, stopping, sw, ctx, reqs, resps, ids, pushes, faults>>

\* The record of a call when its command is answered: a failed batch sync is followed
\* by a pull, and a pull, whatever came of it, by a push.
AfterAnswer(cl, ok) ==
  [cl EXCEPT
     !.pc = IF cl.stage = "push" \/ (cl.stage = "batch" /\ ok) THEN "emit" ELSE "ask",
     !.stage = IF cl.stage = "batch" /\ ~ok THEN "pull" ELSE "push",
     !.via = IF ok /\ cl.stage = "batch" THEN "libp2p_batch"
             ELSE IF ok /\ cl.stage = "pull" THEN "libp2p" ELSE @,
     !.sent = ok /\ cl.stage # "pull"]

\* Mutant: a send to a swarm that is gone does not fail.
SendCommandWhenRoom(c) ==
  LET s == <<c[1], call[c].gen>>
  IN /\ call[c].pc = "ask" /\ Room(s)
     /\ Enqueue(s, [kind |-> call[c].stage, c |-> c, peer |-> call[c].peer])
     /\ call' = [call EXCEPT ![c].pc = "wait"]
     /\ UNCHANGED <<stores, p2p, stopping, ctx, reqs, resps, ids, counts>>
SendCommand(c) ==
  LET s == <<c[1], call[c].gen>>
  IN /\ call[c].pc = "ask"
     /\ \/ /\ Room(s)
           /\ Enqueue(s, [kind |-> call[c].stage, c |-> c, peer |-> call[c].peer])
           /\ call' = [call EXCEPT ![c].pc = "wait"]
        \/ /\ sw[s].st = "gone"
           /\ call' = [call EXCEPT ![c] = AfterAnswer(@, FALSE)]
           /\ UNCHANGED sw
     /\ UNCHANGED <<stores, p2p, stopping, ctx, reqs, resps, ids, counts>>

\* The event sync_completed and the answer, which come however the call went.
SyncCompleted(c) ==
  /\ call[c].pc = "emit"
  /\ call' = [call EXCEPT ![c] = IdleCall(c)]
  /\ UNCHANGED <<stores, p2p, stopping, sw, ctx, reqs, resps, ids, counts>>
-----------------------------------------------------------------------------
(* The swarm: peers, commands and the end (run_swarm). *)

Up(s) == sw[s].st = "up"

\* Identify tells a swarm which device a PeerId belongs to; the last PeerId counts.
Identify(s, t) ==
  /\ Up(s) /\ Up(t) /\ s # t
  /\ sw[s].peers[t[1]] # t
  /\ sw' = [sw EXCEPT ![s].peers[t[1]] = t]
  /\ UNCHANGED <<stores, p2p, stopping, ctx, call, reqs, resps, ids, counts>>

\* An address of t is no longer announced: t is forgotten.
Expire(s, t) ==
  /\ Up(s) /\ sw[s].peers[t[1]] = t
  /\ sw' = [sw EXCEPT ![s].peers[t[1]] = NoPeer]
  /\ UNCHANGED <<stores, p2p, stopping, ctx, call, reqs, resps, ids, counts>>

Live(c) == ctx[c] # NoCtx

\* The swarm s sends a request for c: the exchange of c now awaits "step".
Send(s, c, to, op, data, step, rest) ==
  /\ ids' = [ids EXCEPT ![c] = @ + 1]
  /\ reqs' = reqs \cup {[c |-> c, k |-> ids[c] + 1, to |-> to, op |-> op, data |-> data]}
  /\ ctx' = [ctx EXCEPT ![c] = [step |-> step, swarm |-> s, to |-> to, rest |-> rest]]

Push(snap) == [NoData EXCEPT !.notes = {snap}]

Dequeued(s) == [sw EXCEPT ![s].queue = Tail(@)]

\* A command for a device that is not known is answered with an error, and a push
\* of an empty store with success.
RunCommand(s) ==
  /\ Up(s) /\ sw[s].queue # <<>>
  /\ LET cmd == Head(sw[s].queue)
         c == cmd.c
         to == sw[s].peers[cmd.peer]
         mine == AllSnapshots(wire[s[1]])
     IN /\ cmd.kind # "stop"
        /\ \/ /\ to = NoPeer \/ (cmd.kind = "push" /\ mine = {})
              /\ call' = [call EXCEPT ![c] = AfterAnswer(@, to # NoPeer)]
              /\ UNCHANGED <<ctx, reqs, ids>>
           \/ /\ to # NoPeer /\ cmd.kind = "batch"
              /\ Send(s, c, to, "get_batch", NoData, "batch", {})
              /\ UNCHANGED call
           \/ /\ to # NoPeer /\ cmd.kind = "pull"
              /\ Send(s, c, to, "get_catalog", NoData, "catalog", {})
              /\ UNCHANGED call
           \/ /\ to # NoPeer /\ cmd.kind = "push"
              /\ \E first \in mine :
                   Send(s, c, to, "push", Push(first), "push", mine \ {first})
              /\ UNCHANGED call
  /\ sw' = Dequeued(s)
  /\ UNCHANGED <<stores, p2p, stopping, resps, counts>>

\* Mutant: only the commands still in the queue are dropped.
WaitingQueued(s) == {c \in Callers : /\ call[c].pc = "wait" /\ ~Live(c)
                                     /\ c[1] = s[1] /\ call[c].gen = s[2]}
\* Calls whose command the swarm holds, in its queue or in an exchange.
Waiting(s) == {c \in Callers : /\ call[c].pc = "wait"
                               /\ c[1] = s[1] /\ call[c].gen = s[2]}

\* Mutant: only a Stop ends the loop.
ToldToEnd(s) == sw[s].queue # <<>> /\ Head(sw[s].queue).kind = "stop"
\* The loop ends on Stop, or when the queue is empty and nobody can send any more.
Ends(s) ==
  \/ sw[s].queue # <<>> /\ Head(sw[s].queue).kind = "stop"
  \/ /\ sw[s].queue = <<>>
     /\ p2p[s[1]] # s[2] /\ s \notin stopping
     /\ \A c \in Callers : call[c].pc \in {"ask", "wait"} => <<c[1], call[c].gen>> # s

\* What the swarm holds is dropped with it, so the calls it would have answered get an error.
SwarmEnd(s) ==
  /\ Up(s) /\ Ends(s)
  /\ sw' = [sw EXCEPT ![s] = [NoSwarm EXCEPT !.st = "gone"]]
  /\ call' = [c \in Callers |-> IF c \in Waiting(s) THEN AfterAnswer(call[c], FALSE) ELSE call[c]]
  /\ ctx' = [c \in Callers |-> IF c \in Waiting(s) THEN NoCtx ELSE ctx[c]]
  /\ resps' = {r \in resps : r.c \notin Waiting(s)}
  /\ reqs' = {r \in reqs : r.to # s}
  /\ UNCHANGED <<stores, p2p, stopping, ids, counts>>
-----------------------------------------------------------------------------
(* The swarm: requests and responses (handle_swarm_event). *)

\* Mutant: a response is matched by who asked, whichever of the requests it answers.
AwaitedByCaller(r) == Live(r.c)
\* The maps pulls, pushes and batch_syncs have the request id of the last request only.
Awaited(r) == Live(r.c) /\ ids[r.c] = r.k

Reply(r, op, data) == [c |-> r.c, k |-> r.k, op |-> op, data |-> data]

\* A request is served even if the exchange it belongs to has been given up; then
\* libp2p has nowhere to deliver the response.
Serve(r) ==
  LET n == r.to[1]
      Answer(op, data) ==
        resps' = IF Awaited(r) THEN resps \cup {Reply(r, op, data)} ELSE resps
  IN /\ Up(r.to)
     /\ reqs' = reqs \ {r}
     /\ \/ /\ r.op = "get_catalog"
           /\ Answer("catalog", Catalog(n))
           /\ UNCHANGED <<stores, call>>
        \/ /\ r.op = "pull"
           /\ Answer("notes", [NoData EXCEPT !.notes = PullNotes(wire[n], r.data.ids)])
           /\ UNCHANGED <<stores, call>>
        \/ /\ r.op = "get_batch"
           /\ Answer("batch", Batch(n))
           /\ UNCHANGED <<stores, call>>
        \/ /\ r.op = "push"
           /\ StoreNotes(n, ImportSnapshots(wire[n], r.data.notes))
           /\ Answer("push_ack", NoData)
           /\ call' = Disturbed(n, IF Awaited(r) THEN r.c ELSE NoCaller)
           /\ UNCHANGED atts
        \/ /\ r.op = "push_batch"
           /\ StoreBatch(n, r.data)
           /\ Answer("batch_ack", NoData)
           /\ call' = Disturbed(n, IF Awaited(r) THEN r.c ELSE NoCaller)
     /\ UNCHANGED <<p2p, stopping, sw, ctx, ids, counts>>

Answered(c, ok) == /\ call' = [call EXCEPT ![c] = AfterAnswer(@, ok)]
                   /\ ctx' = [ctx EXCEPT ![c] = NoCtx]
                   /\ UNCHANGED <<reqs, ids>>

\* handle_pull_response: the catalog is followed by a pull of its ids, or by nothing.
OnPullResponse(r) ==
  LET c == r.c
      n == ctx[c].swarm[1]
  IN \/ /\ ctx[c].step = "catalog" /\ r.op = "catalog"
        /\ \/ /\ r.data.ids = {}
              /\ Answered(c, TRUE)
           \/ /\ r.data.ids # {}
              /\ Send(ctx[c].swarm, c, ctx[c].to, "pull", [NoData EXCEPT !.ids = r.data.ids],
                      "notes", {})
              /\ UNCHANGED call
        /\ UNCHANGED wire
     \/ /\ ctx[c].step = "notes" /\ r.op = "notes"
        /\ StoreNotes(n, ImportSnapshots(wire[n], r.data.notes))
        /\ call' = [Disturbed(n, c) EXCEPT ![c] = AfterAnswer(@, TRUE)]
        /\ ctx' = [ctx EXCEPT ![c] = NoCtx]
        /\ UNCHANGED <<reqs, ids>>

\* handle_push_response: the snapshots taken at the start go one after the other.
OnPushResponse(r) ==
  LET c == r.c
  IN /\ ctx[c].step = "push" /\ r.op = "push_ack"
     /\ \/ /\ ctx[c].rest = {}
           /\ Answered(c, TRUE)
        \/ \E snap \in ctx[c].rest :
             /\ Send(ctx[c].swarm, c, ctx[c].to, "push", Push(snap), "push", ctx[c].rest \ {snap})
             /\ UNCHANGED call

\* Mutant: the own batch is taken before the import.
OwnBatchBefore(n, data) == Batch(n)
\* The own batch with the imported one in it.
OwnBatch(n, data) == ExportBatch(ImportBatchNotes(data, wire[n]), ImportBatchBlobs(data, atts[n]))

\* handle_batch_sync_response: import the peer's batch, then push the own one.
OnBatchResponse(r) ==
  LET c == r.c
      n == ctx[c].swarm[1]
  IN \/ /\ ctx[c].step = "batch" /\ r.op = "batch"
        /\ StoreBatch(n, r.data)
        /\ Send(ctx[c].swarm, c, ctx[c].to, "push_batch", OwnBatch(n, r.data), "ack", {})
        /\ call' = Disturbed(n, c)
     \/ /\ ctx[c].step = "ack" /\ r.op = "batch_ack"
        /\ Answered(c, TRUE)
        /\ UNCHANGED stores

Respond(r) ==
  /\ Awaited(r)
  /\ resps' = resps \ {r}
  /\ \/ OnPullResponse(r) /\ UNCHANGED atts
     \/ OnPushResponse(r) /\ UNCHANGED stores
     \/ OnBatchResponse(r)
  /\ UNCHANGED <<p2p, stopping, sw, counts>>

\* Nothing of the exchange of c is under way any more, or its peer is gone.
Lost(c) == \A r \in reqs \cup resps : r.c = c /\ r.k = ids[c] => r \in reqs /\ ~Up(r.to)

\* OutboundFailure: the request could not be sent, or it timed out.  In the second case
\* the peer may still serve it later.
OutboundFailure(c) ==
  /\ Live(c)
  /\ \/ Lost(c) /\ UNCHANGED faults
     \/ ~Lost(c) /\ faults < MaxFaults /\ faults' = faults + 1
  /\ ctx' = [ctx EXCEPT ![c] = NoCtx]
  /\ call' = [call EXCEPT ![c] = AfterAnswer(@, FALSE)]
  /\ resps' = {r \in resps : r.c # c}
  /\ \/ UNCHANGED reqs
     \/ reqs' = {r \in reqs : r.c # c \/ r.k # ids[c]}
  /\ UNCHANGED <<stores, p2p, stopping, sw, ids, calls, pushes>>
-----------------------------------------------------------------------------
(* The sync call with a remote_wire_base: import_wire_from_http and        *)
(* push_wire_batch_to_http against the API of the peer, which is there     *)
(* even when its swarm is not.                                             *)

SyncByWireBase(c) ==
  /\ "remote_wire_base" \in Routes
  /\ call[c].pc = "idle" /\ calls[c] < MaxCalls
  /\ calls' = [calls EXCEPT ![c] = @ + 1]
  /\ \E m \in Nodes \ {c[1]} :
       call' = [call EXCEPT ![c] = [IdleCall(c) EXCEPT !.pc = "httpExport", !.peer = m]]
  /\ UNCHANGED <<stores, p2p, stopping, sw, ctx, reqs, resps, ids, pushes, faults>>

Fails == faults < MaxFaults /\ faults' = faults + 1

\* The call of c goes on to "next"; it holds what the peer has answered.
Goes(c, next, data) == call' = [call EXCEPT ![c].pc = next, ![c].data = data]

\* The requests that ask the peer: its answer, or the step that follows a failure.
Ask(c) ==
  LET m == call[c].peer
  IN /\ \/ /\ call[c].pc = "httpExport"
           /\ \/ Goes(c, "httpImport", Batch(m)) /\ UNCHANGED faults
              \/ Goes(c, "httpCatalog", NoData) /\ Fails
        \/ /\ call[c].pc = "httpCatalog"
           /\ \/ /\ Catalog(m).ids = {}
                 /\ call' = [call EXCEPT ![c].pc = "httpPush", ![c].via = "http_catalog"]
                 /\ UNCHANGED faults
              \/ /\ Catalog(m).ids # {}
                 /\ Goes(c, "httpPull", Catalog(m))
                 /\ UNCHANGED faults
              \/ Goes(c, "httpPush", NoData) /\ Fails
        \/ /\ call[c].pc = "httpPull"
           /\ \/ /\ Goes(c, "httpNotes", [NoData EXCEPT !.notes = PullNotes(wire[m], call[c].data.ids)])
                 /\ UNCHANGED faults
              \/ Goes(c, "httpPush", NoData) /\ Fails
     /\ UNCHANGED <<stores, p2p, stopping, sw, ctx, reqs, resps, ids, calls, pushes>>

\* The caller imports the answer; a batch that brings nothing is followed by the catalog.
Import(c) ==
  LET n == c[1]
      next == IF call[c].pc = "httpNotes" \/ ImportedCount(call[c].data) > 0
              THEN "httpPush" ELSE "httpCatalog"
      via == IF call[c].pc = "httpNotes" THEN "http_catalog"
             ELSE IF next = "httpPush" THEN "http_batch" ELSE "none"
  IN /\ \/ call[c].pc = "httpImport" /\ StoreBatch(n, call[c].data)
        \/ call[c].pc = "httpNotes" /\ StoreNotes(n, ImportSnapshots(wire[n], call[c].data.notes))
                                    /\ UNCHANGED atts
     /\ call' = [Disturbed(n, c) EXCEPT ![c].pc = next, ![c].via = via, ![c].data = NoData]
     /\ UNCHANGED <<p2p, stopping, sw, ctx, reqs, resps, ids, counts>>

\* The push takes the store as it is now, and the peer imports it; or the request or its
\* answer is lost.
PushBatch(c) ==
  LET m == call[c].peer
  IN /\ \/ /\ call[c].pc = "httpPush"
           /\ Goes(c, "httpAck", Batch(c[1]))
           /\ UNCHANGED <<stores, faults>>
        \/ /\ call[c].pc = "httpAck"
           /\ StoreBatch(m, call[c].data)
           /\ \/ /\ call' = [Disturbed(m, c) EXCEPT ![c].pc = "emit", ![c].sent = TRUE,
                                                   ![c].data = NoData]
                 /\ UNCHANGED faults
              \/ /\ call' = [Disturbed(m, c) EXCEPT ![c].pc = "emit", ![c].data = NoData]
                 /\ Fails
        \/ /\ call[c].pc = "httpAck"
           /\ Goes(c, "emit", NoData) /\ Fails
           /\ UNCHANGED stores
     /\ UNCHANGED <<p2p, stopping, sw, ctx, reqs, resps, ids, calls, pushes>>
-----------------------------------------------------------------------------
App(n) == WirePush(n) \/ WireAttachmentPush(n) \/ WireBatchImport(n) \/ StartJson(n) \/ StopTake(n)

Sync(c) == \/ SyncByPeerId(c) \/ SendCommand(c) \/ SyncByWireBase(c)
           \/ Ask(c) \/ Import(c) \/ PushBatch(c) \/ SyncCompleted(c)

Swarm(s) == RunCommand(s) \/ SwarmEnd(s) \/ StopSend(s)

Next ==
  \/ \E n \in Nodes : App(n)
  \/ \E c \in Callers : Sync(c) \/ OutboundFailure(c)
  \/ \E s \in PeerIds : Swarm(s)
  \/ \E s, t \in PeerIds : Identify(s, t) \/ Expire(s, t)
  \/ \E r \in reqs : Serve(r)
  \/ \E r \in resps : Respond(r)

Spec == Init /\ [][Next]_vars

\* Where a call awaits the HTTP API of its peer: the client has no time limit
\* (reqwest::Client::new, sidecar.rs:282 and 350).
AwaitsPeer == {"httpExport", "httpCatalog", "httpPull", "httpAck"}

\* A task that can run does: the calls, the loops of the swarms, and libp2p, which
\* delivers a request or reports its failure.  Nothing is assumed of the apps, of
\* discovery, of a request whose caller waits in a full queue behind others, or of an
\* HTTP request, which need never end.
Fairness ==
  /\ \A c \in Callers : /\ WF_vars(SendCommand(c)) /\ WF_vars(SyncCompleted(c))
                        /\ WF_vars(Import(c))
                        /\ WF_vars(PushBatch(c) /\ call[c].pc \notin AwaitsPeer)
                        /\ WF_vars(OutboundFailure(c) /\ Lost(c))
  /\ \A s \in PeerIds : WF_vars(RunCommand(s)) /\ WF_vars(SwarmEnd(s)) /\ WF_vars(StopSend(s))
  /\ WF_vars(\E r \in reqs : Serve(r))
  /\ WF_vars(\E r \in resps : Respond(r))

FairSpec == Spec /\ Fairness
-----------------------------------------------------------------------------
\* Every variable has its type; no store holds an attachment above the limit.
TypeOK ==
  /\ wire \in [Nodes -> Stores] /\ atts \in [Nodes -> BlobStores]
  /\ p2p \in [Nodes -> Nat] /\ stopping \subseteq PeerIds
  /\ sw \in [PeerIds -> Swarms]
  /\ ctx \in [Callers -> Contexts \cup {NoCtx}]
  /\ call \in [Callers -> SyncCalls]
  /\ reqs \subseteq Requests /\ resps \subseteq Responses
  /\ ids \in [Callers -> Nat]
  /\ calls \in [Callers -> 0..MaxCalls] /\ pushes \in 0..MaxPushes /\ faults \in 0..MaxFaults

\* The response an exchange awaits.
Fitting(step) == CASE step = "catalog" -> "catalog" [] step = "notes" -> "notes"
                   [] step = "push" -> "push_ack" [] step = "batch" -> "batch"
                   [] step = "ack" -> "batch_ack"

\* A response that reaches an exchange is the one its step awaits, whatever was given up
\* and asked again before: the arm of handle_pull_response that takes no notice of any
\* other response (p2p.rs:519), and would leave the caller waiting, is never taken.
ResponsesFit == \A r \in resps : Awaited(r) /\ r.op = Fitting(ctx[r.c].step)

\* Where the command of c waits.
Queued(c) == {s \in PeerIds : \E j \in 1..Len(sw[s].queue) : sw[s].queue[j].c = c}

\* A caller that waits for its answer waits for a swarm that runs, and that holds its
\* command in exactly one place, the queue or an exchange; a swarm holds nothing else.  No
\* answer is forgotten when the swarm stops, is replaced, or gives a request up.
CallerIsServed ==
  \A c \in Callers :
    LET s == <<c[1], call[c].gen>>
    IN /\ call[c].pc = "wait" => Up(s) /\ (Live(c) <=> Queued(c) = {})
       /\ Queued(c) \subseteq {s}
       /\ Live(c) \/ Queued(c) # {} => call[c].pc = "wait"
       /\ Live(c) => ctx[c].swarm = s

\* When a sync has imported from the peer and has pushed to it, and neither an app nor
\* another sync (a late request of an earlier attempt included) has written to either
\* store meanwhile, both hold the same notes; and the same attachments, except empty ones,
\* when the batch took them along.
SyncMakesEqual ==
  \A c \in Callers :
    LET n == c[1]  m == call[c].peer
    IN call[c].pc = "emit" /\ call[c].calm /\ call[c].sent =>
         /\ call[c].via # "none" => wire[n] = wire[m]
         /\ call[c].via \in {"http_batch", "libp2p_batch"} => Carried(atts[n]) = Carried(atts[m])

\* /v1/sync returns, whatever stops, starts, forgets a peer or fails meanwhile, unless
\* it awaits the HTTP API of a peer that never answers.
SyncReturns ==
  \A c \in Callers : []<>(call[c].pc = "idle") \/ <>[](call[c].pc \in AwaitsPeer)

\* A swarm whose controller has been stopped, or replaced by another /v1/start, ends.
AbandonedSwarmEnds == \A s \in PeerIds : Up(s) /\ p2p[s[1]] # s[2] ~> sw[s].st = "gone"

\* The merge rule of docs/SYNC_WIRE.md, "last-write-wins - newer meta.updated_at wins": no
\* step replaces a snapshot by an older one.  It does not hold: WireStore.upsert takes what
\* comes, and a sync imports the peer's batch before it pushes its own.
NewerSnapshotStays == [][\A n \in Nodes, i \in Notes : wire'[n][i] >= wire[n][i]]_vars
=============================================================================
