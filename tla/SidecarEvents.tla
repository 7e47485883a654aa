----------------------------- MODULE SidecarEvents -----------------------------
(***************************************************************************)
(* What one sidecar learns of the devices around it, and how the app hears *)
(* of it: discovery in the swarm (handle_swarm_event of p2p.rs), the       *)
(* broadcast channel of events, and its two kinds of receivers.  In the    *)
(* mode "direct" (ffi.rs) the app calls into the sidecar under one lock    *)
(* and polls a receiver that is there from the start; in the mode "http"   *)
(* (sidecar.rs) clients open streams of events and drop them at will.      *)
(*                                                                         *)
(* A connection is known to the swarm by a PeerId, to the app by the       *)
(* device the other end says it is.  The other ends come and go as they    *)
(* like.  One swarm runs at a time.                                        *)
(***************************************************************************)
EXTENDS Naturals, Sequences, FiniteSets

CONSTANTS
  Peers,      \* PeerIds of other swarms
  Devices,    \* MeshPad peer ids
  NoDevice,   \* the device of a PeerId whose agent is not "meshpad/<id>/<name>"
  DeviceOf,   \* DeviceOf[p]: who p says it is when it identifies itself
  NoPeer,     \* no PeerId
  Poll,       \* the receiver of meshpad_ffi_poll_event
  Streams,    \* clients of /v1/events
  Capacity,   \* capacity of the broadcast channel
  MaxSyncs,   \* bound: the calls of /v1/sync
  MaxStarts   \* bound: the swarms

ASSUME EventsAssumption ==
  /\ NoDevice \notin Devices /\ NoPeer \notin Peers /\ Poll \notin Streams
  /\ DeviceOf \in [Peers -> Devices \cup {NoDevice}]
  /\ Capacity \in Nat \ {0} /\ MaxSyncs \in Nat /\ MaxStarts \in Nat

VARIABLES
  mode,       \* "direct" or "http"
  running,    \* the sidecar's state exists: the direct runtime, or the HTTP server
  up,         \* its swarm runs
  connected,  \* PeerIds the swarm has a connection with
  known,      \* meshpad_peers: known[d] is the PeerId of d
  announced,  \* devices announced to the app
  rx,         \* rx[r]: what receiver r has still to read
  busy,       \* a /v1/sync is under way; in mode "direct" it holds the lock DIRECT
  told,       \* told[r]: the devices r has read of since it subscribed
  early,      \* receivers that were there when the swarm started
  missed,     \* receivers that were overtaken at some time
  syncs, starts  \* counters for the bounds

receivers == <<rx, told, early, missed>>
swarm == <<up, connected, known, announced>>
vars == <<mode, running, swarm, receivers, busy, syncs, starts>>

Receivers == {Poll} \cup Streams

\* An event names a device; sync_completed names one too, and tells nothing of it.
Events == [type : {"peer_discovered"}, peer_id : Devices] \cup [type : {"sync_completed"}]
PeerDiscovered(d) == [type |-> "peer_discovered", peer_id |-> d]
SyncCompleted == [type |-> "sync_completed"]

\* lagged: the channel has dropped events before the pending ones; the next receive says so.
Cursor == [on : BOOLEAN, lagged : BOOLEAN, pending : Seq(Events)]
NoCursor == [on |-> FALSE, lagged |-> FALSE, pending |-> <<>>]
Fresh == [NoCursor EXCEPT !.on = TRUE]

NobodyKnown == [d \in Devices |-> NoPeer]
Known == {d \in Devices : known[d] # NoPeer}

Init ==
  /\ mode \in {"direct", "http"}
  /\ running = FALSE /\ up = FALSE /\ connected = {}
  /\ known = NobodyKnown /\ announced = {}
  /\ rx = [r \in Receivers |-> NoCursor] /\ busy = FALSE
  /\ told = [r \in Receivers |-> {}] /\ early = {} /\ missed = {}
  /\ syncs = 0 /\ starts = 0
-----------------------------------------------------------------------------
(* The broadcast channel. *)

\* Mutant: the channel keeps one event more.
OvertakenLate == {r \in Receivers : rx[r].on /\ Len(rx[r].pending) > Capacity}
\* A receiver that is Capacity events behind loses the oldest.
Overtaken == {r \in Receivers : rx[r].on /\ Len(rx[r].pending) = Capacity}
Send(event) ==
  /\ rx' = [r \in Receivers |->
              IF r \in Overtaken
              THEN [rx[r] EXCEPT !.lagged = TRUE, !.pending = Append(Tail(@), event)]
              ELSE IF rx[r].on THEN [rx[r] EXCEPT !.pending = Append(@, event)] ELSE rx[r]]
  /\ missed' = missed \cup Overtaken
  /\ UNCHANGED <<told, early>>

Subscribe(r) ==
  /\ rx' = [rx EXCEPT ![r] = Fresh]
  /\ told' = [told EXCEPT ![r] = {}]
  /\ early' = IF up THEN early \ {r} ELSE early \cup {r}
  /\ missed' = missed \ {r}

\* A receive.  The first after a loss only says that there was one.
Receive(r) ==
  /\ rx[r].on /\ (rx[r].lagged \/ rx[r].pending # <<>>)
  /\ \/ /\ rx[r].lagged
        /\ rx' = [rx EXCEPT ![r].lagged = FALSE]
        /\ UNCHANGED told
     \/ /\ ~rx[r].lagged
        /\ rx' = [rx EXCEPT ![r].pending = Tail(@)]
        /\ LET event == Head(rx[r].pending)
           IN told' = IF event = SyncCompleted THEN told
                      ELSE [told EXCEPT ![r] = @ \cup {event.peer_id}]
  /\ UNCHANGED <<early, missed>>

Drop(r) ==
  /\ rx' = [rx EXCEPT ![r] = NoCursor]
  /\ told' = [told EXCEPT ![r] = {}]
  /\ early' = early \ {r} /\ missed' = missed \ {r}
-----------------------------------------------------------------------------
(* The app: the sidecar, its receivers, and calls of its API. *)

\* meshpad_ffi_start_direct makes the channel and subscribes; the HTTP server makes it alone.
Run ==
  /\ ~running /\ running' = TRUE
  /\ IF mode = "direct" THEN Subscribe(Poll) ELSE UNCHANGED receivers
  /\ UNCHANGED <<mode, swarm, busy, syncs, starts>>

\* Mutant: the announced devices outlive the swarm.
NoSwarmButAnnounced ==
  up' = FALSE /\ connected' = {} /\ known' = NobodyKnown /\ UNCHANGED announced
NoSwarm == up' = FALSE /\ connected' = {} /\ known' = NobodyKnown /\ announced' = {}

\* meshpad_ffi_stop_direct waits for the lock, and with the runtime goes all there was.
StopDirect ==
  /\ mode = "direct" /\ running /\ ~busy
  /\ running' = FALSE
  /\ NoSwarm
  /\ Drop(Poll)
  /\ UNCHANGED <<mode, busy, syncs, starts>>

\* meshpad_ffi_request holds DIRECT until the call has returned.
LockFree == mode = "http" \/ ~busy

\* /v1/start: receivers that are there will hear of all the swarm finds.
StartJson ==
  /\ running /\ LockFree /\ ~up /\ starts < MaxStarts
  /\ up' = TRUE /\ starts' = starts + 1
  /\ early' = {r \in Receivers : rx[r].on}
  /\ UNCHANGED <<mode, running, connected, known, announced, rx, told, missed, busy, syncs>>

\* /v1/stop: the loop of the swarm ends, and what it knows is gone; the channel stays.
StopJson ==
  /\ up /\ LockFree
  /\ NoSwarm
  /\ UNCHANGED <<mode, running, receivers, busy, syncs, starts>>

SyncJson ==
  /\ running /\ ~busy /\ syncs < MaxSyncs
  /\ busy' = TRUE /\ syncs' = syncs + 1
  /\ UNCHANGED <<mode, running, swarm, receivers, starts>>

\* The end of sync_json: the event is sent, and the lock released.
SyncEnds ==
  /\ busy /\ busy' = FALSE
  /\ Send(SyncCompleted)
  /\ UNCHANGED <<mode, running, swarm, syncs, starts>>

\* meshpad_ffi_poll_event, which needs the lock.
PollEvent ==
  /\ mode = "direct" /\ running /\ ~busy
  /\ Receive(Poll)
  /\ UNCHANGED <<mode, running, swarm, busy, syncs, starts>>

\* GET /v1/events
EventsSse(r) ==
  /\ mode = "http" /\ running /\ ~rx[r].on
  /\ Subscribe(r)
  /\ UNCHANGED <<mode, running, swarm, busy, syncs, starts>>

\* The stream passes over what it has lost.
StreamEvent(r) ==
  /\ mode = "http"
  /\ Receive(r)
  /\ UNCHANGED <<mode, running, swarm, busy, syncs, starts>>

\* The client closes its stream, as the app does around every sync.
CloseStream(r) ==
  /\ mode = "http" /\ rx[r].on
  /\ Drop(r)
  /\ UNCHANGED <<mode, running, swarm, busy, syncs, starts>>
-----------------------------------------------------------------------------
(* The swarm. *)

\* mDNS finds an address of p, and the dial succeeds; or p has dialed.
Discovered(p) ==
  /\ up /\ p \notin connected
  /\ connected' = connected \cup {p}
  /\ UNCHANGED <<mode, running, up, known, announced, receivers, busy, syncs, starts>>

Disconnected(p) ==
  /\ p \in connected
  /\ connected' = connected \ {p}
  /\ UNCHANGED <<mode, running, up, known, announced, receivers, busy, syncs, starts>>

\* Mutant: who was announced once stays announced.
ExpiredKeepsAnnounced(p) ==
  /\ up
  /\ known' = [d \in Devices |-> IF known[d] = p THEN NoPeer ELSE known[d]]
  /\ UNCHANGED <<mode, running, up, connected, announced, receivers, busy, syncs, starts>>
\* An address of p is no longer announced: p is forgotten, connected or not.
Expired(p) ==
  /\ up
  /\ known' = [d \in Devices |-> IF known[d] = p THEN NoPeer ELSE known[d]]
  /\ announced' = {d \in announced : known'[d] # NoPeer}
  /\ UNCHANGED <<mode, running, up, connected, receivers, busy, syncs, starts>>

\* Mutant: a PeerId that was met before is not announced.
MeetNewPeer(p, d) ==
  /\ known' = [known EXCEPT ![d] = p]
  /\ announced' = announced \cup {d}
  /\ IF \E e \in Devices : known[e] = p THEN UNCHANGED receivers ELSE Send(PeerDiscovered(d))
  /\ UNCHANGED <<mode, running, up, connected, busy, syncs, starts>>
\* d is known under p from now on, and announced if it is not.
Meet(p, d) ==
  /\ known' = [known EXCEPT ![d] = p]
  /\ announced' = announced \cup {d}
  /\ IF d \in announced THEN UNCHANGED receivers ELSE Send(PeerDiscovered(d))
  /\ UNCHANGED <<mode, running, up, connected, busy, syncs, starts>>

\* Mutant: the first PeerId of a device is kept.
IdentifyUnknown(p) ==
  /\ up /\ p \in connected /\ DeviceOf[p] # NoDevice /\ DeviceOf[p] \notin Known
  /\ Meet(p, DeviceOf[p])
\* parse_meshpad_agent: other agents are not of MeshPad.
IsMeshPad(p) == DeviceOf[p] # NoDevice

\* Identify runs when a connection is made and again every five minutes.
Identify(p) ==
  /\ up /\ p \in connected /\ IsMeshPad(p)
  /\ Meet(p, DeviceOf[p])

\* WireRequest::Hello: p says itself who it is.
Hello(p, d) ==
  /\ up /\ p \in connected
  /\ Meet(p, d)
-----------------------------------------------------------------------------
Next ==
  \/ Run \/ StopDirect \/ StartJson \/ StopJson \/ SyncJson \/ SyncEnds \/ PollEvent
  \/ \E r \in Streams : EventsSse(r) \/ StreamEvent(r) \/ CloseStream(r)
  \/ \E p \in Peers : Discovered(p) \/ Disconnected(p) \/ Expired(p) \/ Identify(p)
  \/ \E p \in Peers, d \in Devices : Hello(p, d)

Spec == Init /\ [][Next]_vars

\* Identify repeats on a connection that lasts; a sync returns; and the app, which polls
\* with a timer on the isolate that makes all calls, is never kept from the lock for ever.
Fairness ==
  /\ \A p \in Peers : WF_vars(Identify(p))
  /\ WF_vars(SyncEnds) /\ WF_vars(PollEvent)

FairSpec == Spec /\ Fairness
-----------------------------------------------------------------------------
\* Every variable has its type, and no receiver holds more than the channel.
TypeOK ==
  /\ mode \in {"direct", "http"} /\ running \in BOOLEAN /\ up \in BOOLEAN /\ busy \in BOOLEAN
  /\ connected \subseteq Peers
  /\ known \in [Devices -> Peers \cup {NoPeer}] /\ announced \subseteq Devices
  /\ rx \in [Receivers -> Cursor] /\ \A r \in Receivers : Len(rx[r].pending) <= Capacity
  /\ told \in [Receivers -> SUBSET Devices]
  /\ early \subseteq Receivers /\ missed \subseteq Receivers
  /\ syncs \in 0..MaxSyncs /\ starts \in 0..MaxStarts

\* The set announced and the keys of the map meshpad_peers, which the handlers of mDNS,
\* Identify and Hello change each for itself, are the same set: a device that is forgotten
\* will be announced when it is met again, and one that is known has been announced.
KeysAnnounced == announced = Known

Pending(r) == {d \in Devices : \E j \in 1..Len(rx[r].pending) : rx[r].pending[j] = PeerDiscovered(d)}

\* A receiver that was there when the swarm started, and was never overtaken, has read or
\* will read of every device the swarm knows.
TellsApp == \A r \in early \ missed : Known \subseteq told[r] \cup Pending(r)

StaysConnected(p) == <>[](up /\ p \in connected /\ IsMeshPad(p))

\* If a connection lasts, its device is again and again known under a PeerId that is
\* connected, whatever expires, and whoever else says to be that device.
ConnectedIsReachable ==
  \A p \in Peers : StaysConnected(p) => []<>(known[DeviceOf[p]] \in connected)

\* If a connection lasts, an app that polls learns of its device, or has been overtaken.
AppLearns ==
  \A p \in Peers :
    mode = "direct" /\ StaysConnected(p) => <>(DeviceOf[p] \in told[Poll] \/ Poll \in missed)
=============================================================================
