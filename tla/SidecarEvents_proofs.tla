-------------------------- MODULE SidecarEvents_proofs --------------------------
(***************************************************************************)
(* Proofs about SidecarEvents, for any peers, devices, streams and         *)
(* capacity of the channel: the set of announced devices follows the map   *)
(* of known ones, and what the swarm knows has reached or will reach every *)
(* receiver that was there at its start and was never overtaken.           *)
(***************************************************************************)
EXTENDS SidecarEvents, TLAPS

\* A swarm that does not run knows nobody.
DownKnowsNobody == ~up => Known = {}

\* Who was there at the start of the swarm is there still.
EarlyListens == \A r \in early : rx[r].on

IInv == TypeOK /\ KeysAnnounced /\ DownKnowsNobody /\ EarlyListens /\ TellsApp
-----------------------------------------------------------------------------
(* The channel. *)

Told(s) == {d \in Devices : \E j \in 1..Len(s) : s[j] = PeerDiscovered(d)}

\* An event names the device that it announces, and no other.
LEMMA EventsDiffer ==
  ASSUME NEW d \in Devices
  PROVE  /\ PeerDiscovered(d) \in Events /\ PeerDiscovered(d) # SyncCompleted
         /\ PeerDiscovered(d).peer_id = d
<1>1. PeerDiscovered(d).type = "peer_discovered" /\ SyncCompleted.type = "sync_completed"
  BY DEF PeerDiscovered, SyncCompleted
<1> QED
  BY <1>1 DEF PeerDiscovered, Events

LEMMA CompletedIsEvent == SyncCompleted \in Events
  BY DEF SyncCompleted, Events

\* What is appended is announced, and nothing is forgotten.
LEMMA AppendTells ==
  ASSUME NEW s \in Seq(Events), NEW e \in Events
  PROVE  /\ Append(s, e) \in Seq(Events) /\ Len(Append(s, e)) = Len(s) + 1
         /\ Told(s) \subseteq Told(Append(s, e))
         /\ \A d \in Devices : e = PeerDiscovered(d) => d \in Told(Append(s, e))
<1>1. /\ Len(Append(s, e)) = Len(s) + 1 /\ Len(s) \in Nat
      /\ \A j \in 1..Len(s) : Append(s, e)[j] = s[j]
      /\ Append(s, e)[Len(s) + 1] = e
  OBVIOUS
<1> QED
  BY <1>1 DEF Told

\* What is read was announced; the rest is still to come.
LEMMA TailTells ==
  ASSUME NEW s \in Seq(Events), s # <<>>
  PROVE  /\ Tail(s) \in Seq(Events) /\ Len(Tail(s)) = Len(s) - 1 /\ Head(s) \in Events
         /\ \A d \in Told(s) : Head(s) = PeerDiscovered(d) \/ d \in Told(Tail(s))
<1>1. /\ Tail(s) \in Seq(Events) /\ Len(Tail(s)) = Len(s) - 1 /\ Head(s) = s[1] /\ Head(s) \in Events
      /\ Len(s) \in Nat \ {0} /\ \A j \in 1..(Len(s) - 1) : Tail(s)[j] = s[j + 1]
  OBVIOUS
<1>2. ASSUME NEW d \in Told(s), Head(s) # PeerDiscovered(d) PROVE d \in Told(Tail(s))
  <2>1. PICK j \in 1..Len(s) : s[j] = PeerDiscovered(d)
    BY DEF Told
  <2>2. j # 1 /\ j - 1 \in 1..Len(Tail(s)) /\ Tail(s)[j - 1] = PeerDiscovered(d)
    BY <1>1, <1>2, <2>1
  <2> QED
    BY <2>2 DEF Told
<1> QED
  BY <1>1, <1>2

\* Sending keeps the types of the receivers and the bound of the channel.
LEMMA SendTypes ==
  ASSUME TypeOK, NEW e \in Events, Send(e)
  PROVE  /\ rx' \in [Receivers -> Cursor]
         /\ \A r \in Receivers : Len(rx'[r].pending) <= Capacity /\ rx'[r].on = rx[r].on
         /\ missed' \subseteq Receivers /\ UNCHANGED <<told, early>>
         /\ missed \subseteq missed'
<1> USE EventsAssumption DEF TypeOK
<1>1. ASSUME NEW r \in Receivers
      PROVE  /\ rx'[r] \in Cursor /\ Len(rx'[r].pending) <= Capacity /\ rx'[r].on = rx[r].on
  <2>1. /\ rx[r] \in Cursor /\ rx[r].pending \in Seq(Events) /\ Len(rx[r].pending) \in Nat
        /\ Len(rx[r].pending) <= Capacity
    BY DEF Cursor
  <2>2. CASE r \in Overtaken
    <3>1. Len(rx[r].pending) = Capacity /\ rx[r].pending # <<>>
      BY <2>1, <2>2 DEF Overtaken
    <3>2. /\ Append(Tail(rx[r].pending), e) \in Seq(Events)
          /\ Len(Append(Tail(rx[r].pending), e)) = Capacity
      BY <2>1, <3>1, TailTells, AppendTells
    <3>3. rx'[r] = [on |-> rx[r].on, lagged |-> TRUE, pending |-> Append(Tail(rx[r].pending), e)]
      BY <2>1, <2>2 DEF Send, Cursor
    <3> QED
      BY <2>1, <3>2, <3>3 DEF Cursor
  <2>3. CASE r \notin Overtaken /\ rx[r].on
    <3>1. Len(rx[r].pending) # Capacity
      BY <2>3 DEF Overtaken
    <3>2. /\ Append(rx[r].pending, e) \in Seq(Events)
          /\ Len(Append(rx[r].pending, e)) <= Capacity
      BY <2>1, <3>1, AppendTells
    <3>3. rx'[r] = [on |-> rx[r].on, lagged |-> rx[r].lagged, pending |-> Append(rx[r].pending, e)]
      BY <2>1, <2>3 DEF Send, Cursor
    <3> QED
      BY <2>1, <3>2, <3>3 DEF Cursor
  <2>4. CASE r \notin Overtaken /\ ~rx[r].on
    BY <2>1, <2>4 DEF Send
  <2> QED
    BY <2>2, <2>3, <2>4
<1>2. rx' = [r \in Receivers |-> rx'[r]]
  BY DEF Send
<1>3. missed' \subseteq Receivers /\ UNCHANGED <<told, early>> /\ missed \subseteq missed'
  BY DEF Send, Overtaken
<1> QED
  BY <1>1, <1>2, <1>3

\* A receiver that is not overtaken loses nothing and gets the event.
LEMMA SendTells ==
  ASSUME TypeOK, NEW e \in Events, Send(e), NEW r \in Receivers, rx[r].on, r \notin missed'
  PROVE  /\ Pending(r) \subseteq Pending(r)'
         /\ \A d \in Devices : e = PeerDiscovered(d) => d \in Pending(r)'
<1>1. rx[r].pending \in Seq(Events) /\ rx'[r].pending = Append(rx[r].pending, e)
  BY DEF TypeOK, Cursor, Send
<1>2. /\ Told(rx[r].pending) \subseteq Told(rx'[r].pending)
      /\ \A d \in Devices : e = PeerDiscovered(d) => d \in Told(rx'[r].pending)
  BY <1>1, AppendTells
<1> QED
  BY <1>2 DEF Pending, Told

\* Sending keeps what TellsApp promises of the devices known so far.
LEMMA SendKeepsPromise ==
  ASSUME IInv, NEW e \in Events, Send(e)
  PROVE  /\ EarlyListens'
         /\ \A r \in early' \ missed' : Known \subseteq told'[r] \cup Pending(r)'
         /\ \A r \in early' \ missed' : \A d \in Devices : e = PeerDiscovered(d) => d \in Pending(r)'
<1> USE DEF IInv
<1>1. EarlyListens'
  BY SendTypes DEF EarlyListens, TypeOK
<1>2. ASSUME NEW r \in early' \ missed'
      PROVE  /\ Known \subseteq told'[r] \cup Pending(r)'
             /\ \A d \in Devices : e = PeerDiscovered(d) => d \in Pending(r)'
  <2>1. r \in early \ missed /\ r \in Receivers /\ rx[r].on /\ r \notin missed' /\ told'[r] = told[r]
    BY SendTypes DEF EarlyListens, TypeOK
  <2>2. /\ Pending(r) \subseteq Pending(r)'
        /\ \A d \in Devices : e = PeerDiscovered(d) => d \in Pending(r)'
    BY <2>1, SendTells
  <2> QED
    BY <2>1, <2>2 DEF TellsApp
<1> QED
  BY <1>1, <1>2

\* A receive keeps the invariant, whoever receives.
LEMMA ReceiveStep ==
  ASSUME IInv, NEW r \in Receivers, Receive(r)
  PROVE  /\ rx' \in [Receivers -> Cursor] /\ told' \in [Receivers -> SUBSET Devices]
         /\ \A q \in Receivers : Len(rx'[q].pending) <= Capacity /\ rx'[q].on = rx[q].on
         /\ \A q \in early \ missed : Known \subseteq told'[q] \cup Pending(q)'
<1> USE EventsAssumption DEF IInv, TypeOK
<1>0. rx[r] \in Cursor /\ rx[r].pending \in Seq(Events) /\ Len(rx[r].pending) <= Capacity
  BY DEF Cursor
<1>1. CASE rx[r].lagged
  <2>1. rx' = [rx EXCEPT ![r].lagged = FALSE] /\ UNCHANGED told
    BY <1>1 DEF Receive
  <2>2. rx'[r] = [on |-> rx[r].on, lagged |-> FALSE, pending |-> rx[r].pending]
    BY <1>0, <2>1 DEF Cursor
  <2>3. \A q \in Receivers : q # r => rx'[q] = rx[q]
    BY <2>1
  <2>4. rx' \in [Receivers -> Cursor]
    BY <1>0, <2>1, <2>2 DEF Cursor
  <2>5. \A q \in Receivers : rx'[q].pending = rx[q].pending /\ rx'[q].on = rx[q].on
    BY <2>2, <2>3
  <2> QED
    BY <2>1, <2>4, <2>5 DEF TellsApp, Pending
<1>2. CASE ~rx[r].lagged
  <2> DEFINE s == rx[r].pending
             event == Head(s)
  <2>1. s # <<>> /\ rx' = [rx EXCEPT ![r].pending = Tail(@)]
        /\ told' = IF event = SyncCompleted THEN told
                   ELSE [told EXCEPT ![r] = @ \cup {event.peer_id}]
    BY <1>2 DEF Receive
  <2>2. rx'[r] = [on |-> rx[r].on, lagged |-> rx[r].lagged, pending |-> Tail(s)]
    BY <1>0, <2>1 DEF Cursor
  <2>3. \A q \in Receivers : q # r => rx'[q] = rx[q] /\ told'[q] = told[q]
    BY <2>1
  <2>4. /\ Tail(s) \in Seq(Events) /\ Len(Tail(s)) = Len(s) - 1 /\ event \in Events
        /\ \A d \in Told(s) : event = PeerDiscovered(d) \/ d \in Told(Tail(s))
    BY <1>0, <2>1, TailTells
  <2>5. rx' \in [Receivers -> Cursor]
    BY <1>0, <2>1, <2>2, <2>4 DEF Cursor
  <2>6. event = SyncCompleted \/ event.peer_id \in Devices
    BY <2>4 DEF Events, SyncCompleted
  <2>7. told' \in [Receivers -> SUBSET Devices]
    BY <2>1, <2>6
  <2>8. \A d \in Devices : event = PeerDiscovered(d) => d \in told'[r]
    <3> SUFFICES ASSUME NEW d \in Devices, event = PeerDiscovered(d) PROVE d \in told'[r]
      OBVIOUS
    <3>1. event # SyncCompleted /\ event.peer_id = d
      BY EventsDiffer
    <3> QED
      BY <2>1, <3>1
  <2>9. told[r] \subseteq told'[r]
    BY <2>1
  <2>10. Told(s) \subseteq told'[r] \cup Told(Tail(s))
    BY <2>4, <2>8 DEF Told
  <2>11. Pending(r) = Told(s) /\ Pending(r)' = Told(Tail(s))
    BY <2>2 DEF Pending, Told
  <2>12. \A q \in Receivers : q # r => Pending(q)' = Pending(q)
    BY <2>3 DEF Pending
  <2>13. \A q \in early \ missed : Known \subseteq told'[q] \cup Pending(q)'
    BY <2>3, <2>9, <2>10, <2>11, <2>12 DEF TellsApp
  <2>14. Len(s) \in Nat /\ Len(Tail(s)) <= Capacity
    BY <1>0, <2>4
  <2> HIDE DEF s, event
  <2>15. \A q \in Receivers : Len(rx'[q].pending) <= Capacity /\ rx'[q].on = rx[q].on
    <3>1. Len(rx'[r].pending) <= Capacity /\ rx'[r].on = rx[r].on
      BY <2>2, <2>14
    <3>2. \A q \in Receivers : q # r => Len(rx'[q].pending) <= Capacity /\ rx'[q].on = rx[q].on
      BY <2>3
    <3> QED
      BY <3>1, <3>2
  <2> QED
    BY <2>5, <2>7, <2>13, <2>15
<1> QED
  BY <1>1, <1>2
-----------------------------------------------------------------------------
(* The receivers of the app come and go. *)

\* A cursor holds nothing before it is there, and when it is new.
LEMMA EmptyCursors == /\ NoCursor \in Cursor /\ Len(NoCursor.pending) = 0
                      /\ Fresh \in Cursor /\ Fresh.on /\ Len(Fresh.pending) = 0
<1>1. NoCursor \in Cursor /\ NoCursor.pending = <<>>
  BY DEF NoCursor, Cursor
<1>2. Fresh \in Cursor /\ Fresh.on /\ Fresh.pending = NoCursor.pending
  BY <1>1 DEF Fresh, Cursor
<1> QED
  BY <1>1, <1>2

\* One who subscribes while a swarm runs is promised nothing; else nobody is known.
LEMMA SubscribeStep ==
  ASSUME IInv, NEW r \in Receivers, Subscribe(r), UNCHANGED <<mode, up, connected, known, announced>>
  PROVE  /\ rx' \in [Receivers -> Cursor] /\ told' \in [Receivers -> SUBSET Devices]
         /\ \A q \in Receivers : Len(rx'[q].pending) <= Capacity
         /\ early' \subseteq Receivers /\ missed' \subseteq Receivers
         /\ EarlyListens' /\ TellsApp'
<1> USE EventsAssumption DEF IInv, TypeOK, Subscribe
<1>1. Fresh \in Cursor /\ Fresh.on /\ Len(Fresh.pending) = 0
  BY EmptyCursors
<1>2. /\ rx' \in [Receivers -> Cursor] /\ told' \in [Receivers -> SUBSET Devices]
      /\ rx'[r] = Fresh /\ \A q \in Receivers : q # r => rx'[q] = rx[q] /\ told'[q] = told[q]
  BY <1>1
<1>3. \A q \in Receivers : Len(rx'[q].pending) <= Capacity
  BY <1>1, <1>2
<1>4. EarlyListens'
  BY <1>1, <1>2 DEF EarlyListens
<1>5. ASSUME NEW q \in early' \ missed' PROVE Known \subseteq told'[q] \cup Pending(q)'
  <2>1. CASE q = r
    BY <1>5, <2>1 DEF DownKnowsNobody
  <2>2. CASE q # r
    <3>1. q \in early \ missed /\ rx'[q] = rx[q] /\ told'[q] = told[q]
      BY <1>2, <1>5, <2>2
    <3> QED
      BY <3>1 DEF TellsApp, Pending
  <2> QED
    BY <2>1, <2>2
<1>6. Known' = Known
  BY DEF Known
<1> QED
  BY <1>2, <1>3, <1>4, <1>5, <1>6 DEF TellsApp

LEMMA DropStep ==
  ASSUME IInv, NEW r \in Receivers, Drop(r), known' = known \/ known' = NobodyKnown
  PROVE  /\ rx' \in [Receivers -> Cursor] /\ told' \in [Receivers -> SUBSET Devices]
         /\ \A q \in Receivers : Len(rx'[q].pending) <= Capacity
         /\ early' \subseteq Receivers /\ missed' \subseteq Receivers
         /\ EarlyListens' /\ TellsApp'
<1> USE EventsAssumption DEF IInv, TypeOK, Drop
<1>1. NoCursor \in Cursor /\ Len(NoCursor.pending) = 0
  BY EmptyCursors
<1>2. /\ rx' \in [Receivers -> Cursor] /\ told' \in [Receivers -> SUBSET Devices]
      /\ rx'[r] = NoCursor /\ \A q \in Receivers : q # r => rx'[q] = rx[q] /\ told'[q] = told[q]
  BY <1>1
<1>3. \A q \in Receivers : Len(rx'[q].pending) <= Capacity
  BY <1>1, <1>2
<1>4. EarlyListens'
  BY <1>2 DEF EarlyListens
<1>5. ASSUME NEW q \in early' \ missed' PROVE Known \subseteq told'[q] \cup Pending(q)'
  <2>1. q \in early \ missed /\ q # r /\ q \in Receivers
    BY <1>5
  <2> QED
    BY <1>2, <2>1 DEF TellsApp, Pending
<1>6. Known' \subseteq Known
  BY DEF Known, NobodyKnown
<1> QED
  BY <1>2, <1>3, <1>4, <1>5, <1>6 DEF TellsApp
-----------------------------------------------------------------------------
(* The steps. *)

\* A step that knows no more, and leaves the receivers alone.
LEMMA QuietStep ==
  ASSUME IInv, UNCHANGED receivers, Known' \subseteq Known
  PROVE  EarlyListens' /\ TellsApp'
BY DEF IInv, receivers, EarlyListens, TellsApp, Pending

LEMMA ForgetStep ==
  ASSUME IInv, NoSwarm
  PROVE  /\ Known' = {} /\ KeysAnnounced' /\ DownKnowsNobody'
         /\ connected' \subseteq Peers /\ known' \in [Devices -> Peers \cup {NoPeer}]
         /\ announced' \subseteq Devices /\ up' \in BOOLEAN
BY DEF NoSwarm, Known, NobodyKnown, KeysAnnounced, DownKnowsNobody

\* A device that is met is known and announced, and those who listen are told.
LEMMA MeetStep == ASSUME IInv, NEW p \in Peers, NEW d \in Devices, up, Meet(p, d) PROVE IInv'
<1> USE EventsAssumption DEF IInv
<1>1. known' \in [Devices -> Peers \cup {NoPeer}] /\ announced' \subseteq Devices
  BY DEF Meet, TypeOK
<1>2. Known' = Known \cup {d}
  BY DEF Meet, Known, TypeOK
<1>3. KeysAnnounced' /\ DownKnowsNobody'
  BY <1>2 DEF Meet, KeysAnnounced, DownKnowsNobody
<1>4. CASE d \in announced
  <2>1. Known' \subseteq Known
    BY <1>2, <1>4 DEF KeysAnnounced
  <2>2. UNCHANGED receivers
    BY <1>4 DEF Meet
  <2>3. TypeOK'
    BY <1>1, <2>2 DEF Meet, TypeOK, receivers
  <2> QED
    BY <1>3, <2>1, <2>2, <2>3, QuietStep
<1>5. CASE d \notin announced
  <2>1. Send(PeerDiscovered(d)) /\ PeerDiscovered(d) \in Events
    BY <1>5, EventsDiffer DEF Meet
  <2>2. TypeOK'
    BY <1>1, <2>1, SendTypes DEF Meet, TypeOK
  <2>3. EarlyListens'
    BY <2>1, SendKeepsPromise
  <2>4. \A r \in early' \ missed' : Known \subseteq told'[r] \cup Pending(r)' /\ d \in Pending(r)'
    BY <2>1, SendKeepsPromise
  <2> QED
    BY <1>2, <1>3, <2>2, <2>3, <2>4 DEF TellsApp
<1> QED
  BY <1>4, <1>5

\* A PeerId that expires is forgotten under every name, and so are the names.
LEMMA ExpiredStep == ASSUME IInv, NEW p \in Peers, Expired(p) PROVE IInv'
<1> USE EventsAssumption DEF IInv
<1>1. known' \in [Devices -> Peers \cup {NoPeer}] /\ announced' \subseteq announced
  BY DEF Expired, TypeOK
<1>2. TypeOK'
  BY <1>1 DEF Expired, TypeOK, receivers
<1>3. Known' \subseteq Known /\ UNCHANGED receivers
  BY DEF Expired, Known, TypeOK
<1>4. announced' = Known'
  BY <1>3 DEF Expired, KeysAnnounced, Known
<1>5. DownKnowsNobody'
  BY <1>3 DEF Expired, DownKnowsNobody
<1> QED
  BY <1>2, <1>3, <1>4, <1>5, QuietStep DEF KeysAnnounced

LEMMA InitInv == Init => IInv
<1> SUFFICES ASSUME Init PROVE IInv
  OBVIOUS
<1>1. NoCursor \in Cursor /\ Len(NoCursor.pending) = 0
  BY EmptyCursors
<1>2. rx \in [Receivers -> Cursor] /\ \A r \in Receivers : Len(rx[r].pending) <= Capacity
  BY <1>1, EventsAssumption DEF Init
<1>3. known \in [Devices -> Peers \cup {NoPeer}] /\ told \in [Receivers -> SUBSET Devices]
  BY DEF Init, NobodyKnown
<1>4. TypeOK
  <2>1. running \in BOOLEAN /\ up \in BOOLEAN /\ busy \in BOOLEAN
    BY DEF Init
  <2>2. syncs \in 0..MaxSyncs /\ starts \in 0..MaxStarts
    BY EventsAssumption DEF Init
  <2>3. mode \in {"direct", "http"} /\ connected = {} /\ announced = {} /\ early = {} /\ missed = {}
    BY DEF Init
  <2> QED
    BY <1>2, <1>3, <2>1, <2>2, <2>3 DEF TypeOK
<1>5. Known = {}
  BY DEF Init, Known, NobodyKnown
<1> QED
  BY <1>4, <1>5 DEF Init, IInv, KeysAnnounced, DownKnowsNobody, EarlyListens, TellsApp

LEMMA NextStep == IInv /\ [Next]_vars => IInv'
<1> SUFFICES ASSUME IInv, [Next]_vars PROVE IInv'
  OBVIOUS
<1> USE EventsAssumption DEF IInv
<1>1. ASSUME Run PROVE IInv'
  <2>1. Known' = Known /\ KeysAnnounced' /\ DownKnowsNobody'
    BY <1>1 DEF Run, Known, swarm, KeysAnnounced, DownKnowsNobody
  <2>2. CASE mode = "direct"
    <3>1. Subscribe(Poll) /\ UNCHANGED <<mode, swarm, busy, syncs, starts>> /\ running' = TRUE
      BY <1>1, <2>2 DEF Run
    <3>2. Poll \in Receivers
      BY DEF Receivers
    <3>3. /\ rx' \in [Receivers -> Cursor] /\ told' \in [Receivers -> SUBSET Devices]
          /\ \A q \in Receivers : Len(rx'[q].pending) <= Capacity
          /\ early' \subseteq Receivers /\ missed' \subseteq Receivers
          /\ EarlyListens' /\ TellsApp'
      BY <3>1, <3>2, SubscribeStep DEF swarm
    <3> QED
      BY <2>1, <3>1, <3>3 DEF TypeOK, swarm
  <2>3. CASE mode # "direct"
    <3>1. UNCHANGED receivers
      BY <1>1, <2>3 DEF Run
    <3> QED
      BY <1>1, <2>1, <3>1, QuietStep DEF Run, TypeOK, swarm, receivers
  <2> QED
    BY <2>2, <2>3
<1>2. ASSUME StopDirect PROVE IInv'
  <2>1. NoSwarm /\ Drop(Poll) /\ Poll \in Receivers
    BY <1>2 DEF StopDirect, Receivers
  <2>2. /\ rx' \in [Receivers -> Cursor] /\ told' \in [Receivers -> SUBSET Devices]
        /\ \A q \in Receivers : Len(rx'[q].pending) <= Capacity
        /\ early' \subseteq Receivers /\ missed' \subseteq Receivers
        /\ EarlyListens' /\ TellsApp'
    BY <2>1, DropStep DEF NoSwarm
  <2> QED
    BY <1>2, <2>1, <2>2, ForgetStep DEF StopDirect, TypeOK
<1>3. ASSUME StartJson PROVE IInv'
  <2>1. Known = {} /\ Known' = {}
    BY <1>3 DEF StartJson, DownKnowsNobody, Known
  <2>2. TypeOK'
    BY <1>3 DEF StartJson, TypeOK
  <2> QED
    BY <1>3, <2>1, <2>2 DEF StartJson, KeysAnnounced, DownKnowsNobody, EarlyListens, TellsApp
<1>4. ASSUME StopJson PROVE IInv'
  <2>1. NoSwarm /\ UNCHANGED receivers
    BY <1>4 DEF StopJson
  <2>2. TypeOK'
    BY <1>4, <2>1, ForgetStep DEF StopJson, TypeOK, receivers
  <2> QED
    BY <2>1, <2>2, ForgetStep, QuietStep
<1>5. ASSUME SyncJson PROVE IInv'
  <2>1. Known' = Known /\ UNCHANGED receivers
    BY <1>5 DEF SyncJson, Known, swarm
  <2> QED
    BY <1>5, <2>1, QuietStep DEF SyncJson, TypeOK, swarm, receivers, KeysAnnounced, DownKnowsNobody
<1>6. ASSUME SyncEnds PROVE IInv'
  <2>1. Send(SyncCompleted) /\ SyncCompleted \in Events
    BY <1>6, CompletedIsEvent DEF SyncEnds
  <2>2. TypeOK'
    BY <1>6, <2>1, SendTypes DEF SyncEnds, TypeOK, swarm
  <2>3. Known' = Known
    BY <1>6 DEF SyncEnds, Known, swarm
  <2> QED
    BY <1>6, <2>1, <2>2, <2>3, SendKeepsPromise
    DEF SyncEnds, swarm, KeysAnnounced, DownKnowsNobody, TellsApp
<1>7. ASSUME NEW r \in Receivers, Receive(r), UNCHANGED <<mode, running, swarm, busy, syncs, starts>>
      PROVE  IInv'
  <2>1. UNCHANGED <<early, missed>>
    BY <1>7 DEF Receive
  <2>2. TypeOK'
    BY <1>7, <2>1, ReceiveStep DEF TypeOK, swarm
  <2>3. Known' = Known
    BY <1>7 DEF Known, swarm
  <2>4. EarlyListens'
    BY <1>7, <2>1, ReceiveStep DEF EarlyListens, TypeOK
  <2> QED
    BY <1>7, <2>1, <2>2, <2>3, <2>4, ReceiveStep DEF swarm, KeysAnnounced, DownKnowsNobody, TellsApp
<1>8. ASSUME NEW r \in Streams, EventsSse(r) \/ CloseStream(r) PROVE IInv'
  <2>1. r \in Receivers /\ UNCHANGED <<mode, running, swarm, busy, syncs, starts>>
    BY <1>8 DEF EventsSse, CloseStream, Receivers
  <2>2. /\ rx' \in [Receivers -> Cursor] /\ told' \in [Receivers -> SUBSET Devices]
        /\ \A q \in Receivers : Len(rx'[q].pending) <= Capacity
        /\ early' \subseteq Receivers /\ missed' \subseteq Receivers
        /\ EarlyListens' /\ TellsApp'
    BY <1>8, <2>1, SubscribeStep, DropStep DEF EventsSse, CloseStream, swarm
  <2> QED
    BY <2>1, <2>2 DEF TypeOK, swarm, KeysAnnounced, DownKnowsNobody, Known
<1>9. ASSUME NEW p \in Peers, Discovered(p) \/ Disconnected(p) PROVE IInv'
  <2>1. Known' = Known /\ UNCHANGED receivers
    BY <1>9 DEF Discovered, Disconnected, Known
  <2>2. TypeOK'
    BY <1>9 DEF Discovered, Disconnected, TypeOK, receivers
  <2> QED
    BY <1>9, <2>1, <2>2, QuietStep DEF Discovered, Disconnected, KeysAnnounced, DownKnowsNobody
<1>10. ASSUME NEW p \in Peers, Identify(p) PROVE IInv'
  <2>1. DeviceOf[p] \in Devices /\ up /\ Meet(p, DeviceOf[p])
    BY <1>10 DEF Identify, IsMeshPad
  <2> QED
    BY <2>1, MeetStep
<1>11. CASE UNCHANGED vars
  <2>1. Known' = Known /\ UNCHANGED receivers
    BY <1>11 DEF vars, Known, swarm
  <2> QED
    BY <1>11, <2>1, QuietStep DEF vars, TypeOK, swarm, receivers, KeysAnnounced, DownKnowsNobody
<1>12. ASSUME NEW p \in Peers, NEW d \in Devices, Hello(p, d) PROVE IInv'
  BY <1>12, MeetStep DEF Hello
<1>13. ASSUME PollEvent \/ \E r \in Streams : StreamEvent(r) PROVE IInv'
  BY <1>7, <1>13 DEF PollEvent, StreamEvent, Receivers
<1> QED
  BY <1>1, <1>2, <1>3, <1>4, <1>5, <1>6, <1>8, <1>9, <1>10, <1>11, <1>12, <1>13, ExpiredStep DEF Next

\* The invariant holds whatever the app, its streams and the devices around do.
THEOREM InvHolds == Spec => []IInv
  BY InitInv, NextStep, PTL DEF Spec

\* The maps, the receivers and the bounds keep their types, the channel included: no
\* receiver holds more than its capacity.
THEOREM TypeCorrect == Spec => []TypeOK
<1>1. IInv => TypeOK
  BY DEF IInv
<1> QED
  BY <1>1, InvHolds, PTL

\* For any peers and devices, the set of announced devices is the set of known ones.
THEOREM AnnouncedAreKnown == Spec => []KeysAnnounced
<1>1. IInv => KeysAnnounced
  BY DEF IInv
<1> QED
  BY <1>1, InvHolds, PTL

\* For any capacity, a receiver that was there at the start of the swarm, and was never
\* overtaken, has read or will read of every device that the swarm knows.
THEOREM AppIsTold == Spec => []TellsApp
<1>1. IInv => TellsApp
  BY DEF IInv
<1> QED
  BY <1>1, InvHolds, PTL
=============================================================================
