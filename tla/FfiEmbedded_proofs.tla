-------------------------- MODULE FfiEmbedded_proofs --------------------------
(***************************************************************************)
(* Proofs about FfiEmbedded: for any number of callers, clients, polls and *)
(* calls, one server thread exists at a time, the published port is its,   *)
(* and the calls implement the lease.                                      *)
(*                                                                         *)
(* A thread that exists belongs either to EMBEDDED or to the caller that   *)
(* holds the lock, never to both: this is what the lock is held for until  *)
(* a call has returned.                                                    *)
(***************************************************************************)
EXTENDS FfiEmbedded, TLAPS

Holding == {"poll", "quit", "join"}

\* The lock is held by the call that looks for its port or waits for a thread.
LockHeld == \A c \in Callers : pc[c] \in Holding <=> lock = c

\* The calls to come take numbers no thread has; so does a start that waits for the lock.
Numbers ==
  /\ \A i \in Servers : i > calls => th[i] = "none"
  /\ \A c \in Callers : pc[c] = "start" => srv[c] \in 1..calls /\ th[srv[c]] = "none"
  /\ \A c, d \in Callers : pc[c] = "start" /\ pc[d] = "start" /\ srv[c] = srv[d] => c = d

\* A thread has told the slot when it is past binding, has ended only when asked to, or
\* without having told anybody, and is asked to only when it exists.
Threads ==
  \A i \in Servers :
    /\ th[i] \in {"none", "bind", "bound"} => slot[i] = 0
    /\ slot[i] # 0 /\ i \notin asked => th[i] \in {"stored", "serve"}
    /\ th[i] = "none" => i \notin asked
    /\ th[i] = "served" => i \in asked

\* What the holder of the lock and EMBEDDED own.
Owned ==
  /\ \A i \in Servers : Alive(i) => guard = i \/ (lock # Nobody /\ srv[lock] = i)
  /\ lock # Nobody => srv[lock] \in Servers /\ th[srv[lock]] # "none"
  /\ \A c \in Callers : pc[c] = "poll" => srv[c] \notin asked
  /\ guard # 0 => lock = Nobody /\ guard \notin asked /\ th[guard] \in {"stored", "serve"}

\* The published port is the port of the thread that has published it.
Published ==
  /\ \A i \in Servers : th[i] \in {"serve", "served"} => port = i
  /\ port # 0 => th[port] \in {"serve", "served"}

IInv == TypeOK /\ LockHeld /\ Numbers /\ Threads /\ Owned /\ Published
-----------------------------------------------------------------------------
\* What the inductive invariant says of the threads: no two exist, and they are of EMBEDDED
\* or of the holder of the lock.
LEMMA InvOneServer == IInv => OneServer
<1> SUFFICES ASSUME IInv, NEW i \in Servers, NEW j \in Servers, Alive(i), Alive(j)
             PROVE  i = j
  BY DEF OneServer
<1>1. i # 0 /\ j # 0
  BY DEF Servers
<1> QED
  BY <1>1 DEF IInv, Owned

\* A published port, while nobody holds the lock, is that of the server in EMBEDDED.
LEMMA InvPortTruth == IInv => PortTruth
<1> SUFFICES ASSUME IInv, lock = Nobody
             PROVE  IF guard = 0 THEN port = 0
                    ELSE port = guard \/ (port = 0 /\ th[guard] = "stored")
  BY DEF PortTruth
<1> USE DEF IInv
<1>1. port # 0 => port \in Servers /\ Alive(port)
  BY DEF Published, Alive, TypeOK, Servers
<1>2. port # 0 => guard = port
  BY <1>1 DEF Owned
<1>3. CASE guard = 0
  BY <1>2, <1>3
<1>4. CASE guard # 0
  <2>1. guard \in Servers /\ th[guard] \in {"stored", "serve"}
    BY <1>4 DEF Owned, TypeOK
  <2> QED
    BY <1>2, <1>4, <2>1 DEF Published
<1> QED
  BY <1>3, <1>4

LEMMA InitInv == Init => IInv
  BY EmbeddedAssumption
  DEF Init, IInv, TypeOK, LockHeld, Numbers, Threads, Owned, Published, Alive, Servers, Holding,
      ThreadStates
-----------------------------------------------------------------------------
(* What is known of a caller that holds the lock, and of a server that no caller holds. *)

\* A caller that looks for its port or waits owns the only thread there may be.
LEMMA HolderOwns ==
  ASSUME IInv, NEW c \in Callers, pc[c] \in Holding
  PROVE  /\ lock = c /\ guard = 0 /\ srv[c] \in Servers /\ th[srv[c]] # "none"
         /\ \A i \in Servers : Alive(i) => i = srv[c]
<1>1. lock = c
  BY DEF IInv, LockHeld
<1>2. lock # Nobody
  BY <1>1, EmbeddedAssumption
<1>3. 0 \notin Servers
  BY DEF Servers
<1> QED
  BY <1>1, <1>2, <1>3 DEF IInv, Owned

\* While nobody holds the lock, the only thread there may be is the one in EMBEDDED.
LEMMA FreeOwns ==
  ASSUME IInv, lock = Nobody
  PROVE  /\ \A c \in Callers : pc[c] \notin Holding
         /\ \A i \in Servers : Alive(i) => i = guard
  BY EmbeddedAssumption DEF IInv, Owned, LockHeld
-----------------------------------------------------------------------------
(* The types. *)

LEMMA TypeStep == IInv /\ [Next]_vars => TypeOK'
<1> SUFFICES ASSUME IInv, [Next]_vars PROVE TypeOK'
  OBVIOUS
<1> USE EmbeddedAssumption DEF IInv, TypeOK
<1>1. ASSUME NEW c \in Callers, Call(c, "start") \/ Call(c, "stop") PROVE TypeOK'
  <2>1. calls + 1 \in Servers /\ calls + 1 \in 0..MaxCalls
    BY <1>1 DEF Call, Servers
  <2> QED
    BY <1>1, <2>1 DEF Call
<1>2. ASSUME NEW c \in Callers, Return(c)
      PROVE  /\ pc' \in [Callers -> {"idle", "start", "poll", "quit", "stop", "join"}]
             /\ srv' \in [Callers -> {0} \cup Servers] /\ polls' \in [Callers -> 0..MaxPolls]
             /\ lock' \in Callers \cup {Nobody}
  <2>1. 0 \in 0..MaxPolls
    OBVIOUS
  <2> QED
    BY <1>2, <2>1 DEF Return
<1>3. ASSUME NEW c \in Callers, StartLocked(c) PROVE TypeOK'
  BY <1>2, <1>3 DEF StartLocked, ThreadStates
<1>4. ASSUME NEW c \in Callers, PollPort(c) PROVE TypeOK'
  <2>1. polls[c] + 1 \in 0..MaxPolls
    BY <1>4 DEF PollPort
  <2> QED
    BY <1>2, <1>4, <2>1 DEF PollPort
<1>5. ASSUME NEW c \in Callers, GiveUp(c) PROVE TypeOK'
  <2>1. srv[c] \in Servers
    BY <1>5, HolderOwns DEF GiveUp, Holding
  <2> QED
    BY <1>5, <2>1 DEF GiveUp
<1>6. ASSUME NEW c \in Callers, Quit(c) \/ StopJoined(c) PROVE TypeOK'
  BY <1>2, <1>6 DEF Quit, StopJoined
<1>7. ASSUME NEW c \in Callers, StopLocked(c) PROVE TypeOK'
  BY <1>2, <1>7 DEF StopLocked
<1>8. ASSUME NEW i \in Servers, Thread(i) PROVE TypeOK'
  BY <1>8 DEF Thread, Bind, StoreSlot, StorePort, ServeEnds, ThreadEnds, Goes, ThreadStates
<1>9. ASSUME NEW k \in Clients, Connect(k) \/ Leave(k) PROVE TypeOK'
  BY <1>9 DEF Connect, Leave
<1>10. CASE UNCHANGED vars
  BY <1>10 DEF vars
<1> QED
  BY <1>1, <1>3, <1>4, <1>5, <1>6, <1>7, <1>8, <1>9, <1>10 DEF Next, Step
-----------------------------------------------------------------------------
(* The lock. *)

LEMMA LockStep == IInv /\ [Next]_vars => LockHeld'
<1> SUFFICES ASSUME IInv, [Next]_vars PROVE LockHeld'
  OBVIOUS
<1> USE EmbeddedAssumption DEF IInv, TypeOK, LockHeld, Holding
<1>1. ASSUME NEW c \in Callers, Call(c, "start") \/ Call(c, "stop") PROVE LockHeld'
  BY <1>1 DEF Call
<1>2. ASSUME NEW c \in Callers, lock \in {c, Nobody}, Return(c) PROVE LockHeld'
  BY <1>2 DEF Return
<1>3. ASSUME NEW c \in Callers, StartLocked(c) PROVE LockHeld'
  BY <1>2, <1>3 DEF StartLocked
<1>4. ASSUME NEW c \in Callers, PollPort(c) PROVE LockHeld'
  BY <1>2, <1>4 DEF PollPort
<1>5. ASSUME NEW c \in Callers, GiveUp(c) PROVE LockHeld'
  BY <1>5 DEF GiveUp
<1>6. ASSUME NEW c \in Callers, Quit(c) \/ StopJoined(c) PROVE LockHeld'
  BY <1>2, <1>6 DEF Quit, StopJoined
<1>7. ASSUME NEW c \in Callers, StopLocked(c) PROVE LockHeld'
  BY <1>2, <1>7 DEF StopLocked
<1>8. ASSUME UNCHANGED <<lock, pc>> PROVE LockHeld'
  BY <1>8
<1> QED
  BY <1>1, <1>3, <1>4, <1>5, <1>6, <1>7, <1>8
  DEF Next, Step, Thread, Bind, StoreSlot, StorePort, ServeEnds, ThreadEnds, Connect, Leave, vars
-----------------------------------------------------------------------------
(* The numbers. *)

LEMMA NumbersStep == IInv /\ [Next]_vars => Numbers'
<1> SUFFICES ASSUME IInv, [Next]_vars PROVE Numbers'
  OBVIOUS
<1> USE DEF IInv, TypeOK, Numbers
<1>1. ASSUME NEW c \in Callers, Call(c, "start") \/ Call(c, "stop") PROVE Numbers'
  <2>1. calls + 1 \in Servers /\ th[calls + 1] = "none"
    BY <1>1, EmbeddedAssumption DEF Call, Servers
  <2>2. \A d \in Callers : pc[d] = "start" => srv[d] # calls + 1
    OBVIOUS
  <2>3. ASSUME NEW d \in Callers, pc'[d] = "start"
        PROVE  /\ srv'[d] \in 1..(calls + 1) /\ th[srv'[d]] = "none"
               /\ srv'[d] = calls + 1 <=> d = c
    BY <1>1, <2>1, <2>2, <2>3, EmbeddedAssumption DEF Call
  <2>4. \A i \in Servers : i > calls + 1 => th[i] = "none"
    BY DEF Servers
  <2> QED
    BY <1>1, <2>3, <2>4 DEF Call
<1>2. ASSUME NEW c \in Callers, Return(c), UNCHANGED <<th, calls>> PROVE Numbers'
  BY <1>2 DEF Return
<1>3. ASSUME NEW c \in Callers, StartLocked(c) PROVE Numbers'
  <2>1. CASE guard # 0
    BY <1>2, <1>3, <2>1 DEF StartLocked
  <2>2. CASE guard = 0
    <3>1. srv[c] \in 1..calls /\ pc[c] = "start"
      BY <1>3 DEF StartLocked
    <3>2. th' = [th EXCEPT ![srv[c]] = "bind"] /\ pc' = [pc EXCEPT ![c] = "poll"]
          /\ UNCHANGED <<srv, calls>>
      BY <1>3, <2>2 DEF StartLocked
    <3>3. \A d \in Callers : pc'[d] = "start" => pc[d] = "start" /\ srv[d] # srv[c]
      BY <3>1, <3>2
    <3> QED
      BY <3>1, <3>2, <3>3 DEF Servers
  <2> QED
    BY <2>1, <2>2
<1>4. ASSUME NEW c \in Callers, PollPort(c) PROVE Numbers'
  BY <1>2, <1>4 DEF PollPort
<1>5. ASSUME NEW c \in Callers, GiveUp(c) PROVE Numbers'
  BY <1>5 DEF GiveUp
<1>6. ASSUME NEW c \in Callers, Quit(c) \/ StopJoined(c) PROVE Numbers'
  BY <1>2, <1>6 DEF Quit, StopJoined
<1>7. ASSUME NEW c \in Callers, StopLocked(c) PROVE Numbers'
  <2>1. CASE guard = 0
    BY <1>2, <1>7, <2>1 DEF StopLocked
  <2>2. CASE guard # 0
    BY <1>7, <2>2 DEF StopLocked
  <2> QED
    BY <2>1, <2>2
<1>8. ASSUME NEW i \in Servers, NEW from \in ThreadStates \ {"none"}, NEW to, Goes(i, from, to),
             UNCHANGED <<pc, srv, calls>>
      PROVE  Numbers'
  BY <1>8 DEF Goes, Servers
<1>9. ASSUME NEW i \in Servers, Thread(i) PROVE Numbers'
  BY <1>8, <1>9 DEF Thread, Bind, StoreSlot, StorePort, ServeEnds, ThreadEnds, ThreadStates
<1>10. ASSUME UNCHANGED <<th, pc, srv, calls>> PROVE Numbers'
  BY <1>10
<1> QED
  BY <1>1, <1>3, <1>4, <1>5, <1>6, <1>7, <1>9, <1>10 DEF Next, Step, Connect, Leave, vars
-----------------------------------------------------------------------------
(* The threads. *)

LEMMA ThreadsStep == IInv /\ [Next]_vars => Threads'
<1> SUFFICES ASSUME IInv, [Next]_vars PROVE Threads'
  OBVIOUS
<1> USE DEF IInv, TypeOK, Threads
<1>1. ASSUME UNCHANGED <<th, slot, asked>> PROVE Threads'
  BY <1>1
<1>2. ASSUME NEW c \in Callers, StartLocked(c) PROVE Threads'
  <2>1. CASE guard # 0
    BY <1>1, <1>2, <2>1 DEF StartLocked
  <2>2. CASE guard = 0
    <3>1. srv[c] \in Servers /\ th[srv[c]] = "none"
      BY <1>2, EmbeddedAssumption DEF StartLocked, Numbers, Servers
    <3> QED
      BY <1>2, <2>2, <3>1 DEF StartLocked
  <2> QED
    BY <2>1, <2>2
<1>3. ASSUME NEW i \in Servers, th[i] # "none", asked' = asked \cup {i}, UNCHANGED <<th, slot>>
      PROVE  Threads'
  BY <1>3
<1>4. ASSUME NEW c \in Callers, GiveUp(c) PROVE Threads'
  BY <1>3, <1>4, HolderOwns DEF GiveUp, Holding
<1>5. ASSUME NEW c \in Callers, StopLocked(c) PROVE Threads'
  <2>1. guard # 0 => guard \in Servers /\ th[guard] # "none"
    BY DEF Owned
  <2> QED
    BY <1>1, <1>3, <1>5, <2>1 DEF StopLocked
<1>6. ASSUME NEW i \in Servers, Bind(i) PROVE Threads'
  BY <1>6 DEF Bind, Goes
<1>7. ASSUME NEW i \in Servers, StoreSlot(i) PROVE Threads'
  <2>1. i # 0
    BY DEF Servers
  <2> QED
    BY <1>7, <2>1 DEF StoreSlot, Goes
<1>8. ASSUME NEW i \in Servers, StorePort(i) PROVE Threads'
  BY <1>8 DEF StorePort, Goes
<1>9. ASSUME NEW i \in Servers, ServeEnds(i) \/ ThreadEnds(i) PROVE Threads'
  BY <1>9 DEF ServeEnds, ThreadEnds, Goes
<1> QED
  BY <1>1, <1>2, <1>4, <1>5, <1>6, <1>7, <1>8, <1>9
  DEF Next, Step, Thread, Call, PollPort, Quit, StopJoined, Connect, Leave, vars
-----------------------------------------------------------------------------
(* Who owns the thread. *)

LEMMA OwnedStep == IInv /\ [Next]_vars => Owned'
<1> SUFFICES ASSUME IInv, [Next]_vars PROVE Owned'
  OBVIOUS
<1> USE EmbeddedAssumption DEF IInv, TypeOK
<1>1. 0 \notin Servers
  BY DEF Servers
<1>2. ASSUME NEW c \in Callers, Call(c, "start") \/ Call(c, "stop") PROVE Owned'
  <2>1. lock # c
    BY <1>2 DEF Call, LockHeld, Holding
  <2>2. lock # Nobody => srv'[lock] = srv[lock]
    BY <1>2, <2>1 DEF Call
  <2>3. \A d \in Callers : pc'[d] = "poll" => pc[d] = "poll" /\ srv'[d] = srv[d]
    BY <1>2 DEF Call
  <2> QED
    BY <1>2, <2>2, <2>3 DEF Call, Owned, Alive
<1>3. ASSUME NEW c \in Callers, StartLocked(c) PROVE Owned'
  <2>1. CASE guard # 0
    BY <1>3, <2>1 DEF StartLocked, Return, Owned, Alive
  <2>2. CASE guard = 0
    <3>1. srv[c] \in Servers /\ th[srv[c]] = "none" /\ srv[c] \notin asked
      BY <1>3 DEF StartLocked, Numbers, Servers, Threads
    <3>2. \A i \in Servers : ~Alive(i)
      BY <1>1, <1>3, <2>2, FreeOwns DEF StartLocked
    <3>3. lock' = c /\ th' = [th EXCEPT ![srv[c]] = "bind"] /\ pc' = [pc EXCEPT ![c] = "poll"]
          /\ UNCHANGED <<guard, srv, asked>>
      BY <1>3, <2>2 DEF StartLocked
    <3> QED
      BY <2>2, <3>1, <3>2, <3>3 DEF Owned, Alive
  <2> QED
    BY <2>1, <2>2
<1>4. ASSUME NEW c \in Callers, PollPort(c) PROVE Owned'
  <2>1. lock = c /\ guard = 0 /\ srv[c] \in Servers /\ \A i \in Servers : Alive(i) => i = srv[c]
    BY <1>4, HolderOwns DEF PollPort, Holding
  <2>2. \A d \in Callers : pc[d] = "poll" => d = c
    BY <2>1 DEF LockHeld, Holding
  <2>3. CASE slot[srv[c]] = 0
    BY <1>4, <2>3 DEF PollPort, Owned, Alive
  <2>4. CASE slot[srv[c]] # 0
    <3>1. srv[c] \notin asked /\ th[srv[c]] \in {"stored", "serve"}
      BY <1>4, <2>1, <2>4 DEF PollPort, Owned, Threads
    <3>2. guard' = srv[c] /\ lock' = Nobody /\ pc' = [pc EXCEPT ![c] = "idle"]
          /\ UNCHANGED <<th, asked>>
      BY <1>4, <2>4 DEF PollPort, Return
    <3> QED
      BY <2>1, <2>2, <3>1, <3>2 DEF Owned, Alive
  <2> QED
    BY <2>3, <2>4
<1>5. ASSUME NEW c \in Callers, GiveUp(c) PROVE Owned'
  <2>1. lock = c /\ guard = 0
    BY <1>5, HolderOwns DEF GiveUp, Holding
  <2>2. \A d \in Callers : pc'[d] # "poll"
    BY <1>5, <2>1 DEF LockHeld, Holding, GiveUp
  <2> QED
    BY <1>5, <2>1, <2>2 DEF GiveUp, Owned, Alive
<1>6. ASSUME NEW c \in Callers, Quit(c) \/ StopJoined(c) PROVE Owned'
  <2>1. /\ lock = c /\ guard = 0 /\ \A i \in Servers : Alive(i) => i = srv[c]
        /\ \A d \in Callers : pc[d] = "poll" => d = c
    BY <1>6, HolderOwns DEF Quit, StopJoined, Holding, LockHeld
  <2>2. \A i \in Servers : ~Alive(i)
    BY <1>6, <2>1 DEF Quit, StopJoined, Alive
  <2>3. lock' = Nobody /\ (\A d \in Callers : pc'[d] # "poll") /\ UNCHANGED <<guard, th>>
    BY <1>6, <2>1 DEF Quit, StopJoined, Return
  <2> QED
    BY <2>1, <2>2, <2>3 DEF Owned, Alive
<1>7. ASSUME NEW c \in Callers, StopLocked(c) PROVE Owned'
  <2>1. lock = Nobody /\ \A d \in Callers : pc[d] # "poll"
    BY <1>7, FreeOwns DEF StopLocked, Holding
  <2>2. \A d \in Callers : pc'[d] # "poll"
    BY <1>7, <2>1 DEF StopLocked, Return
  <2>3. CASE guard = 0
    BY <1>7, <2>1, <2>2, <2>3 DEF StopLocked, Return, Owned, Alive
  <2>4. CASE guard # 0
    <3>1. lock' = c /\ guard' = 0 /\ srv'[c] = guard /\ UNCHANGED th
      BY <1>7, <2>4 DEF StopLocked
    <3>2. guard \in Servers /\ th[guard] \in {"stored", "serve"}
      BY <2>4 DEF Owned
    <3> QED
      BY <2>1, <2>2, <3>1, <3>2 DEF Owned, Alive
  <2> QED
    BY <2>3, <2>4
<1>8. ASSUME NEW i \in Servers, Alive(i), NEW to \in ThreadStates \ {"none"},
             th' = [th EXCEPT ![i] = to], guard = i => to \in {"stored", "serve"},
             UNCHANGED <<lock, guard, pc, srv, asked>>
      PROVE  Owned'
  BY <1>8 DEF Owned, Alive
<1>9. ASSUME NEW i \in Servers, Thread(i) PROVE Owned'
  <2>1. guard = i => th[i] \in {"stored", "serve"} /\ i \notin asked
    BY <1>1 DEF Owned
  <2>2. CASE Bind(i)
    BY <1>8, <2>1, <2>2 DEF Bind, Goes, Alive, ThreadStates
  <2>3. CASE StoreSlot(i) \/ StorePort(i)
    BY <1>8, <2>1, <2>3 DEF StoreSlot, StorePort, Goes, Alive, ThreadStates
  <2>4. CASE ServeEnds(i) \/ ThreadEnds(i)
    BY <1>8, <2>1, <2>4 DEF ServeEnds, ThreadEnds, Goes, Alive, ThreadStates
  <2> QED
    BY <1>9, <2>2, <2>3, <2>4 DEF Thread
<1>10. ASSUME UNCHANGED <<lock, guard, pc, srv, th, asked>> PROVE Owned'
  BY <1>10 DEF Owned, Alive
<1> QED
  BY <1>2, <1>3, <1>4, <1>5, <1>6, <1>7, <1>9, <1>10 DEF Next, Step, Connect, Leave, vars
-----------------------------------------------------------------------------
(* The published port. *)

LEMMA PublishedStep == IInv /\ [Next]_vars => Published'
<1> SUFFICES ASSUME IInv, [Next]_vars PROVE Published'
  OBVIOUS
<1> USE DEF IInv, TypeOK
<1>1. ASSUME UNCHANGED <<port, th>> PROVE Published'
  BY <1>1 DEF Published
<1>2. ASSUME \A i \in Servers : ~Alive(i), port' = 0, UNCHANGED th PROVE Published'
  BY <1>2 DEF Published, Alive
<1>3. ASSUME NEW c \in Callers, StartLocked(c) PROVE Published'
  <2>1. CASE guard # 0
    BY <1>1, <1>3, <2>1 DEF StartLocked
  <2>2. CASE guard = 0
    <3>1. srv[c] \in Servers /\ th[srv[c]] = "none"
      BY <1>3, EmbeddedAssumption DEF StartLocked, Numbers, Servers
    <3> QED
      BY <1>3, <2>2, <3>1 DEF StartLocked, Published
  <2> QED
    BY <2>1, <2>2
<1>4. ASSUME NEW c \in Callers, StopLocked(c) PROVE Published'
  <2>1. CASE guard = 0
    <3>1. \A i \in Servers : ~Alive(i)
      BY <1>4, <2>1, FreeOwns DEF StopLocked, Servers
    <3> QED
      BY <1>2, <1>4, <2>1, <3>1 DEF StopLocked
  <2>2. CASE guard # 0
    BY <1>1, <1>4, <2>2 DEF StopLocked
  <2> QED
    BY <2>1, <2>2
<1>5. ASSUME NEW c \in Callers, StopJoined(c) PROVE Published'
  <2>1. \A i \in Servers : ~Alive(i)
    BY <1>5, HolderOwns DEF StopJoined, Holding, Alive
  <2> QED
    BY <1>2, <1>5, <2>1 DEF StopJoined
<1>6. ASSUME NEW i \in Servers, Thread(i) PROVE Published'
  <2>1. \A j \in Servers : Alive(i) /\ Alive(j) => i = j
    BY InvOneServer DEF OneServer
  <2>2. CASE Bind(i) \/ StoreSlot(i)
    BY <2>2 DEF Bind, StoreSlot, Goes, Published
  <2>3. CASE StorePort(i)
    <3>1. th[i] = "stored" /\ th' = [th EXCEPT ![i] = "serve"] /\ port' = i
      BY <2>3 DEF StorePort, Goes
    <3> QED
      BY <2>1, <3>1 DEF Published, Alive
  <2>4. CASE ServeEnds(i)
    <3>1. th[i] = "serve" /\ th' = [th EXCEPT ![i] = "served"] /\ UNCHANGED port
      BY <2>4 DEF ServeEnds, Goes
    <3> QED
      BY <3>1 DEF Published
  <2>5. CASE ThreadEnds(i)
    <3>1. th[i] = "served" /\ th' = [th EXCEPT ![i] = "end"] /\ port' = 0
      BY <2>5 DEF ThreadEnds, Goes
    <3> QED
      BY <2>1, <3>1 DEF Published, Alive
  <2> QED
    BY <1>6, <2>2, <2>3, <2>4, <2>5 DEF Thread
<1> QED
  BY <1>1, <1>3, <1>4, <1>5, <1>6
  DEF Next, Step, Call, PollPort, GiveUp, Quit, Connect, Leave, vars
-----------------------------------------------------------------------------
\* The invariant holds whatever starts, stops, binds and clients do.
THEOREM InvHolds == Spec => []IInv
<1>1. Init => IInv
  BY InitInv
<1>2. IInv /\ [Next]_vars => IInv'
  BY TypeStep, LockStep, NumbersStep, ThreadsStep, OwnedStep, PublishedStep DEF IInv
<1> QED
  BY <1>1, <1>2, PTL DEF Spec

\* The lock, the ports, the threads and the counters keep their types, for any bounds.
THEOREM TypeCorrect == Spec => []TypeOK
<1>1. IInv => TypeOK
  BY DEF IInv
<1> QED
  BY <1>1, InvHolds, PTL

\* For any number of calls from any number of threads, at most one server thread exists.
THEOREM AtMostOneServer == Spec => []OneServer
  BY InvHolds, InvOneServer, PTL

\* meshpad_ffi_embedded_port never answers the port of a server that is not the app's.
THEOREM PortIsTrue == Spec => []PortTruth
  BY InvHolds, InvPortTruth, PTL
-----------------------------------------------------------------------------
(* The lease. *)

\* What the mapping takes for the server that listens, over any states of the threads.
ListeningIn(t) ==
  IF \E i \in Servers : t[i] \in {"bound", "stored", "serve"}
  THEN CHOOSE i \in Servers : t[i] \in {"bound", "stored", "serve"} ELSE 0

EndedIn(t) == {i \in Servers : t[i] \in {"served", "end"}}

\* When at most one thread exists, it is the one that the CHOOSE takes.
LEMMA TheListening ==
  ASSUME NEW t, NEW i \in Servers, \A j \in Servers : t[j] \notin {"none", "end"} => j = i
  PROVE  ListeningIn(t) = IF t[i] \in {"bound", "stored", "serve"} THEN i ELSE 0
<1>1. \A j \in Servers : t[j] \in {"bound", "stored", "serve"} => j = i
  OBVIOUS
<1> QED
  BY <1>1 DEF ListeningIn

\* A thread that goes on is the only one, before the step and after it.
LEMMA TheThread ==
  ASSUME IInv, NEW i \in Servers, Alive(i), NEW to, th' = [th EXCEPT ![i] = to]
  PROVE  /\ ListeningIn(th) = IF th[i] \in {"bound", "stored", "serve"} THEN i ELSE 0
         /\ ListeningIn(th') = IF to \in {"bound", "stored", "serve"} THEN i ELSE 0
         /\ EndedIn(th') = IF to \in {"served", "end"} THEN EndedIn(th) \cup {i}
                           ELSE EndedIn(th) \ {i}
         /\ i \in EndedIn(th) <=> th[i] = "served"
<1>1. \A j \in Servers : th[j] \notin {"none", "end"} => j = i
  BY InvOneServer DEF OneServer, Alive
<1>2. th'[i] = to /\ \A j \in Servers : j # i => th'[j] = th[j]
  BY DEF IInv, TypeOK
<1>3. \A j \in Servers : th'[j] \notin {"none", "end"} => j = i
  BY <1>1, <1>2
<1>4. ListeningIn(th) = IF th[i] \in {"bound", "stored", "serve"} THEN i ELSE 0
  BY <1>1, TheListening
<1>5. ListeningIn(th') = IF th'[i] \in {"bound", "stored", "serve"} THEN i ELSE 0
  BY <1>3, TheListening
<1> QED
  BY <1>2, <1>4, <1>5 DEF EndedIn, Alive

\* The server in EMBEDDED listens.
LEMMA GivenListens ==
  ASSUME IInv, NEW i \in Servers, th[i] \in {"stored", "serve"}
  PROVE  ListeningIn(th) = i /\ i # 0
<1>1. \A j \in Servers : th[j] \notin {"none", "end"} => j = i
  BY InvOneServer DEF OneServer, Alive
<1> QED
  BY <1>1, TheListening DEF Servers

\* The steps of the lease, said of the variables of the code.
LEMMA LeaseSteps ==
  /\ UNCHANGED <<ListeningIn(th), guard, EndedIn(th)>> => UNCHANGED Lease!leaseVars
  /\ \A i \in Servers :
       /\ ListeningIn(th) = 0 /\ i \notin EndedIn(th) /\ ListeningIn(th') = i
       /\ UNCHANGED <<guard, EndedIn(th)>>
       => Lease!Listen(i)
  /\ \A i \in Servers :
       /\ i # ListeningIn(th) /\ i \notin EndedIn(th) /\ EndedIn(th') = EndedIn(th) \cup {i}
       /\ UNCHANGED <<guard, ListeningIn(th)>>
       => Lease!Fail(i)
  /\ /\ ListeningIn(th) # 0 /\ guard = 0 /\ guard' = ListeningIn(th)
     /\ UNCHANGED <<ListeningIn(th), EndedIn(th)>>
     => Lease!Give
  /\ guard # 0 /\ guard' = 0 /\ UNCHANGED <<ListeningIn(th), EndedIn(th)>> => Lease!TakeBack
  /\ /\ ListeningIn(th) # 0 /\ guard = 0 /\ ListeningIn(th') = 0
     /\ EndedIn(th') = EndedIn(th) \cup {ListeningIn(th)} /\ UNCHANGED guard
     => Lease!Close
BY DEF ListeningIn, EndedIn, Listening, Lease!leaseVars, Lease!Listen, Lease!Fail, Lease!Give,
       Lease!TakeBack, Lease!Close

\* A step of the calls and the threads is a step of the lease, or changes nothing of it.
LEMMA StepKeepsLease == IInv /\ [Next]_vars => [Lease!LeaseNext]_(Lease!leaseVars)
<1> SUFFICES ASSUME IInv, [Next]_vars PROVE [Lease!LeaseNext]_(Lease!leaseVars)
  OBVIOUS
<1>1. ASSUME UNCHANGED <<guard, th>> PROVE UNCHANGED Lease!leaseVars
  BY <1>1, LeaseSteps
<1>2. ASSUME NEW c \in Callers, StartLocked(c) PROVE UNCHANGED Lease!leaseVars
  <2>1. CASE guard # 0
    BY <1>1, <1>2, <2>1 DEF StartLocked
  <2>2. CASE guard = 0
    <3>1. srv[c] \in Servers /\ th[srv[c]] = "none" /\ th' = [th EXCEPT ![srv[c]] = "bind"]
          /\ UNCHANGED guard
      BY <1>2, <2>2, EmbeddedAssumption DEF StartLocked, IInv, TypeOK, Numbers, Servers
    <3>2. \A i \in Servers : ~Alive(i)
      BY <1>2, <2>2, FreeOwns DEF StartLocked, Servers
    <3>3. \A i \in Servers : th'[i] \in {"bound", "stored", "serve"} <=> th[i] \in {"bound", "stored", "serve"}
      BY <3>1 DEF IInv, TypeOK
    <3>4. ListeningIn(th) = 0 /\ ListeningIn(th') = 0
      BY <3>2, <3>3 DEF ListeningIn, Alive
    <3>5. EndedIn(th') = EndedIn(th)
      BY <3>1 DEF EndedIn, IInv, TypeOK
    <3> QED
      BY <3>1, <3>4, <3>5, LeaseSteps
  <2> QED
    BY <2>1, <2>2
<1>3. ASSUME NEW c \in Callers, PollPort(c) PROVE Lease!Give \/ UNCHANGED Lease!leaseVars
  <2>1. CASE slot[srv[c]] = 0
    BY <1>1, <1>3, <2>1 DEF PollPort
  <2>2. CASE slot[srv[c]] # 0
    <3>1. guard = 0 /\ srv[c] \in Servers
      BY <1>3, HolderOwns DEF PollPort, Holding
    <3>2. th[srv[c]] \in {"stored", "serve"}
      BY <1>3, <2>2, <3>1 DEF PollPort, IInv, Owned, Threads
    <3>3. ListeningIn(th) = srv[c] /\ ListeningIn(th) # 0
      BY <3>1, <3>2, GivenListens
    <3>4. guard' = srv[c] /\ UNCHANGED th
      BY <1>3, <2>2 DEF PollPort
    <3> QED
      BY <3>1, <3>3, <3>4, LeaseSteps
  <2> QED
    BY <2>1, <2>2
<1>4. ASSUME NEW c \in Callers, StopLocked(c) PROVE Lease!TakeBack \/ UNCHANGED Lease!leaseVars
  <2>1. CASE guard = 0
    BY <1>1, <1>4, <2>1 DEF StopLocked
  <2>2. CASE guard # 0
    BY <1>4, <2>2, LeaseSteps DEF StopLocked
  <2> QED
    BY <2>1, <2>2
<1>5. ASSUME NEW i \in Servers, Thread(i)
      PROVE  Lease!Listen(i) \/ Lease!Fail(i) \/ Lease!Close \/ UNCHANGED Lease!leaseVars
  <2>1. i # 0 /\ UNCHANGED guard
    BY <1>5 DEF Thread, Bind, StoreSlot, StorePort, ServeEnds, ThreadEnds, Servers
  <2>2. CASE Goes(i, "bind", "bound")
    <3>1. /\ ListeningIn(th) = 0 /\ ListeningIn(th') = i /\ i \notin EndedIn(th)
          /\ EndedIn(th') = EndedIn(th) \ {i}
      BY <2>2, TheThread DEF Goes, Alive
    <3>2. EndedIn(th') = EndedIn(th)
      BY <3>1
    <3> QED
      BY <2>1, <3>1, <3>2, LeaseSteps
  <2>3. CASE Goes(i, "bind", "end")
    <3>1. /\ ListeningIn(th) = 0 /\ ListeningIn(th') = 0 /\ i \notin EndedIn(th)
          /\ EndedIn(th') = EndedIn(th) \cup {i}
      BY <2>3, TheThread DEF Goes, Alive
    <3> QED
      BY <2>1, <3>1, LeaseSteps
  <2>4. CASE Goes(i, "bound", "stored") \/ Goes(i, "stored", "serve") \/ Goes(i, "served", "end")
    <3>1. ListeningIn(th) = ListeningIn(th') /\ EndedIn(th') = EndedIn(th)
      BY <2>4, TheThread DEF Goes, Alive
    <3> QED
      BY <2>1, <3>1, LeaseSteps
  <2>5. CASE Goes(i, "serve", "served") /\ i \in asked
    <3>1. /\ ListeningIn(th) = i /\ ListeningIn(th') = 0 /\ EndedIn(th') = EndedIn(th) \cup {i}
      BY <2>5, TheThread DEF Goes, Alive
    <3>2. guard = 0
      BY <2>1, <2>5, HolderOwns DEF IInv, Owned, Goes, Alive
    <3> QED
      BY <2>1, <3>1, <3>2, LeaseSteps
  <2> QED
    BY <1>5, <2>2, <2>3, <2>4, <2>5 DEF Thread, Bind, StoreSlot, StorePort, ServeEnds, ThreadEnds
<1> QED
  BY <1>1, <1>2, <1>3, <1>4, <1>5
  DEF Next, Step, Call, GiveUp, Quit, StopJoined, Connect, Leave, vars, Lease!LeaseNext

\* The code implements the lease: every start, stop, bind and end of a thread is a step of it.
THEOREM KeepsLease == Spec => LeaseKept
<1>1. Init => Lease!LeaseInit
  BY DEF Init, Lease!LeaseInit, Listening
<1>2. IInv /\ [Next]_vars => [Lease!LeaseNext]_(Lease!leaseVars)
  BY StepKeepsLease
<1> QED
  BY <1>1, <1>2, InvHolds, PTL DEF Spec, LeaseKept, Lease!LeaseSpec
=============================================================================
