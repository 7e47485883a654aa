------------------------------ MODULE FfiEmbedded ------------------------------
(***************************************************************************)
(* The embedded HTTP server of ffi.rs: meshpad_ffi_start_embedded and      *)
(* meshpad_ffi_stop_embedded, called from any thread, the lock EMBEDDED    *)
(* they hold until they return, the thread of the server, and the port     *)
(* that both write and that meshpad_ffi_embedded_port reads without lock.  *)
(*                                                                         *)
(* A call takes a number; the server it may start has the same number, and *)
(* its number stands for its port.                                         *)
(***************************************************************************)
EXTENDS Naturals

CONSTANTS
  Callers,   \* threads of the app that call
  Nobody,    \* the lock is free
  Clients,   \* HTTP clients, which keep streams of events open
  MaxPolls,  \* how often a start looks for the port (200 times)
  MaxCalls   \* bound: the calls

ASSUME EmbeddedAssumption == /\ Nobody \notin Callers
                             /\ MaxPolls \in Nat \ {0} /\ MaxCalls \in Nat

Servers == 1..MaxCalls

VARIABLES
  lock,   \* who holds EMBEDDED
  guard,  \* the server in EMBEDDED, or 0
  port,   \* EMBEDDED_PORT
  pc,     \* pc[c]: where the call of c is
  srv,    \* srv[c]: the number of the call, then the server it starts or stops
  polls,  \* polls[c]: how often a start has looked
  th,     \* th[i]: the thread of server i
  slot,   \* slot[i]: port_slot of server i
  asked,  \* servers asked to shut down
  conns,  \* clients with an open stream of events
  calls   \* how many calls were made

vars == <<lock, guard, port, pc, srv, polls, th, slot, asked, conns, calls>>

Init ==
  /\ lock = Nobody /\ guard = 0 /\ port = 0
  /\ pc = [c \in Callers |-> "idle"] /\ srv = [c \in Callers |-> 0]
  /\ polls = [c \in Callers |-> 0]
  /\ th = [i \in Servers |-> "none"] /\ slot = [i \in Servers |-> 0]
  /\ asked = {} /\ conns = {} /\ calls = 0
-----------------------------------------------------------------------------
Call(c, what) ==
  /\ pc[c] = "idle" /\ calls < MaxCalls
  /\ calls' = calls + 1
  /\ pc' = [pc EXCEPT ![c] = what]
  /\ srv' = [srv EXCEPT ![c] = calls + 1]
  /\ UNCHANGED <<lock, guard, port, polls, th, slot, asked, conns>>

\* The call of c is over; it held the lock.
Return(c) ==
  /\ pc' = [pc EXCEPT ![c] = "idle"]
  /\ srv' = [srv EXCEPT ![c] = 0]
  /\ polls' = [polls EXCEPT ![c] = 0]
  /\ lock' = Nobody

\* A server that is there answers a start with its port; else a thread is spawned.
StartLocked(c) ==
  /\ pc[c] = "start" /\ lock = Nobody
  /\ \/ /\ guard # 0
        /\ Return(c)
        /\ UNCHANGED th
     \/ /\ guard = 0
        /\ lock' = c
        /\ pc' = [pc EXCEPT ![c] = "poll"]
        /\ th' = [th EXCEPT ![srv[c]] = "bind"]
        /\ UNCHANGED <<srv, polls>>
  /\ UNCHANGED <<guard, port, slot, asked, conns, calls>>

\* Mutant: a start looks once more.
PollOnceMore(c) ==
  /\ pc[c] = "poll" /\ slot[srv[c]] = 0 /\ polls[c] <= MaxPolls
  /\ polls' = [polls EXCEPT ![c] = @ + 1]
  /\ UNCHANGED <<lock, guard, port, pc, srv, th, slot, asked, conns, calls>>
PollPort(c) ==
  /\ pc[c] = "poll" /\ polls[c] < MaxPolls
  /\ \/ /\ slot[srv[c]] # 0
        /\ guard' = srv[c]
        /\ Return(c)
     \/ /\ slot[srv[c]] = 0
        /\ polls' = [polls EXCEPT ![c] = @ + 1]
        /\ UNCHANGED <<lock, guard, pc, srv>>
  /\ UNCHANGED <<port, th, slot, asked, conns, calls>>

\* Mutant: the server is not asked to shut down.
GiveUpOnly(c) ==
  /\ pc[c] = "poll" /\ polls[c] = MaxPolls
  /\ pc' = [pc EXCEPT ![c] = "quit"]
  /\ UNCHANGED <<lock, guard, port, srv, polls, th, slot, asked, conns, calls>>
\* A start that has looked often enough shuts its server down.
GiveUp(c) ==
  /\ pc[c] = "poll" /\ polls[c] = MaxPolls
  /\ asked' = asked \cup {srv[c]}
  /\ pc' = [pc EXCEPT ![c] = "quit"]
  /\ UNCHANGED <<lock, guard, port, srv, polls, th, slot, conns, calls>>

Quit(c) ==
  /\ pc[c] = "quit" /\ th[srv[c]] = "end"
  /\ Return(c)
  /\ UNCHANGED <<guard, port, th, slot, asked, conns, calls>>

\* A stop takes the server out of EMBEDDED and asks it to shut down.
StopLocked(c) ==
  /\ pc[c] = "stop" /\ lock = Nobody
  /\ \/ /\ guard = 0
        /\ port' = 0
        /\ Return(c)
        /\ UNCHANGED <<guard, asked>>
     \/ /\ guard # 0
        /\ lock' = c /\ guard' = 0
        /\ pc' = [pc EXCEPT ![c] = "join"]
        /\ srv' = [srv EXCEPT ![c] = guard]
        /\ asked' = asked \cup {guard}
        /\ UNCHANGED <<port, polls>>
  /\ UNCHANGED <<th, slot, conns, calls>>

\* Mutant: a stop does not wait for the thread.
StopAtOnce(c) ==
  /\ pc[c] = "join"
  /\ port' = 0
  /\ Return(c)
  /\ UNCHANGED <<guard, th, slot, asked, conns, calls>>
StopJoined(c) ==
  /\ pc[c] = "join" /\ th[srv[c]] = "end"
  /\ port' = 0
  /\ Return(c)
  /\ UNCHANGED <<guard, th, slot, asked, conns, calls>>
-----------------------------------------------------------------------------
(* The thread of a server. *)

Goes(i, from, to) == th[i] = from /\ th' = [th EXCEPT ![i] = to]

\* The port may be taken: then the thread ends, and nobody is told.
Bind(i) ==
  /\ Goes(i, "bind", "bound") \/ Goes(i, "bind", "end")
  /\ UNCHANGED <<lock, guard, port, pc, srv, polls, slot, asked, conns, calls>>

StoreSlot(i) ==
  /\ Goes(i, "bound", "stored")
  /\ slot' = [slot EXCEPT ![i] = i]
  /\ UNCHANGED <<lock, guard, port, pc, srv, polls, asked, conns, calls>>

StorePort(i) ==
  /\ Goes(i, "stored", "serve")
  /\ port' = i
  /\ UNCHANGED <<lock, guard, pc, srv, polls, slot, asked, conns, calls>>

Connect(k) ==
  /\ k \notin conns /\ \E i \in Servers \ asked : th[i] = "serve"
  /\ conns' = conns \cup {k}
  /\ UNCHANGED <<lock, guard, port, pc, srv, polls, th, slot, asked, calls>>

Leave(k) ==
  /\ k \in conns
  /\ conns' = conns \ {k}
  /\ UNCHANGED <<lock, guard, port, pc, srv, polls, th, slot, asked, calls>>

\* Mutant: the server ends when its last client leaves.
ServeWhileUsed(i) ==
  /\ conns = {}
  /\ Goes(i, "serve", "served")
  /\ UNCHANGED <<lock, guard, port, pc, srv, polls, slot, asked, conns, calls>>
\* A graceful shutdown waits for the open connections, a stream of events included.
ServeEnds(i) ==
  /\ i \in asked /\ conns = {}
  /\ Goes(i, "serve", "served")
  /\ UNCHANGED <<lock, guard, port, pc, srv, polls, slot, asked, conns, calls>>

\* Mutant: the thread leaves the port as it is.
ThreadEndsOnly(i) ==
  /\ Goes(i, "served", "end")
  /\ UNCHANGED <<lock, guard, port, pc, srv, polls, slot, asked, conns, calls>>
ThreadEnds(i) ==
  /\ Goes(i, "served", "end")
  /\ port' = 0
  /\ UNCHANGED <<lock, guard, pc, srv, polls, slot, asked, conns, calls>>
-----------------------------------------------------------------------------
Step(c) == StartLocked(c) \/ PollPort(c) \/ GiveUp(c) \/ Quit(c) \/ StopLocked(c) \/ StopJoined(c)
Thread(i) == Bind(i) \/ StoreSlot(i) \/ StorePort(i) \/ ServeEnds(i) \/ ThreadEnds(i)

Next ==
  \/ \E c \in Callers : Call(c, "start") \/ Call(c, "stop") \/ Step(c)
  \/ \E i \in Servers : Thread(i)
  \/ \E k \in Clients : Connect(k) \/ Leave(k)

Spec == Init /\ [][Next]_vars

\* Threads run, and a thread that waits for the lock gets it: the calls are bounded.
\* Nothing is assumed of the clients.
Fairness == /\ \A c \in Callers : WF_vars(Step(c))
            /\ \A i \in Servers : WF_vars(Thread(i))

FairSpec == Spec /\ Fairness
-----------------------------------------------------------------------------
ThreadStates == {"none", "bind", "bound", "stored", "serve", "served", "end"}

\* Every variable has its type, and no start looks more often than it may.
TypeOK ==
  /\ lock \in Callers \cup {Nobody}
  /\ guard \in {0} \cup Servers /\ port \in {0} \cup Servers
  /\ pc \in [Callers -> {"idle", "start", "poll", "quit", "stop", "join"}]
  /\ srv \in [Callers -> {0} \cup Servers] /\ polls \in [Callers -> 0..MaxPolls]
  /\ th \in [Servers -> ThreadStates] /\ slot \in [Servers -> {0} \cup Servers]
  /\ asked \subseteq Servers /\ conns \subseteq Clients /\ calls \in 0..MaxCalls

Alive(i) == th[i] \notin {"none", "end"}

\* However starts, stops and failed binds interleave, at most one server thread exists.
OneServer == \A i, j \in Servers : Alive(i) /\ Alive(j) => i = j

\* What meshpad_ffi_embedded_port answers while no call is under way is 0 when there is no
\* server, and the port of the server there is, unless its thread has told the start of
\* its port and not yet everybody.
PortTruth ==
  lock = Nobody => IF guard = 0 THEN port = 0
                   ELSE port = guard \/ (port = 0 /\ th[guard] = "stored")

\* The test embedded_start_stop_on_ephemeral_port (ffi.rs:255): when a start has returned a
\* port, meshpad_ffi_embedded_port answers the same.  It does not hold: the thread tells
\* the start its port (64) before it stores it for everybody (65).
PortAfterStart == lock = Nobody /\ guard # 0 => port = guard

\* If every client leaves at some time, every call returns.
CallsReturn ==
  (\A k \in Clients : []<>(k \notin conns)) => \A c \in Callers : pc[c] # "idle" ~> pc[c] = "idle"

Listening(i) == th[i] \in {"bound", "stored", "serve"}

\* The calls and threads as steps of the lease.
Lease == INSTANCE ServerLease WITH
           listening <- IF \E i \in Servers : Listening(i)
                        THEN CHOOSE i \in Servers : Listening(i) ELSE 0,
           given <- guard,
           over <- {i \in Servers : th[i] \in {"served", "end"}}

\* The code implements the lease: whatever calls and binds do, one server listens at a
\* time, none starts again, and the one that the app has been given listens until a stop
\* takes it back.
LeaseKept == Lease!LeaseSpec
=============================================================================
