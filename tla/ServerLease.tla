------------------------------ MODULE ServerLease ------------------------------
(***************************************************************************)
(* What meshpad_ffi_start_embedded and meshpad_ffi_stop_embedded promise:  *)
(* one server listens at a time, the app is given one that listens, and    *)
(* while it has it the server goes on listening.  A server is started once.*)
(***************************************************************************)
EXTENDS Naturals

CONSTANT Servers  \* their numbers, from 1

VARIABLES
  listening,  \* the server that listens, or 0
  given,      \* the server the app has been given and has not given back, or 0
  over        \* servers that have ended

leaseVars == <<listening, given, over>>

LeaseInit == listening = 0 /\ given = 0 /\ over = {}

Listen(i) == /\ listening = 0 /\ i \notin over
             /\ listening' = i
             /\ UNCHANGED <<given, over>>

\* A server that never listened has ended.
Fail(i) == /\ i # listening /\ i \notin over
           /\ over' = over \cup {i}
           /\ UNCHANGED <<listening, given>>

Give == /\ listening # 0 /\ given = 0
        /\ given' = listening
        /\ UNCHANGED <<listening, over>>

TakeBack == /\ given # 0
            /\ given' = 0
            /\ UNCHANGED <<listening, over>>

Close == /\ listening # 0 /\ given = 0
         /\ listening' = 0 /\ over' = over \cup {listening}
         /\ UNCHANGED given

LeaseNext == \/ \E i \in Servers : Listen(i) \/ Fail(i)
             \/ Give \/ TakeBack \/ Close

LeaseSpec == LeaseInit /\ [][LeaseNext]_leaseVars
=============================================================================
