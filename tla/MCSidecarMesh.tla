---- MODULE MCSidecarMesh ----
(* Two sidecars, a and b, for TLC: the client of a syncs, or both clients do. *)
EXTENDS SidecarMesh, TLC

CONSTANTS a, b

ClientOfA == {<<a, 1>>}
TwoClientsOfA == {<<a, 1>>, <<a, 2>>}
ClientsOfBoth == {<<a, 1>>, <<b, 1>>}

EachStartsOnce == a :> 1 @@ b :> 1
AStartsTwice == a :> 2 @@ b :> 1
====
