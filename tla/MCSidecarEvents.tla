---- MODULE MCSidecarEvents ----
(* PeerIds for TLC: d has two, since it was started anew; x is of e. *)
EXTENDS SidecarEvents, TLC

CONSTANTS p, q, x, d, e

TwoDevices == p :> d @@ q :> d @@ x :> e
====
