---------------------------- MODULE MCLanCascade ----------------------------
(* Four devices: in a line, in a ring, and a triangle with a tail.          *)
EXTENDS LanCascade

CONSTANTS d1, d2, d3, d4

FourDevices == {d1, d2, d3, d4}
Line == {{d1, d2}, {d2, d3}, {d3, d4}}
Ring == Line \cup {{d1, d4}}
Kite == {{d1, d2}, {d1, d3}, {d2, d3}, {d3, d4}}

\* All pairings have tokens, or none has, or those in the middle have none.
Paired == {[links |-> net, plain |-> {}] : net \in {Line, Ring, Kite}}
Unkeyed == {[links |-> net, plain |-> net] : net \in {Line, Ring, Kite}}
Mixed == {[links |-> net, plain |-> {{d1, d2}, {d2, d3}}] : net \in {Line, Kite}}
AllNetworks == Paired \cup Unkeyed \cup Mixed
TwoEditors == {d1, d4}

\* Just enough hops for a chain through all of them, one hop, and one device
\* with hops among others that do not cascade of their own.
ThreeProfiles == {[d \in FourDevices |-> 2], [d \in FourDevices |-> 1],
                  [d \in FourDevices |-> IF d = d1 THEN 3 ELSE 0]}
=============================================================================
