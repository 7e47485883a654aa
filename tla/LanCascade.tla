------------------------------ MODULE LanCascade ------------------------------
(***************************************************************************)
(* Sync runs over the trusted devices, and the cascade: after each peer it *)
(* has synced, a device asks that peer to sync with its own peers, except  *)
(* those the chain of requests has been through.  The body of a request is *)
(* encrypted when its sender has an auth token of the peer, and the peer   *)
(* does not decrypt it: it reads a request that excludes nobody and allows *)
(* no further hop.  A session is one step here (NoteSync has its steps):   *)
(* afterwards both sides have all the news of both.  A peer may be         *)
(* unreachable, a session may fail, or never end, a request may be lost,   *)
(* and a device may stop.                                                  *)
(***************************************************************************)
EXTENDS Naturals, FiniteSets, Sequences, Bags

CONSTANTS
  Device,
  Networks,           \* how the devices may be paired: the pairs of devices (links), and
                      \* those that have no auth token (plain), from records without one
  HopLimits,          \* [Device -> Nat]: the profiles in use, 0 for one without cascade
  MaxConcurrentPeers, \* of the network profile
  Editors,            \* bound: the devices on which there are edits
  MaxEvents           \* bound: edits with the sync they set off, and failures:
                      \* failed sessions, lost requests, stops

ASSUME CascadeAssumption ==
  /\ IsFiniteSet(Device)
  /\ Networks \subseteq [links : SUBSET SUBSET Device, plain : SUBSET SUBSET Device]
  /\ HopLimits \subseteq [Device -> Nat]
  /\ MaxConcurrentPeers \in Nat \ {0}
  /\ Editors \subseteq Device /\ MaxEvents \in Nat

VARIABLES
  trusted,  \* trusted[d]: the devices d is paired with
  token,    \* token[d]: those of them with which it shares an auth token
  limit,    \* limit[d]: the hop limit of its profile
  news,     \* news[d]: the edits that d has
  run,      \* run[d]: the sync run of d
  asks,     \* cascade requests on the wire, a bag
  by,       \* the devices that edited, in order
  failures

vars == <<trusted, token, limit, news, run, asks, by, failures>>

Edits == 1..MaxEvents
Bounded == Len(by) + failures < MaxEvents

NoRun == [busy |-> FALSE, left |-> {}, now |-> {}, ask |-> {}, exclude |-> {}, hop |-> 0,
          path |-> <<>>]

\* The chain of devices a request has come through is kept beside it (path), to
\* say what exclude and hop achieve.
Request(to, sealed, exclude, hop, path) ==
  [to |-> to, sealed |-> sealed, exclude |-> exclude, hop |-> hop, path |-> path]

\* Pairing makes both sides trust each other, with the same token.
Init ==
  /\ \E net \in Networks :
       /\ trusted = [d \in Device |-> {e \in Device \ {d} : {d, e} \in net.links}]
       /\ token = [d \in Device |-> {e \in Device \ {d} : {d, e} \in net.links \ net.plain}]
  /\ limit \in HopLimits
  /\ news = [d \in Device |-> {}]
  /\ run = [d \in Device |-> NoRun]
  /\ asks = EmptyBag
  /\ by = <<>> /\ failures = 0
-----------------------------------------------------------------------------
\* Mutant: the peers to sync with are not filtered.
AllTrusted(d, exclude) == trusted[d]
Left(d, exclude) == trusted[d] \ exclude

\* Mutant: the last hop is not used.
MayCascadeTwice(hop) == hop > 1
MayCascade(hop) == hop > 0

\* runSync and syncTrustedPeers up to the first peer: refused while a run is
\* under way, over at once when no peer is left.
RunSync(d, exclude, hop, path) ==
  IF run[d].busy \/ trusted[d] \subseteq exclude THEN UNCHANGED run
  ELSE run' = [run EXCEPT ![d] =
         [busy |-> TRUE, left |-> Left(d, exclude), now |-> {}, ask |-> {},
          exclude |-> exclude, hop |-> hop, path |-> Append(path, d)]]

\* An edit, and the sync that follows it.
Edit(d) ==
  /\ d \in Editors /\ Bounded
  /\ by' = Append(by, d)
  /\ news' = [news EXCEPT ![d] = @ \cup {Len(by) + 1}]
  /\ RunSync(d, {}, limit[d], <<>>)
  /\ UNCHANGED <<trusted, token, limit, asks, failures>>

\* Mutant: only full batches are begun.
NextFullBatch(d) ==
  LET r == run[d] IN
  /\ r.left # {} /\ r.now = {} /\ r.ask = {}
  /\ \E batch \in SUBSET r.left :
       /\ Cardinality(batch) = MaxConcurrentPeers
       /\ run' = [run EXCEPT ![d].left = @ \ batch, ![d].now = batch]
  /\ UNCHANGED <<trusted, token, limit, news, asks, by, failures>>

\* The next peers, as many at once as the profile allows.
NextBatch(d) ==
  LET r == run[d] IN
  /\ r.left # {} /\ r.now = {} /\ r.ask = {}
  /\ \E batch \in SUBSET r.left :
       /\ Cardinality(batch) = IF Cardinality(r.left) < MaxConcurrentPeers
                               THEN Cardinality(r.left) ELSE MaxConcurrentPeers
       /\ run' = [run EXCEPT ![d].left = @ \ batch, ![d].now = batch]
  /\ UNCHANGED <<trusted, token, limit, news, asks, by, failures>>

SyncPeer(d, p) ==
  /\ p \in run[d].now
  /\ news' = [news EXCEPT ![d] = news[d] \cup news[p], ![p] = news[d] \cup news[p]]
  /\ run' = [run EXCEPT ![d].now = @ \ {p},
                        ![d].ask = IF MayCascade(run[d].hop) THEN @ \cup {p} ELSE @]
  /\ UNCHANGED <<trusted, token, limit, asks, by, failures>>

\* Unreachable, or the session failed: no request.
SkipPeer(d, p) ==
  /\ p \in run[d].now /\ Bounded
  /\ failures' = failures + 1
  /\ run' = [run EXCEPT ![d].now = @ \ {p}]
  /\ UNCHANGED <<trusted, token, limit, news, asks, by>>

Visited(d) == run[d].exclude \cup {d}

\* _post encrypts the body with the token of the peer, if there is one
\* (http_remote_sync_gateway.dart:458-469).
AskCascade(d, p) ==
  /\ p \in run[d].ask
  /\ asks' = asks (+) SetToBag({Request(p, p \in token[d], Visited(d), run[d].hop - 1,
                                        run[d].path)})
  /\ run' = [run EXCEPT ![d].ask = @ \ {p}]
  /\ UNCHANGED <<trusted, token, limit, news, by, failures>>

FinishRun(d) ==
  /\ run[d].busy /\ run[d].left = {} /\ run[d].now = {} /\ run[d].ask = {}
  /\ run' = [run EXCEPT ![d] = NoRun]
  /\ UNCHANGED <<trusted, token, limit, news, asks, by, failures>>

\* Mutant: what cannot be read is taken for a request with all hops.
ReadOwnLimit(a) ==
  IF a.sealed THEN [exclude |-> {}, hop |-> limit[a.to]]
  ELSE [exclude |-> a.exclude, hop |-> a.hop]
\* Mutant: the hop limit is not read.
ReadNoHop(a) ==
  IF a.sealed THEN [exclude |-> {}, hop |-> 0] ELSE [exclude |-> a.exclude, hop |-> 0]
\* _handleCascadeRoute looks for the fields in the body as it came.  An encrypted
\* body is an object without them, which CascadeSyncRequest.fromWire makes a request
\* for nobody and no hop, as the catch does with a body that cannot be parsed.
Read(a) ==
  IF a.sealed THEN [exclude |-> {}, hop |-> 0] ELSE [exclude |-> a.exclude, hop |-> a.hop]

\* The peer server answers and hands the request to runSync, which drops it
\* when a run is under way.
HandleCascade(a) ==
  /\ BagIn(a, asks)
  /\ asks' = asks (-) SetToBag({a})
  /\ RunSync(a.to, Read(a).exclude, Read(a).hop, a.path)
  /\ UNCHANGED <<trusted, token, limit, news, by, failures>>

LoseCascade(a) ==
  /\ BagIn(a, asks) /\ Bounded
  /\ asks' = asks (-) SetToBag({a})
  /\ failures' = failures + 1
  /\ UNCHANGED <<trusted, token, limit, news, run, by>>

\* A device stops in a run and starts again; nothing of the run is kept.
Restart(d) ==
  /\ run[d].busy /\ Bounded
  /\ run' = [run EXCEPT ![d] = NoRun]
  /\ failures' = failures + 1
  /\ UNCHANGED <<trusted, token, limit, news, asks, by>>

RunStep(d) == \/ NextBatch(d) \/ FinishRun(d)
              \/ \E p \in Device : SyncPeer(d, p) \/ SkipPeer(d, p) \/ AskCascade(d, p)
Handling == \E a \in BagToSet(asks) : HandleCascade(a) \/ LoseCascade(a)

Next == Handling \/ \E d \in Device : Edit(d) \/ RunStep(d) \/ Restart(d)

Spec == Init /\ [][Next]_vars

\* What a device does on its own goes on, and a request on the wire arrives or is
\* lost.  That a session, or the answer to a request, ever comes is not assumed: the
\* HTTP client has no time limit, and that of the run begins after the session.
FairSpec == /\ Spec
            /\ WF_vars(Handling)
            /\ \A d \in Device : WF_vars(NextBatch(d)) /\ WF_vars(FinishRun(d))
-----------------------------------------------------------------------------
Run == [busy : BOOLEAN, left : SUBSET Device, now : SUBSET Device, ask : SUBSET Device,
        exclude : SUBSET Device, hop : Nat, path : Seq(Device)]
Requests == [to : Device, sealed : BOOLEAN, exclude : SUBSET Device, hop : Nat, path : Seq(Device)]

\* The variables keep their types; what a run has still to do shrinks from the
\* peers it began with, and no peer is in two stages of it at once.
TypeOK ==
  /\ trusted \in [Device -> SUBSET Device]
  /\ token \in [Device -> SUBSET Device] /\ limit \in [Device -> Nat]
  /\ news \in [Device -> SUBSET Edits]
  /\ run \in [Device -> Run]
  /\ \A d \in Device : LET r == run[d] IN
       /\ d \notin trusted[d]
       /\ r.left \cup r.now \cup r.ask \subseteq trusted[d] \ r.exclude
       /\ r.left \cap r.now = {} /\ r.now \cap r.ask = {} /\ r.left \cap r.ask = {}
  /\ IsABag(asks) /\ BagToSet(asks) \subseteq Requests
  /\ by \in Seq(Editors) /\ failures \in Nat
  /\ Len(by) + failures <= MaxEvents

Chains == {run[d].path : d \in {d \in Device : run[d].busy}}
          \cup {Append(a.path, a.to) : a \in BagToSet(asks)}

\* No chain of requests comes back to a device it has been through, none is longer
\* than the hop limit of the device that began it allows, and none goes on after a
\* pairing with a token, in any topology, however runs on the same devices overlap.
\* The excluded devices and the hop limit end the chains over pairings without tokens
\* (docs/SYNC_WIRE.md:101-103); what ends the others is that a request which cannot be
\* read allows no hop.
ChainsEnd ==
  \A c \in Chains : /\ \A i, j \in 1..Len(c) : i # j => c[i] # c[j]
                    /\ Len(c) <= limit[c[1]] + 1
                    /\ \A i \in 1..Len(c) : i + 1 < Len(c) => c[i + 1] \notin token[c[i]]

Quiet == asks = EmptyBag /\ \A d \in Device : ~run[d].busy

\* The cascade dies out: when there are no more edits and failures, and the sessions
\* and requests of every run end, every device comes to rest.  The premise is needed:
\* a peer that accepts a call and never answers keeps a run for ever
\* (lan_single_peer_sync.dart:97).
CascadeDiesOut ==
  (\A d \in Device : []<>(run[d].now = {} /\ run[d].ask = {})) => <>[]Quiet

\* The devices d can reach over trusted devices: those in every set that has d
\* and, with a device, those it trusts.
Reach(d) ==
  {e \in Device : \A S \in SUBSET Device :
     d \in S /\ (\A f \in S : trusted[f] \subseteq S) => e \in S}

Alone == Quiet /\ Len(by) = 1 /\ failures = 0

\* The sync after one edit brings it to every peer of the device and, with a profile
\* that cascades, to every peer of those, although each of them may be busy with
\* another request when it is asked: when all is quiet again and nothing has failed,
\* nobody within two links is without it.  Further it need not come.
EditReachesTwoLinks ==
  Alone => \A p \in trusted[by[1]] :
             /\ 1 \in news[p]
             /\ limit[by[1]] > 0 => \A e \in trusted[p] : 1 \in news[e]

\* The sync after one edit brings it to every device that is connected, although
\* devices drop the requests that come while they are busy: when all is quiet again,
\* nobody connected is without it.  (Nothing failed, and the hop limit of the device
\* is enough for a chain through all but the last device.)  So it should be by
\* docs/SYNC_WIRE.md:101-110.  With tokens it does not hold.
EditSpreads ==
  Alone /\ limit[by[1]] + 2 >= Cardinality(Device)
    => \A e \in Reach(by[1]) : 1 \in news[e]

\* Where requests can be read, because no pairing has a token, it is so.
PlainEditSpreads == (\A d \in Device : token[d] = {}) => EditSpreads
=============================================================================
