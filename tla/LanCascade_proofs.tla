--------------------------- MODULE LanCascade_proofs ---------------------------
(***************************************************************************)
(* Proofs about LanCascade, for any set of devices, however they are       *)
(* paired, any hop limits, and any number of edits, failures and requests: *)
(* the variables keep their types, the chains of requests end, the sync    *)
(* after one edit brings it two links far, and to every device that is     *)
(* connected where no pairing has a token.                                 *)
(***************************************************************************)
EXTENDS LanCascade, FiniteSetTheorems, TLAPS

-----------------------------------------------------------------------------
(* The bag of requests. *)

LEMMA NoRequests == IsABag(EmptyBag) /\ BagToSet(EmptyBag) = {}
BY DEF EmptyBag, SetToBag, IsABag, BagToSet

\* A request is put on the wire ...
LEMMA PutRequest ==
  ASSUME NEW B, IsABag(B), NEW a
  PROVE  /\ IsABag(B (+) SetToBag({a}))
         /\ BagToSet(B (+) SetToBag({a})) = BagToSet(B) \cup {a}
<1> DEFINE C == B (+) SetToBag({a})
<1>1. /\ DOMAIN C = DOMAIN B \cup {a}
      /\ C = [e \in DOMAIN C |-> C[e]]
      /\ \A e \in DOMAIN C : C[e] = (IF e \in DOMAIN B THEN B[e] ELSE 0) + (IF e = a THEN 1 ELSE 0)
  BY DEF (+), SetToBag
<1>2. \A e \in DOMAIN B : B[e] \in Nat /\ B[e] > 0
  BY DEF IsABag
<1> HIDE DEF C
<1>3. ASSUME NEW e \in DOMAIN C PROVE C[e] \in Nat /\ C[e] > 0
  <2>1. CASE e \in DOMAIN B
    BY <1>1, <1>2, <2>1
  <2>2. CASE e = a /\ e \notin DOMAIN B
    BY <1>1, <2>2
  <2> QED
    BY <1>1, <2>1, <2>2
<1>4. C \in [DOMAIN C -> {n \in Nat : n > 0}]
  BY <1>1, <1>3
<1> QED
  BY <1>1, <1>4 DEF IsABag, BagToSet, C

\* ... and one copy of it is taken off.
LEMMA TakeRequest ==
  ASSUME NEW B, IsABag(B), NEW a
  PROVE  /\ IsABag(B (-) SetToBag({a}))
         /\ BagToSet(B (-) SetToBag({a})) \subseteq BagToSet(B)
         /\ BagToSet(B) \subseteq BagToSet(B (-) SetToBag({a})) \cup {a}
<1> DEFINE A == [e \in DOMAIN B |-> IF e \in {a} THEN B[e] - 1 ELSE B[e]]
           C == B (-) SetToBag({a})
<1>1. C = [e \in {d \in DOMAIN A : A[d] > 0} |-> A[e]]
  BY DEF (-), SetToBag
<1>2. \A e \in DOMAIN B : B[e] \in Nat /\ B[e] > 0
  BY DEF IsABag
<1>3. DOMAIN C = {d \in DOMAIN B : A[d] > 0} /\ \A e \in DOMAIN C : C[e] = A[e]
  BY <1>1
<1>4. ASSUME NEW e \in DOMAIN C PROVE C[e] \in Nat /\ C[e] > 0
  <2>1. e \in DOMAIN B /\ C[e] = A[e] /\ A[e] > 0 /\ A[e] = IF e = a THEN B[e] - 1 ELSE B[e]
    BY <1>3
  <2> HIDE DEF A, C
  <2> QED
    BY <1>2, <2>1
<1>5. C = [e \in DOMAIN C |-> C[e]]
  BY <1>1
<1>6. \A e \in DOMAIN B : e # a => e \in DOMAIN C
  BY <1>2, <1>3
<1> HIDE DEF C
<1>7. C \in [DOMAIN C -> {n \in Nat : n > 0}]
  BY <1>4, <1>5
<1> QED
  BY <1>3, <1>6, <1>7 DEF IsABag, BagToSet, C

-----------------------------------------------------------------------------
(* Chains, and the invariant of runs and requests. *)

\* The devices of a chain, and what makes it one: no device is in it twice.
Elems(c) == {c[i] : i \in 1..Len(c)}
Chain(c) == c \in Seq(Device) /\ Len(c) >= 1 /\ \A i, j \in 1..Len(c) : i # j => c[i] # c[j]

\* No link of a chain has a token, or none but the last.
Plain(c) == \A i \in 1..Len(c) : i < Len(c) => c[i + 1] \notin token[c[i]]
PlainButLast(c) == \A i \in 1..Len(c) : i + 1 < Len(c) => c[i + 1] \notin token[c[i]]

\* A run for a request that could be read, or for the user: exclude is the chain
\* before its device, and the hops used and left make up the limit of the device
\* that began.
Followed(r, d) ==
  /\ Elems(r.path) = r.exclude \cup {d}
  /\ Len(r.path) + r.hop = limit[r.path[1]] + 1
  /\ Plain(r.path)

\* A run for a request that could not be read.
CutOff(r) ==
  /\ r.exclude = {} /\ r.hop = 0 /\ Len(r.path) > 1
  /\ Len(r.path) <= limit[r.path[1]] + 1
  /\ PlainButLast(r.path)
  /\ \E e \in Device : token[e] # {}

\* The chain of a run ends at its device.
RunChained(r, d) ==
  /\ Chain(r.path) /\ r.path[Len(r.path)] = d
  /\ Followed(r, d) \/ CutOff(r)

RunOK(r, d) ==
  /\ r \in Run
  /\ r.left \cup r.now \cup r.ask \subseteq trusted[d] \ r.exclude
  /\ r.left \cap r.now = {} /\ r.now \cap r.ask = {} /\ r.left \cap r.ask = {}
  /\ r.ask # {} => r.hop > 0
  /\ IF r.busy THEN RunChained(r, d) ELSE r = NoRun

\* A request: its chain is what it excludes, has no token in it, and does not
\* have its device yet.
AskOK(a) ==
  /\ Chain(a.path) /\ Elems(a.path) = a.exclude /\ a.to \notin a.exclude
  /\ Len(a.path) + a.hop = limit[a.path[1]]
  /\ Plain(a.path) /\ a.sealed = (a.to \in token[a.path[Len(a.path)]])

ChainInv ==
  /\ TypeOK
  /\ \A d \in Device : RunOK(run[d], d)
  /\ \A a \in BagToSet(asks) : AskOK(a)


Distinct(c) == \A i, j \in 1..Len(c) : i # j => c[i] # c[j]

\* A chain grows by a device that is not in it.
LEMMA ChainGrows ==
  ASSUME NEW c \in Seq(Device), Distinct(c), NEW d \in Device, d \notin Elems(c)
  PROVE  /\ Append(c, d) \in Seq(Device) /\ Len(Append(c, d)) = Len(c) + 1
         /\ Len(c) \in Nat
         /\ Append(c, d)[Len(c) + 1] = d
         /\ Len(c) >= 1 => Append(c, d)[1] = c[1]
         /\ Chain(Append(c, d)) /\ Elems(Append(c, d)) = Elems(c) \cup {d}
<1> DEFINE g == Append(c, d)
<1>1. /\ g \in Seq(Device) /\ Len(g) = Len(c) + 1 /\ Len(c) \in Nat
      /\ g[Len(c) + 1] = d /\ \A i \in 1..Len(c) : g[i] = c[i]
  OBVIOUS
<1> HIDE DEF g
<1>2. \A i \in 1..Len(g) : i \in 1..Len(c) \/ i = Len(c) + 1
  BY <1>1
<1>3. \A i \in 1..Len(c) : c[i] # d
  BY DEF Elems
<1>4. ASSUME NEW i \in 1..Len(g), NEW j \in 1..Len(g), i # j
      PROVE  g[i] # g[j]
  <2>1. CASE i \in 1..Len(c) /\ j \in 1..Len(c)
    BY <1>1, <1>4, <2>1 DEF Distinct
  <2>2. CASE i \in 1..Len(c) /\ j = Len(c) + 1
    BY <1>1, <1>3, <2>2
  <2>3. CASE i = Len(c) + 1 /\ j \in 1..Len(c)
    BY <1>1, <1>3, <2>3
  <2> QED
    BY <1>2, <1>4, <2>1, <2>2, <2>3
<1>5. Chain(g)
  BY <1>1, <1>4 DEF Chain
<1>6. Elems(g) = Elems(c) \cup {d}
  <2>1. \A i \in 1..Len(g) : g[i] \in Elems(c) \cup {d}
    BY <1>1, <1>2 DEF Elems
  <2>2. \A i \in 1..Len(c) : c[i] \in Elems(g)
    <3>1. \A i \in 1..Len(c) : i \in 1..Len(g) /\ g[i] = c[i]
      BY <1>1
    <3> QED
      BY <3>1 DEF Elems
  <2>3. d \in Elems(g)
    <3>1. Len(c) + 1 \in 1..Len(g)
      BY <1>1
    <3> QED
      BY <1>1, <3>1 DEF Elems
  <2> QED
    BY <2>1, <2>2, <2>3 DEF Elems
<1>7. Len(c) >= 1 => g[1] = c[1]
  BY <1>1
<1> QED
  BY <1>1, <1>5, <1>6, <1>7 DEF g

\* What a run or a request says stays true while it, the trust and the limits stay.
LEMMA SameRun ==
  ASSUME UNCHANGED <<trusted, token, limit>>, NEW d \in Device, run'[d] = run[d], RunOK(run[d], d)
  PROVE  RunOK(run[d], d)'
BY DEF RunOK, RunChained, Followed, CutOff, Plain, PlainButLast

LEMMA SameAsk ==
  ASSUME UNCHANGED <<token, limit>>, NEW a, AskOK(a)
  PROVE  AskOK(a)'
BY DEF AskOK, Plain

\* A chain without tokens grows by a link.
LEMMA PlainGrows ==
  ASSUME NEW c \in Seq(Device), Plain(c), NEW d \in Device
  PROVE  /\ PlainButLast(Append(c, d))
         /\ Len(c) >= 1 /\ d \notin token[c[Len(c)]] => Plain(Append(c, d))
         /\ c = <<>> => Plain(Append(c, d))
<1> DEFINE g == Append(c, d)
<1>1. /\ Len(g) = Len(c) + 1 /\ Len(c) \in Nat
      /\ g[Len(c) + 1] = d /\ \A i \in 1..Len(c) : g[i] = c[i]
  OBVIOUS
<1> HIDE DEF g
<1>2. PlainButLast(g)
  BY <1>1 DEF Plain, PlainButLast
<1>3. ASSUME Len(c) >= 1, d \notin token[c[Len(c)]], NEW i \in 1..Len(g), i < Len(g)
      PROVE  g[i + 1] \notin token[g[i]]
  <2>1. CASE i = Len(c)
    BY <1>1, <1>3, <2>1
  <2>2. CASE i < Len(c)
    BY <1>1, <1>3, <2>2 DEF Plain
  <2> QED
    BY <1>1, <1>3, <2>1, <2>2
<1>4. ASSUME c = <<>> PROVE Plain(g)
  BY <1>1, <1>4 DEF Plain
<1> QED
  BY <1>2, <1>3, <1>4 DEF Plain, g

\* With which arguments runSync is called: by the user's side, or for a request.
Starts(d, exclude, hop, path) ==
  \/ exclude = {} /\ hop = limit[d] /\ path = <<>>
  \/ \E a \in Requests : /\ AskOK(a) /\ a.to = d /\ a.path = path
                         /\ exclude = Read(a).exclude /\ hop = Read(a).hop

\* A run that begins is in order.
LEMMA RunBegins ==
  ASSUME ChainInv, NEW d \in Device, NEW exclude \in SUBSET Device, NEW hop \in Nat,
         NEW path \in Seq(Device), Starts(d, exclude, hop, path)
  PROVE  RunOK([busy |-> TRUE, left |-> Left(d, exclude), now |-> {}, ask |-> {},
                exclude |-> exclude, hop |-> hop, path |-> Append(path, d)], d)
<1> DEFINE g == Append(path, d)
           r == [busy |-> TRUE, left |-> Left(d, exclude), now |-> {}, ask |-> {},
                 exclude |-> exclude, hop |-> hop, path |-> g]
<1>1. limit \in [Device -> Nat] /\ token \in [Device -> SUBSET Device]
  BY DEF ChainInv, TypeOK
<1>2. /\ Chain(g) /\ g[Len(g)] = d /\ g \in Seq(Device)
      /\ Followed([exclude |-> exclude, hop |-> hop, path |-> g], d)
         \/ CutOff([exclude |-> exclude, hop |-> hop, path |-> g])
  <2>1. CASE exclude = {} /\ hop = limit[d] /\ path = <<>>
    <3>1. Plain(path) /\ Distinct(path) /\ Elems(path) = {} /\ Len(path) = 0
      BY <2>1 DEF Plain, Distinct, Elems
    <3>2. /\ g \in Seq(Device) /\ Len(g) = 1 /\ g[1] = d /\ Chain(g) /\ Elems(g) = {d}
          /\ Plain(g)
      <4>1. d \notin Elems(path)
        BY <3>1
      <4>2. /\ g \in Seq(Device) /\ Len(g) = Len(path) + 1 /\ g[Len(path) + 1] = d
            /\ Chain(g) /\ Elems(g) = Elems(path) \cup {d}
        BY <3>1, <4>1, ChainGrows
      <4>3. Plain(g)
        BY <2>1, <3>1, PlainGrows
      <4> HIDE DEF g
      <4> QED
        BY <3>1, <4>2, <4>3
    <3> HIDE DEF g
    <3>3. Elems(g) = exclude \cup {d} /\ Len(g) + hop = limit[g[1]] + 1
      BY <1>1, <2>1, <3>2
    <3> QED
      BY <3>2, <3>3 DEF Followed
  <2>2. ASSUME NEW a \in Requests, AskOK(a), a.to = d, a.path = path,
               exclude = Read(a).exclude, hop = Read(a).hop
        PROVE  /\ Chain(g) /\ g[Len(g)] = d /\ g \in Seq(Device)
               /\ Followed([exclude |-> exclude, hop |-> hop, path |-> g], d)
                  \/ CutOff([exclude |-> exclude, hop |-> hop, path |-> g])
    <3>1. /\ Plain(path) /\ Distinct(path) /\ Elems(path) = a.exclude /\ d \notin a.exclude
          /\ Len(path) >= 1 /\ Len(path) + a.hop = limit[path[1]]
          /\ a.sealed = (d \in token[path[Len(path)]]) /\ path[1] \in Device
          /\ path[Len(path)] \in Device
      BY <2>2 DEF AskOK, Chain, Distinct
    <3>2. limit[path[1]] \in Nat /\ a.hop \in Nat
      BY <1>1, <3>1 DEF Requests
    <3>3. /\ g \in Seq(Device) /\ Len(g) = Len(path) + 1 /\ Len(path) \in Nat
          /\ g[Len(path) + 1] = d /\ g[1] = path[1]
          /\ Chain(g) /\ Elems(g) = a.exclude \cup {d} /\ PlainButLast(g)
          /\ ~a.sealed => Plain(g)
      <4>1. d \notin Elems(path)
        BY <3>1
      <4>2. /\ g \in Seq(Device) /\ Len(g) = Len(path) + 1 /\ Len(path) \in Nat
            /\ g[Len(path) + 1] = d /\ g[1] = path[1]
            /\ Chain(g) /\ Elems(g) = Elems(path) \cup {d}
        BY <3>1, <4>1, ChainGrows
      <4>3. PlainButLast(g) /\ (~a.sealed => Plain(g))
        BY <3>1, PlainGrows
      <4> HIDE DEF g
      <4> QED
        BY <3>1, <4>2, <4>3
    <3> HIDE DEF g
    <3>4. CASE a.sealed
      <4>1. exclude = {} /\ hop = 0
        BY <2>2, <3>4 DEF Read
      <4>2. token[path[Len(path)]] # {}
        BY <3>1, <3>4
      <4> QED
        BY <3>1, <3>2, <3>3, <4>1, <4>2 DEF CutOff
    <3>5. CASE ~a.sealed
      <4>1. exclude = a.exclude /\ hop = a.hop
        BY <2>2, <3>5 DEF Read
      <4> QED
        BY <3>1, <3>2, <3>3, <3>5, <4>1 DEF Followed
    <3> QED
      BY <3>4, <3>5
  <2> QED
    BY <2>1, <2>2 DEF Starts
<1> HIDE DEF g
<1>4. Left(d, exclude) \subseteq trusted[d] \ exclude /\ Left(d, exclude) \in SUBSET Device
  BY DEF Left, ChainInv, TypeOK
<1>5. r \in Run
  BY <1>2, <1>4 DEF Run
<1>6. RunChained(r, d)
  BY <1>2 DEF RunChained, Followed, CutOff
<1> QED
  BY <1>4, <1>5, <1>6 DEF RunOK, g

\* Peers move on from one stage of a run to the next, or out of it.
LEMMA RunMoves ==
  ASSUME NEW d \in Device, NEW r, RunOK(r, d), r.busy, NEW L, NEW N, NEW A,
         L \cup N \cup A \subseteq r.left \cup r.now \cup r.ask,
         L \cap N = {}, N \cap A = {}, L \cap A = {}, A # {} => r.hop > 0,
         NEW q, q = [r EXCEPT !.left = L, !.now = N, !.ask = A]
  PROVE  RunOK(q, d)
<1>1. r \in Run
  BY DEF RunOK
<1>2. L \in SUBSET Device /\ N \in SUBSET Device /\ A \in SUBSET Device
  BY <1>1 DEF Run
<1>3. /\ q \in Run /\ q.busy = r.busy /\ q.exclude = r.exclude /\ q.hop = r.hop
      /\ q.path = r.path /\ q.left = L /\ q.now = N /\ q.ask = A
  BY <1>1, <1>2 DEF Run
<1>4. RunChained(q, d)
  BY <1>3 DEF RunOK, RunChained, Followed, CutOff
<1> QED
  BY <1>3, <1>4 DEF RunOK

\* A step that changes one run only.
LEMMA OneRun ==
  ASSUME ChainInv, UNCHANGED <<trusted, token, limit>>, NEW d \in Device, NEW q, RunOK(q, d),
         run' = [run EXCEPT ![d] = q]
  PROVE  run' \in [Device -> Run] /\ \A e \in Device : RunOK(run[e], e)'
<1>1. run \in [Device -> Run] /\ \A e \in Device : RunOK(run[e], e)
  BY DEF ChainInv, TypeOK
<1>2. q \in Run /\ RunOK(q, d)'
  BY DEF RunOK, RunChained, Followed, CutOff, Plain, PlainButLast
<1>3. \A e \in Device : run'[e] = run[e] \/ (e = d /\ run'[e] = q)
  BY <1>1
<1>4. ASSUME NEW e \in Device PROVE RunOK(run[e], e)'
  <2>1. CASE run'[e] = run[e]
    BY <1>1, <2>1, SameRun
  <2>2. CASE e = d /\ run'[e] = q
    BY <1>2, <2>2 DEF RunOK, RunChained, Followed, CutOff, Plain, PlainButLast
  <2> QED
    BY <1>3, <2>1, <2>2
<1>5. run' \in [Device -> Run]
  BY <1>1, <1>2
<1> QED
  BY <1>4, <1>5

\* runSync leaves all runs in order.
LEMMA SyncStarts ==
  ASSUME ChainInv, NEW d \in Device, NEW exclude \in SUBSET Device, NEW hop \in Nat,
         NEW path \in Seq(Device), Starts(d, exclude, hop, path),
         RunSync(d, exclude, hop, path), UNCHANGED <<trusted, token, limit>>
  PROVE  run' \in [Device -> Run] /\ \A e \in Device : RunOK(run[e], e)'
<1> DEFINE r == [busy |-> TRUE, left |-> Left(d, exclude), now |-> {}, ask |-> {},
                 exclude |-> exclude, hop |-> hop, path |-> Append(path, d)]
<1>1. PICK q : q = r
  OBVIOUS
<1>2. RunOK(q, d)
  BY <1>1, RunBegins
<1>3. CASE run' = run
  BY <1>3, SameRun DEF ChainInv, TypeOK
<1>4. CASE run' = [run EXCEPT ![d] = q]
  BY <1>2, <1>4, OneRun
<1> QED
  BY <1>1, <1>3, <1>4 DEF RunSync

\* The parts of ChainInv after a step.
LEMMA ChainParts ==
  ASSUME ChainInv, UNCHANGED <<trusted, token, limit>>,
         news' \in [Device -> SUBSET Edits],
         run' \in [Device -> Run], \A d \in Device : RunOK(run[d], d)',
         IsABag(asks'), BagToSet(asks') \subseteq Requests,
         \A a \in BagToSet(asks') : AskOK(a)',
         by' \in Seq(Editors), failures' \in Nat, Len(by') + failures' <= MaxEvents
  PROVE  ChainInv'
<1>1. \A d \in Device : d \notin trusted'[d]
  BY DEF ChainInv, TypeOK
<1>2. /\ trusted' \in [Device -> SUBSET Device] /\ limit' \in [Device -> Nat]
      /\ token' \in [Device -> SUBSET Device]
  BY DEF ChainInv, TypeOK
<1>3. TypeOK'
  BY <1>1, <1>2 DEF TypeOK, RunOK
<1> QED
  BY <1>3 DEF ChainInv

\* ... of which a step that leaves requests, edits and failures alone keeps most.
LEMMA SameAsks ==
  ASSUME ChainInv, UNCHANGED <<token, limit, asks>>
  PROVE  IsABag(asks') /\ BagToSet(asks') \subseteq Requests
         /\ \A a \in BagToSet(asks') : AskOK(a)'
BY SameAsk DEF ChainInv, TypeOK

\* The initial states have no run and no request.
LEMMA ChainInit == Init => ChainInv
<1> SUFFICES ASSUME Init PROVE ChainInv
  OBVIOUS
<1> USE CascadeAssumption
<1>1. NoRun \in Run
  BY DEF NoRun, Run
<1>2. run \in [Device -> Run] /\ \A d \in Device : run[d] = NoRun
  BY <1>1 DEF Init
<1>3. trusted \in [Device -> SUBSET Device] /\ \A d \in Device : d \notin trusted[d]
  BY DEF Init
<1>4. /\ limit \in [Device -> Nat] /\ news \in [Device -> SUBSET Edits]
      /\ token \in [Device -> SUBSET Device]
  BY DEF Init
<1>5. \A d \in Device : RunOK(run[d], d)
  BY <1>1, <1>2 DEF RunOK, NoRun
<1>6. IsABag(asks) /\ BagToSet(asks) = {}
  BY NoRequests DEF Init
<1>7. by \in Seq(Editors) /\ failures \in Nat /\ Len(by) + failures <= MaxEvents
  BY DEF Init
<1>8. TypeOK
  BY <1>2, <1>3, <1>4, <1>5, <1>6, <1>7 DEF TypeOK, RunOK
<1> QED
  BY <1>5, <1>6, <1>8 DEF ChainInv

\* Every step of the cascade keeps the runs and requests in order.
LEMMA ChainStep == ChainInv /\ [Next]_vars => ChainInv'
<1> SUFFICES ASSUME ChainInv, [Next]_vars PROVE ChainInv'
  OBVIOUS
<1> USE CascadeAssumption
<1>1. /\ run \in [Device -> Run] /\ news \in [Device -> SUBSET Edits]
      /\ trusted \in [Device -> SUBSET Device] /\ limit \in [Device -> Nat]
      /\ by \in Seq(Editors) /\ failures \in Nat /\ Len(by) \in Nat
      /\ Len(by) + failures <= MaxEvents
      /\ IsABag(asks) /\ BagToSet(asks) \subseteq Requests
  BY DEF ChainInv, TypeOK
<1>2. \A d \in Device : RunOK(run[d], d)
  BY DEF ChainInv
<1>3. \A a \in BagToSet(asks) : AskOK(a)
  BY DEF ChainInv
<1>4. ASSUME NEW d \in Device, Edit(d) PROVE ChainInv'
  <2>1. /\ RunSync(d, {}, limit[d], <<>>) /\ UNCHANGED <<trusted, token, limit, asks, failures>>
        /\ by' = Append(by, d) /\ d \in Editors /\ Len(by) + failures < MaxEvents
        /\ news' = [news EXCEPT ![d] = @ \cup {Len(by) + 1}]
    BY <1>4 DEF Edit, Bounded
  <2>2. Starts(d, {}, limit[d], <<>>) /\ limit[d] \in Nat /\ <<>> \in Seq(Device)
    BY <1>1 DEF Starts
  <2>3. run' \in [Device -> Run] /\ \A e \in Device : RunOK(run[e], e)'
    BY <2>1, <2>2, SyncStarts
  <2>4. by' \in Seq(Editors) /\ Len(by') = Len(by) + 1
    BY <1>1, <2>1
  <2>5. Len(by) + 1 \in Edits
    BY <1>1, <2>1 DEF Edits
  <2>6. news' \in [Device -> SUBSET Edits]
    BY <1>1, <2>1, <2>5
  <2>7. failures' \in Nat /\ Len(by') + failures' <= MaxEvents
    BY <1>1, <2>1, <2>4
  <2> QED
    BY <2>1, <2>3, <2>4, <2>6, <2>7, SameAsks, ChainParts
<1>5. ASSUME NEW d \in Device, NextBatch(d) PROVE ChainInv'
  <2>1. PICK batch \in SUBSET run[d].left :
          run' = [run EXCEPT ![d].left = @ \ batch, ![d].now = batch]
    BY <1>5 DEF NextBatch
  <2>2. PICK q : q = [run[d] EXCEPT !.left = @ \ batch, !.now = batch]
    OBVIOUS
  <2>3. RunOK(q, d)
    <3>1. run[d] \in Run /\ run[d].busy /\ run[d].now = {} /\ run[d].ask = {} /\ RunOK(run[d], d)
      BY <1>1, <1>2, <1>5 DEF NextBatch, RunOK, NoRun
    <3>2. q = [run[d] EXCEPT !.left = run[d].left \ batch, !.now = batch, !.ask = {}]
      BY <2>2, <3>1 DEF Run
    <3>3. /\ (run[d].left \ batch) \cup batch \cup {}
                \subseteq run[d].left \cup run[d].now \cup run[d].ask
          /\ (run[d].left \ batch) \cap batch = {}
          /\ batch \cap {} = {} /\ (run[d].left \ batch) \cap {} = {}
      BY <3>1
    <3> QED
      BY <3>1, <3>2, <3>3, RunMoves
  <2>4. run' = [run EXCEPT ![d] = q]
    BY <1>1, <2>1, <2>2
  <2> QED
    BY <1>1, <1>5, <2>3, <2>4, OneRun, SameAsks, ChainParts DEF NextBatch
<1>6. ASSUME NEW d \in Device, FinishRun(d) PROVE ChainInv'
  <2>1. RunOK(NoRun, d) /\ run' = [run EXCEPT ![d] = NoRun]
    BY <1>6 DEF FinishRun, RunOK, NoRun, Run
  <2> QED
    BY <1>1, <1>6, <2>1, OneRun, SameAsks, ChainParts DEF FinishRun
<1>7. ASSUME NEW d \in Device, Restart(d) PROVE ChainInv'
  <2>1. RunOK(NoRun, d) /\ run' = [run EXCEPT ![d] = NoRun]
    BY <1>7 DEF Restart, RunOK, NoRun, Run
  <2>2. failures' \in Nat /\ Len(by') + failures' <= MaxEvents /\ by' = by
    BY <1>1, <1>7 DEF Restart, Bounded
  <2> QED
    BY <1>1, <1>7, <2>1, <2>2, OneRun, SameAsks, ChainParts DEF Restart
<1>8. ASSUME NEW d \in Device, NEW p \in Device, SyncPeer(d, p) PROVE ChainInv'
  <2>1. PICK q : q = [run[d] EXCEPT !.now = @ \ {p},
                          !.ask = IF MayCascade(run[d].hop) THEN @ \cup {p} ELSE @]
    OBVIOUS
  <2>2. RunOK(q, d)
    <3> DEFINE r == run[d]
               A == IF MayCascade(r.hop) THEN r.ask \cup {p} ELSE r.ask
    <3>1. r \in Run /\ r.busy /\ p \in r.now /\ RunOK(r, d)
      BY <1>1, <1>2, <1>8 DEF SyncPeer, RunOK, NoRun
    <3>2. q = [r EXCEPT !.left = r.left, !.now = r.now \ {p}, !.ask = A]
      BY <2>1, <3>1 DEF Run
    <3>3. /\ r.left \cup (r.now \ {p}) \cup A \subseteq r.left \cup r.now \cup r.ask
          /\ r.left \cap (r.now \ {p}) = {} /\ (r.now \ {p}) \cap A = {} /\ r.left \cap A = {}
          /\ A # {} => r.hop > 0
      BY <3>1 DEF RunOK, MayCascade
    <3> HIDE DEF r, A
    <3> QED
      BY <3>1, <3>2, <3>3, RunMoves
  <2>3. run' = [run EXCEPT ![d] = q]
    BY <1>1, <1>8, <2>1 DEF SyncPeer
  <2>4. news' \in [Device -> SUBSET Edits]
    BY <1>1, <1>8 DEF SyncPeer
  <2> QED
    BY <1>1, <1>8, <2>2, <2>3, <2>4, OneRun, SameAsks, ChainParts DEF SyncPeer
<1>9. ASSUME NEW d \in Device, NEW p \in Device, SkipPeer(d, p) PROVE ChainInv'
  <2>1. PICK q : q = [run[d] EXCEPT !.now = @ \ {p}]
    OBVIOUS
  <2>2. RunOK(q, d)
    <3> DEFINE r == run[d]
    <3>1. r \in Run /\ r.busy /\ p \in r.now /\ RunOK(r, d)
      BY <1>1, <1>2, <1>9 DEF SkipPeer, RunOK, NoRun
    <3>2. q = [r EXCEPT !.left = r.left, !.now = r.now \ {p}, !.ask = r.ask]
      BY <2>1, <3>1 DEF Run
    <3>3. /\ r.left \cup (r.now \ {p}) \cup r.ask \subseteq r.left \cup r.now \cup r.ask
          /\ r.left \cap (r.now \ {p}) = {} /\ (r.now \ {p}) \cap r.ask = {} /\ r.left \cap r.ask = {}
          /\ r.ask # {} => r.hop > 0
      BY <3>1 DEF RunOK
    <3> HIDE DEF r
    <3> QED
      BY <3>1, <3>2, <3>3, RunMoves
  <2>3. run' = [run EXCEPT ![d] = q]
    BY <1>1, <1>9, <2>1 DEF SkipPeer
  <2>4. failures' \in Nat /\ Len(by') + failures' <= MaxEvents /\ by' = by
    BY <1>1, <1>9 DEF SkipPeer, Bounded
  <2> QED
    BY <1>1, <1>9, <2>2, <2>3, <2>4, OneRun, SameAsks, ChainParts DEF SkipPeer
<1>10. ASSUME NEW d \in Device, NEW p \in Device, AskCascade(d, p) PROVE ChainInv'
  <2> DEFINE r == run[d]
             a == Request(p, p \in token[d], Visited(d), r.hop - 1, r.path)
  <2>1. PICK q : q = [r EXCEPT !.ask = @ \ {p}]
    OBVIOUS
  <2>2. RunOK(q, d)
    <3>1. r \in Run /\ r.busy /\ p \in r.ask /\ RunOK(r, d)
      BY <1>1, <1>2, <1>10 DEF AskCascade, RunOK, NoRun
    <3>2. q = [r EXCEPT !.left = r.left, !.now = r.now, !.ask = r.ask \ {p}]
      BY <2>1, <3>1 DEF Run
    <3>3. /\ r.left \cup r.now \cup (r.ask \ {p}) \subseteq r.left \cup r.now \cup r.ask
          /\ r.left \cap r.now = {} /\ r.now \cap (r.ask \ {p}) = {} /\ r.left \cap (r.ask \ {p}) = {}
          /\ r.ask \ {p} # {} => r.hop > 0
      BY <3>1 DEF RunOK
    <3> HIDE DEF r
    <3> QED
      BY <3>1, <3>2, <3>3, RunMoves
  <2>3. run' = [run EXCEPT ![d] = q]
    BY <1>1, <1>10, <2>1 DEF AskCascade
  <2>4. /\ r \in Run /\ p \in r.ask /\ r.hop > 0 /\ r.busy /\ RunChained(r, d)
        /\ p \in trusted[d] \ r.exclude /\ p # d /\ Followed(r, d)
    BY <1>1, <1>2, <1>10 DEF AskCascade, RunOK, NoRun, ChainInv, TypeOK,
                                RunChained, CutOff, Run
  <2>5. a \in Requests
    BY <2>4 DEF Requests, Request, Visited, Run
  <2>6. AskOK(a)
    <3>1. limit[r.path[1]] \in Nat /\ Len(r.path) \in Nat /\ r.hop \in Nat
      BY <1>1, <2>4 DEF RunChained, Chain, Run
    <3>2. /\ a.path = r.path /\ a.to = p /\ a.exclude = r.exclude \cup {d} /\ a.hop = r.hop - 1
          /\ a.sealed = (p \in token[d])
      BY DEF Request, Visited
    <3>3. /\ Chain(r.path) /\ Elems(r.path) = r.exclude \cup {d} /\ p \notin r.exclude \cup {d}
          /\ Len(r.path) + r.hop = limit[r.path[1]] + 1
          /\ Plain(r.path) /\ r.path[Len(r.path)] = d
      BY <2>4 DEF RunChained, Followed
    <3> HIDE DEF a, r
    <3>4. Len(a.path) + a.hop = limit[a.path[1]]
      <4>1. \A x, y, z \in Nat : x + y = z + 1 => x + (y - 1) = z
        OBVIOUS
      <4>2. Len(r.path) + (r.hop - 1) = limit[r.path[1]]
        BY <3>1, <3>3, <4>1
      <4> QED
        BY <3>2, <4>2
    <3> QED
      BY <3>2, <3>3, <3>4 DEF AskOK
  <2>7. PICK b : b = a
    OBVIOUS
  <2>8. /\ IsABag(asks') /\ BagToSet(asks') = BagToSet(asks) \cup {b}
    BY <1>1, <1>10, <2>7, PutRequest DEF AskCascade
  <2>9. AskOK(b) /\ b \in Requests
    BY <2>5, <2>6, <2>7
  <2>10. \A c \in BagToSet(asks') : AskOK(c)'
    BY <1>3, <1>10, <2>8, <2>9, SameAsk DEF AskCascade
  <2> QED
    BY <1>1, <1>10, <2>2, <2>3, <2>8, <2>9, <2>10, OneRun, ChainParts DEF AskCascade
<1>11. ASSUME NEW a \in BagToSet(asks), HandleCascade(a) \/ LoseCascade(a) PROVE ChainInv'
  <2>1. asks' = asks (-) SetToBag({a}) /\ UNCHANGED <<trusted, token, limit, news, by>>
    BY <1>11 DEF HandleCascade, LoseCascade
  <2>2. IsABag(asks') /\ BagToSet(asks') \subseteq BagToSet(asks)
    BY <1>1, <2>1, TakeRequest
  <2>3. \A c \in BagToSet(asks') : AskOK(c)'
    BY <1>3, <2>1, <2>2, SameAsk
  <2>4. run' \in [Device -> Run] /\ \A e \in Device : RunOK(run[e], e)'
    <3>1. CASE LoseCascade(a)
      BY <1>1, <1>2, <2>1, <3>1, SameRun DEF LoseCascade
    <3>2. CASE HandleCascade(a)
      <4>1. a \in Requests /\ AskOK(a)
        BY <1>1, <1>3
      <4>2. Starts(a.to, Read(a).exclude, Read(a).hop, a.path)
        BY <4>1 DEF Starts
      <4>3. RunSync(a.to, Read(a).exclude, Read(a).hop, a.path)
        BY <3>2 DEF HandleCascade
      <4>4. /\ a.to \in Device /\ a.path \in Seq(Device)
            /\ Read(a).exclude \in SUBSET Device /\ Read(a).hop \in Nat
        BY <4>1 DEF Requests, Read
      <4> QED
        BY <2>1, <4>2, <4>3, <4>4, SyncStarts
    <3> QED
      BY <1>11, <3>1, <3>2
  <2>5. failures' \in Nat /\ Len(by') + failures' <= MaxEvents
    BY <1>1, <1>11 DEF HandleCascade, LoseCascade, Bounded
  <2> QED
    BY <1>1, <2>1, <2>2, <2>3, <2>4, <2>5, ChainParts
<1>12. CASE UNCHANGED vars
  BY <1>1, <1>2, <1>12, SameRun, SameAsks, ChainParts DEF vars
<1> QED
  BY <1>4, <1>5, <1>6, <1>7, <1>8, <1>9, <1>10, <1>11, <1>12 DEF Next, Handling, RunStep

LEMMA ChainAlways == Spec => []ChainInv
BY ChainInit, ChainStep, PTL DEF Spec

\* The variables keep their types, and a run never has a device in two stages,
\* nor one that its chain has been through.
THEOREM TypeCorrect == Spec => []TypeOK
<1>1. ChainInv => TypeOK
  BY DEF ChainInv
<1> QED
  BY <1>1, ChainAlways, PTL

\* No chain of requests comes back to a device it has been through, none is longer
\* than the hop limit of the device that began it allows, and none goes on after a
\* pairing with a token.
THEOREM ChainsAlwaysEnd == Spec => []ChainsEnd
<1>1. ASSUME ChainInv, NEW c \in Chains
      PROVE  /\ \A i, j \in 1..Len(c) : i # j => c[i] # c[j]
             /\ Len(c) <= limit[c[1]] + 1
             /\ PlainButLast(c)
  <2>1. CASE \E d \in Device : run[d].busy /\ c = run[d].path
    <3>1. PICK d \in Device : run[d].busy /\ c = run[d].path
      BY <2>1
    <3>2. run[d] \in Run /\ RunChained(run[d], d)
      BY <1>1, <3>1 DEF ChainInv, RunOK
    <3>3. /\ c \in Seq(Device) /\ Len(c) >= 1 /\ run[d].hop \in Nat
          /\ Len(c) + run[d].hop = limit[c[1]] + 1 \/ Len(c) <= limit[c[1]] + 1
          /\ Plain(c) \/ PlainButLast(c)
      BY <3>1, <3>2 DEF RunChained, Chain, Run, Followed, CutOff
    <3>4. limit[c[1]] \in Nat
      BY <1>1, <3>3 DEF ChainInv, TypeOK
    <3>5. PlainButLast(c)
      BY <3>3 DEF Plain, PlainButLast
    <3> QED
      BY <3>1, <3>2, <3>3, <3>4, <3>5 DEF RunChained, Chain
  <2>2. CASE \E a \in BagToSet(asks) : c = Append(a.path, a.to)
    <3>1. PICK a \in BagToSet(asks) : c = Append(a.path, a.to)
      BY <2>2
    <3>2. a \in Requests /\ AskOK(a)
      BY <1>1 DEF ChainInv, TypeOK
    <3>3. /\ a.path \in Seq(Device) /\ Distinct(a.path) /\ a.to \in Device
          /\ a.to \notin Elems(a.path) /\ Len(a.path) >= 1 /\ a.hop \in Nat
          /\ Len(a.path) + a.hop = limit[a.path[1]] /\ Plain(a.path)
      BY <3>2 DEF AskOK, Chain, Distinct, Requests
    <3>4. /\ Len(c) = Len(a.path) + 1 /\ c[1] = a.path[1] /\ Chain(c) /\ Len(a.path) \in Nat
          /\ PlainButLast(c)
      BY <3>1, <3>3, ChainGrows, PlainGrows
    <3>5. limit[c[1]] \in Nat
      BY <1>1, <3>3, <3>4 DEF ChainInv, TypeOK
    <3> QED
      BY <3>3, <3>4, <3>5 DEF Chain
  <2> QED
    BY <1>1, <2>1, <2>2 DEF Chains
<1>2. ChainInv => ChainsEnd
  BY <1>1 DEF ChainsEnd, PlainButLast
<1> QED
  BY <1>2, ChainAlways, PTL
-----------------------------------------------------------------------------
(* The spread of one edit. *)

\* The devices that have the first edit.
Holders == {d \in Device : 1 \in news[d]}

\* While there is one edit and nothing failed: a run is of a device that has
\* it, as has all of its chain, and what its device trusts has it or is still
\* to be synced; a request goes to a device that has it.
RunSpreads(r, d) ==
  /\ r.path[1] = by[1] /\ Elems(r.path) \cup r.ask \subseteq Holders
  /\ trusted[d] \subseteq Holders \cup r.left \cup r.now
AskSpreads(a) ==
  a.path[1] = by[1] /\ a.exclude \cup {a.to} \subseteq Holders

\* A device passed the edit on, is doing so, or is asked to.
PassedOn(e) ==
  \/ trusted[e] \subseteq Holders
  \/ run[e].busy
  \/ \E a \in BagToSet(asks) : a.to = e
  \/ \E d \in Device : e \in run[d].ask

\* Where no pairing has a token, every device that has it did, does or is asked to,
\* if not all have it.
NoTokens == \A d \in Device : token[d] = {}
AllPassOn ==
  NoTokens /\ limit[by[1]] + 2 >= Cardinality(Device) =>
    Holders = Device \/ \A e \in Holders : PassedOn(e)

\* With or without tokens the device of the edit passes it on, and then its peers:
\* each did, does, is asked to, or is still to be synced in the first run.
First(d) == run[d].busy /\ run[d].path = <<d>>
Due(e, d) == First(d) /\ e \in run[d].left \cup run[d].now
PeersPassOn ==
  limit[by[1]] > 0 => \A e \in trusted[by[1]] : Due(e, by[1]) \/ PassedOn(e)

Spreading ==
  /\ by[1] \in Holders
  /\ \A d \in Device : run[d].busy => RunSpreads(run[d], d)
  /\ \A a \in BagToSet(asks) : AskSpreads(a)
  /\ AllPassOn /\ PassedOn(by[1]) /\ PeersPassOn

\* What the spread comes to after a step that leaves the edits alone.
LEMMA StillPassedOn ==
  ASSUME Spreading, UNCHANGED <<trusted, token, limit, by>>,
         trusted \in [Device -> SUBSET Device],
         Holders \subseteq Holders', Holders' \subseteq Device,
         \A d \in Device : run'[d].busy => RunSpreads(run[d], d)',
         \A a \in BagToSet(asks') : AskSpreads(a)',
         \A e \in Device : PassedOn(e) => PassedOn(e)',
         limit[by[1]] > 0 =>
           \A e \in Device : Due(e, by[1]) => (Due(e, by[1])' \/ PassedOn(e)'),
         AllPassOn'
  PROVE  Spreading'
<1>1. by[1] \in Holders /\ by'[1] = by[1] /\ by[1] \in Device
  BY DEF Spreading
<1>2. PassedOn(by[1])'
  BY <1>1 DEF Spreading
<1>3. ASSUME limit[by[1]] > 0, NEW e \in trusted[by[1]] PROVE Due(e, by[1])' \/ PassedOn(e)'
  <2>1. e \in Device /\ (Due(e, by[1]) \/ PassedOn(e))
    BY <1>1, <1>3 DEF Spreading, PeersPassOn
  <2>2. limit[by[1]] > 0 => Due(e, by[1])' \/ PassedOn(e)'
    BY <2>1
  <2> QED
    BY <1>3, <2>2
<1>4. PeersPassOn'
  BY <1>3 DEF PeersPassOn
<1> QED
  BY <1>1, <1>2, <1>4 DEF Spreading

\* AllPassOn after a step in which no device gets the edit.
LEMMA NoNewHolders ==
  ASSUME Spreading, UNCHANGED <<token, limit, by>>, Holders' = Holders, Holders \subseteq Device,
         \A e \in Device : PassedOn(e) => PassedOn(e)'
  PROVE  AllPassOn'
BY DEF Spreading, AllPassOn, NoTokens

\* Before the first edit there is nothing.
SpreadInv ==
  /\ ChainInv
  /\ by = <<>> => BagToSet(asks) = {} /\ Holders = {} /\ \A d \in Device : ~run[d].busy
  /\ Len(by) = 1 /\ failures = 0 => Spreading

\* A chain through all devices but one, and that one, are all devices.
LEMMA LastHop ==
  ASSUME IsFiniteSet(Device), NEW c \in Seq(Device), Distinct(c),
         NEW p \in Device, p \notin Elems(c), Len(c) + 1 >= Cardinality(Device)
  PROVE  Elems(c) \cup {p} = Device
<1> DEFINE g == Append(c, p)
<1>1. g \in Seq(Device) /\ Len(g) = Len(c) + 1 /\ Len(c) \in Nat /\ Chain(g)
      /\ Elems(g) = Elems(c) \cup {p}
  BY ChainGrows
<1> HIDE DEF g
<1>2. g \in Injection(1..Len(g), Device)
  BY <1>1 DEF Chain, Injection, IsInjective
<1>3. /\ Cardinality(1..Len(g)) <= Cardinality(Device)
      /\ Cardinality(1..Len(g)) = Cardinality(Device) => g \in Surjection(1..Len(g), Device)
  BY <1>2, FS_Injection
<1>4. Cardinality(1..Len(g)) = Len(g)
  BY <1>1, FS_Interval
<1>5. Cardinality(Device) \in Nat
  BY FS_CardinalityType
<1>6. Cardinality(1..Len(g)) = Cardinality(Device)
  BY <1>1, <1>3, <1>4, <1>5
<1>7. \A d \in Device : \E i \in 1..Len(g) : g[i] = d
  BY <1>1, <1>3, <1>6 DEF Surjection
<1>8. Device \subseteq Elems(g) /\ Elems(g) \subseteq Device
  BY <1>1, <1>7 DEF Elems
<1> QED
  BY <1>1, <1>8

\* No device loses an edit.
LEMMA HoldersGrow ==
  ASSUME ChainInv, NEW d \in Device, NEW p \in Device, SyncPeer(d, p), p # d
  PROVE  /\ Holders \subseteq Holders'
         /\ Holders' \subseteq Holders \cup {d, p}
         /\ d \in Holders => Holders' = Holders \cup {p}
<1>1. news \in [Device -> SUBSET Edits]
  BY DEF ChainInv, TypeOK
<1>2. /\ news' = [news EXCEPT ![d] = news[d] \cup news[p], ![p] = news[d] \cup news[p]]
  BY DEF SyncPeer
<1>3. /\ news'[d] = news[d] \cup news[p] /\ news'[p] = news[d] \cup news[p]
      /\ \A e \in Device : e # d /\ e # p => news'[e] = news[e]
  BY <1>1, <1>2
<1> QED
  BY <1>3 DEF Holders

\* What a run or a request says of the spread stays true while it stays.
LEMMA RunStillSpreads ==
  ASSUME UNCHANGED <<trusted, by>>, Holders \subseteq Holders',
         NEW d \in Device, run'[d] = run[d], RunSpreads(run[d], d)
  PROVE  RunSpreads(run[d], d)'
BY DEF RunSpreads

LEMMA AskStillSpreads ==
  ASSUME UNCHANGED by, Holders \subseteq Holders', NEW a, AskSpreads(a)
  PROVE  AskSpreads(a)'
BY DEF AskSpreads

\* Before the first edit there is nothing that could do anything but edit.
LEMMA SpreadInit == Init => SpreadInv
<1> SUFFICES ASSUME Init PROVE SpreadInv
  OBVIOUS
<1>1. BagToSet(asks) = {} /\ \A d \in Device : ~run[d].busy
  BY NoRequests DEF Init, NoRun
<1>2. Holders = {} /\ Len(by) = 0
  BY DEF Init, Holders
<1> QED
  BY <1>1, <1>2, ChainInit DEF SpreadInv

\* The first edit.
LEMMA FirstEdit ==
  ASSUME SpreadInv, NEW d \in Device, Edit(d), Len(by') = 1
  PROVE  Spreading'
<1>1. /\ by \in Seq(Editors) /\ by' = Append(by, d) /\ run \in [Device -> Run]
      /\ news \in [Device -> SUBSET Edits] /\ trusted \in [Device -> SUBSET Device]
      /\ UNCHANGED <<trusted, token, limit, asks>>
      /\ news' = [news EXCEPT ![d] = @ \cup {Len(by) + 1}]
      /\ RunSync(d, {}, limit[d], <<>>)
      /\ d \in Editors
  BY DEF SpreadInv, ChainInv, TypeOK, Edit
<1>2. by = <<>> /\ Len(by) = 0
  BY <1>1
<1>3. by'[1] = d
  BY <1>1, <1>2
<1>4. BagToSet(asks) = {} /\ Holders = {} /\ \A e \in Device : ~run[e].busy
  BY <1>2 DEF SpreadInv
<1>5. Holders' = {d}
  BY <1>1, <1>2, <1>4 DEF Holders
<1>6. CASE run' = run /\ trusted[d] = {}
  <2>1. PassedOn(d)'
    BY <1>1, <1>6 DEF PassedOn
  <2>2. AllPassOn' /\ PeersPassOn'
    BY <1>1, <1>3, <1>5, <1>6, <2>1 DEF AllPassOn, PeersPassOn
  <2> QED
    BY <1>1, <1>3, <1>4, <1>5, <1>6, <2>1, <2>2 DEF Spreading
<1>7. CASE run' = [run EXCEPT ![d] =
             [busy |-> TRUE, left |-> Left(d, {}), now |-> {}, ask |-> {},
              exclude |-> {}, hop |-> limit[d], path |-> Append(<<>>, d)]]
  <2> DEFINE r == [busy |-> TRUE, left |-> Left(d, {}), now |-> {}, ask |-> {},
                   exclude |-> {}, hop |-> limit[d], path |-> Append(<<>>, d)]
  <2>1. run'[d] = r /\ \A e \in Device : e # d => run'[e] = run[e]
    BY <1>1, <1>7
  <2>2. r.path = <<d>> /\ r.busy /\ r.ask = {} /\ r.left = trusted[d]
    BY DEF Left
  <2>3. Elems(<<d>>) = {d}
    BY DEF Elems
  <2> HIDE DEF r
  <2>4. run'[d].path = <<d>> /\ run'[d].busy /\ run'[d].ask = {} /\ run'[d].left = trusted[d]
    BY <2>1, <2>2
  <2>5. RunSpreads(run[d], d)'
    BY <1>1, <1>3, <1>5, <2>3, <2>4 DEF RunSpreads
  <2>6. \A e \in Device : run'[e].busy => e = d
    BY <1>4, <2>1
  <2>7. PassedOn(d)'
    BY <2>4 DEF PassedOn
  <2>8. AllPassOn'
    BY <1>5, <2>7 DEF AllPassOn
  <2>9. PeersPassOn'
    BY <1>1, <1>3, <2>4 DEF PeersPassOn, Due, First
  <2> QED
    BY <1>1, <1>3, <1>4, <1>5, <2>5, <2>6, <2>7, <2>8, <2>9 DEF Spreading
<1> QED
  BY <1>1, <1>4, <1>6, <1>7 DEF RunSync

\* A device passes the edit on to a peer: the peer has it and is to be asked,
\* or it was the last device without it.
LEMMA SyncSpreads ==
  ASSUME SpreadInv, Spreading, NEW d \in Device, NEW p \in Device, SyncPeer(d, p)
  PROVE  Spreading'
<1> DEFINE r == run[d]
           A == IF MayCascade(r.hop) THEN r.ask \cup {p} ELSE r.ask
           q == [r EXCEPT !.now = @ \ {p}, !.ask = A]
<1>1. /\ run \in [Device -> Run] /\ UNCHANGED <<trusted, token, limit, asks, by, failures>>
      /\ trusted \in [Device -> SUBSET Device] /\ limit \in [Device -> Nat]
      /\ p \in r.now /\ ChainInv
  BY DEF SpreadInv, ChainInv, TypeOK, SyncPeer
<1>2. r \in Run /\ RunOK(r, d) /\ r.busy
  BY <1>1 DEF ChainInv, RunOK, NoRun
<1>3. /\ p # d /\ p \notin r.exclude /\ RunChained(r, d) /\ r.hop \in Nat
  BY <1>1, <1>2 DEF RunOK, ChainInv, TypeOK, Run
<1>4. RunSpreads(r, d)
  BY <1>2 DEF Spreading
<1>5. d \in Holders
  BY <1>3, <1>4 DEF RunChained, Chain, RunSpreads, Elems
<1>6. Holders' = Holders \cup {p} /\ Holders' \subseteq Device
  BY <1>1, <1>3, <1>5, HoldersGrow DEF Holders
<1>7. /\ run' = [run EXCEPT ![d] = q] /\ run'[d] = q /\ \A e \in Device : e # d => run'[e] = run[e]
  BY <1>1 DEF SyncPeer
<1>8. /\ q.path = r.path /\ q.left = r.left /\ q.now = r.now \ {p} /\ q.ask = A /\ q.busy
      /\ r.ask \subseteq A /\ A \subseteq r.ask \cup {p}
  BY <1>2 DEF Run
<1>9. MayCascade(r.hop) => p \in A
  OBVIOUS
<1> HIDE DEF q, A
<1>10. RunSpreads(run[d], d)'
  BY <1>1, <1>4, <1>6, <1>7, <1>8 DEF RunSpreads
<1>11. \A e \in Device : run'[e].busy => RunSpreads(run[e], e)'
  <2>1. ASSUME NEW e \in Device, e # d, run'[e].busy PROVE RunSpreads(run[e], e)'
    <3>1. run'[e] = run[e] /\ RunSpreads(run[e], e)
      BY <1>7, <2>1 DEF Spreading
    <3> QED
      BY <1>1, <1>6, <3>1, RunStillSpreads
  <2> QED
    BY <1>10, <2>1
<1>12. \A a \in BagToSet(asks') : AskSpreads(a)'
  BY <1>1, <1>6, AskStillSpreads DEF Spreading
<1>13. ASSUME NEW e \in Device, PassedOn(e) PROVE PassedOn(e)'
  <2>1. run[e].busy => run'[e].busy
    BY <1>7, <1>8
  <2>2. \A f \in Device : run[f].ask \subseteq run'[f].ask
    BY <1>7, <1>8
  <2> QED
    BY <1>1, <1>6, <1>13, <2>1, <2>2 DEF PassedOn
<1>14. r.hop > 0 => PassedOn(p)'
  BY <1>7, <1>8, <1>9 DEF MayCascade, PassedOn
<1>15. ASSUME limit[by[1]] > 0, NEW e \in Device, Due(e, by[1])
       PROVE  Due(e, by[1])' \/ PassedOn(e)'
  <2>1. CASE d = by[1] /\ e = p
    <3>1. r.path = <<d>>
      BY <1>15, <2>1 DEF Due, First
    <3>2. Len(r.path) = 1 /\ r.path[1] = d
      BY <3>1
    <3>3. ~CutOff(r)
      BY <3>2 DEF CutOff
    <3>4. Len(r.path) + r.hop = limit[d] + 1
      BY <1>3, <3>2, <3>3 DEF RunChained, Followed
    <3>5. limit[d] \in Nat /\ limit[d] > 0
      BY <1>1, <1>15, <2>1
    <3> QED
      BY <1>3, <1>14, <2>1, <3>2, <3>4, <3>5
  <2>2. CASE d # by[1] \/ e # p
    <3>1. ASSUME NEW f \in Device, d # f \/ e # p, Due(e, f) PROVE Due(e, f)'
      <4>1. CASE f = d
        BY <1>7, <1>8, <3>1, <4>1 DEF Due, First
      <4>2. CASE f # d
        BY <1>7, <3>1, <4>2 DEF Due, First
      <4> QED
        BY <4>1, <4>2
    <3>2. PICK o \in Device : o = by[1] /\ o = by'[1]
      BY <1>1 DEF Spreading, Holders
    <3>3. Due(e, o)'
      BY <1>15, <2>2, <3>1, <3>2
    <3> QED
      BY <3>2, <3>3 DEF Due, First
  <2> QED
    BY <2>1, <2>2
<1>16. ASSUME NoTokens, limit[by[1]] + 2 >= Cardinality(Device)
       PROVE  Holders' = Device \/ \A e \in Holders' : PassedOn(e)'
  <2>1. CASE Holders = Device
    BY <1>6, <2>1
  <2>2. CASE Holders # Device
    <3>1. ASSUME NEW e \in Holders PROVE PassedOn(e)'
      BY <1>13, <1>16, <2>2 DEF Spreading, AllPassOn, Holders
    <3>2. CASE r.hop > 0
      BY <1>6, <1>14, <3>1, <3>2
    <3>3. CASE r.hop = 0
      <4>1. ~CutOff(r)
        BY <1>16 DEF CutOff, NoTokens
      <4>2. /\ r.path \in Seq(Device) /\ Distinct(r.path) /\ Elems(r.path) = r.exclude \cup {d}
            /\ Len(r.path) \in Nat /\ Len(r.path) >= 1
            /\ Len(r.path) = limit[r.path[1]] + 1 /\ r.path[1] = by[1]
        BY <1>3, <1>4, <3>3, <4>1 DEF RunChained, Followed, Chain, Distinct, RunSpreads
      <4>3. limit[by[1]] \in Nat /\ Cardinality(Device) \in Nat
        BY <1>1, <4>2, FS_CardinalityType, CascadeAssumption
      <4>4. p \notin Elems(r.path) /\ Len(r.path) + 1 >= Cardinality(Device)
        BY <1>3, <1>16, <4>2, <4>3
      <4>5. Elems(r.path) \cup {p} = Device
        BY <4>2, <4>4, LastHop, CascadeAssumption
      <4> QED
        BY <1>4, <1>6, <4>5 DEF RunSpreads
    <3> QED
      BY <1>3, <3>2, <3>3
  <2> QED
    BY <2>1, <2>2
<1>17. AllPassOn'
  BY <1>1, <1>16 DEF AllPassOn, NoTokens
<1> QED
  BY <1>1, <1>6, <1>11, <1>12, <1>13, <1>15, <1>17, StillPassedOn

\* A device answers a request: it runs, or it has nobody left to sync with, or
\* it is busy with a run of the same edit.
LEMMA HandlingSpreads ==
  ASSUME SpreadInv, Spreading, NEW a \in BagToSet(asks), HandleCascade(a)
  PROVE  Spreading'
<1> DEFINE t == a.to
           x == Read(a).exclude
           r == [busy |-> TRUE, left |-> Left(t, x), now |-> {}, ask |-> {},
                 exclude |-> x, hop |-> Read(a).hop, path |-> Append(a.path, t)]
<1>1. /\ run \in [Device -> Run] /\ UNCHANGED <<trusted, token, limit, news, by, failures>>
      /\ trusted \in [Device -> SUBSET Device] /\ a \in Requests /\ AskOK(a)
      /\ RunSync(t, x, Read(a).hop, a.path)
      /\ asks' = asks (-) SetToBag({a}) /\ IsABag(asks)
  BY DEF SpreadInv, ChainInv, TypeOK, HandleCascade
<1>2. /\ BagToSet(asks') \subseteq BagToSet(asks)
      /\ BagToSet(asks) \subseteq BagToSet(asks') \cup {a}
  BY <1>1, TakeRequest
<1>3. t \in Device /\ AskSpreads(a) /\ x \subseteq a.exclude
  BY <1>1 DEF Requests, Spreading, Read
<1>4. Holders' = Holders
  BY <1>1 DEF Holders
<1>5. \A c \in BagToSet(asks') : AskSpreads(c)'
  BY <1>1, <1>2, <1>4, AskStillSpreads DEF Spreading
<1>6. \A e \in Device : run'[e] = run[e] /\ run[e].busy => RunSpreads(run[e], e)'
  BY <1>1, <1>4, RunStillSpreads DEF Spreading
<1>7. /\ \A e \in Device : run'[e].busy => RunSpreads(run[e], e)'
      /\ \A e \in Device : run[e].busy => run'[e].busy
      /\ \A e \in Device : run[e].ask \subseteq run'[e].ask
      /\ trusted[t] \subseteq Holders \/ run'[t].busy
  <2>1. CASE run' = run /\ (run[t].busy \/ trusted[t] \subseteq x)
    BY <1>3, <1>6, <2>1 DEF AskSpreads
  <2>2. CASE ~run[t].busy /\ run' = [run EXCEPT ![t] = r]
    <3>1. run'[t] = r /\ \A e \in Device : e # t => run'[e] = run[e]
      BY <1>1, <1>3, <2>2
    <3>2. /\ a.path \in Seq(Device) /\ Distinct(a.path) /\ Elems(a.path) = a.exclude
          /\ t \notin Elems(a.path) /\ Len(a.path) >= 1
      BY <1>1 DEF AskOK, Chain, Distinct
    <3>3. /\ Append(a.path, t)[1] = a.path[1] /\ Elems(Append(a.path, t)) = a.exclude \cup {t}
      BY <1>3, <3>2, ChainGrows
    <3>4. /\ r.path[1] = a.path[1] /\ Elems(r.path) = a.exclude \cup {t} /\ r.ask = {} /\ r.now = {}
          /\ r.left = trusted[t] \ x /\ r.busy
      BY <3>3 DEF Left
    <3> HIDE DEF r
    <3>5. /\ run'[t].path[1] = a.path[1] /\ Elems(run'[t].path) = a.exclude \cup {t}
          /\ run'[t].ask = {} /\ run'[t].left = trusted[t] \ x /\ run'[t].busy
      BY <3>1, <3>4
    <3>6. RunSpreads(run[t], t)'
      BY <1>1, <1>3, <1>4, <3>5 DEF RunSpreads, AskSpreads
    <3>7. run[t].ask = {}
      BY <1>3, <2>2 DEF SpreadInv, ChainInv, RunOK, NoRun
    <3> QED
      BY <1>6, <3>1, <3>5, <3>6, <3>7
  <2> QED
    BY <1>1, <2>1, <2>2 DEF RunSync
<1>8. ASSUME NEW e \in Device, PassedOn(e) PROVE PassedOn(e)'
  <2>1. CASE \E c \in BagToSet(asks) : c.to = e
    BY <1>1, <1>2, <1>4, <1>7, <2>1 DEF PassedOn
  <2>2. CASE trusted[e] \subseteq Holders \/ run[e].busy \/ \E d \in Device : e \in run[d].ask
    BY <1>1, <1>4, <1>7, <2>2 DEF PassedOn
  <2> QED
    BY <1>8, <2>1, <2>2 DEF PassedOn
<1>9. \A e, d \in Device : Due(e, d) => Due(e, d)'
  BY <1>1, <1>3 DEF RunSync, Due, First
<1>10. by[1] \in Device /\ Holders \subseteq Device
  BY DEF Spreading, Holders
<1>11. AllPassOn'
  BY <1>1, <1>4, <1>8, <1>10, NoNewHolders
<1>12. \A e \in Device : Due(e, by[1]) => Due(e, by[1])'
  BY <1>1, <1>9, <1>10
<1> QED
  BY <1>1, <1>4, <1>5, <1>7, <1>8, <1>10, <1>11, <1>12, StillPassedOn

\* A step of a run that is neither a session nor its failure.
LEMMA RunStepSpreads ==
  ASSUME SpreadInv, Spreading, NEW d \in Device,
         NextBatch(d) \/ FinishRun(d) \/ \E p \in Device : AskCascade(d, p)
  PROVE  Spreading'
<1>1. /\ run \in [Device -> Run] /\ UNCHANGED <<trusted, token, limit, news, by, failures>>
      /\ trusted \in [Device -> SUBSET Device] /\ IsABag(asks)
  BY DEF SpreadInv, ChainInv, TypeOK, NextBatch, FinishRun, AskCascade
<1>2. Holders' = Holders
  BY <1>1 DEF Holders
<1>3. \A e \in Device : run'[e] = run[e] /\ run[e].busy => RunSpreads(run[e], e)'
  BY <1>1, <1>2, RunStillSpreads DEF Spreading
<1>4. ASSUME \A e, f \in Device : Due(e, f) => Due(e, f)',
             \A e \in Device : PassedOn(e) => PassedOn(e)'
      PROVE  AllPassOn' /\ \A e \in Device : Due(e, by[1]) => Due(e, by[1])'
  <2>1. by[1] \in Device /\ Holders \subseteq Device /\ by' = by
    BY <1>1 DEF Spreading, Holders
  <2> QED
    BY <1>1, <1>2, <1>4, <2>1, NoNewHolders
<1>5. Holders \subseteq Device
  BY DEF Holders
<1>6. CASE NextBatch(d)
  <2>1. PICK batch \in SUBSET run[d].left :
          run' = [run EXCEPT ![d].left = @ \ batch, ![d].now = batch]
    BY <1>6 DEF NextBatch
  <2>2. run[d] \in Run /\ run[d].busy /\ asks' = asks /\ RunSpreads(run[d], d)
        /\ run[d].now = {}
    <3>1. RunOK(run[d], d) /\ run[d].left # {} /\ run[d].now = {} /\ asks' = asks
      BY <1>6 DEF NextBatch, SpreadInv, ChainInv
    <3>2. run[d] \in Run /\ run[d].busy
      BY <3>1 DEF RunOK, NoRun
    <3> QED
      BY <3>1, <3>2 DEF Spreading
  <2>3. /\ run'[d].path = run[d].path /\ run'[d].left = run[d].left \ batch
        /\ run'[d].now = batch /\ run'[d].ask = run[d].ask /\ run'[d].busy
        /\ \A e \in Device : e # d => run'[e] = run[e]
    BY <1>1, <2>1, <2>2 DEF Run
  <2>4. RunSpreads(run[d], d)'
    BY <1>1, <1>2, <2>2, <2>3 DEF RunSpreads
  <2>5. \A e \in Device : /\ run'[e].busy => RunSpreads(run[e], e)'
                          /\ run[e].busy => run'[e].busy
                          /\ run'[e].ask = run[e].ask
    BY <1>3, <2>2, <2>3, <2>4
  <2>6. \A a \in BagToSet(asks') : AskSpreads(a)'
    BY <1>1, <1>2, <2>2, AskStillSpreads DEF Spreading
  <2>7. ASSUME NEW e \in Device, PassedOn(e) PROVE PassedOn(e)'
    BY <1>1, <1>2, <2>2, <2>5, <2>7 DEF PassedOn
  <2>8. \A e, f \in Device : Due(e, f) => Due(e, f)'
    BY <1>1, <2>2, <2>3 DEF Due, First
  <2> QED
    BY <1>1, <1>2, <1>4, <1>5, <2>5, <2>6, <2>7, <2>8, StillPassedOn
<1>7. CASE FinishRun(d)
  <2>1. /\ run' = [run EXCEPT ![d] = NoRun] /\ run[d].busy /\ asks' = asks
        /\ run[d].left = {} /\ run[d].now = {} /\ run[d].ask = {}
    BY <1>7 DEF FinishRun
  <2>2. run'[d] = NoRun /\ ~run'[d].busy /\ \A e \in Device : e # d => run'[e] = run[e]
    BY <1>1, <2>1 DEF NoRun
  <2>3. trusted[d] \subseteq Holders
    BY <2>1 DEF Spreading, RunSpreads
  <2>4. \A e \in Device : run'[e].busy => RunSpreads(run[e], e)'
    BY <1>3, <2>2
  <2>5. \A a \in BagToSet(asks') : AskSpreads(a)'
    BY <1>1, <1>2, <2>1, AskStillSpreads DEF Spreading
  <2>6. ASSUME NEW e \in Device, PassedOn(e) PROVE PassedOn(e)'
    <3>1. CASE e = d
      BY <1>1, <1>2, <2>3, <3>1 DEF PassedOn
    <3>2. CASE e # d
      <4>1. run'[e] = run[e]
        BY <2>2, <3>2
      <4>2. \A f \in Device : e \in run[f].ask => e \in run'[f].ask
        BY <2>1, <2>2
      <4> QED
        BY <1>1, <1>2, <2>1, <2>6, <4>1, <4>2 DEF PassedOn
    <3> QED
      BY <3>1, <3>2
  <2>7. \A e, f \in Device : Due(e, f) => Due(e, f)'
    BY <1>1, <2>1, <2>2 DEF Due, First
  <2> QED
    BY <1>1, <1>2, <1>4, <1>5, <2>4, <2>5, <2>6, <2>7, StillPassedOn
<1>8. ASSUME NEW p \in Device, AskCascade(d, p) PROVE Spreading'
  <2> DEFINE r == run[d]
  <2>1. PICK b : b = Request(p, p \in token[d], Visited(d), r.hop - 1, r.path)
    OBVIOUS
  <2>2. BagToSet(asks') = BagToSet(asks) \cup {b}
    BY <1>1, <1>8, <2>1, PutRequest DEF AskCascade
  <2>3. /\ r \in Run /\ r.busy /\ p \in r.ask /\ RunSpreads(r, d) /\ RunChained(r, d)
        /\ Followed(r, d)
    BY <1>1, <1>8 DEF AskCascade, SpreadInv, ChainInv, RunOK, NoRun, Spreading,
                      RunChained, CutOff
  <2>4. b.to = p /\ b.exclude = r.exclude \cup {d} /\ b.path = r.path
    BY <2>1 DEF Request, Visited
  <2>5. AskSpreads(b)'
    BY <1>1, <1>2, <2>3, <2>4 DEF AskSpreads, RunSpreads, Followed
  <2>6. run' = [run EXCEPT ![d].ask = @ \ {p}]
    BY <1>8 DEF AskCascade
  <2>7. /\ run'[d].path = r.path /\ run'[d].left = r.left /\ run'[d].now = r.now
        /\ run'[d].ask = r.ask \ {p} /\ run'[d].busy
        /\ \A e \in Device : e # d => run'[e] = run[e]
    BY <1>1, <2>3, <2>6 DEF Run
  <2>8. RunSpreads(run[d], d)'
    BY <1>1, <1>2, <2>3, <2>7 DEF RunSpreads
  <2>9. \A e \in Device : run'[e].busy => RunSpreads(run[e], e)'
    BY <1>3, <2>7, <2>8
  <2>10. \A a \in BagToSet(asks') : AskSpreads(a)'
    BY <1>1, <1>2, <2>2, <2>5, AskStillSpreads DEF Spreading
  <2>11. ASSUME NEW e \in Device, PassedOn(e) PROVE PassedOn(e)'
    <3>1. CASE e = p
      BY <2>2, <2>4, <3>1 DEF PassedOn
    <3>2. CASE e # p
      <4>1. \A f \in Device : e \in run[f].ask => e \in run'[f].ask
        BY <2>7, <3>2
      <4>2. run[e].busy => run'[e].busy
        BY <2>7
      <4> QED
        BY <1>1, <1>2, <2>2, <2>11, <4>1, <4>2 DEF PassedOn
    <3> QED
      BY <3>1, <3>2
  <2>12. \A e, f \in Device : Due(e, f) => Due(e, f)'
    BY <1>1, <2>3, <2>7 DEF Due, First
  <2> QED
    BY <1>1, <1>2, <1>4, <1>5, <2>9, <2>10, <2>11, <2>12, StillPassedOn
<1> QED
  BY <1>6, <1>7, <1>8

\* The spread goes on with every step.
LEMMA SpreadStep == SpreadInv /\ [Next]_vars => SpreadInv'
<1> SUFFICES ASSUME SpreadInv, [Next]_vars PROVE SpreadInv'
  OBVIOUS
<1>1. ChainInv'
  BY ChainStep DEF SpreadInv
<1>2. /\ by \in Seq(Editors) /\ failures \in Nat /\ Len(by) \in Nat
      /\ run \in [Device -> Run]
  BY DEF SpreadInv, ChainInv, TypeOK
<1>3. ASSUME NEW d \in Device, Edit(d) PROVE SpreadInv'
  <2>1. Len(by') = Len(by) + 1 /\ by' # <<>>
    BY <1>2, <1>3 DEF Edit
  <2> QED
    BY <1>1, <1>3, <2>1, FirstEdit DEF SpreadInv
<1>4. ASSUME NEW d \in Device, RunStep(d) PROVE SpreadInv'
  <2>1. run[d].busy /\ by' = by
    <3>1. RunOK(run[d], d)
      BY DEF SpreadInv, ChainInv
    <3>2. run[d] # NoRun
      <4>1. NoRun.busy = FALSE /\ NoRun.left = {} /\ NoRun.now = {} /\ NoRun.ask = {}
        BY DEF NoRun
      <4>2. run[d].busy \/ run[d].left # {} \/ run[d].now # {} \/ run[d].ask # {}
        BY <1>4 DEF RunStep, NextBatch, FinishRun, SyncPeer, SkipPeer, AskCascade
      <4> QED
        BY <4>1, <4>2
    <3> QED
      BY <1>4, <3>1, <3>2
      DEF RunOK, RunStep, NextBatch, FinishRun, SyncPeer, SkipPeer, AskCascade
  <2>2. by' # <<>>
    BY <2>1 DEF SpreadInv
  <2>3. ASSUME Len(by') = 1, failures' = 0 PROVE Spreading'
    <3>1. CASE NextBatch(d) \/ FinishRun(d) \/ \E p \in Device : AskCascade(d, p)
      <4>1. failures = 0
        BY <2>3, <3>1 DEF NextBatch, FinishRun, AskCascade
      <4> QED
        BY <2>1, <2>3, <3>1, <4>1, RunStepSpreads DEF SpreadInv
    <3>2. ASSUME NEW p \in Device, SyncPeer(d, p) PROVE Spreading'
      <4>1. failures = 0
        BY <2>3, <3>2 DEF SyncPeer
      <4> QED
        BY <2>1, <2>3, <3>2, <4>1, SyncSpreads DEF SpreadInv
    <3>3. ASSUME NEW p \in Device, SkipPeer(d, p) PROVE FALSE
      BY <1>2, <2>3, <3>3 DEF SkipPeer
    <3> QED
      BY <1>4, <3>1, <3>2, <3>3 DEF RunStep
  <2> QED
    BY <1>1, <2>2, <2>3 DEF SpreadInv
<1>5. ASSUME NEW d \in Device, Restart(d) PROVE SpreadInv'
  <2>1. run[d].busy /\ by' = by /\ failures' # 0
    BY <1>2, <1>5 DEF Restart
  <2> QED
    BY <1>1, <2>1 DEF SpreadInv
<1>6. ASSUME NEW a \in BagToSet(asks), HandleCascade(a) PROVE SpreadInv'
  <2>1. by' = by /\ failures' = failures /\ by # <<>>
    BY <1>6 DEF HandleCascade, SpreadInv
  <2> QED
    BY <1>1, <1>6, <2>1, HandlingSpreads DEF SpreadInv
<1>7. ASSUME NEW a \in BagToSet(asks), LoseCascade(a) PROVE SpreadInv'
  <2>1. by' = by /\ failures' # 0 /\ by # <<>>
    BY <1>2, <1>7 DEF LoseCascade, SpreadInv
  <2> QED
    BY <1>1, <2>1 DEF SpreadInv
<1>8. CASE UNCHANGED vars
  BY <1>1, <1>8 DEF vars, SpreadInv, Spreading, Holders, RunSpreads, AskSpreads, PassedOn,
                         AllPassOn, NoTokens, PeersPassOn, Due, First
<1> QED
  BY <1>3, <1>4, <1>5, <1>6, <1>7, <1>8 DEF Next, Handling

LEMMA SpreadAlways == Spec => []SpreadInv
BY SpreadInit, SpreadStep, PTL DEF Spec

\* When all is quiet again a device that passed the edit on has done it.
LEMMA QuietSpread ==
  ASSUME SpreadInv, Alone
  PROVE  /\ Spreading /\ trusted \in [Device -> SUBSET Device] /\ by[1] \in Device
         /\ \A e, d \in Device : ~Due(e, d)
         /\ \A e \in Device : PassedOn(e) => trusted[e] \subseteq Holders
<1>1. Spreading /\ Quiet
  BY DEF SpreadInv, Alone
<1>2. trusted \in [Device -> SUBSET Device] /\ by[1] \in Device
  BY <1>1 DEF SpreadInv, ChainInv, TypeOK, Spreading, Holders
<1>3. BagToSet(asks) = {} /\ \A d \in Device : ~run[d].busy
  BY <1>1, NoRequests DEF Quiet
<1>4. \A d \in Device : run[d].ask = {}
  BY <1>3 DEF SpreadInv, ChainInv, RunOK, NoRun
<1> QED
  BY <1>1, <1>2, <1>3, <1>4 DEF PassedOn, Due, First

\* The sync after one edit brings it to the peers of the device and, with a profile
\* that cascades, to their peers, tokens or not.
THEOREM EditAlwaysReachesTwoLinks == Spec => []EditReachesTwoLinks
<1>1. ASSUME SpreadInv, Alone, NEW p \in trusted[by[1]]
      PROVE  /\ 1 \in news[p]
             /\ limit[by[1]] > 0 => \A e \in trusted[p] : 1 \in news[e]
  <2>1. /\ Spreading /\ trusted \in [Device -> SUBSET Device] /\ by[1] \in Device
        /\ ~Due(p, by[1])
        /\ \A e \in Device : PassedOn(e) => trusted[e] \subseteq Holders
    BY <1>1, QuietSpread
  <2>2. p \in Device /\ trusted[by[1]] \subseteq Holders
    BY <2>1 DEF Spreading
  <2>3. limit[by[1]] > 0 => trusted[p] \subseteq Holders
    BY <2>1, <2>2 DEF Spreading, PeersPassOn
  <2> QED
    BY <2>2, <2>3 DEF Holders
<1>2. SpreadInv => EditReachesTwoLinks
  BY <1>1 DEF EditReachesTwoLinks
<1> QED
  BY <1>2, SpreadAlways, PTL

\* Where no pairing has a token, it brings it to every device that is connected:
\* when all is quiet again, nobody that can be reached is without it.
THEOREM PlainEditAlwaysSpreads == Spec => []PlainEditSpreads
<1>1. ASSUME SpreadInv, Alone, \A d \in Device : token[d] = {},
             limit[by[1]] + 2 >= Cardinality(Device), NEW e \in Reach(by[1])
      PROVE  1 \in news[e]
  <2>1. /\ Spreading /\ trusted \in [Device -> SUBSET Device] /\ by[1] \in Holders
        /\ \A f \in Device : PassedOn(f) => trusted[f] \subseteq Holders
    BY <1>1, QuietSpread DEF Spreading
  <2>2. Holders \in SUBSET Device /\ e \in Device
    BY <1>1 DEF Holders, Reach
  <2>3. \A f \in Holders : trusted[f] \subseteq Holders
    BY <1>1, <2>1, <2>2 DEF Spreading, AllPassOn, NoTokens
  <2>4. e \in Holders
    BY <1>1, <2>1, <2>2, <2>3 DEF Reach
  <2> QED
    BY <2>4 DEF Holders
<1>2. SpreadInv => PlainEditSpreads
  BY <1>1 DEF PlainEditSpreads, EditSpreads
<1> QED
  BY <1>2, SpreadAlways, PTL

=============================================================================
