------------------------ MODULE ConfigReplicaProofs ------------------------
(***************************************************************************)
(* Theorems about ConfigReplica, for any number of devices, operations and  *)
(* clock values.                                                            *)
(***************************************************************************)
EXTENDS ConfigReplica, TLAPS, WellFoundedInduction

-----------------------------------------------------------------------------
(* Operations *)

\* A nonempty set of natural numbers has a least element.
LEMMA LeastElement ==
  ASSUME NEW T, T \subseteq Nat, T # {}
  PROVE  \E x \in T : \A y \in T : x <= y
<1> DEFINE R == OpToRel(<, Nat)
<1>1. IsWellFoundedOn(R, Nat)
  BY NatLessThanWellFounded, Zenon
<1>2. \E x \in T : \A y \in T : ~ (<<y, x>> \in R)
  <2> HIDE DEF R
  <2>1. QED
    BY <1>1, WFMin
<1>3. \A x, y \in Nat : <<y, x>> \notin R => x <= y
  BY DEF OpToRel
<1>4. QED
  BY <1>2, <1>3

\* The loop that advances the frontier ends, just before the first gap.
LEMMA FrontierFound ==
  ASSUME NEW have \in SUBSET (1..MaxOps), NEW from \in 0..MaxOps
  PROVE  /\ Frontier(have, from) \in from..MaxOps
         /\ Frontier(have, from) + 1 \notin have
         /\ \A k \in from + 1..Frontier(have, from) : k \in have
<1> DEFINE T == {n \in from..MaxOps : n + 1 \notin have}
<1>1. T \subseteq Nat /\ MaxOps \in T
  BY ConfigAssumption
<1>2. PICK x \in T : \A y \in T : x <= y
  <2> HIDE DEF T
  <2>1. QED
    BY <1>1, LeastElement
<1>3. \A k \in from + 1..x : k \in have
  BY <1>1, <1>2, ConfigAssumption
<1>4. QED
  BY <1>1, <1>2, <1>3, ConfigAssumption DEF Frontier

\* Counters of a set of operations, and what one more adds to them.
LEMMA CountersGrow ==
  ASSUME NEW ops \in SUBSET Op, NEW o \in Op, NEW a \in Devices
  PROVE  /\ Counters(ops, a) \subseteq 1..MaxOps
         /\ o.actor = a => Counters(ops \cup {o}, a) = Counters(ops, a) \cup {o.ctr}
         /\ o.actor # a => Counters(ops \cup {o}, a) = Counters(ops, a)
  BY DEF Counters, Op

\* Of two edits, one is later, and it is the one that operationWins prefers.
LEMMA LaterWins ==
  ASSUME NEW o \in Op, NEW p \in Op, o.kind = p.kind,
         o.actor = p.actor => o.ctr # p.ctr,
         o.ctx[o.actor] = o.ctr - 1, p.ctx[p.actor] = p.ctr - 1,
         Saw(o, p) => p.hlc < o.hlc,
         Saw(p, o) => o.hlc < p.hlc
  PROVE  /\ OperationWins(o, p) <=> Later(o, p)
         /\ Later(o, p) <=> ~Later(p, o)
<1>1. /\ o.hlc \in Nat /\ p.hlc \in Nat /\ o.actor \in Nat /\ p.actor \in Nat
      /\ o.ctr \in Nat /\ p.ctr \in Nat
  BY ConfigAssumption DEF Op, Devices
<1>2. o.actor = p.actor => o.hlc # p.hlc
  <2>1. SUFFICES ASSUME o.actor = p.actor PROVE o.hlc # p.hlc
    OBVIOUS
  <2>2. Saw(o, p) \/ Saw(p, o)
    BY <1>1, <2>1 DEF Saw
  <2>3. QED
    BY <1>1, <2>2
<1>3. QED
  BY <1>1, <1>2 DEF OperationWins, Later

ReplicaType == [ops : SUBSET Op, cover : Vector, vector : Vector, view : SUBSET Op]

\* FrontierIsExact, for one replica.
Exact(r) ==
    \A a \in Devices : /\ \A k \in 1..r.vector[a] : k \in Counters(r.ops, a)
                       /\ r.vector[a] + 1 \notin Counters(r.ops, a)

\* Apply keeps a replica's type and its frontier exact, and stores exactly the
\* operations that are new.
LEMMA ApplyKeepsExact ==
  ASSUME NEW r \in ReplicaType, NEW o \in Op, Exact(r)
  PROVE  /\ Apply(r, o) \in ReplicaType
         /\ Exact(Apply(r, o))
         /\ Apply(r, o).cover = r.cover
         /\ Apply(r, o).ops = IF Known(r, o) THEN r.ops ELSE r.ops \cup {o}
         /\ \A a \in Devices : a # o.actor => Apply(r, o).vector[a] = r.vector[a]
         /\ \A a \in Devices : Apply(r, o).vector[a] >= r.vector[a]
<1>1. CASE Known(r, o)
  BY <1>1 DEF Apply, ReplicaType, Vector
<1>2. CASE ~Known(r, o)
  <2> DEFINE a0   == o.actor
             have == Counters(r.ops \cup {o}, a0)
             n    == Frontier(have, r.vector[a0])
  <2>1. /\ a0 \in Devices
        /\ r.ops \in SUBSET Op /\ r.vector \in Vector /\ r.cover \in Vector /\ r.view \in SUBSET Op
        /\ r.vector[a0] \in 0..MaxOps
    BY DEF Op, ReplicaType, Vector
  <2>2. /\ n \in r.vector[a0]..MaxOps
        /\ n + 1 \notin have
        /\ \A k \in r.vector[a0] + 1..n : k \in have
    <3>1. have \in SUBSET (1..MaxOps)
      BY <2>1, CountersGrow
    <3>2. QED
      BY <2>1, <3>1, FrontierFound
  <2>3. Apply(r, o) = [ops    |-> r.ops \cup {o}, cover |-> r.cover,
                       vector |-> [r.vector EXCEPT ![a0] = n],
                       view   |-> IF \A p \in r.view : OperationWins(o, p) THEN {o} ELSE r.view]
    BY <1>2 DEF Apply
  <2> HIDE DEF n
  <2>4. [r.vector EXCEPT ![a0] = n] \in Vector
    BY <2>1, <2>2, ConfigAssumption DEF Vector
  <2>5. Apply(r, o) \in ReplicaType
    BY <2>1, <2>3, <2>4 DEF ReplicaType
  <2>6. ASSUME NEW a \in Devices
        PROVE  /\ \A k \in 1..Apply(r, o).vector[a] : k \in Counters(Apply(r, o).ops, a)
               /\ Apply(r, o).vector[a] + 1 \notin Counters(Apply(r, o).ops, a)
    <3>1. CASE a = a0
      <4>1. Apply(r, o).vector[a] = n /\ Counters(Apply(r, o).ops, a) = have
        BY <2>1, <2>3, <3>1 DEF Vector
      <4>2. \A k \in 1..r.vector[a0] : k \in have
        BY <2>1, CountersGrow DEF Exact
      <4>3. \A k \in 1..n : k \in have
        <5> HIDE DEF have
        <5>1. QED
          BY <2>1, <2>2, <4>2, ConfigAssumption
      <4>4. QED
        <5> HIDE DEF have
        <5>1. QED
          BY <2>2, <4>1, <4>3, Zenon
    <3>2. CASE a # a0
      <4>1. Apply(r, o).vector[a] = r.vector[a] /\ Counters(Apply(r, o).ops, a) = Counters(r.ops, a)
        BY <2>1, <2>3, <3>2, CountersGrow DEF Vector
      <4>2. QED
        BY <4>1 DEF Exact
    <3>3. QED
      BY <3>1, <3>2
  <2>7. \A a \in Devices : /\ a # o.actor => Apply(r, o).vector[a] = r.vector[a]
                           /\ Apply(r, o).vector[a] >= r.vector[a]
    BY <2>1, <2>2, <2>3, ConfigAssumption DEF Vector
  <2>8. Exact(Apply(r, o))
    BY <2>6, Zenon DEF Exact
  <2>9. QED
    BY <1>2, <2>3, <2>5, <2>7, <2>8
<1>3. QED
  BY <1>1, <1>2

-----------------------------------------------------------------------------
(* The inductive invariant *)

\* What is stored was signed, what is shown is stored, nothing is compacted.
StoredIsBorn ==
    \A d \in Devices : /\ rep[d].ops \subseteq born
                       /\ rep[d].view \subseteq rep[d].ops
                       /\ rep[d].cover = Zero

\* A device's frontier for itself counts all it has signed, and each operation
\* has seen its actor's earlier ones.
OwnAreCounted ==
    \A o \in born : /\ o.ctr <= rep[o.actor].vector[o.actor]
                    /\ o.ctx[o.actor] = o.ctr - 1

ReplicaInv ==
    TypeOK /\ StoredIsBorn /\ CountersAreUnique /\ FrontierIsExact /\ OwnAreCounted

\* Device d stores o: an operation of its own that it signs now, or one that
\* some device signed before.  Both actions are such a step.
Fresh(d, o) == /\ o.actor = d
               /\ o.ctr = rep[d].vector[d] + 1
               /\ o.ctx = rep[d].vector
               /\ o.hlc > clock[d]
Stores(d, o) ==
    /\ o \in Op
    /\ rep' = [rep EXCEPT ![d] = Apply(rep[d], o)]
    /\ born' = born \cup {o}
    /\ clock' = [clock EXCEPT ![d] = IF Known(rep[d], o) THEN clock[d] ELSE Later2(clock[d], o.hlc)]
    /\ o \in born \/ Fresh(d, o)

\* Nothing a device holds has the counter of the operation it signs next.
LEMMA FreshIsUnknown ==
  ASSUME ReplicaInv, NEW d \in Devices, NEW o \in Op, Fresh(d, o)
  PROVE  ~Known(rep[d], o) /\ \A p \in born : p.actor = d => p.ctr < o.ctr
<1>1. rep[d].vector[d] \in Nat /\ rep[d].cover = Zero /\ rep[d].ops \subseteq born
  BY DEF ReplicaInv, TypeOK, StoredIsBorn, Vector
<1>2. \A p \in born : p.actor = d => p.ctr <= rep[d].vector[d] /\ p.ctr \in Nat
  BY DEF ReplicaInv, OwnAreCounted, TypeOK, Op
<1>3. QED
  BY <1>1, <1>2 DEF Fresh, Known, Zero

\* AppendOp and Deliver are the two ways to store an operation.
LEMMA NextStores ==
  ASSUME ReplicaInv, Next
  PROVE  \E d \in Devices, o \in Op : Stores(d, o)
<1>1. ASSUME NEW d \in Devices, NEW kind \in Kinds, NEW t \in 1..MaxTime, AppendOp(d, kind, t)
      PROVE  \E o \in Op : Stores(d, o)
  <2>1. PICK c \in 1..MaxOps :
           /\ t > clock[d]
           /\ IsNextCounter(rep[d], d, c) /\ rep[d].vector[d] = c - 1
           /\ rep' = [rep EXCEPT ![d] = Apply(rep[d], [actor |-> d, ctr |-> c, kind |-> kind, hlc |-> t,
                                                      ctx |-> rep[d].vector])]
           /\ born' = born \cup {[actor |-> d, ctr |-> c, kind |-> kind, hlc |-> t,
                                  ctx |-> rep[d].vector]}
           /\ clock' = [clock EXCEPT ![d] = t]
    BY <1>1 DEF AppendOp
  <2> DEFINE o == [actor |-> d, ctr |-> c, kind |-> kind, hlc |-> t, ctx |-> rep[d].vector]
  <2>2. o \in Op /\ clock[d] \in Nat
    BY DEF ReplicaInv, TypeOK, Op
  <2>3. Fresh(d, o)
    BY <2>1 DEF Fresh, ReplicaInv, TypeOK, Vector
  <2>4. ~Known(rep[d], o)
    BY <2>2, <2>3, FreshIsUnknown
  <2>5. Later2(clock[d], o.hlc) = t
    BY <2>1, <2>2 DEF Later2
  <2>6. QED
    BY <2>1, <2>2, <2>3, <2>4, <2>5 DEF Stores
<1>2. ASSUME NEW d \in Devices, NEW o \in born, Deliver(d, o)
      PROVE  \E p \in Op : Stores(d, p)
  <2>1. o \in Op /\ born \cup {o} = born
    BY DEF ReplicaInv, TypeOK
  <2>2. QED
    BY <1>2, <2>1 DEF Deliver, Stores
<1>3. QED
  BY <1>1, <1>2 DEF Next

\* What storing an operation does to the replicas.
LEMMA StoreEffect ==
  ASSUME ReplicaInv, NEW d \in Devices, NEW o \in Op, Stores(d, o)
  PROVE  /\ rep' \in [Devices -> ReplicaType]
         /\ \A e \in Devices : Exact(rep'[e])
         /\ \A e \in Devices : e # d => rep'[e] = rep[e]
         /\ rep'[d] = Apply(rep[d], o)
         /\ rep'[d].ops = IF Known(rep[d], o) THEN rep[d].ops ELSE rep[d].ops \cup {o}
         /\ rep'[d].cover = Zero
         /\ \A e, a \in Devices : rep'[e].vector[a] >= rep[e].vector[a]
<1>1. rep \in [Devices -> ReplicaType] /\ (\A e \in Devices : Exact(rep[e]))
  BY DEF ReplicaInv, TypeOK, ReplicaType, FrontierIsExact, Exact
<1>2. rep[d] \in ReplicaType /\ Exact(rep[d]) /\ rep[d].cover = Zero
  BY <1>1 DEF ReplicaInv, StoredIsBorn
<1>3. /\ Apply(rep[d], o) \in ReplicaType
      /\ Exact(Apply(rep[d], o))
      /\ Apply(rep[d], o).cover = Zero
      /\ Apply(rep[d], o).ops = IF Known(rep[d], o) THEN rep[d].ops ELSE rep[d].ops \cup {o}
      /\ \A a \in Devices : Apply(rep[d], o).vector[a] >= rep[d].vector[a]
  BY <1>2, ApplyKeepsExact
<1>4. rep' = [rep EXCEPT ![d] = Apply(rep[d], o)]
  BY DEF Stores
<1>5. rep' \in [Devices -> ReplicaType] /\ rep'[d] = Apply(rep[d], o)
      /\ \A e \in Devices : e # d => rep'[e] = rep[e]
  BY <1>1, <1>3, <1>4
<1>6. \A e \in Devices : Exact(rep'[e])
  <2>1. TAKE e \in Devices
  <2>2. CASE e = d
    BY <1>3, <1>5, <2>2
  <2>3. CASE e # d
    BY <1>1, <1>5, <2>3
  <2>4. QED
    BY <2>2, <2>3
<1>7. \A e, a \in Devices : rep'[e].vector[a] >= rep[e].vector[a]
  <2>1. \A e, a \in Devices : rep[e].vector[a] \in Nat
    BY <1>1 DEF ReplicaType, Vector
  <2>2. QED
    BY <1>3, <1>5, <2>1
<1>8. QED
  BY <1>3, <1>5, <1>6, <1>7

\* All replicas start empty.
LEMMA InitReplicaInv == Init => ReplicaInv
<1> SUFFICES ASSUME Init PROVE ReplicaInv
  OBVIOUS
<1>1. \A d \in Devices : rep[d] = EmptyReplica
  BY DEF Init
<1>2. Zero \in Vector /\ 0 \in 0..MaxTime /\ \A a \in Devices : Zero[a] = 0
  BY ConfigAssumption DEF Zero, Vector
<1>3. TypeOK
  BY <1>1, <1>2 DEF Init, TypeOK, EmptyReplica
<1>4. FrontierIsExact
  BY <1>1, <1>2 DEF FrontierIsExact, EmptyReplica, Counters
<1>5. QED
  BY <1>1, <1>3, <1>4 DEF Init, ReplicaInv, StoredIsBorn, CountersAreUnique, OwnAreCounted, EmptyReplica

\* Storing an operation, new or again, keeps every part of the invariant.
LEMMA StoreReplicaInv ==
  ASSUME ReplicaInv, NEW d \in Devices, NEW o \in Op, Stores(d, o)
  PROVE  ReplicaInv'
<1>0. /\ rep' \in [Devices -> ReplicaType]
      /\ \A e \in Devices : Exact(rep'[e])
      /\ \A e \in Devices : e # d => rep'[e] = rep[e]
      /\ rep'[d] = Apply(rep[d], o)
      /\ rep'[d].ops = IF Known(rep[d], o) THEN rep[d].ops ELSE rep[d].ops \cup {o}
      /\ rep'[d].cover = Zero
      /\ \A e, a \in Devices : rep'[e].vector[a] >= rep[e].vector[a]
  BY StoreEffect
<1>1. /\ born' = born \cup {o}
      /\ o.actor \in Devices /\ o.ctr \in 1..MaxOps /\ o.hlc \in 1..MaxTime
      /\ o \in born \/ Fresh(d, o)
  BY DEF Stores, Op
<1>2. \A e, a \in Devices : rep[e].vector[a] \in Nat /\ rep'[e].vector[a] \in Nat
  BY <1>0 DEF ReplicaInv, TypeOK, ReplicaType, Vector
<1>3. rep'[d].view = rep[d].view \/ (rep'[d].view = {o} /\ o \in rep'[d].ops)
  BY <1>0 DEF Apply
<1>4. TypeOK'
  <2>1. clock' \in [Devices -> 0..MaxTime]
    BY <1>1, ConfigAssumption DEF Stores, ReplicaInv, TypeOK, Later2
  <2>2. \A e \in Devices : \A x, y \in rep'[e].view : x = y
    BY <1>0, <1>3 DEF ReplicaInv, TypeOK
  <2>3. QED
    BY <1>0, <1>1, <2>1, <2>2 DEF ReplicaInv, TypeOK, ReplicaType
<1>5. StoredIsBorn'
  BY <1>0, <1>1, <1>3 DEF ReplicaInv, StoredIsBorn
<1>6. FrontierIsExact'
  BY <1>0 DEF FrontierIsExact, Exact
<1>7. CASE o \in born
  <2>1. born' = born
    BY <1>1, <1>7
  <2>2. CountersAreUnique'
    BY <1>0, <2>1 DEF ReplicaInv, CountersAreUnique, TypeOK, Op
  <2>3. OwnAreCounted'
    <3>1. SUFFICES ASSUME NEW p \in born
                   PROVE  p.ctr <= rep'[p.actor].vector[p.actor] /\ p.ctx[p.actor] = p.ctr - 1
      BY <2>1 DEF OwnAreCounted
    <3>2. p.actor \in Devices /\ p.ctr \in Nat
      BY DEF ReplicaInv, TypeOK, Op
    <3>3. QED
      BY <1>0, <1>2, <3>2 DEF ReplicaInv, OwnAreCounted
  <2>4. QED
    BY <1>4, <1>5, <1>6, <2>2, <2>3 DEF ReplicaInv
<1>8. CASE Fresh(d, o)
  <2>1. ~Known(rep[d], o) /\ \A p \in born : p.actor = d => p.ctr < o.ctr
    BY <1>8, FreshIsUnknown
  <2>2. o.actor = d /\ o.ctr = rep[d].vector[d] + 1 /\ o.ctx = rep[d].vector
    BY <1>8 DEF Fresh
  <2>3. CountersAreUnique'
    <3>1. \A p, q \in born' : p.actor = q.actor /\ p.ctr = q.ctr => p = q
      <4>1. \A p \in born : p.actor = d => p.ctr \in Nat
        BY DEF ReplicaInv, TypeOK, Op
      <4>2. QED
        BY <1>1, <2>1, <2>2, <4>1 DEF ReplicaInv, CountersAreUnique
    <3>2. \A p \in born' : p \in rep'[p.actor].ops
      BY <1>0, <1>1, <2>1, <2>2 DEF ReplicaInv, CountersAreUnique, TypeOK, Op
    <3>3. QED
      BY <3>1, <3>2 DEF CountersAreUnique
  <2>4. o.ctr <= rep'[d].vector[d]
    <3>1. o.ctr \in Counters(rep'[d].ops, d)
      BY <1>0, <2>1, <2>2 DEF Counters
    <3>2. rep'[d].vector[d] + 1 \notin Counters(rep'[d].ops, d) /\ rep'[d].vector[d] >= rep[d].vector[d]
      BY <1>0 DEF Exact
    <3>3. QED
      BY <1>2, <2>2, <3>1, <3>2
  <2>5. OwnAreCounted'
    <3>1. SUFFICES ASSUME NEW p \in born'
                   PROVE  p.ctr <= rep'[p.actor].vector[p.actor] /\ p.ctx[p.actor] = p.ctr - 1
      BY DEF OwnAreCounted
    <3>2. CASE p \in born
      <4>1. p.actor \in Devices /\ p.ctr \in Nat
        BY <3>2 DEF ReplicaInv, TypeOK, Op
      <4>2. QED
        BY <1>0, <1>2, <3>2, <4>1 DEF ReplicaInv, OwnAreCounted
    <3>3. CASE p = o
      BY <1>2, <2>2, <2>4, <3>3
    <3>4. QED
      BY <1>1, <3>2, <3>3
  <2>6. QED
    BY <1>4, <1>5, <1>6, <2>3, <2>5 DEF ReplicaInv
<1>9. QED
  BY <1>1, <1>7, <1>8

\* The invariant is inductive.
LEMMA NextReplicaInv == ReplicaInv /\ [Next]_vars => ReplicaInv'
<1> SUFFICES ASSUME ReplicaInv, [Next]_vars PROVE ReplicaInv'
  OBVIOUS
<1>1. CASE Next
  <2>1. PICK d \in Devices, o \in Op : Stores(d, o)
    BY <1>1, NextStores
  <2>2. QED
    BY <2>1, StoreReplicaInv
<1>2. CASE UNCHANGED vars
  BY <1>2 DEF vars, ReplicaInv, TypeOK, StoredIsBorn, CountersAreUnique, FrontierIsExact, OwnAreCounted
<1>3. QED
  BY <1>1, <1>2

\* Spec keeps the inductive invariant.
LEMMA ReplicaInvHolds == Spec => []ReplicaInv
  BY InitReplicaInv, NextReplicaInv, PTL DEF Spec

\* Every variable of ConfigReplica keeps its type, and a record never has two
\* winners (Replica.Apply on the view).
THEOREM ReplicaTypeCorrect == Spec => []TypeOK
<1>1. ReplicaInv => TypeOK
  BY DEF ReplicaInv
<1>2. QED
  BY <1>1, ReplicaInvHolds, PTL

\* Honest devices never fork a counter and never lose an operation of their own
\* (Replica.appendAtCounter and ErrCounterFork), whatever the delivery order.
THEOREM CountersNeverFork == Spec => []CountersAreUnique
<1>1. ReplicaInv => CountersAreUnique
  BY DEF ReplicaInv
<1>2. QED
  BY <1>1, ReplicaInvHolds, PTL

\* The frontier of Replica.Apply is exact under any order and any duplication of
\* deliveries.
THEOREM FrontierStaysExact == Spec => []FrontierIsExact
<1>1. ReplicaInv => FrontierIsExact
  BY DEF ReplicaInv
<1>2. QED
  BY <1>1, ReplicaInvHolds, PTL

-----------------------------------------------------------------------------
(* Convergence of edits.  Without deletions the winner of two operations is    *)
(* the later one, because the clock orders what causality orders.              *)

\* A device's clock is at or past all it has stored, no operation has seen what
\* was not signed before it, and what an operation has seen is earlier.
CausesAreEarlier ==
    /\ \A d \in Devices : \A o \in rep[d].ops : o.hlc <= clock[d]
    /\ \A o \in born : \A a \in Devices : o.ctx[a] <= rep[a].vector[a]
    /\ \A o, p \in born : Saw(o, p) => p.hlc < o.hlc

\* The record shows the latest of the stored operations.
ShowsLatest(r) ==
    \/ r.ops = {} /\ r.view = {}
    \/ \E w \in r.ops : r.view = {w} /\ \A p \in r.ops : p # w => Later(w, p)

ConvergeInv ==
    /\ CausesAreEarlier
    /\ \A d \in Devices : OnlySets(rep[d].ops) => ShowsLatest(rep[d])

\* A device has stored every signed operation its frontier covers, and no
\* frontier is ahead of the actor's own.
LEMMA FrontierHolds ==
  ASSUME ReplicaInv, NEW d \in Devices
  PROVE  /\ \A p \in born : p.ctr <= rep[d].vector[p.actor] => p \in rep[d].ops
         /\ \A a \in Devices : rep[d].vector[a] <= rep[a].vector[a]
<1>1. rep[d].ops \subseteq born /\ born \subseteq Op
      /\ \A e, a \in Devices : rep[e].vector[a] \in Nat
  BY DEF ReplicaInv, StoredIsBorn, TypeOK, Vector
<1>2. ASSUME NEW a \in Devices, NEW k \in 1..rep[d].vector[a]
      PROVE  \E q \in rep[d].ops : q.actor = a /\ q.ctr = k
  BY DEF ReplicaInv, FrontierIsExact, Counters
<1>3. ASSUME NEW p \in born, p.ctr <= rep[d].vector[p.actor]
      PROVE  p \in rep[d].ops
  <2>1. p.actor \in Devices /\ p.ctr \in 1..rep[d].vector[p.actor]
    BY <1>1, <1>3 DEF Op
  <2>2. PICK q \in rep[d].ops : q.actor = p.actor /\ q.ctr = p.ctr
    BY <1>2, <2>1
  <2>3. QED
    BY <1>1, <2>2 DEF ReplicaInv, CountersAreUnique
<1>4. ASSUME NEW a \in Devices
      PROVE  rep[d].vector[a] <= rep[a].vector[a]
  <2>1. CASE rep[d].vector[a] = 0
    BY <1>1, <2>1
  <2>2. CASE rep[d].vector[a] # 0
    <3>1. PICK q \in rep[d].ops : q.actor = a /\ q.ctr = rep[d].vector[a]
      BY <1>1, <1>2, <2>2
    <3>2. QED
      BY <1>1, <3>1 DEF ReplicaInv, OwnAreCounted
  <2>3. QED
    BY <2>1, <2>2
<1>5. QED
  BY <1>3, <1>4

\* Storing an operation keeps time behind causality.
LEMMA StoreCausesAreEarlier ==
  ASSUME ReplicaInv, ReplicaInv', CausesAreEarlier,
         NEW d \in Devices, NEW o \in Op, Stores(d, o)
  PROVE  CausesAreEarlier'
<1>1. /\ \A e \in Devices : e # d => rep'[e] = rep[e]
      /\ rep'[d].ops = IF Known(rep[d], o) THEN rep[d].ops ELSE rep[d].ops \cup {o}
      /\ \A e, a \in Devices : rep'[e].vector[a] >= rep[e].vector[a]
  BY StoreEffect
<1>2. /\ born' = born \cup {o}
      /\ clock' = [clock EXCEPT ![d] = IF Known(rep[d], o) THEN clock[d] ELSE Later2(clock[d], o.hlc)]
      /\ o \in born \/ Fresh(d, o)
  BY DEF Stores
<1>3. /\ born \subseteq Op /\ clock \in [Devices -> 0..MaxTime]
      /\ \A e, a \in Devices : rep[e].vector[a] \in Nat /\ rep'[e].vector[a] \in Nat
      /\ \A e \in Devices : rep[e].ops \subseteq born
      /\ o.hlc \in Nat /\ o.actor \in Devices
  BY DEF ReplicaInv, TypeOK, StoredIsBorn, Vector, Op
<1>4. \A p \in born : p.hlc \in Nat /\ p.ctr \in Nat /\ p.actor \in Devices
                     /\ \A a \in Devices : p.ctx[a] \in Nat
  BY <1>3 DEF Op, Vector
<1>5. \A e \in Devices : \A p \in rep'[e].ops : p.hlc <= clock'[e]
  <2>1. \A e \in Devices : clock[e] \in Nat /\ \A p \in rep[e].ops : p.hlc <= clock[e] /\ p.hlc \in Nat
    BY <1>3, <1>4 DEF CausesAreEarlier
  <2>2. \A p \in rep'[d].ops : p.hlc <= clock'[d]
    BY <1>1, <1>2, <1>3, <2>1 DEF Later2
  <2>3. \A e \in Devices : e # d => clock'[e] = clock[e] /\ rep'[e] = rep[e]
    BY <1>1, <1>2, <1>3
  <2>4. QED
    BY <2>1, <2>2, <2>3
<1>6. \A p \in born' : \A a \in Devices : p.ctx[a] <= rep'[a].vector[a]
  <2>1. ASSUME NEW p \in born, NEW a \in Devices PROVE p.ctx[a] <= rep'[a].vector[a]
    BY <1>1, <1>3, <1>4 DEF CausesAreEarlier
  <2>2. ASSUME Fresh(d, o), NEW a \in Devices PROVE o.ctx[a] <= rep'[a].vector[a]
    <3>1. o.ctx[a] = rep[d].vector[a] /\ rep[d].vector[a] <= rep[a].vector[a]
      BY <2>2, FrontierHolds DEF Fresh
    <3>2. QED
      BY <1>1, <1>3, <3>1
  <2>3. QED
    BY <1>2, <2>1, <2>2
<1>7. CASE o \in born
  BY <1>2, <1>5, <1>6, <1>7 DEF CausesAreEarlier
<1>8. CASE Fresh(d, o)
  <2>1. o.actor = d /\ o.ctr = rep[d].vector[d] + 1 /\ o.ctx = rep[d].vector /\ o.hlc > clock[d]
    BY <1>8 DEF Fresh
  <2>2. ASSUME NEW p \in born, Saw(o, p) PROVE p.hlc < o.hlc
    <3>1. p \in rep[d].ops
      BY <1>3, <1>4, <2>1, <2>2, FrontierHolds DEF Saw
    <3>2. QED
      BY <1>3, <1>4, <2>1, <3>1 DEF CausesAreEarlier
  <2>3. ASSUME NEW p \in born PROVE ~Saw(p, o)
    BY <1>3, <1>4, <2>1 DEF Saw, CausesAreEarlier
  <2>4. ~Saw(o, o)
    BY <1>3, <2>1 DEF Saw
  <2>5. \A p, q \in born' : Saw(p, q) => q.hlc < p.hlc
    BY <1>2, <2>2, <2>3, <2>4 DEF CausesAreEarlier
  <2>6. QED
    BY <1>5, <1>6, <2>5 DEF CausesAreEarlier
<1>9. QED
  BY <1>2, <1>7, <1>8

\* Storing an edit keeps the latest one on show.
LEMMA StoreShowsLatest ==
  ASSUME ReplicaInv, ReplicaInv', CausesAreEarlier',
         NEW d \in Devices, NEW o \in Op, Stores(d, o),
         OnlySets(rep'[d].ops), ShowsLatest(rep[d])
  PROVE  ShowsLatest(rep'[d])
<1>1. rep'[d] = Apply(rep[d], o)
      /\ rep'[d].ops = IF Known(rep[d], o) THEN rep[d].ops ELSE rep[d].ops \cup {o}
  BY StoreEffect
<1>2. CASE Known(rep[d], o)
  BY <1>1, <1>2 DEF Apply
<1>3. CASE ~Known(rep[d], o)
  <2>1. rep'[d].ops = rep[d].ops \cup {o}
        /\ rep'[d].view = IF \A p \in rep[d].view : OperationWins(o, p) THEN {o} ELSE rep[d].view
    BY <1>1, <1>3 DEF Apply
  <2>2. /\ o \notin rep[d].ops
        /\ \A p \in rep'[d].ops : p \in born' /\ p.hlc \in Nat /\ p.actor \in Nat
    <3>1. rep'[d].ops \subseteq born' /\ born' \subseteq Op
      BY DEF ReplicaInv, StoredIsBorn, TypeOK
    <3>2. QED
      BY <1>3, <3>1, ConfigAssumption DEF Known, Op, Devices
  <2>3. ASSUME NEW p \in rep'[d].ops, NEW q \in rep'[d].ops, p # q
        PROVE  (OperationWins(p, q) <=> Later(p, q)) /\ (Later(p, q) <=> ~Later(q, p))
    <3>1. p \in born' /\ q \in born' /\ p \in Op /\ q \in Op
      BY <2>2, <2>3 DEF ReplicaInv, TypeOK
    <3>2. /\ p.kind = q.kind
          /\ p.actor = q.actor => p.ctr # q.ctr
          /\ p.ctx[p.actor] = p.ctr - 1 /\ q.ctx[q.actor] = q.ctr - 1
      BY <2>3, <3>1 DEF ReplicaInv, CountersAreUnique, OwnAreCounted, OnlySets
    <3>3. (Saw(p, q) => q.hlc < p.hlc) /\ (Saw(q, p) => p.hlc < q.hlc)
      BY <3>1 DEF CausesAreEarlier
    <3>4. QED
      BY <3>1, <3>2, <3>3, LaterWins
  <2>4. CASE rep[d].ops = {} /\ rep[d].view = {}
    BY <2>1, <2>4 DEF ShowsLatest
  <2>5. CASE \E w \in rep[d].ops : rep[d].view = {w} /\ \A p \in rep[d].ops : p # w => Later(w, p)
    <3>1. PICK w \in rep[d].ops : rep[d].view = {w} /\ \A p \in rep[d].ops : p # w => Later(w, p)
      BY <2>5
    <3>2. w \in rep'[d].ops /\ o \in rep'[d].ops /\ w # o
      BY <2>1, <2>2, <3>1
    <3>3. (OperationWins(o, w) <=> Later(o, w)) /\ (Later(o, w) <=> ~Later(w, o))
      BY <2>3, <3>2
    <3>4. (\A p \in rep[d].view : OperationWins(o, p)) <=> OperationWins(o, w)
      BY <3>1
    <3>5. CASE Later(o, w)
      <4>1. rep'[d].view = {o}
        BY <2>1, <3>3, <3>4, <3>5
      <4>2. ASSUME NEW p \in rep'[d].ops, p # o PROVE Later(o, p)
        BY <2>1, <2>2, <3>1, <3>2, <3>5, <4>2 DEF Later
      <4>3. QED
        BY <3>2, <4>1, <4>2 DEF ShowsLatest
    <3>6. CASE ~Later(o, w)
      <4>1. rep'[d].view = {w} /\ Later(w, o)
        BY <2>1, <3>1, <3>3, <3>4, <3>6
      <4>2. QED
        BY <2>1, <3>1, <3>2, <4>1 DEF ShowsLatest
    <3>7. QED
      BY <3>5, <3>6
  <2>6. QED
    BY <2>4, <2>5 DEF ShowsLatest
<1>4. QED
  BY <1>2, <1>3

\* The convergence invariant is inductive.
LEMMA NextConvergeInv ==
  ReplicaInv /\ ReplicaInv' /\ ConvergeInv /\ [Next]_vars => ConvergeInv'
<1> SUFFICES ASSUME ReplicaInv, ReplicaInv', ConvergeInv, [Next]_vars PROVE ConvergeInv'
  OBVIOUS
<1>1. CASE Next
  <2>1. PICK d \in Devices, o \in Op : Stores(d, o)
    BY <1>1, NextStores
  <2>2. CausesAreEarlier'
    BY <2>1, StoreCausesAreEarlier DEF ConvergeInv
  <2>3. OnlySets(rep'[d].ops) => ShowsLatest(rep'[d])
    <3>1. SUFFICES ASSUME OnlySets(rep'[d].ops) PROVE ShowsLatest(rep'[d])
      OBVIOUS
    <3>2. OnlySets(rep[d].ops)
      BY <2>1, <3>1, StoreEffect DEF OnlySets
    <3>3. QED
      BY <2>1, <2>2, <3>1, <3>2, StoreShowsLatest DEF ConvergeInv
  <2>4. \A e \in Devices : e # d => rep'[e] = rep[e]
    BY <2>1, StoreEffect
  <2>5. \A e \in Devices : OnlySets(rep'[e].ops) => ShowsLatest(rep'[e])
    <3>1. TAKE e \in Devices
    <3>2. CASE e = d
      BY <2>3, <3>2, ZenonT(30)
    <3>3. CASE e # d
      BY <2>4, <3>3 DEF ConvergeInv
    <3>4. QED
      BY <3>2, <3>3
  <2>6. QED
    BY <2>2, <2>5 DEF ConvergeInv
<1>2. CASE UNCHANGED vars
  <2>1. rep' = rep /\ clock' = clock /\ born' = born
    BY <1>2 DEF vars
  <2>2. QED
    BY <2>1 DEF ConvergeInv, CausesAreEarlier
<1>3. QED
  BY <1>1, <1>2

\* Replicas that hold the same operations show the same record as long as no
\* delete is among them: what TestReplicaConvergesUnderShuffledDuplicateDelivery
\* samples, for every order and every number of deliveries.
THEOREM EditsConverge == Spec => []EditsConverged
<1>1. Init => ConvergeInv
  <2> SUFFICES ASSUME Init PROVE ConvergeInv
    OBVIOUS
  <2>1. \A d \in Devices : rep[d] = EmptyReplica
    BY DEF Init
  <2>2. QED
    BY <2>1 DEF Init, ConvergeInv, CausesAreEarlier, ShowsLatest, EmptyReplica
<1>2. ReplicaInv /\ ReplicaInv' /\ ConvergeInv /\ [Next]_vars => ConvergeInv'
  BY NextConvergeInv
<1>3. ReplicaInv /\ ConvergeInv => EditsConverged
  <2> SUFFICES ASSUME ReplicaInv, ConvergeInv, NEW d \in Devices, NEW e \in Devices,
                      rep[d].ops = rep[e].ops, OnlySets(rep[d].ops)
               PROVE  rep[d].view = rep[e].view
    BY DEF EditsConverged
  <2>1. \A p \in rep[d].ops : p.hlc \in Nat /\ p.actor \in Nat
    BY ConfigAssumption DEF ReplicaInv, TypeOK, StoredIsBorn, Op, Devices
  <2>2. ShowsLatest(rep[d]) /\ ShowsLatest(rep[e])
    BY DEF ConvergeInv
  <2>3. CASE rep[d].ops = {}
    BY <2>2, <2>3 DEF ShowsLatest
  <2>4. CASE rep[d].ops # {}
    <3>1. PICK w \in rep[d].ops : rep[d].view = {w} /\ \A p \in rep[d].ops : p # w => Later(w, p)
      BY <2>2, <2>4 DEF ShowsLatest
    <3>2. PICK v \in rep[d].ops : rep[e].view = {v} /\ \A p \in rep[d].ops : p # v => Later(v, p)
      BY <2>2, <2>4 DEF ShowsLatest
    <3>3. w # v => Later(w, v) /\ Later(v, w)
      BY <3>1, <3>2
    <3>4. ~(Later(w, v) /\ Later(v, w))
      BY <2>1 DEF Later
    <3>5. QED
      BY <3>1, <3>2, <3>3, <3>4
  <2>5. QED
    BY <2>3, <2>4
<1>4. QED
  BY <1>1, <1>2, <1>3, ReplicaInvHolds, PTL DEF Spec
=============================================================================
