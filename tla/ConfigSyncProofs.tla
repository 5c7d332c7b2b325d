-------------------------- MODULE ConfigSyncProofs --------------------------
(***************************************************************************)
(* Theorems about ConfigSync, for any number of devices, operations, clock  *)
(* values, failures and any compaction threshold.                           *)
(***************************************************************************)
EXTENDS ConfigSync, FiniteSetTheorems, WellFoundedInduction, TLAPS

-----------------------------------------------------------------------------
(* Operations *)

\* A nonempty set of natural numbers has a least element.
LEMMA LeastElement ==
  ASSUME NEW T, T \subseteq Nat, T # {}
  PROVE  \E x \in T : \A y \in T : x <= y
<1> DEFINE R == OpToRel(<, Nat)
<1>1. IsWellFoundedOn(R, Nat)
  BY NatLessThanWellFounded, Zenon
<1>2. \E x \in T : \A y \in T : ~ (<<y, x>> \in R)
  <2> HIDE DEF R
  <2>1. QED
    BY <1>1, WFMin
<1>3. \A x, y \in Nat : <<y, x>> \notin R => x <= y
  BY DEF OpToRel
<1>4. QED
  BY <1>2, <1>3

\* The loop that advances the frontier ends, just before the first gap.
LEMMA FrontierFound ==
  ASSUME NEW have \in SUBSET (1..MaxOps), NEW from \in 0..MaxOps
  PROVE  /\ Frontier(have, from) \in from..MaxOps
         /\ Frontier(have, from) + 1 \notin have
         /\ \A k \in from + 1..Frontier(have, from) : k \in have
<1> DEFINE T == {n \in from..MaxOps : n + 1 \notin have}
<1>1. T \subseteq Nat /\ MaxOps \in T
  BY ConfigAssumption
<1>2. PICK x \in T : \A y \in T : x <= y
  <2> HIDE DEF T
  <2>1. QED
    BY <1>1, LeastElement
<1>3. \A k \in from + 1..x : k \in have
  BY <1>1, <1>2, ConfigAssumption
<1>4. QED
  BY <1>1, <1>2, <1>3, ConfigAssumption DEF Frontier

\* Counters of a set of operations, and what one more adds to them.
LEMMA CountersGrow ==
  ASSUME NEW ops \in SUBSET Op, NEW o \in Op, NEW a \in Devices
  PROVE  /\ Counters(ops, a) \subseteq 1..MaxOps
         /\ o.actor = a => Counters(ops \cup {o}, a) = Counters(ops, a) \cup {o.ctr}
         /\ o.actor # a => Counters(ops \cup {o}, a) = Counters(ops, a)
  BY DEF Counters, Op

\* Of two edits, one is later, and it is the one that operationWins prefers.
LEMMA LaterWins ==
  ASSUME NEW o \in Op, NEW p \in Op, o.kind = p.kind,
         o.actor = p.actor => o.ctr # p.ctr,
         o.ctx[o.actor] = o.ctr - 1, p.ctx[p.actor] = p.ctr - 1,
         Saw(o, p) => p.hlc < o.hlc,
         Saw(p, o) => o.hlc < p.hlc
  PROVE  /\ OperationWins(o, p) <=> Later(o, p)
         /\ Later(o, p) <=> ~Later(p, o)
<1>1. /\ o.hlc \in Nat /\ p.hlc \in Nat /\ o.actor \in Nat /\ p.actor \in Nat
      /\ o.ctr \in Nat /\ p.ctr \in Nat
  BY ConfigAssumption DEF Op, Devices
<1>2. o.actor = p.actor => o.hlc # p.hlc
  <2>1. SUFFICES ASSUME o.actor = p.actor PROVE o.hlc # p.hlc
    OBVIOUS
  <2>2. Saw(o, p) \/ Saw(p, o)
    BY <1>1, <2>1 DEF Saw
  <2>3. QED
    BY <1>1, <2>2
<1>3. QED
  BY <1>1, <1>2 DEF OperationWins, Later

-----------------------------------------------------------------------------
(* The inductive invariant.  B is the set of signed operations and T the      *)
(* vector of what every device has signed itself.                             *)

Top == [a \in Devices |-> disk[a].rep.vector[a]]

\* The operations below a frontier.
Upto(B, v) == {o \in B : o.ctr <= v[o.actor]}

OnlySets(ops) == \A o \in ops : o.kind = "set"

\* The record shows the latest of the operations.
ShowsLatest(view, ops) ==
    \/ ops = {} /\ view = {}
    \/ \E w \in ops : view = {w} /\ \A p \in ops : p # w => Later(w, p)

\* What a frontier v, in a replica with its clock or in a signed snapshot with its
\* timestamp, has to do with what is shown there.
ViewOK(v, view, h, B, T) ==
    /\ Covers(T, v)
    /\ view \subseteq Upto(B, v)
    /\ \A o, p \in view : o = p
    /\ \A o \in Upto(B, v) : o.hlc <= h
    /\ OnlySets(Upto(B, v)) => ShowsLatest(view, Upto(B, v))

\* Counters are not used twice, a context covers what was signed before only, and
\* what an operation has seen is earlier.
BornOK(B, T) ==
    /\ B \subseteq Op
    /\ T \in Vector
    /\ \A o, p \in B : o.actor = p.actor /\ o.ctr = p.ctr => o = p
    /\ \A o \in B : o.ctr <= T[o.actor] /\ o.ctx[o.actor] = o.ctr - 1
    /\ \A o \in B : Covers(T, o.ctx)
    /\ \A o, p \in B : Saw(o, p) => p.hlc < o.hlc

\* The replicas buildReplica goes through while it reads the tail.
Replaying(f, after) ==
    after = [k \in 0..Len(f.tail) |->
                IF k = 0 THEN Install(f.snap) ELSE Apply(after[k - 1], f.tail[k])]

\* The stored operations are the tail's, they lead without a gap from the
\* snapshot to the frontier, and reading the file gives the replica.
HasTail(f) ==
    /\ \A o \in f.rep.ops : \E i \in DOMAIN f.tail : f.tail[i] = o
    /\ \A i \in DOMAIN f.tail : f.tail[i] \in f.rep.ops
    /\ \A i, j \in DOMAIN f.tail : f.tail[i] = f.tail[j] => i = j
HasHistory(r) ==
    \A a \in Devices : /\ r.cover[a] <= r.vector[a]
                       /\ Counters(r.ops, a) = r.cover[a] + 1 .. r.vector[a]
CanReplay(f) == \E after : Replaying(f, after) /\ after[Len(f.tail)] = f.rep
FileOK(f) == f.rep.cover = f.snap.cover /\ HasTail(f) /\ HasHistory(f.rep) /\ CanReplay(f)

SnapOK(s, B, T) == ViewOK(s.cover, s.view, s.hlc, B, T)

\* A device's file, with its clock c.
DiskOK(f, c, B, T) ==
    /\ f \in File(B)
    /\ FileOK(f)
    /\ ViewOK(f.rep.vector, f.rep.view, c, B, T)
    /\ SnapOK(f.snap, B, T)

\* Stored one after the other on top of v, the operations leave no gap.
Leads(ops, v) ==
    \A k \in DOMAIN ops :
        \/ ops[k].ctr <= v[ops[k].actor] + 1
        \/ \E j \in 1..(k - 1) : ops[j].actor = ops[k].actor /\ ops[j].ctr = ops[k].ctr - 1

Transfers(B) == [phase : {"idle", "inventory", "sending", "acked"}, vec : Vector,
                 snap : Snapshot(B), ops : Seq(B)]

\* A transfer to a device with frontier v.
Base(w, v) == IF w.snap # NoSnap THEN w.snap.cover ELSE v
FlowOK(w, v, B, T) ==
    /\ w \in Transfers(B)
    /\ w.phase \in {"inventory", "acked"} => Covers(v, w.vec)
    /\ w.phase = "sending" => Leads(w.ops, Base(w, v))
    /\ SnapOK(w.snap, B, T)

Rest ==
    /\ clock \in [Devices -> 0..MaxTime]
    /\ acked \in [Devices -> [Devices -> Vector]]
    /\ breaks \in 0..MaxBreaks
    /\ IsFiniteSet(born)

SyncInv ==
    /\ Rest
    /\ BornOK(born, Top)
    /\ disk \in [Devices -> File(born)]
    /\ \A d \in Devices : DiskOK(disk[d], clock[d], born, Top)
    /\ flow \in [Pairs -> Transfers(born)]
    /\ \A p \in Pairs : FlowOK(flow[p], disk[p[2]].rep.vector, born, Top)
    /\ AcksAreDurable

-----------------------------------------------------------------------------
(* Replicas, snapshots and files by themselves *)

\* From (B, T) to (B2, T2) devices have signed nothing but new operations.
Grows(B, T, B2, T2) ==
    /\ B \subseteq B2 /\ B2 \subseteq Op
    /\ T \in Vector /\ T2 \in Vector /\ Covers(T2, T)
    /\ \A o \in B2 : o \in B \/ o.ctr > T[o.actor]

\* What a frontier covers does not change when devices sign new operations.
LEMMA ViewGrows ==
  ASSUME NEW B, NEW T, NEW B2, NEW T2, Grows(B, T, B2, T2),
         NEW v \in Vector, NEW view, NEW h, ViewOK(v, view, h, B, T)
  PROVE  ViewOK(v, view, h, B2, T2)
<1>1. \A a \in Devices : v[a] \in Nat /\ T[a] \in Nat /\ T2[a] \in Nat /\ v[a] <= T[a] /\ T[a] <= T2[a]
  BY ConfigAssumption DEF Grows, ViewOK, Covers, Vector
<1>2. \A o \in B2 : o.ctr \in Nat /\ o.actor \in Devices
  BY DEF Grows, Op
<1>3. Upto(B2, v) = Upto(B, v)
  BY <1>1, <1>2 DEF Upto, Grows
<1>4. Covers(T2, v)
  BY <1>1 DEF Covers
<1>5. QED
  BY <1>3, <1>4, Zenon DEF ViewOK

\* Time that passes leaves a view as it is.
LEMMA ViewAges ==
  ASSUME NEW B, NEW T, BornOK(B, T), NEW v, NEW view, NEW h \in Nat, NEW h2 \in Nat, h <= h2,
         ViewOK(v, view, h, B, T)
  PROVE  ViewOK(v, view, h2, B, T)
<1>1. \A o \in Upto(B, v) : o.hlc \in Nat
  BY DEF BornOK, Upto, Op
<1>2. \A o \in Upto(B, v) : o.hlc <= h2
  BY <1>1 DEF ViewOK
<1>3. QED
  BY <1>2, Zenon DEF ViewOK

\* The types grow with the set of operations.
LEMMA TypesGrow ==
  ASSUME NEW B, NEW B2, B \subseteq B2
  PROVE  File(B) \subseteq File(B2) /\ Transfers(B) \subseteq Transfers(B2)
<1>1. Seq(B) \subseteq Seq(B2)
  OBVIOUS
<1>2. Snapshot(B) \subseteq Snapshot(B2)
  BY DEF Snapshot
<1>3. [ops : SUBSET B, cover : Vector, vector : Vector, view : SUBSET B]
        \subseteq [ops : SUBSET B2, cover : Vector, vector : Vector, view : SUBSET B2]
  OBVIOUS
<1>4. QED
  BY <1>1, <1>2, <1>3, Zenon DEF File, Transfers

\* What leads on from a frontier leads on from a larger one.
LEMMA LeadsFarther ==
  ASSUME NEW ops \in Seq(Op), NEW v \in Vector, NEW v2 \in Vector, Covers(v2, v), Leads(ops, v)
  PROVE  Leads(ops, v2)
<1>1. \A a \in Devices : v[a] \in Nat /\ v2[a] \in Nat /\ v[a] <= v2[a]
  BY ConfigAssumption DEF Covers, Vector
<1>2. \A k \in DOMAIN ops : ops[k] \in Op
  OBVIOUS
<1>3. \A k \in DOMAIN ops : ops[k].actor \in Devices /\ ops[k].ctr \in Nat
  BY <1>2 DEF Op
<1>4. ASSUME NEW k \in DOMAIN ops, ops[k].ctr <= v[ops[k].actor] + 1
      PROVE  ops[k].ctr <= v2[ops[k].actor] + 1
  BY <1>1, <1>3, <1>4
<1>5. QED
  BY <1>4, Zenon DEF Leads

\* Files and transfers stay good when devices sign new operations and the
\* receiver's frontier grows.
LEMMA DiskGrows ==
  ASSUME NEW B, NEW T, NEW B2, NEW T2, Grows(B, T, B2, T2),
         NEW f, NEW c, DiskOK(f, c, B, T)
  PROVE  DiskOK(f, c, B2, T2)
<1>1. f \in File(B2)
  BY TypesGrow DEF DiskOK, Grows
<1>2. f.rep.vector \in Vector /\ f.snap.cover \in Vector
  BY DEF DiskOK, File, Snapshot
<1>3. ViewOK(f.rep.vector, f.rep.view, c, B2, T2)
  BY <1>2, ViewGrows DEF DiskOK
<1>4. SnapOK(f.snap, B2, T2)
  BY <1>2, ViewGrows DEF DiskOK, SnapOK
<1>5. QED
  BY <1>1, <1>3, <1>4 DEF DiskOK

\* A transfer stays in order when more operations are born and the receiver's
\* frontier grows.
LEMMA FlowGrows ==
  ASSUME NEW B, NEW T, NEW B2, NEW T2, Grows(B, T, B2, T2),
         NEW v \in Vector, NEW v2 \in Vector, Covers(v2, v),
         NEW w, FlowOK(w, v, B, T)
  PROVE  FlowOK(w, v2, B2, T2)
<1>1. w \in Transfers(B2)
  BY TypesGrow DEF FlowOK, Grows
<1>2. w.vec \in Vector /\ w.snap.cover \in Vector /\ w.ops \in Seq(B) /\ B \subseteq Op
  BY DEF FlowOK, Transfers, Snapshot, Grows
<1>3. \A a \in Devices : v[a] \in Nat /\ v2[a] \in Nat /\ w.vec[a] \in Nat /\ v[a] <= v2[a]
  BY <1>2, ConfigAssumption DEF Covers, Vector
<1>4. w.phase \in {"inventory", "acked"} => Covers(v2, w.vec)
  BY <1>3 DEF FlowOK, Covers
<1>5. w.phase = "sending" => Leads(w.ops, Base(w, v2))
  <2>1. CASE w.snap # NoSnap
    BY <2>1 DEF FlowOK, Base
  <2>2. CASE w.snap = NoSnap
    <3>1. w.ops \in Seq(Op)
      BY <1>2
    <3>2. Leads(w.ops, v) => Leads(w.ops, v2)
      BY <3>1, LeadsFarther
    <3>3. QED
      BY <2>2, <3>2 DEF FlowOK, Base
  <2>3. QED
    BY <2>1, <2>2
<1>6. SnapOK(w.snap, B2, T2)
  BY <1>2, ViewGrows DEF FlowOK, SnapOK
<1>7. QED
  BY <1>1, <1>4, <1>5, <1>6, Zenon DEF FlowOK

\* The file that holds a good snapshot and no tail.
LEMMA FromSnapOK ==
  ASSUME NEW B, NEW T, BornOK(B, T), NEW s \in Snapshot(B), SnapOK(s, B, T),
         NEW c \in Nat, s.hlc <= c
  PROVE  DiskOK(FromSnap(s), c, B, T) /\ FromSnap(s).rep.vector = s.cover
<1> DEFINE r == [ops |-> {}, cover |-> s.cover, vector |-> s.cover, view |-> s.view]
           g == [rep |-> r, tail |-> <<>>, snap |-> s]
<1>1. FromSnap(s) = g
  BY DEF FromSnap, Install
<1>2. s.cover \in Vector /\ s.view \subseteq B /\ s.hlc \in Nat
  BY DEF Snapshot
<1>3. \A a \in Devices : s.cover[a] \in Nat
  BY <1>2, ConfigAssumption DEF Vector
<1>4. g \in File(B)
  <2>1. r \in [ops : SUBSET B, cover : Vector, vector : Vector, view : SUBSET B]
    BY <1>2
  <2>2. <<>> \in Seq(B)
    OBVIOUS
  <2> HIDE DEF r
  <2>3. QED
    BY <2>1, <2>2, Zenon DEF File
<1>5. HasTail(g) /\ HasHistory(r)
  BY <1>3 DEF HasTail, HasHistory, Counters
<1>6. CanReplay(g)
  <2> DEFINE after == [k \in 0..0 |-> r]
  <2>1. Install(s) = r /\ Len(g.tail) = 0
    BY DEF Install
  <2> HIDE DEF r
  <2>2. Replaying(g, after)
    BY <2>1 DEF Replaying
  <2>3. after[Len(g.tail)] = g.rep
    BY <2>1
  <2>4. QED
    BY <2>2, <2>3, Zenon DEF CanReplay
<1>7. FileOK(g)
  BY <1>5, <1>6 DEF FileOK
<1>8. ViewOK(s.cover, s.view, c, B, T)
  BY <1>2, ViewAges DEF SnapOK
<1>9. g.rep.vector = s.cover /\ g.rep.view = s.view /\ g.snap = s
  OBVIOUS
<1>10. DiskOK(g, c, B, T)
  <2> HIDE DEF g
  <2>1. QED
    BY <1>4, <1>7, <1>8, <1>9 DEF DiskOK
<1>11. QED
  BY <1>1, <1>9, <1>10, Zenon

\* The file that compaction or pruning writes: the snapshot of what was shown,
\* tombstones apart, at the same frontier.
LEMMA CompactKeeps ==
  ASSUME NEW B, NEW T, BornOK(B, T), NEW c \in 0..MaxTime, NEW f, DiskOK(f, c, B, T),
         NEW d \in Devices, NEW stable
  PROVE  /\ DiskOK(FromSnap(Signed(d, f, stable, c)), c, B, T)
         /\ FromSnap(Signed(d, f, stable, c)).rep.vector = f.rep.vector
<1> DEFINE kept == f.rep.view \ Prunable(f, stable)
           s    == Signed(d, f, stable, c)
<1>1. /\ f.rep.vector \in Vector /\ f.rep.view \subseteq B
      /\ ViewOK(f.rep.vector, f.rep.view, c, B, T)
  BY DEF DiskOK, File
<1>2. s \in Snapshot(B)
  BY <1>1, ConfigAssumption DEF Signed, Snapshot, Devices
<1>3. s.cover = f.rep.vector /\ s.view = kept /\ s.hlc = c
  BY DEF Signed
<1>4. ViewOK(f.rep.vector, kept, c, B, T)
  <2>1. OnlySets(Upto(B, f.rep.vector)) => kept = f.rep.view
    BY <1>1 DEF OnlySets, Prunable, ViewOK
  <2>2. kept \subseteq Upto(B, f.rep.vector) /\ \A o, p \in kept : o = p
    BY <1>1 DEF ViewOK
  <2> HIDE DEF kept
  <2>3. QED
    BY <1>1, <2>1, <2>2, Zenon DEF ViewOK
<1>5. SnapOK(s, B, T)
  <2> HIDE DEF kept, s
  <2>1. QED
    BY <1>3, <1>4 DEF SnapOK
<1>6. c \in Nat /\ s.hlc <= c
  BY <1>3
<1> HIDE DEF s
<1>7. DiskOK(FromSnap(s), c, B, T) /\ FromSnap(s).rep.vector = s.cover
  BY <1>2, <1>5, <1>6, FromSnapOK
<1>8. QED
  BY <1>3, <1>7, Zenon DEF s

\* compactIfNeeded and pruneStableTombstones keep a file good and its frontier.
LEMMA BoundsKeep ==
  ASSUME NEW B, NEW T, BornOK(B, T), NEW c \in 0..MaxTime, NEW f, DiskOK(f, c, B, T),
         NEW d \in Devices, NEW acks
  PROVE  /\ DiskOK(CompactIfNeeded(d, f, acks, c), c, B, T)
         /\ CompactIfNeeded(d, f, acks, c).rep.vector = f.rep.vector
         /\ DiskOK(Prune(d, f, acks, c), c, B, T)
         /\ Prune(d, f, acks, c).rep.vector = f.rep.vector
<1>1. /\ DiskOK(FromSnap(Signed(d, f, Stable(d, f, acks), c)), c, B, T)
      /\ FromSnap(Signed(d, f, Stable(d, f, acks), c)).rep.vector = f.rep.vector
  BY CompactKeeps
<1>2. CompactIfNeeded(d, f, acks, c) \in {f, FromSnap(Signed(d, f, Stable(d, f, acks), c))}
  BY Zenon DEF CompactIfNeeded
<1>3. Prune(d, f, acks, c) \in {f, FromSnap(Signed(d, f, Stable(d, f, acks), c))}
  BY Zenon DEF Prune
<1>4. QED
  BY <1>1, <1>2, <1>3

\* With a complete history, an operation is known when the frontier covers it.
LEMMA KnownIsCovered ==
  ASSUME NEW B, B \subseteq Op, NEW f \in File(B), FileOK(f), NEW o \in Op
  PROVE  Known(f.rep, o) <=> o.ctr <= f.rep.vector[o.actor]
<1>1. /\ o.actor \in Devices /\ o.ctr \in Nat
      /\ f.rep.ops \subseteq Op /\ f.rep.cover[o.actor] \in Nat /\ f.rep.vector[o.actor] \in Nat
  BY DEF File, Op, Vector
<1>2. /\ f.rep.cover[o.actor] <= f.rep.vector[o.actor]
      /\ Counters(f.rep.ops, o.actor) = f.rep.cover[o.actor] + 1 .. f.rep.vector[o.actor]
  BY <1>1 DEF FileOK, HasHistory
<1>3. o.ctr \in Counters(f.rep.ops, o.actor) <=> \E p \in f.rep.ops : p.actor = o.actor /\ p.ctr = o.ctr
  BY DEF Counters
<1>4. QED
  BY <1>1, <1>2, <1>3 DEF Known

\* The next operation of an actor moves the frontier by one.
Moved(v, o) == [v EXCEPT ![o.actor] = o.ctr]
Winner(view, o) == IF \A p \in view : OperationWins(o, p) THEN {o} ELSE view

\* Apply of the next operation of an actor.
LEMMA ApplyNext ==
  ASSUME NEW B, B \subseteq Op, NEW f \in File(B), FileOK(f), NEW o \in B,
         o.ctr = f.rep.vector[o.actor] + 1
  PROVE  /\ ~Known(f.rep, o)
         /\ Apply(f.rep, o) = [ops |-> f.rep.ops \cup {o}, cover |-> f.rep.cover,
                               vector |-> Moved(f.rep.vector, o), view |-> Winner(f.rep.view, o)]
         /\ Moved(f.rep.vector, o) \in Vector
         /\ HasHistory(Apply(f.rep, o))
<1> DEFINE a == o.actor
           v == f.rep.vector
           have == Counters(f.rep.ops \cup {o}, a)
<1>1. /\ o \in Op /\ a \in Devices /\ o.ctr \in 1..MaxOps /\ f.rep.ops \in SUBSET Op
      /\ v \in Vector /\ f.rep.cover \in Vector
      /\ \A b \in Devices : f.rep.cover[b] \in Nat /\ v[b] \in 0..MaxOps /\ v[b] \in Nat
  <2>1. o \in Op /\ v \in Vector /\ f.rep.cover \in Vector /\ f.rep.ops \in SUBSET Op
    BY DEF File
  <2>2. a \in Devices /\ o.ctr \in 1..MaxOps
    BY <2>1 DEF Op
  <2> HIDE DEF v
  <2>3. \A b \in Devices : f.rep.cover[b] \in Nat /\ v[b] \in 0..MaxOps /\ v[b] \in Nat
    BY <2>1, ConfigAssumption DEF Vector
  <2>4. QED
    BY <2>1, <2>2, <2>3
<1>2. ~Known(f.rep, o)
  BY <1>1, KnownIsCovered
<1>3. \A b \in Devices : f.rep.cover[b] <= v[b] /\ Counters(f.rep.ops, b) = f.rep.cover[b] + 1 .. v[b]
  BY DEF FileOK, HasHistory
<1>4. have = Counters(f.rep.ops, a) \cup {o.ctr} /\ Counters(f.rep.ops, a) \subseteq 1..MaxOps
  BY <1>1, CountersGrow
<1>5. have = f.rep.cover[a] + 1 .. o.ctr
  <2>1. have = (f.rep.cover[a] + 1 .. v[a]) \cup {v[a] + 1}
    BY <1>1, <1>3, <1>4
  <2>2. (f.rep.cover[a] + 1 .. v[a]) \cup {v[a] + 1} = f.rep.cover[a] + 1 .. v[a] + 1
    BY <1>1, <1>3
  <2>3. QED
    BY <2>1, <2>2
<1>6. Frontier(have, v[a]) = o.ctr
  <2>1. have \in SUBSET (1..MaxOps)
    BY <1>1, <1>4
  <2>2. /\ Frontier(have, v[a]) \in v[a]..MaxOps
        /\ Frontier(have, v[a]) + 1 \notin have
        /\ \A k \in v[a] + 1..Frontier(have, v[a]) : k \in have
    <3> HIDE DEF have, v
    <3>1. QED
      BY <1>1, <2>1, FrontierFound
  <2>3. \A n \in v[a]..MaxOps : n + 1 \notin have /\ (\A k \in v[a] + 1..n : k \in have) => n = o.ctr
    <3>1. f.rep.cover[a] \in Nat /\ v[a] \in Nat /\ o.ctr = v[a] + 1 /\ f.rep.cover[a] <= v[a]
      BY <1>1, <1>3
    <3>2. TAKE n \in v[a]..MaxOps
    <3>3. HAVE n + 1 \notin have /\ (\A k \in v[a] + 1..n : k \in have)
    <3>4. n # v[a]
      BY <1>5, <3>1, <3>3
    <3>5. n \in v[a] + 1..n
      BY <3>1, <3>4, ConfigAssumption
    <3>6. n \in have
      BY <3>3, <3>5
    <3>7. n \in f.rep.cover[a] + 1 .. o.ctr
      BY <1>5, <3>6
    <3>8. QED
      BY <3>1, <3>4, <3>7, ConfigAssumption
  <2>4. QED
    <3> HIDE DEF have, v
    <3>1. QED
      BY <2>2, <2>3
<1>7. Apply(f.rep, o) = [ops |-> f.rep.ops \cup {o}, cover |-> f.rep.cover,
                         vector |-> Moved(v, o), view |-> Winner(f.rep.view, o)]
  BY <1>2, <1>6 DEF Apply, Moved, Winner
<1>8. Moved(v, o) \in Vector
  BY <1>1, ConfigAssumption DEF Moved, Vector
<1>9. ASSUME NEW b \in Devices
      PROVE  /\ f.rep.cover[b] <= Moved(v, o)[b]
             /\ Counters(f.rep.ops \cup {o}, b) = f.rep.cover[b] + 1 .. Moved(v, o)[b]
  <2>1. CASE b = a
    BY <1>1, <1>3, <1>5, <2>1 DEF Moved, Vector
  <2>2. CASE b # a
    <3>1. Moved(v, o)[b] = v[b] /\ Counters(f.rep.ops \cup {o}, b) = Counters(f.rep.ops, b)
      BY <1>1, <2>2, CountersGrow DEF Moved, Vector
    <3>2. QED
      BY <1>3, <3>1
  <2>3. QED
    BY <2>1, <2>2
<1>10. HasHistory(Apply(f.rep, o))
  <2>1. /\ Apply(f.rep, o).cover = f.rep.cover /\ Apply(f.rep, o).vector = Moved(v, o)
        /\ Apply(f.rep, o).ops = f.rep.ops \cup {o}
    BY <1>7
  <2>2. QED
    BY <1>9, <2>1, Zenon DEF HasHistory
<1>11. QED
  BY <1>2, <1>7, <1>8, <1>10

\* Where no delete is covered, the winner of a record and one more edit is the
\* latest of all.
LEMMA WinnerIsLatest ==
  ASSUME NEW B, NEW T, BornOK(B, T), NEW seen, seen \subseteq B, NEW o \in B, o \notin seen,
         OnlySets(seen \cup {o}), NEW view, ShowsLatest(view, seen)
  PROVE  ShowsLatest(Winner(view, o), seen \cup {o})
<1>1. ASSUME NEW p \in seen \cup {o}, NEW q \in seen \cup {o}, p # q
      PROVE  (OperationWins(p, q) <=> Later(p, q)) /\ (Later(p, q) <=> ~Later(q, p))
  <2>1. p \in B /\ q \in B /\ p \in Op /\ q \in Op
    BY DEF BornOK
  <2>2. /\ p.kind = q.kind
        /\ p.actor = q.actor => p.ctr # q.ctr
        /\ p.ctx[p.actor] = p.ctr - 1 /\ q.ctx[q.actor] = q.ctr - 1
    BY <1>1, <2>1 DEF BornOK, OnlySets
  <2>3. (Saw(p, q) => q.hlc < p.hlc) /\ (Saw(q, p) => p.hlc < q.hlc)
    BY <2>1 DEF BornOK
  <2>4. QED
    BY <2>1, <2>2, <2>3, LaterWins
<1>2. \A p \in seen \cup {o} : p.hlc \in Nat /\ p.actor \in Nat
  BY ConfigAssumption DEF BornOK, Op, Devices
<1>3. CASE seen = {} /\ view = {}
  BY <1>3 DEF ShowsLatest, Winner
<1>4. CASE \E w \in seen : view = {w} /\ \A p \in seen : p # w => Later(w, p)
  <2>1. PICK w \in seen : view = {w} /\ \A p \in seen : p # w => Later(w, p)
    BY <1>4
  <2>2. (OperationWins(o, w) <=> Later(o, w)) /\ (Later(o, w) <=> ~Later(w, o))
    BY <1>1, <2>1
  <2>3. CASE Later(o, w)
    <3>1. Winner(view, o) = {o}
      BY <2>1, <2>2, <2>3 DEF Winner
    <3>2. ASSUME NEW p \in seen \cup {o}, p # o PROVE Later(o, p)
      BY <1>2, <2>1, <2>3, <3>2 DEF Later
    <3>3. QED
      BY <3>1, <3>2 DEF ShowsLatest
  <2>4. CASE ~Later(o, w)
    <3>1. Winner(view, o) = {w} /\ Later(w, o)
      BY <2>1, <2>2, <2>4 DEF Winner
    <3>2. QED
      BY <2>1, <3>1 DEF ShowsLatest
  <2>5. QED
    BY <2>3, <2>4
<1>5. QED
  BY <1>3, <1>4 DEF ShowsLatest

\* Storing the next operation of an actor keeps what is shown right.
LEMMA ViewMoves ==
  ASSUME NEW B, NEW T, BornOK(B, T), NEW v \in Vector, NEW view, NEW c \in Nat, NEW c2 \in Nat,
         ViewOK(v, view, c, B, T), NEW o \in B, o.ctr = v[o.actor] + 1, c <= c2, o.hlc <= c2
  PROVE  ViewOK(Moved(v, o), Winner(view, o), c2, B, T)
<1>1. /\ o.actor \in Devices /\ o.ctr \in Nat
      /\ \A a \in Devices : v[a] \in Nat /\ T[a] \in Nat /\ v[a] <= T[a]
      /\ \A p \in B : p.actor \in Devices /\ p.ctr \in Nat /\ p.hlc \in Nat
      /\ o.ctr <= T[o.actor]
  BY ConfigAssumption DEF BornOK, Op, Vector, ViewOK, Covers
<1>2. \A a \in Devices : Moved(v, o)[a] = IF a = o.actor THEN o.ctr ELSE v[a]
  BY <1>1 DEF Moved, Vector
<1>3. o \notin Upto(B, v)
  BY <1>1 DEF Upto
<1>4. Upto(B, Moved(v, o)) = Upto(B, v) \cup {o}
  <2>1. ASSUME NEW p \in B PROVE p.ctr <= Moved(v, o)[p.actor] <=> p.ctr <= v[p.actor] \/ p = o
    <3>1. CASE p.actor = o.actor
      <4>1. p.ctr = o.ctr => p = o
        BY <3>1 DEF BornOK
      <4>2. QED
        BY <1>1, <1>2, <3>1, <4>1
    <3>2. CASE p.actor # o.actor
      BY <1>1, <1>2, <3>2
    <3>3. QED
      BY <3>1, <3>2
  <2>2. QED
    BY <2>1 DEF Upto
<1>5. Covers(T, Moved(v, o))
  BY <1>1, <1>2 DEF Covers
<1>6. Winner(view, o) \subseteq Upto(B, v) \cup {o} /\ \A p, q \in Winner(view, o) : p = q
  BY DEF Winner, ViewOK
<1>7. \A p \in Upto(B, v) \cup {o} : p.hlc <= c2
  BY <1>1 DEF ViewOK, Upto
<1>8. OnlySets(Upto(B, v) \cup {o}) => ShowsLatest(Winner(view, o), Upto(B, v) \cup {o})
  <2>1. SUFFICES ASSUME OnlySets(Upto(B, v) \cup {o})
                 PROVE  ShowsLatest(Winner(view, o), Upto(B, v) \cup {o})
    OBVIOUS
  <2>2. OnlySets(Upto(B, v))
    BY <2>1 DEF OnlySets
  <2>3. ShowsLatest(view, Upto(B, v)) /\ Upto(B, v) \subseteq B
    BY <2>2 DEF ViewOK, Upto
  <2>4. QED
    BY <1>3, <2>1, <2>3, WinnerIsLatest
<1>9. QED
  BY <1>4, <1>5, <1>6, <1>7, <1>8, Zenon DEF ViewOK

\* DurableReplica.Apply of an operation that is known or the next of its actor.
LEMMA StoreKeeps ==
  ASSUME NEW B, NEW T, BornOK(B, T), NEW f, NEW c \in Nat, NEW c2 \in Nat, c <= c2,
         DiskOK(f, c, B, T), NEW o \in B, o.ctr <= f.rep.vector[o.actor] + 1,
         ~Known(f.rep, o) => o.hlc <= c2
  PROVE  /\ DiskOK(Store(f, o), c2, B, T)
         /\ Covers(Store(f, o).rep.vector, f.rep.vector)
         /\ o.ctr <= Store(f, o).rep.vector[o.actor]
<1>1. /\ B \subseteq Op /\ o \in Op /\ f \in File(B) /\ FileOK(f)
      /\ ViewOK(f.rep.vector, f.rep.view, c, B, T) /\ SnapOK(f.snap, B, T)
  BY DEF BornOK, DiskOK
<1>2. /\ f.rep.vector \in Vector /\ f.rep.ops \subseteq B /\ f.rep.cover \in Vector /\ f.rep.view \subseteq B
      /\ f.tail \in Seq(B) /\ f.snap \in Snapshot(B)
  BY <1>1 DEF File
<1>3. o.actor \in Devices /\ o.ctr \in Nat /\ \A a \in Devices : f.rep.vector[a] \in Nat
  <2>1. o.actor \in Devices /\ o.ctr \in Nat
    BY <1>1 DEF Op
  <2>2. \A a \in Devices : f.rep.vector[a] \in Nat
    BY <1>2, ConfigAssumption DEF Vector
  <2>3. QED
    BY <2>1, <2>2
<1>4. Known(f.rep, o) <=> o.ctr <= f.rep.vector[o.actor]
  BY <1>1, KnownIsCovered
<1>5. CASE Known(f.rep, o)
  <2>1. Store(f, o) = f
    BY <1>5 DEF Store
  <2>2. DiskOK(f, c2, B, T)
    BY <1>1, ViewAges DEF DiskOK
  <2>3. Covers(f.rep.vector, f.rep.vector)
    BY <1>3 DEF Covers
  <2>4. QED
    BY <1>4, <1>5, <2>1, <2>2, <2>3, Zenon
<1>6. CASE ~Known(f.rep, o)
  <2> DEFINE r == Apply(f.rep, o)
             g == [rep |-> r, tail |-> Append(f.tail, o), snap |-> f.snap]
  <2>1. o.ctr = f.rep.vector[o.actor] + 1
    BY <1>3, <1>4, <1>6
  <2>2. /\ r = [ops |-> f.rep.ops \cup {o}, cover |-> f.rep.cover,
                vector |-> Moved(f.rep.vector, o), view |-> Winner(f.rep.view, o)]
        /\ Moved(f.rep.vector, o) \in Vector
        /\ HasHistory(r)
    BY <1>1, <2>1, ApplyNext
  <2>3. Store(f, o) = g
    BY <1>6 DEF Store
  <2> HIDE DEF r
  <2>4. /\ r.ops = f.rep.ops \cup {o} /\ r.cover = f.rep.cover
        /\ r.vector = Moved(f.rep.vector, o) /\ r.view = Winner(f.rep.view, o)
    BY <2>2
  <2>5. g \in File(B)
    <3>1. Winner(f.rep.view, o) \subseteq B /\ f.rep.ops \cup {o} \subseteq B
      BY <1>2 DEF Winner
    <3>2. r \in [ops : SUBSET B, cover : Vector, vector : Vector, view : SUBSET B]
      BY <1>2, <2>2, <3>1
    <3>3. Append(f.tail, o) \in Seq(B)
      BY <1>2
    <3>4. QED
      BY <1>2, <3>2, <3>3, Zenon DEF File
  <2>6. HasTail(g)
    <3>1. HasTail(f) /\ o \notin f.rep.ops
      BY <1>1, <1>6 DEF FileOK, Known
    <3>2. /\ DOMAIN g.tail = 1..Len(f.tail) + 1 /\ DOMAIN f.tail = 1..Len(f.tail) /\ Len(f.tail) \in Nat
          /\ \A i \in 1..Len(f.tail) : g.tail[i] = f.tail[i]
          /\ g.tail[Len(f.tail) + 1] = o
      BY <1>2
    <3>3. g.rep.ops = f.rep.ops \cup {o}
      BY <2>4
    <3> HIDE DEF g
    <3>4. ASSUME NEW p \in g.rep.ops PROVE \E i \in DOMAIN g.tail : g.tail[i] = p
      <4>1. CASE p = o
        <5>1. Len(f.tail) + 1 \in DOMAIN g.tail
          BY <3>2
        <5>2. QED
          BY <3>2, <4>1, <5>1
      <4>2. CASE p \in f.rep.ops
        <5>1. PICK i \in DOMAIN f.tail : f.tail[i] = p
          BY <3>1, <4>2 DEF HasTail
        <5>2. i \in 1..Len(f.tail) /\ i \in DOMAIN g.tail
          BY <3>2
        <5>3. QED
          BY <3>2, <5>1, <5>2
      <4>3. QED
        BY <3>3, <4>1, <4>2
    <3>5. \A i \in DOMAIN g.tail : g.tail[i] \in g.rep.ops
      BY <3>1, <3>2, <3>3 DEF HasTail
    <3>6. ASSUME NEW i \in DOMAIN g.tail, NEW j \in DOMAIN g.tail, g.tail[i] = g.tail[j] PROVE i = j
      <4>1. \A k \in DOMAIN g.tail : (k \in 1..Len(f.tail) /\ g.tail[k] \in f.rep.ops)
                                    \/ (k = Len(f.tail) + 1 /\ g.tail[k] = o)
        BY <3>1, <3>2 DEF HasTail
      <4>2. CASE i \in 1..Len(f.tail) /\ j \in 1..Len(f.tail)
        BY <3>1, <3>2, <3>6, <4>2 DEF HasTail
      <4>3. CASE i = Len(f.tail) + 1 /\ j = Len(f.tail) + 1
        BY <4>3
      <4>4. QED
        BY <3>1, <3>6, <4>1, <4>2, <4>3
    <3>7. QED
      BY <3>4, <3>5, <3>6 DEF HasTail
  <2>7. CanReplay(g)
    <3> DEFINE n == Len(f.tail)
    <3>1. PICK after : Replaying(f, after) /\ after[n] = f.rep
      BY <1>1 DEF FileOK, CanReplay
    <3> DEFINE next == [k \in 0..n + 1 |-> IF k = n + 1 THEN r ELSE after[k]]
    <3>2. /\ n \in Nat /\ Len(g.tail) = n + 1 /\ g.snap = f.snap
          /\ \A k \in 1..n : g.tail[k] = f.tail[k]
          /\ g.tail[n + 1] = o
      BY <1>2
    <3>3. \A k \in 0..n : after[k] = IF k = 0 THEN Install(f.snap) ELSE Apply(after[k - 1], f.tail[k])
      BY <3>1, Zenon DEF Replaying
    <3> HIDE DEF n, g
    <3>4. \A k \in 0..n + 1 : next[k] = IF k = 0 THEN Install(g.snap) ELSE Apply(next[k - 1], g.tail[k])
      <4>1. TAKE k \in 0..n + 1
      <4>2. CASE k = n + 1
        <5>1. k # 0 /\ k - 1 = n /\ n \in 0..n + 1 /\ n # n + 1
          BY <3>2, <4>2
        <5>2. next[k] = r /\ next[k - 1] = f.rep /\ g.tail[k] = o
          BY <3>1, <3>2, <4>2, <5>1
        <5>3. QED
          BY <5>1, <5>2 DEF r
      <4>3. CASE k # n + 1
        <5>1. k \in 0..n /\ next[k] = after[k]
          BY <3>2, <4>3
        <5>2. CASE k = 0
          BY <3>2, <3>3, <5>1, <5>2
        <5>3. CASE k # 0
          <6>1. k - 1 \in 0..n + 1 /\ k - 1 # n + 1 /\ k \in 1..n
            BY <3>2, <5>1, <5>3
          <6>2. next[k - 1] = after[k - 1] /\ g.tail[k] = f.tail[k]
            BY <3>2, <6>1
          <6>3. QED
            BY <3>3, <5>1, <5>3, <6>2
        <5>4. QED
          BY <5>2, <5>3
      <4>4. QED
        BY <4>2, <4>3
    <3>5. Replaying(g, next)
      <4>1. next = [k \in 0..Len(g.tail) |-> next[k]]
        BY <3>2
      <4> HIDE DEF next
      <4>2. QED
        BY <3>2, <3>4, <4>1 DEF Replaying
    <3>6. next[Len(g.tail)] = r /\ g.rep = r
      BY <3>2 DEF g
    <3>7. QED
      BY <3>5, <3>6 DEF CanReplay
  <2>8. FileOK(g)
    <3>1. g.rep = r /\ g.snap = f.snap /\ f.rep.cover = f.snap.cover
      BY <1>1 DEF FileOK
    <3> HIDE DEF g
    <3>2. QED
      BY <2>2, <2>4, <2>6, <2>7, <3>1 DEF FileOK
  <2>9. ViewOK(r.vector, r.view, c2, B, T)
    BY <1>1, <1>2, <1>6, <2>1, <2>4, ViewMoves
  <2>10. DiskOK(g, c2, B, T)
    <3>1. g.rep = r /\ g.snap = f.snap
      OBVIOUS
    <3> HIDE DEF g
    <3>2. QED
      BY <1>1, <2>5, <2>8, <2>9, <3>1 DEF DiskOK
  <2>11. Covers(r.vector, f.rep.vector) /\ o.ctr <= r.vector[o.actor]
    <3>1. \A a \in Devices : r.vector[a] = IF a = o.actor THEN o.ctr ELSE f.rep.vector[a]
      BY <1>2, <1>3, <2>4 DEF Moved, Vector
    <3>2. QED
      BY <1>3, <2>1, <3>1 DEF Covers
  <2>12. g.rep = r
    OBVIOUS
  <2>13. QED
    <3> HIDE DEF g
    <3>1. QED
      BY <2>3, <2>10, <2>11, <2>12, Zenon
<1>7. QED
  BY <1>5, <1>6

\* The file replays to the replica in use.
LEMMA ReplayFound ==
  ASSUME NEW B, NEW f \in File(B), CanReplay(f)
  PROVE  Replay(f) = f.rep
<1> DEFINE n == Len(f.tail)
           after == CHOOSE h : Replaying(f, h)
<1>1. PICK good : Replaying(f, good) /\ good[n] = f.rep
  BY DEF CanReplay
<1>2. Replaying(f, after)
  BY <1>1, Zenon
<1>3. Replay(f) = after[n]
  BY Zenon DEF Replay, Replaying
<1>4. n \in Nat
  BY DEF File
<1> HIDE DEF after, n
<1>5. \A k \in 0..n : after[k] = good[k]
  <2> DEFINE bad == {k \in 0..n : after[k] # good[k]}
  <2>1. SUFFICES ASSUME bad # {} PROVE FALSE
    OBVIOUS
  <2>2. PICK k \in bad : \A j \in bad : k <= j
    <3>1. bad \subseteq Nat
      BY <1>4
    <3> HIDE DEF bad
    <3>2. QED
      BY <2>1, <3>1, LeastElement
  <2>3. /\ \A j \in 0..n : after[j] = IF j = 0 THEN Install(f.snap) ELSE Apply(after[j - 1], f.tail[j])
        /\ \A j \in 0..n : good[j] = IF j = 0 THEN Install(f.snap) ELSE Apply(good[j - 1], f.tail[j])
    BY <1>1, <1>2, Zenon DEF Replaying, n
  <2>4. k \in 0..n /\ after[k] # good[k]
    OBVIOUS
  <2>5. k # 0
    BY <2>3, <2>4
  <2>6. after[k - 1] = good[k - 1]
    BY <1>4, <2>2, <2>4, <2>5
  <2>7. QED
    BY <2>3, <2>4, <2>5, <2>6
<1>6. n \in 0..n
  BY <1>4
<1>7. QED
  BY <1>1, <1>3, <1>5, <1>6

-----------------------------------------------------------------------------
(* Plans *)

Earlier(ops, k) == {i \in 1..k : ops[i].actor = ops[k].actor}

\* An operation of a list is the first of its actor's, or the one before it is
\* found by counting.
LEMMA CountBack ==
  ASSUME NEW ops \in Seq(Op), NEW k \in DOMAIN ops
  PROVE  \/ Cardinality(Earlier(ops, k)) = 1
         \/ \E j \in 1..(k - 1) : /\ ops[j].actor = ops[k].actor
                                  /\ Cardinality(Earlier(ops, j)) \in Nat
                                  /\ Cardinality(Earlier(ops, k)) = Cardinality(Earlier(ops, j)) + 1
<1> DEFINE J == {i \in 1..(k - 1) : ops[i].actor = ops[k].actor}
<1>1. k \in Nat /\ k >= 1
  OBVIOUS
<1>2. IsFiniteSet(J)
  <2>1. IsFiniteSet(1..(k - 1))
    BY <1>1, FS_Interval
  <2>2. QED
    BY <2>1, FS_Subset
<1>3. Earlier(ops, k) = J \cup {k} /\ k \notin J
  BY <1>1 DEF Earlier
<1>4. J \subseteq 1..(k - 1) /\ \A i \in J : ops[i].actor = ops[k].actor
  OBVIOUS
<1>5. \A i \in 1..(k - 1) : ops[i].actor = ops[k].actor => i \in J
  OBVIOUS
<1> HIDE DEF J
<1>6. Cardinality(Earlier(ops, k)) = Cardinality(J) + 1 /\ Cardinality(J) \in Nat
  BY <1>2, <1>3, FS_AddElement, FS_CardinalityType
<1>7. CASE J = {}
  BY <1>6, <1>7, FS_EmptySet
<1>8. CASE J # {}
  <2> DEFINE D == {k - i : i \in J}
  <2>0. \A i \in J : i \in 1..(k - 1) /\ k - i \in Nat
    BY <1>1, <1>4
  <2>1. D \subseteq Nat /\ D # {}
    BY <1>8, <2>0
  <2>2. PICK x \in D : \A y \in D : x <= y
    <3> HIDE DEF D
    <3>1. QED
      BY <2>1, LeastElement
  <2>3. PICK j \in J : x = k - j
    OBVIOUS
  <2>4. j \in 1..(k - 1) /\ \A i \in J : i \in 1..(k - 1) /\ i <= j
    <3>1. ASSUME NEW i \in J PROVE i <= j
      <4>1. k - i \in D
        OBVIOUS
      <4>2. k - j <= k - i
        BY <2>2, <2>3, <4>1
      <4>3. QED
        BY <1>1, <2>0, <4>2
    <3>2. QED
      BY <2>0, <3>1
  <2>5. ops[j].actor = ops[k].actor
    BY <1>4
  <2>6. Earlier(ops, j) = J
    <3>1. ASSUME NEW i \in Earlier(ops, j) PROVE i \in J
      BY <1>1, <1>5, <2>4, <2>5 DEF Earlier
    <3>2. ASSUME NEW i \in J PROVE i \in Earlier(ops, j)
      BY <1>1, <1>4, <2>4, <2>5 DEF Earlier
    <3>3. QED
      BY <3>1, <3>2
  <2>7. QED
    BY <1>6, <2>4, <2>5, <2>6
<1>9. QED
  BY <1>7, <1>8

\* A plan that validateAntiEntropySyncState accepts leads the receiver on without
\* a gap, from the snapshot or from the frontier it has by then.
LEMMA PlanLeads ==
  ASSUME NEW B, B \subseteq Op, NEW f, NEW plan \in Transfers(B), PlanIsValid(f, plan),
         NEW v \in Vector, Covers(v, plan.vec)
  PROVE  Leads(plan.ops, Base(plan, v))
<1> DEFINE base == IF plan.snap # NoSnap THEN plan.snap.cover ELSE plan.vec
           ops  == plan.ops
<1>1. ops \in Seq(Op) /\ plan.vec \in Vector /\ plan.snap.cover \in Vector
  BY DEF Transfers, Snapshot
<1>2. \A k \in DOMAIN ops : ops[k].ctr = base[ops[k].actor] + Cardinality(Earlier(ops, k))
  BY DEF PlanIsValid, Earlier
<1>3. \A a \in Devices : base[a] \in Nat /\ Base(plan, v)[a] \in Nat /\ base[a] <= Base(plan, v)[a]
  <2>1. \A a \in Devices : /\ plan.vec[a] \in Nat /\ plan.snap.cover[a] \in Nat /\ v[a] \in Nat
                           /\ plan.vec[a] <= v[a]
    BY <1>1, ConfigAssumption DEF Vector, Covers
  <2>2. CASE plan.snap # NoSnap
    BY <2>1, <2>2 DEF Base
  <2>3. CASE plan.snap = NoSnap
    BY <2>1, <2>3 DEF Base
  <2>4. QED
    BY <2>2, <2>3
<1> HIDE DEF base, ops
<1>4. \A k \in DOMAIN ops : ops[k].actor \in Devices /\ ops[k].ctr \in Nat
  <2>1. \A k \in DOMAIN ops : ops[k] \in Op
    BY <1>1
  <2>2. QED
    BY <2>1 DEF Op
<1>5. ASSUME NEW k \in DOMAIN ops
      PROVE  \/ ops[k].ctr <= Base(plan, v)[ops[k].actor] + 1
             \/ \E j \in 1..(k - 1) : ops[j].actor = ops[k].actor /\ ops[j].ctr = ops[k].ctr - 1
  <2>1. CASE Cardinality(Earlier(ops, k)) = 1
    BY <1>2, <1>3, <1>4, <2>1
  <2>2. CASE \E j \in 1..(k - 1) : /\ ops[j].actor = ops[k].actor
                                   /\ Cardinality(Earlier(ops, j)) \in Nat
                                   /\ Cardinality(Earlier(ops, k)) = Cardinality(Earlier(ops, j)) + 1
    <3>1. PICK j \in 1..(k - 1) : /\ ops[j].actor = ops[k].actor
                                  /\ Cardinality(Earlier(ops, j)) \in Nat
                                  /\ Cardinality(Earlier(ops, k)) = Cardinality(Earlier(ops, j)) + 1
      BY <2>2
    <3>2. j \in DOMAIN ops
      BY <1>1
    <3>3. /\ ops[j].ctr = base[ops[k].actor] + Cardinality(Earlier(ops, j))
          /\ ops[k].ctr = base[ops[k].actor] + Cardinality(Earlier(ops, k))
      BY <1>2, <3>1, <3>2
    <3>4. base[ops[k].actor] \in Nat
      BY <1>3, <1>4
    <3>5. ops[j].ctr = ops[k].ctr - 1
      BY <3>1, <3>3, <3>4
    <3>6. QED
      BY <3>1, <3>5
  <2>3. QED
    BY <1>1, <2>1, <2>2, CountBack
<1>6. QED
  BY <1>5 DEF Leads, ops

\* StateForPeer plans with stored operations and the file's own snapshot.
LEMMA PlanIsStored ==
  ASSUME NEW B, IsFiniteSet(B), NEW f \in File(B), NEW vec \in Vector,
         NEW plan \in StateForPeer(f, vec)
  PROVE  /\ plan \in Transfers(B)
         /\ plan.phase = "sending" /\ plan.vec = vec
         /\ plan.snap \in {f.snap, NoSnap}
<1>1. f.snap \in Snapshot(B) /\ f.tail \in Seq(B) /\ f.rep.ops \subseteq B
  BY DEF File
<1>2. NoSnap \in Snapshot(B)
  BY ConfigAssumption DEF NoSnap, Snapshot, Zero, Vector
<1>3. CASE f.snap # NoSnap /\ ~Covers(vec, f.rep.cover)
  <2>1. plan = [phase |-> "sending", vec |-> vec, snap |-> f.snap, ops |-> f.tail]
    BY <1>3 DEF StateForPeer
  <2>2. QED
    BY <1>1, <2>1 DEF Transfers
<1>4. CASE ~(f.snap # NoSnap /\ ~Covers(vec, f.rep.cover))
  <2> DEFINE M == Missing(f.rep.ops, vec)
  <2>1. PICK s \in Sorted(M) : plan = [phase |-> "sending", vec |-> vec, snap |-> NoSnap, ops |-> s]
    BY <1>4 DEF StateForPeer
  <2>2. M \subseteq B
    BY <1>1 DEF Missing
  <2> HIDE DEF M
  <2>3. Cardinality(M) \in Nat
    BY <2>2, FS_Subset, FS_CardinalityType
  <2>4. s \in [1..Cardinality(M) -> M]
    BY <2>1 DEF Sorted, SetToSeqs
  <2>5. s \in Seq(B)
    BY <2>2, <2>3, <2>4
  <2>6. QED
    BY <1>2, <2>1, <2>5 DEF Transfers
<1>5. QED
  BY <1>3, <1>4

-----------------------------------------------------------------------------
(* Steps.  A step writes one device's file and changes transfers; the files    *)
(* are done first, with the transfers as they were.                            *)

DiskDone ==
    /\ clock' \in [Devices -> 0..MaxTime]
    /\ IsFiniteSet(born')
    /\ BornOK(born', Top')
    /\ disk' \in [Devices -> File(born')]
    /\ \A e \in Devices : DiskOK(disk'[e], clock'[e], born', Top')
    /\ \A p \in Pairs : FlowOK(flow[p], disk'[p[2]].rep.vector, born', Top')
    /\ \A e \in Devices : Covers(disk'[e].rep.vector, disk[e].rep.vector)

\* Device d writes file g; T2 is what the devices have signed with it.
LEMMA DiskStep ==
  ASSUME SyncInv, NEW d \in Devices, NEW g, NEW c \in 0..MaxTime, NEW T2,
         disk' = [disk EXCEPT ![d] = g], clock' = [clock EXCEPT ![d] = c],
         IsFiniteSet(born'), Grows(born, Top, born', T2), BornOK(born', T2),
         DiskOK(g, c, born', T2), Covers(g.rep.vector, disk[d].rep.vector),
         Covers(Top', T2)
  PROVE  DiskDone
<1>1. /\ clock \in [Devices -> 0..MaxTime] /\ disk \in [Devices -> File(born)]
      /\ \A e \in Devices : DiskOK(disk[e], clock[e], born, Top)
      /\ \A p \in Pairs : FlowOK(flow[p], disk[p[2]].rep.vector, born, Top)
  BY DEF SyncInv, Rest
<1>2. clock' \in [Devices -> 0..MaxTime] /\ clock'[d] = c /\ \A e \in Devices : e # d => clock'[e] = clock[e]
  BY <1>1
<1>3. disk'[d] = g /\ \A e \in Devices : e # d => disk'[e] = disk[e]
  BY <1>1
<1>4. born \subseteq born' /\ g \in File(born') /\ File(born) \subseteq File(born')
  BY TypesGrow DEF Grows, DiskOK
<1>5. disk' \in [Devices -> File(born')]
  BY <1>1, <1>4
<1>6. Top' \in Vector
  <2>1. \A a \in Devices : disk'[a].rep.vector \in Vector
    BY <1>5 DEF File
  <2>2. \A a \in Devices : disk'[a].rep.vector[a] \in 0..MaxOps
    BY <2>1 DEF Vector
  <2>3. QED
    BY <2>2 DEF Top, Vector
<1>7. /\ \A a \in Devices : Top[a] \in Nat /\ T2[a] \in Nat /\ Top'[a] \in Nat
      /\ \A a \in Devices : Top[a] <= T2[a] /\ T2[a] <= Top'[a]
  BY <1>6, ConfigAssumption DEF Grows, Vector, Covers
<1>8. Grows(born, Top, born', Top')
  <2>1. Covers(Top', Top)
    BY <1>7 DEF Covers
  <2>2. QED
    BY <1>6, <2>1, Zenon DEF Grows
<1>9. Grows(born', T2, born', Top')
  BY <1>6, Zenon DEF Grows, BornOK
<1>10. BornOK(born', Top')
  <2>1. \A o \in born' : o.ctr \in Nat /\ o.actor \in Devices /\ o.ctx \in Vector
    BY DEF BornOK, Op
  <2>2. \A o \in born' : \A a \in Devices : o.ctx[a] \in Nat
    BY <2>1, ConfigAssumption DEF Vector
  <2>3. \A o \in born' : o.ctr <= T2[o.actor] /\ Covers(T2, o.ctx)
    BY DEF BornOK
  <2>4. \A o \in born' : o.ctr <= Top'[o.actor]
    BY <1>7, <2>1, <2>3
  <2>5. \A o \in born' : Covers(Top', o.ctx)
    BY <1>7, <2>2, <2>3 DEF Covers
  <2>6. QED
    BY <1>6, <2>4, <2>5, Zenon DEF BornOK
<1>11. ASSUME NEW e \in Devices PROVE DiskOK(disk'[e], clock'[e], born', Top')
  <2>1. CASE e = d
    BY <1>2, <1>3, <1>9, <2>1, DiskGrows
  <2>2. CASE e # d
    BY <1>1, <1>2, <1>3, <1>8, <2>2, DiskGrows
  <2>3. QED
    BY <2>1, <2>2
<1>12. ASSUME NEW e \in Devices
       PROVE  /\ disk[e].rep.vector \in Vector /\ disk'[e].rep.vector \in Vector
              /\ Covers(disk'[e].rep.vector, disk[e].rep.vector)
  <2>1. disk[e].rep.vector \in Vector /\ disk'[e].rep.vector \in Vector
    BY <1>1, <1>5 DEF File
  <2>2. CASE e = d
    BY <1>3, <2>1, <2>2
  <2>3. CASE e # d
    <3>1. \A a \in Devices : disk[e].rep.vector[a] \in Nat
      BY <2>1, ConfigAssumption DEF Vector
    <3>2. QED
      BY <1>3, <2>1, <2>3, <3>1 DEF Covers
  <2>4. QED
    BY <2>1, <2>2, <2>3
<1>13. ASSUME NEW p \in Pairs PROVE FlowOK(flow[p], disk'[p[2]].rep.vector, born', Top')
  <2>1. p[2] \in Devices
    BY DEF Pairs
  <2>2. QED
    BY <1>1, <1>8, <1>12, <2>1, FlowGrows
<1>14. QED
  BY <1>2, <1>5, <1>10, <1>11, <1>12, <1>13, Zenon DEF DiskDone

\* ... without an operation of its own.
LEMMA QuietStep ==
  ASSUME SyncInv, NEW d \in Devices, NEW g, NEW c \in 0..MaxTime,
         disk' = [disk EXCEPT ![d] = g], clock' = [clock EXCEPT ![d] = c],
         born' = born, DiskOK(g, c, born, Top), Covers(g.rep.vector, disk[d].rep.vector)
  PROVE  DiskDone
<1>1. Top \in Vector /\ BornOK(born, Top) /\ IsFiniteSet(born) /\ disk \in [Devices -> File(born)]
  BY DEF SyncInv, Rest, BornOK
<1>2. \A a \in Devices : Top[a] \in Nat /\ Top[a] = disk[a].rep.vector[a]
  BY <1>1, ConfigAssumption DEF Vector, Top
<1>3. Covers(Top, Top)
  BY <1>2 DEF Covers
<1>4. Grows(born, Top, born, Top)
  BY <1>1, <1>3 DEF Grows, BornOK
<1>5. \A a \in Devices : Top'[a] = disk'[a].rep.vector[a]
  BY DEF Top
<1>6. disk'[d] = g /\ \A a \in Devices : a # d => disk'[a] = disk[a]
  BY <1>1
<1>7. \A a \in Devices : Top[a] <= Top'[a]
  <2>1. TAKE a \in Devices
  <2>2. CASE a = d
    BY <1>2, <1>5, <1>6, <2>2 DEF Covers
  <2>3. CASE a # d
    BY <1>2, <1>5, <1>6, <2>3
  <2>4. QED
    BY <2>2, <2>3
<1>8. Covers(Top', Top)
  BY <1>7 DEF Covers
<1>9. QED
  BY <1>1, <1>4, <1>8, DiskStep

\* ... or no file at all.
LEMMA NoDiskStep ==
  ASSUME SyncInv, UNCHANGED <<disk, clock, born>>
  PROVE  DiskDone
<1>1. Top' = Top
  BY DEF Top
<1>2. \A e \in Devices : Covers(disk[e].rep.vector, disk[e].rep.vector)
  <2>1. TAKE e \in Devices
  <2>2. disk[e].rep.vector \in Vector
    BY DEF SyncInv, File
  <2>3. \A a \in Devices : disk[e].rep.vector[a] \in Nat
    BY <2>2, ConfigAssumption DEF Vector
  <2>4. QED
    BY <2>3 DEF Covers
<1>3. QED
  BY <1>1, <1>2, Zenon DEF SyncInv, Rest, DiskDone

\* Nothing is under way on an idle channel.
LEMMA IdleOK ==
  ASSUME NEW B, NEW T, BornOK(B, T), NEW v
  PROVE  FlowOK(Idle, v, B, T) /\ Idle \in Transfers(B) /\ SnapOK(NoSnap, B, T)
<1>1. Zero \in Vector /\ \A a \in Devices : Zero[a] = 0
  BY ConfigAssumption DEF Zero, Vector
<1>2. Upto(B, Zero) = {}
  BY <1>1 DEF Upto, BornOK, Op
<1>3. Covers(T, Zero)
  BY <1>1 DEF Covers, BornOK, Vector
<1>4. SnapOK(NoSnap, B, T)
  <2>1. NoSnap.cover = Zero /\ NoSnap.view = {} /\ NoSnap.hlc = 0
    BY DEF NoSnap
  <2>2. ViewOK(Zero, {}, 0, B, T)
    BY <1>2, <1>3 DEF ViewOK, ShowsLatest
  <2>3. QED
    BY <2>1, <2>2 DEF SnapOK
<1>5. NoSnap \in Snapshot(B)
  BY <1>1, ConfigAssumption DEF NoSnap, Snapshot
<1>6. Idle \in Transfers(B)
  BY <1>1, <1>5 DEF Idle, Transfers
<1>7. Idle.phase = "idle" /\ Idle.snap = NoSnap
  BY DEF Idle
<1>8. QED
  BY <1>4, <1>6, <1>7 DEF FlowOK

\* Transfers as they were, closed, or good ones: then all are good.
LEMMA FlowDone ==
  ASSUME SyncInv, DiskDone, breaks' \in 0..MaxBreaks,
         acked' \in [Devices -> [Devices -> Vector]], AcksAreDurable',
         flow' = [p \in Pairs |-> flow'[p]],
         \A p \in Pairs : \/ flow'[p] = flow[p]
                          \/ flow'[p] = Idle
                          \/ FlowOK(flow'[p], disk'[p[2]].rep.vector, born', Top')
  PROVE  SyncInv'
<1>1. BornOK(born', Top')
  BY DEF DiskDone
<1>2. ASSUME NEW p \in Pairs PROVE FlowOK(flow'[p], disk'[p[2]].rep.vector, born', Top')
  <2>1. FlowOK(flow[p], disk'[p[2]].rep.vector, born', Top')
    BY DEF DiskDone
  <2>2. FlowOK(Idle, disk'[p[2]].rep.vector, born', Top')
    BY <1>1, IdleOK
  <2>3. QED
    BY <2>1, <2>2
<1>3. flow' \in [Pairs -> Transfers(born')]
  <2>1. \A p \in Pairs : flow'[p] \in Transfers(born')
    BY <1>2 DEF FlowOK
  <2>2. QED
    BY <2>1
<1>4. QED
  BY <1>2, <1>3 DEF SyncInv, Rest, DiskDone

\* The acknowledgements stay durable.
LEMMA AcksStay ==
  ASSUME SyncInv, DiskDone, acked' = acked
  PROVE  acked' \in [Devices -> [Devices -> Vector]] /\ AcksAreDurable'
<1>1. acked \in [Devices -> [Devices -> Vector]] /\ AcksAreDurable
  BY DEF SyncInv, Rest
<1>2. ASSUME NEW d \in Devices, NEW e \in Devices, d # e
      PROVE  Covers(disk'[e].rep.vector, acked'[d][e])
  <2>1. disk[e].rep.vector \in Vector /\ disk'[e].rep.vector \in Vector /\ acked[d][e] \in Vector
    BY <1>1 DEF SyncInv, DiskDone, File
  <2>2. \A a \in Devices : /\ disk[e].rep.vector[a] \in Nat /\ disk'[e].rep.vector[a] \in Nat
                           /\ acked[d][e][a] \in Nat
    BY <2>1, ConfigAssumption DEF Vector
  <2>3. /\ Covers(disk'[e].rep.vector, disk[e].rep.vector)
        /\ Covers(disk[e].rep.vector, acked[d][e])
    BY <1>1, <1>2 DEF DiskDone, AcksAreDurable
  <2>4. QED
    BY <2>2, <2>3 DEF Covers
<1>3. QED
  BY <1>1, <1>2 DEF AcksAreDurable

\* What EXCEPT and Closed do to the transfers.
LEMMA FlowChanges ==
  ASSUME SyncInv, NEW e \in Devices, NEW d \in Devices, e # d
  PROVE  /\ <<e, d>> \in Pairs /\ <<e, d>>[2] = d
         /\ \A w : flow' = [flow EXCEPT ![<<e, d>>] = w] =>
               /\ flow' = [p \in Pairs |-> flow'[p]]
               /\ \A p \in Pairs : flow'[p] = IF p = <<e, d>> THEN w ELSE flow[p]
         /\ flow' = Closed(d, e) =>
               /\ flow' = [p \in Pairs |-> flow'[p]]
               /\ \A p \in Pairs : flow'[p] = flow[p] \/ flow'[p] = Idle
<1>1. flow \in [Pairs -> Transfers(born)]
  BY DEF SyncInv
<1>2. <<e, d>> \in Pairs /\ <<e, d>>[2] = d
  BY DEF Pairs
<1>3. ASSUME NEW w, flow' = [flow EXCEPT ![<<e, d>>] = w]
      PROVE  /\ flow' = [p \in Pairs |-> flow'[p]]
             /\ \A p \in Pairs : flow'[p] = IF p = <<e, d>> THEN w ELSE flow[p]
  BY <1>1, <1>2, <1>3
<1>4. ASSUME flow' = Closed(d, e)
      PROVE  /\ flow' = [p \in Pairs |-> flow'[p]]
             /\ \A p \in Pairs : flow'[p] = flow[p] \/ flow'[p] = Idle
  BY <1>1, <1>4 DEF Closed
<1>5. QED
  BY <1>2, <1>3, <1>4

\* One transfer becomes a good one, the channel is closed, or both.
LEMMA FlowStep ==
  ASSUME SyncInv, DiskDone, NEW e \in Devices, NEW d \in Devices, e # d, NEW w,
         breaks' = breaks, acked' \in [Devices -> [Devices -> Vector]], AcksAreDurable',
         \/ flow' = Closed(d, e)
         \/ flow' = [flow EXCEPT ![<<e, d>>] = w] /\ FlowOK(w, disk'[d].rep.vector, born', Top')
         \/ /\ flow' = [Closed(d, e) EXCEPT ![<<e, d>>] = w]
            /\ FlowOK(w, disk'[d].rep.vector, born', Top')
  PROVE  SyncInv'
<1>1. breaks' \in 0..MaxBreaks
  BY DEF SyncInv, Rest
<1>2. CASE flow' = Closed(d, e)
  <2>1. /\ flow' = [p \in Pairs |-> flow'[p]]
        /\ \A p \in Pairs : flow'[p] = flow[p] \/ flow'[p] = Idle
    BY <1>2, FlowChanges
  <2>2. QED
    BY <1>1, <2>1, FlowDone
<1>3. CASE flow' = [flow EXCEPT ![<<e, d>>] = w] /\ FlowOK(w, disk'[d].rep.vector, born', Top')
  <2>1. /\ <<e, d>>[2] = d
        /\ flow' = [p \in Pairs |-> flow'[p]]
        /\ \A p \in Pairs : flow'[p] = IF p = <<e, d>> THEN w ELSE flow[p]
    BY <1>3, FlowChanges
  <2>2. \A p \in Pairs : \/ flow'[p] = flow[p]
                         \/ flow'[p] = Idle
                         \/ FlowOK(flow'[p], disk'[p[2]].rep.vector, born', Top')
    BY <1>3, <2>1
  <2>3. QED
    BY <1>1, <2>1, <2>2, FlowDone
<1>4. CASE /\ flow' = [Closed(d, e) EXCEPT ![<<e, d>>] = w]
           /\ FlowOK(w, disk'[d].rep.vector, born', Top')
  <2>0. flow \in [Pairs -> Transfers(born)] /\ <<e, d>> \in Pairs /\ <<e, d>>[2] = d
    BY DEF SyncInv, Pairs
  <2>1. /\ flow' = [p \in Pairs |-> flow'[p]]
        /\ flow'[<<e, d>>] = w
        /\ \A p \in Pairs \ {<<e, d>>} : flow'[p] = flow[p] \/ flow'[p] = Idle
    BY <1>4, <2>0 DEF Closed
  <2>2. \A p \in Pairs : \/ flow'[p] = flow[p]
                         \/ flow'[p] = Idle
                         \/ FlowOK(flow'[p], disk'[p[2]].rep.vector, born', Top')
    BY <1>4, <2>0, <2>1
  <2>3. QED
    BY <1>1, <2>1, <2>2, FlowDone
<1>5. QED
  BY <1>2, <1>3, <1>4

\* What the invariant says of a device and of a transfer to it.
LEMMA DeviceFacts ==
  ASSUME SyncInv, NEW d \in Devices
  PROVE  /\ DiskOK(disk[d], clock[d], born, Top) /\ BornOK(born, Top)
         /\ disk[d] \in File(born) /\ disk[d].rep.vector \in Vector /\ disk[d].snap \in Snapshot(born)
         /\ clock[d] \in 0..MaxTime /\ clock[d] \in Nat
         /\ Covers(disk[d].rep.vector, disk[d].rep.vector)
         /\ disk = [disk EXCEPT ![d] = disk[d]] /\ clock = [clock EXCEPT ![d] = clock[d]]
<1>1. /\ DiskOK(disk[d], clock[d], born, Top) /\ BornOK(born, Top) /\ disk[d] \in File(born)
      /\ clock \in [Devices -> 0..MaxTime] /\ disk \in [Devices -> File(born)]
  BY DEF SyncInv, Rest
<1>2. disk[d].rep.vector \in Vector /\ disk[d].snap \in Snapshot(born)
  BY <1>1 DEF File
<1>3. clock[d] \in 0..MaxTime /\ clock[d] \in Nat
  BY <1>1
<1>4. Covers(disk[d].rep.vector, disk[d].rep.vector)
  BY <1>2 DEF Vector, Covers
<1>5. disk = [disk EXCEPT ![d] = disk[d]] /\ clock = [clock EXCEPT ![d] = clock[d]]
  BY <1>1
<1>6. QED
  BY <1>1, <1>2, <1>3, <1>4, <1>5

\* What SyncInv says of one transfer.
LEMMA TransferFacts ==
  ASSUME SyncInv, NEW e \in Devices, NEW d \in Devices, e # d
  PROVE  /\ FlowOK(flow[<<e, d>>], disk[d].rep.vector, born, Top)
         /\ flow[<<e, d>>] \in Transfers(born)
         /\ flow[<<e, d>>].vec \in Vector /\ flow[<<e, d>>].snap \in Snapshot(born)
         /\ flow[<<e, d>>].ops \in Seq(born) /\ flow[<<e, d>>].ops \in Seq(Op)
<1>1. FlowOK(flow[<<e, d>>], disk[d].rep.vector, born, Top)
  BY FlowChanges DEF SyncInv
<1>2. flow[<<e, d>>] \in Transfers(born)
  BY <1>1 DEF FlowOK
<1>3. /\ flow[<<e, d>>].vec \in Vector /\ flow[<<e, d>>].snap \in Snapshot(born)
      /\ flow[<<e, d>>].ops \in Seq(born)
  BY <1>2 DEF Transfers
<1>4. flow[<<e, d>>].ops \in Seq(Op)
  BY <1>3 DEF SyncInv, BornOK
<1>5. QED
  BY <1>1, <1>2, <1>3, <1>4

\* Start.
LEMMA AdvertiseKeeps ==
  ASSUME SyncInv, NEW e \in Devices, NEW d \in Devices, e # d, Advertise(e, d)
  PROVE  SyncInv' /\ DiskDone
<1>1. /\ UNCHANGED <<disk, clock, born>> /\ acked' = acked /\ breaks' = breaks
      /\ flow' = [flow EXCEPT ![<<e, d>>] = [Idle EXCEPT !.phase = "inventory",
                                                         !.vec = disk[d].rep.vector]]
  BY DEF Advertise
<1>2. DiskDone
  BY <1>1, NoDiskStep
<1> DEFINE w == [Idle EXCEPT !.phase = "inventory", !.vec = disk[d].rep.vector]
<1>3. BornOK(born', Top') /\ disk'[d].rep.vector \in Vector /\ disk' = disk
      /\ Covers(disk[d].rep.vector, disk[d].rep.vector)
  BY <1>1, <1>2, DeviceFacts DEF DiskDone
<1>4. Idle \in Transfers(born') /\ FlowOK(Idle, disk'[d].rep.vector, born', Top')
  BY <1>3, IdleOK
<1>5. w.phase = "inventory" /\ w.vec = disk[d].rep.vector /\ w.snap = Idle.snap
  BY DEF Idle
<1>6. w \in Transfers(born')
  BY <1>3, <1>4, Zenon DEF Transfers
<1> HIDE DEF w
<1>7. FlowOK(w, disk'[d].rep.vector, born', Top')
  BY <1>3, <1>4, <1>5, <1>6 DEF FlowOK
<1>8. QED
  BY <1>1, <1>2, <1>7, AcksStay, FlowStep DEF w

\* handleInventory.
LEMMA HandleInventoryKeeps ==
  ASSUME SyncInv, NEW e \in Devices, NEW d \in Devices, e # d, HandleInventory(e, d)
  PROVE  SyncInv' /\ DiskDone
<1>1. /\ UNCHANGED <<disk, clock, born>> /\ acked' = acked /\ breaks' = breaks
      /\ flow[<<e, d>>].phase = "inventory"
  BY DEF HandleInventory
<1>2. PICK plan \in StateForPeer(disk[e], flow[<<e, d>>].vec) :
          flow' = IF PlanIsValid(disk[e], plan) THEN [flow EXCEPT ![<<e, d>>] = plan]
                  ELSE Closed(d, e)
  BY DEF HandleInventory
<1>3. DiskDone /\ Top' = Top
  BY <1>1, NoDiskStep DEF Top
<1>4. /\ plan \in Transfers(born) /\ plan.phase = "sending" /\ plan.vec = flow[<<e, d>>].vec
      /\ plan.snap \in {disk[e].snap, NoSnap}
  <2>1. IsFiniteSet(born) /\ disk[e] \in File(born) /\ flow[<<e, d>>].vec \in Vector
    BY DeviceFacts, TransferFacts DEF SyncInv, Rest
  <2>2. QED
    BY <1>2, <2>1, PlanIsStored
<1>5. SnapOK(plan.snap, born, Top)
  BY <1>4, DeviceFacts, IdleOK DEF DiskOK
<1>6. ASSUME PlanIsValid(disk[e], plan) PROVE FlowOK(plan, disk[d].rep.vector, born, Top)
  <2>1. Covers(disk[d].rep.vector, plan.vec)
    BY <1>1, <1>4, TransferFacts DEF FlowOK
  <2>2. born \subseteq Op /\ disk[d].rep.vector \in Vector
    BY DeviceFacts DEF BornOK
  <2>3. Leads(plan.ops, Base(plan, disk[d].rep.vector))
    BY <1>4, <1>6, <2>1, <2>2, PlanLeads
  <2>4. QED
    BY <1>4, <1>5, <2>3 DEF FlowOK
<1>7. \/ flow' = Closed(d, e)
      \/ flow' = [flow EXCEPT ![<<e, d>>] = plan] /\ FlowOK(plan, disk'[d].rep.vector, born', Top')
  BY <1>1, <1>2, <1>3, <1>6, Zenon
<1>8. QED
  BY <1>1, <1>3, <1>7, AcksStay, FlowStep

\* persistSnapshot.
LEMMA ReceiveSnapshotKeeps ==
  ASSUME SyncInv, NEW e \in Devices, NEW d \in Devices, e # d, ReceiveSnapshot(e, d)
  PROVE  SyncInv' /\ DiskDone
<1> DEFINE x == flow[<<e, d>>]
           s == x.snap
           w == [x EXCEPT !.snap = NoSnap]
<1>1. /\ x.phase = "sending" /\ s # NoSnap /\ born' = born /\ acked' = acked /\ breaks' = breaks
      /\ IF disk[d].snap = s \/ MayRebase(disk[d], s)
         THEN /\ disk' = [disk EXCEPT ![d] = IF disk[d].snap = s THEN disk[d] ELSE FromSnap(s)]
              /\ clock' = [clock EXCEPT ![d] = IF disk[d].snap = s THEN clock[d]
                                               ELSE Later2(clock[d], s.hlc)]
              /\ flow' = [flow EXCEPT ![<<e, d>>].snap = NoSnap]
         ELSE /\ flow' = Closed(d, e)
              /\ UNCHANGED <<disk, clock>>
  BY DEF ReceiveSnapshot
<1>2. /\ FlowOK(x, disk[d].rep.vector, born, Top) /\ x \in Transfers(born) /\ s \in Snapshot(born)
      /\ x.ops \in Seq(Op)
  BY TransferFacts
<1>3. /\ SnapOK(s, born, Top) /\ Leads(x.ops, s.cover) /\ s.cover \in Vector /\ s.hlc \in 0..MaxTime
  BY <1>1, <1>2 DEF FlowOK, Base, Snapshot
<1>4. /\ DiskOK(disk[d], clock[d], born, Top) /\ BornOK(born, Top) /\ disk[d] \in File(born)
      /\ disk[d].rep.vector \in Vector /\ clock[d] \in 0..MaxTime /\ clock[d] \in Nat
      /\ Covers(disk[d].rep.vector, disk[d].rep.vector)
      /\ disk = [disk EXCEPT ![d] = disk[d]] /\ clock = [clock EXCEPT ![d] = clock[d]]
  BY DeviceFacts
<1> HIDE DEF s, x
<1>5. CASE ~(disk[d].snap = s \/ MayRebase(disk[d], s))
  <2>1. UNCHANGED <<disk, clock, born>> /\ flow' = Closed(d, e)
    BY <1>1, <1>5
  <2>2. DiskDone
    BY <2>1, NoDiskStep
  <2>3. QED
    BY <1>1, <2>1, <2>2, AcksStay, FlowStep
<1>6. CASE disk[d].snap = s \/ MayRebase(disk[d], s)
  <2>1. PICK g, c : /\ disk' = [disk EXCEPT ![d] = g] /\ clock' = [clock EXCEPT ![d] = c]
                    /\ c \in 0..MaxTime /\ DiskOK(g, c, born, Top)
                    /\ Covers(g.rep.vector, disk[d].rep.vector) /\ Covers(g.rep.vector, s.cover)
    <3>1. CASE disk[d].snap = s
      <4>1. disk' = [disk EXCEPT ![d] = disk[d]] /\ clock' = [clock EXCEPT ![d] = clock[d]]
        BY <1>1, <3>1
      <4>2. Covers(disk[d].rep.vector, s.cover)
        BY <1>4, <3>1 DEF DiskOK, FileOK, HasHistory, Covers
      <4>3. QED
        BY <1>4, <4>1, <4>2
    <3>2. CASE disk[d].snap # s
      <4> DEFINE c2 == Later2(clock[d], s.hlc)
      <4>1. disk' = [disk EXCEPT ![d] = FromSnap(s)] /\ clock' = [clock EXCEPT ![d] = c2]
        BY <1>1, <1>6, <3>2
      <4>2. c2 \in 0..MaxTime /\ c2 \in Nat /\ s.hlc <= c2
        BY <1>3, <1>4 DEF Later2
      <4> HIDE DEF c2
      <4>3. DiskOK(FromSnap(s), c2, born, Top) /\ FromSnap(s).rep.vector = s.cover
        BY <1>2, <1>3, <1>4, <4>2, FromSnapOK
      <4>4. Covers(s.cover, disk[d].rep.vector) /\ Covers(s.cover, s.cover)
        BY <1>3, <1>6, <3>2 DEF MayRebase, Covers, Vector
      <4>5. QED
        BY <4>1, <4>2, <4>3, <4>4
    <3>3. QED
      BY <3>1, <3>2
  <2>2. DiskDone
    BY <1>1, <2>1, QuietStep
  <2>3. flow' = [flow EXCEPT ![<<e, d>>] = w]
    BY <1>1, <1>6 DEF x
  <2>4. /\ w.phase = "sending" /\ w.ops = x.ops /\ w.snap = NoSnap
        /\ w \in Transfers(born)
    <3>1. NoSnap \in Snapshot(born)
      BY ConfigAssumption DEF NoSnap, Snapshot, Zero, Vector
    <3>2. w \in Transfers(born)
      BY <1>2, <3>1 DEF Transfers
    <3>3. QED
      BY <1>1, <1>2, <3>2 DEF Transfers
  <2>5. disk'[d] = g /\ disk'[d].rep.vector \in Vector /\ BornOK(born', Top')
    <3>1. disk'[d] = g /\ g \in File(born)
      BY <2>1 DEF SyncInv, DiskOK
    <3>2. QED
      BY <2>2, <3>1 DEF File, DiskDone
  <2>6. Leads(w.ops, Base(w, disk'[d].rep.vector))
    <3>1. Leads(x.ops, disk'[d].rep.vector)
      BY <1>2, <1>3, <2>1, <2>5, LeadsFarther
    <3>2. QED
      BY <2>4, <3>1 DEF Base
  <2>7. FlowOK(w, disk'[d].rep.vector, born', Top')
    <3>1. SnapOK(NoSnap, born', Top')
      BY <2>5, IdleOK
    <3> HIDE DEF w
    <3>2. QED
      BY <1>1, <2>4, <2>6, <3>1 DEF FlowOK
  <2>8. QED
    BY <1>1, <2>2, <2>3, <2>7, AcksStay, FlowStep
<1>7. QED
  BY <1>5, <1>6

\* What is left of a list after its head has been stored leads on.
LEMMA LeadsTail ==
  ASSUME NEW B, B \subseteq Op, NEW ops \in Seq(B), ops # <<>>,
         NEW v \in Vector, NEW v2 \in Vector, Covers(v2, v), Leads(ops, v),
         ops[1].ctr <= v2[ops[1].actor]
  PROVE  RemoveAt(ops, 1) \in Seq(B) /\ Leads(RemoveAt(ops, 1), v2)
<1> DEFINE r == RemoveAt(ops, 1)
           n == Len(ops)
<1>1. /\ n \in Nat /\ n >= 1 /\ DOMAIN ops = 1..n
      /\ r \in Seq(B) /\ Len(r) = n - 1 /\ DOMAIN r = 1..(n - 1)
      /\ \A i \in 1..(n - 1) : r[i] = ops[i + 1]
  <2>1. n \in Nat /\ n >= 1 /\ DOMAIN ops = 1..n
    OBVIOUS
  <2>2. SubSeq(ops, 1, 0) = <<>> /\ SubSeq(ops, 2, n) \in Seq(B) /\ Len(SubSeq(ops, 2, n)) = n - 1
        /\ \A i \in 1..(n - 1) : SubSeq(ops, 2, n)[i] = ops[i + 1]
    BY <2>1
  <2>3. r = SubSeq(ops, 1, 0) \o SubSeq(ops, 2, n)
    BY DEF RemoveAt
  <2> HIDE DEF r
  <2>4. r = SubSeq(ops, 2, n)
    BY <2>2, <2>3
  <2>5. QED
    BY <2>1, <2>2, <2>4
<1>2. ops \in Seq(Op)
  OBVIOUS
<1>3. Leads(ops, v2)
  BY <1>2, LeadsFarther
<1>4. \A k \in 1..n : ops[k] \in Op
  BY <1>1, <1>2
<1>5. \A k \in 1..n : ops[k].actor \in Devices /\ ops[k].ctr \in Nat
  BY <1>4 DEF Op
<1>6. \A a \in Devices : v2[a] \in Nat
  BY ConfigAssumption DEF Vector
<1> HIDE DEF r, n
<1>7. ASSUME NEW k \in 1..(n - 1)
      PROVE  \/ r[k].ctr <= v2[r[k].actor] + 1
             \/ \E j \in 1..(k - 1) : r[j].actor = r[k].actor /\ r[j].ctr = r[k].ctr - 1
  <2>1. k + 1 \in 1..n /\ 1 \in 1..n /\ r[k] = ops[k + 1]
    BY <1>1
  <2>2. CASE ops[k + 1].ctr <= v2[ops[k + 1].actor] + 1
    BY <2>1, <2>2
  <2>3. CASE \E j \in 1..((k + 1) - 1) : /\ ops[j].actor = ops[k + 1].actor
                                       /\ ops[j].ctr = ops[k + 1].ctr - 1
    <3>1. PICK j \in 1..((k + 1) - 1) : /\ ops[j].actor = ops[k + 1].actor
                                      /\ ops[j].ctr = ops[k + 1].ctr - 1
      BY <2>3
    <3>2. CASE j = 1
      <4>1. ops[k + 1].ctr - 1 <= v2[ops[k + 1].actor]
        BY <3>1, <3>2
      <4>2. ops[k + 1].ctr \in Nat /\ v2[ops[k + 1].actor] \in Nat
        BY <1>5, <1>6, <2>1
      <4>3. QED
        BY <2>1, <4>1, <4>2
    <3>3. CASE j # 1
      <4>1. j - 1 \in 1..(k - 1) /\ j - 1 \in 1..(n - 1) /\ (j - 1) + 1 = j
        BY <1>1, <3>3
      <4>2. r[j - 1] = ops[j]
        BY <1>1, <4>1
      <4>3. QED
        BY <2>1, <3>1, <4>1, <4>2
    <3>4. QED
      BY <3>2, <3>3
  <2>4. QED
    BY <1>1, <1>3, <2>1, <2>2, <2>3 DEF Leads
<1>8. Leads(r, v2)
  BY <1>1, <1>7, Zenon DEF Leads
<1>9. QED
  BY <1>1, <1>8 DEF r

\* persistPending of an operation.
LEMMA ReceiveOpKeeps ==
  ASSUME SyncInv, NEW e \in Devices, NEW d \in Devices, e # d, ReceiveOp(e, d)
  PROVE  SyncInv' /\ DiskDone
<1> DEFINE x == flow[<<e, d>>]
           o == x.ops[1]
           f == Store(disk[d], o)
           now == IF f = disk[d] THEN clock[d] ELSE Later2(clock[d], o.hlc)
           g == CompactIfNeeded(d, f, acked[d], now)
           w == [x EXCEPT !.ops = RemoveAt(x.ops, 1)]
<1>1. /\ x.phase = "sending" /\ x.snap = NoSnap /\ born' = born /\ acked' = acked /\ breaks' = breaks
      /\ 1 \in DOMAIN x.ops
      /\ disk' = [disk EXCEPT ![d] = g]
      /\ clock' = [clock EXCEPT ![d] = now]
      /\ flow' = Closed(d, e) \/ flow' = [flow EXCEPT ![<<e, d>>].ops = RemoveAt(x.ops, 1)]
  BY DEF ReceiveOp, NextItem
<1>2. /\ FlowOK(x, disk[d].rep.vector, born, Top) /\ x \in Transfers(born)
      /\ x.ops \in Seq(born) /\ x.ops \in Seq(Op)
  BY TransferFacts
<1>3. /\ DiskOK(disk[d], clock[d], born, Top) /\ BornOK(born, Top) /\ disk[d] \in File(born)
      /\ disk[d].rep.vector \in Vector /\ clock[d] \in 0..MaxTime /\ clock[d] \in Nat
  BY DeviceFacts
<1>4. flow' = Closed(d, e) \/ flow' = [flow EXCEPT ![<<e, d>>] = w]
  BY <1>1
<1>5. o \in born /\ o \in Op /\ x.ops # <<>>
  BY <1>1, <1>2
<1>6. Leads(x.ops, disk[d].rep.vector)
  BY <1>1, <1>2 DEF FlowOK, Base
<1>7. o.ctr <= disk[d].rep.vector[o.actor] + 1
  BY <1>1, <1>6 DEF Leads
<1>8. ~Known(disk[d].rep, o) => f # disk[d]
  <2>1. SUFFICES ASSUME ~Known(disk[d].rep, o), f = disk[d] PROVE FALSE
    OBVIOUS
  <2>2. f.tail = Append(disk[d].tail, o)
    BY <2>1 DEF Store
  <2>3. disk[d].tail \in Seq(born)
    BY <1>3 DEF File
  <2>4. Len(Append(disk[d].tail, o)) = Len(disk[d].tail) + 1 /\ Len(disk[d].tail) \in Nat
    BY <2>3
  <2>5. QED
    BY <2>1, <2>2, <2>4
<1>9. o.hlc \in 1..MaxTime
  BY <1>5 DEF Op
<1> HIDE DEF x, o, f
<1>10. now \in 0..MaxTime /\ now \in Nat /\ clock[d] <= now /\ (~Known(disk[d].rep, o) => o.hlc <= now)
  BY <1>3, <1>8, <1>9 DEF Later2
<1> HIDE DEF now
<1>11. /\ DiskOK(f, now, born, Top)
       /\ Covers(f.rep.vector, disk[d].rep.vector)
       /\ o.ctr <= f.rep.vector[o.actor]
  BY <1>3, <1>5, <1>7, <1>10, StoreKeeps DEF f
<1>12. DiskOK(g, now, born, Top) /\ g.rep.vector = f.rep.vector
  BY <1>3, <1>10, <1>11, BoundsKeep
<1> HIDE DEF g
<1>13. DiskDone
  BY <1>1, <1>10, <1>11, <1>12, QuietStep
<1>14. disk'[d] = g /\ disk'[d].rep.vector \in Vector /\ BornOK(born', Top')
  <2>1. disk'[d] = g /\ g \in File(born)
    BY <1>1, <1>12 DEF SyncInv, DiskOK
  <2>2. QED
    BY <1>13, <2>1 DEF File, DiskDone
<1>15. RemoveAt(x.ops, 1) \in Seq(born) /\ Leads(RemoveAt(x.ops, 1), disk'[d].rep.vector)
  <2>1. born \subseteq Op
    BY <1>3 DEF BornOK
  <2>2. Covers(disk'[d].rep.vector, disk[d].rep.vector) /\ x.ops[1].ctr <= disk'[d].rep.vector[x.ops[1].actor]
    BY <1>11, <1>12, <1>14 DEF o
  <2>3. QED
    BY <1>2, <1>3, <1>5, <1>6, <1>14, <2>1, <2>2, LeadsTail
<1>16. FlowOK(w, disk'[d].rep.vector, born', Top')
  <2>1. w \in Transfers(born)
    BY <1>2, <1>15, Zenon DEF Transfers
  <2>2. w.phase = "sending" /\ w.snap = NoSnap /\ w.ops = RemoveAt(x.ops, 1)
    BY <1>1, <1>2 DEF Transfers
  <2>3. SnapOK(NoSnap, born', Top')
    BY <1>14, IdleOK
  <2> HIDE DEF w
  <2>4. QED
    BY <1>1, <1>15, <2>1, <2>2, <2>3 DEF FlowOK, Base
<1>17. QED
  BY <1>1, <1>4, <1>13, <1>16, AcksStay, FlowStep

\* handleBatch after the last item.
LEMMA FinishTransferKeeps ==
  ASSUME SyncInv, NEW e \in Devices, NEW d \in Devices, e # d, FinishTransfer(e, d)
  PROVE  SyncInv' /\ DiskDone
<1> DEFINE g == Prune(d, disk[d], acked[d], clock[d])
           w == FinalAck(d)
<1>1. /\ born' = born /\ acked' = acked /\ breaks' = breaks /\ clock' = clock
      /\ disk' = [disk EXCEPT ![d] = g]
      /\ \/ flow' = Closed(d, e)
         \/ flow' = [flow EXCEPT ![<<e, d>>] = w]
         \/ flow' = [Closed(d, e) EXCEPT ![<<e, d>>] = w]
  BY DEF FinishTransfer
<1>2. /\ DiskOK(disk[d], clock[d], born, Top) /\ BornOK(born, Top)
      /\ disk[d].rep.vector \in Vector /\ clock[d] \in 0..MaxTime
      /\ Covers(disk[d].rep.vector, disk[d].rep.vector)
      /\ clock = [clock EXCEPT ![d] = clock[d]]
  BY DeviceFacts
<1>3. DiskOK(g, clock[d], born, Top) /\ g.rep.vector = disk[d].rep.vector
  BY <1>2, BoundsKeep
<1> HIDE DEF g
<1>4. DiskDone
  <2>1. clock' = [clock EXCEPT ![d] = clock[d]] /\ Covers(g.rep.vector, disk[d].rep.vector)
    BY <1>1, <1>2, <1>3
  <2>2. QED
    BY <1>1, <1>2, <1>3, <2>1, QuietStep
<1>5. disk'[d].rep.vector = disk[d].rep.vector /\ BornOK(born', Top')
  BY <1>1, <1>3, <1>4 DEF SyncInv, DiskDone
<1>6. FlowOK(w, disk'[d].rep.vector, born', Top')
  <2>1. Idle \in Transfers(born') /\ FlowOK(Idle, disk'[d].rep.vector, born', Top')
    BY <1>5, IdleOK
  <2>2. w.phase = "acked" /\ w.vec = disk[d].rep.vector /\ w.snap = Idle.snap
    BY DEF Idle, FinalAck
  <2>3. w \in Transfers(born')
    BY <1>2, <2>1, Zenon DEF Transfers, FinalAck
  <2> HIDE DEF w
  <2>4. QED
    BY <1>2, <1>5, <2>1, <2>2, <2>3 DEF FlowOK
<1> HIDE DEF w
<1>7. QED
  BY <1>1, <1>4, <1>6, AcksStay, FlowStep

\* handleAck of the final ack.
LEMMA HandleAckKeeps ==
  ASSUME SyncInv, NEW e \in Devices, NEW d \in Devices, e # d, HandleAck(e, d)
  PROVE  SyncInv' /\ DiskDone
<1> DEFINE vec  == flow[<<e, d>>].vec
           acks == [acked[e] EXCEPT ![d] = Merge(acked[e][d], vec)]
           g    == Prune(e, disk[e], acks, clock[e])
<1>1. /\ born' = born /\ breaks' = breaks /\ clock' = clock
      /\ flow[<<e, d>>].phase = "acked"
      /\ acked' = [acked EXCEPT ![e] = acks]
      /\ disk' = [disk EXCEPT ![e] = g]
      /\ flow' = Closed(d, e) \/ flow' = [flow EXCEPT ![<<e, d>>] = Idle]
  BY DEF HandleAck
<1>2. /\ DiskOK(disk[e], clock[e], born, Top) /\ BornOK(born, Top)
      /\ clock[e] \in 0..MaxTime
      /\ Covers(disk[e].rep.vector, disk[e].rep.vector)
      /\ clock = [clock EXCEPT ![e] = clock[e]]
  BY DeviceFacts
<1>3. DiskOK(g, clock[e], born, Top) /\ g.rep.vector = disk[e].rep.vector
  BY <1>2, BoundsKeep
<1>4. vec \in Vector /\ Covers(disk[d].rep.vector, vec)
  BY <1>1, TransferFacts DEF FlowOK
<1> HIDE DEF g, vec
<1>5. DiskDone
  <2>1. clock' = [clock EXCEPT ![e] = clock[e]] /\ Covers(g.rep.vector, disk[e].rep.vector)
    BY <1>1, <1>2, <1>3
  <2>2. QED
    BY <1>1, <1>2, <1>3, <2>1, QuietStep
<1>6. /\ acked \in [Devices -> [Devices -> Vector]] /\ AcksAreDurable
      /\ \A b \in Devices : Covers(disk'[b].rep.vector, disk[b].rep.vector)
      /\ \A b \in Devices : disk[b].rep.vector \in Vector /\ disk'[b].rep.vector \in Vector
  BY <1>5 DEF SyncInv, Rest, DiskDone, File
<1>7. Merge(acked[e][d], vec) \in Vector
  BY <1>4, <1>6 DEF Merge, Vector
<1>8. acks \in [Devices -> Vector] /\ acks[d] = Merge(acked[e][d], vec)
      /\ \A b \in Devices : b # d => acks[b] = acked[e][b]
  BY <1>6, <1>7
<1> HIDE DEF acks
<1>9. acked' \in [Devices -> [Devices -> Vector]] /\ acked'[e] = acks
      /\ \A b \in Devices : b # e => acked'[b] = acked[b]
  BY <1>1, <1>6, <1>8
<1>10. ASSUME NEW a \in Devices, NEW b \in Devices, a # b
       PROVE  Covers(disk'[b].rep.vector, acked'[a][b])
  <2>1. \A i \in Devices : disk[b].rep.vector[i] \in Nat /\ disk'[b].rep.vector[i] \in Nat
                           /\ disk[b].rep.vector[i] <= disk'[b].rep.vector[i]
    BY <1>6, ConfigAssumption DEF Vector, Covers
  <2>2. acked[a][b] \in Vector /\ Covers(disk[b].rep.vector, acked[a][b])
    BY <1>6, <1>10 DEF AcksAreDurable
  <2>3. \A i \in Devices : acked[a][b][i] \in Nat /\ acked[a][b][i] <= disk[b].rep.vector[i]
    BY <2>2, ConfigAssumption DEF Vector, Covers
  <2>4. CASE a = e /\ b = d
    <3>1. acked'[a][b] = Merge(acked[a][b], vec)
      BY <1>8, <1>9, <2>4
    <3>2. \A i \in Devices : vec[i] \in Nat /\ vec[i] <= disk[b].rep.vector[i]
      BY <1>4, <2>4, ConfigAssumption DEF Vector, Covers
    <3>3. \A i \in Devices : Merge(acked[a][b], vec)[i] <= disk'[b].rep.vector[i]
      BY <2>1, <2>3, <3>2 DEF Merge
    <3>4. QED
      BY <3>1, <3>3 DEF Covers
  <2>5. CASE ~(a = e /\ b = d)
    <3>1. acked'[a][b] = acked[a][b]
      BY <1>8, <1>9, <2>5
    <3>2. QED
      BY <2>1, <2>3, <3>1 DEF Covers
  <2>6. QED
    BY <2>4, <2>5
<1>11. AcksAreDurable'
  BY <1>10 DEF AcksAreDurable
<1>12. FlowOK(Idle, disk'[d].rep.vector, born', Top')
  BY <1>5, IdleOK DEF DiskDone
<1>13. QED
  BY <1>1, <1>5, <1>9, <1>11, <1>12, FlowStep

\* A channel is lost.
LEMMA BreakKeeps ==
  ASSUME SyncInv, NEW e \in Devices, NEW d \in Devices, e # d, Break(e, d)
  PROVE  SyncInv' /\ DiskDone
<1>1. UNCHANGED <<disk, clock, born>> /\ acked' = acked /\ flow' = Closed(d, e) /\ breaks' \in 0..MaxBreaks
  BY SyncAssumption DEF Break, SyncInv, Rest
<1>2. DiskDone
  BY <1>1, NoDiskStep
<1>3. /\ flow' = [p \in Pairs |-> flow'[p]]
      /\ \A p \in Pairs : flow'[p] = flow[p] \/ flow'[p] = Idle
  BY <1>1, FlowChanges
<1>4. QED
  BY <1>1, <1>2, <1>3, AcksStay, FlowDone

\* The timestamps in a file have a largest one, and it is past everything that
\* the frontier covers.
LEMMA ClockIsRestored ==
  ASSUME NEW B, NEW T, BornOK(B, T), NEW f, NEW c, DiskOK(f, c, B, T),
         NEW now, now = CHOOSE t \in Hlcs(f) : \A u \in Hlcs(f) : u <= t
  PROVE  now \in 0..MaxTime /\ DiskOK(f, now, B, T)
<1>1. /\ f \in File(B) /\ FileOK(f) /\ SnapOK(f.snap, B, T) /\ B \subseteq Op
      /\ ViewOK(f.rep.vector, f.rep.view, c, B, T)
  BY DEF DiskOK, BornOK
<1>2. /\ f.rep.ops \subseteq B /\ f.tail \in Seq(B) /\ f.snap.hlc \in 0..MaxTime
      /\ f.rep.cover \in Vector /\ f.rep.vector \in Vector
  BY <1>1 DEF File, Snapshot
<1>3. \A o \in B : o.hlc \in 1..MaxTime /\ o.actor \in Devices /\ o.ctr \in Nat
  BY <1>1 DEF Op
<1>4. Hlcs(f) \subseteq 0..MaxTime /\ 0 \in Hlcs(f) /\ f.snap.hlc \in Hlcs(f)
      /\ \A i \in DOMAIN f.tail : f.tail[i].hlc \in Hlcs(f)
  <2>1. \A i \in DOMAIN f.tail : f.tail[i] \in B
    BY <1>2
  <2>2. QED
    BY <1>2, <1>3, <2>1, ConfigAssumption DEF Hlcs
<1>5. \E t \in Hlcs(f) : \A u \in Hlcs(f) : u <= t
  <2> DEFINE H == Hlcs(f)
             D == {MaxTime - h : h \in H}
  <2> HIDE DEF H
  <2>1. D \subseteq Nat /\ D # {}
    BY <1>4, ConfigAssumption DEF H
  <2>2. PICK x \in D : \A y \in D : x <= y
    <3> HIDE DEF D
    <3>1. QED
      BY <2>1, LeastElement
  <2>3. PICK t \in H : x = MaxTime - t
    OBVIOUS
  <2>4. ASSUME NEW u \in H PROVE u <= t
    <3>1. MaxTime - t <= MaxTime - u
      BY <2>2, <2>3
    <3>2. t \in Nat /\ u \in Nat
      BY <1>4 DEF H
    <3>3. QED
      BY <3>1, <3>2, ConfigAssumption
  <2>5. QED
    BY <2>4 DEF H
<1>6. now \in Hlcs(f) /\ \A u \in Hlcs(f) : u <= now
  BY <1>5, Zenon
<1>7. now \in 0..MaxTime
  BY <1>4, <1>6
<1>8. ASSUME NEW o \in Upto(B, f.rep.vector) PROVE o.hlc <= now
  <2>1. o \in B /\ o.ctr <= f.rep.vector[o.actor] /\ o.actor \in Devices /\ o.ctr \in Nat /\ o.hlc \in Nat
    BY <1>3 DEF Upto
  <2>2. f.rep.cover[o.actor] \in Nat /\ f.rep.vector[o.actor] \in Nat
    BY <1>2, <2>1 DEF Vector
  <2>3. CASE o.ctr <= f.rep.cover[o.actor]
    <3>1. o \in Upto(B, f.snap.cover)
      BY <1>1, <2>1, <2>3 DEF FileOK, Upto
    <3>2. o.hlc <= f.snap.hlc /\ f.snap.hlc <= now
      BY <1>1, <1>4, <1>6, <3>1 DEF SnapOK, ViewOK
    <3>3. QED
      BY <1>2, <1>7, <2>1, <3>2
  <2>4. CASE o.ctr > f.rep.cover[o.actor]
    <3>1. o.ctr \in f.rep.cover[o.actor] + 1 .. f.rep.vector[o.actor]
      BY <2>1, <2>2, <2>4
    <3>2. o.ctr \in Counters(f.rep.ops, o.actor)
      BY <1>1, <2>1, <3>1 DEF FileOK, HasHistory
    <3>3. PICK p \in f.rep.ops : p.actor = o.actor /\ p.ctr = o.ctr
      BY <3>2 DEF Counters
    <3>4. p = o
      BY <1>2, <2>1, <3>3 DEF BornOK
    <3>5. PICK i \in DOMAIN f.tail : f.tail[i] = o
      BY <1>1, <3>4 DEF FileOK, HasTail
    <3>6. QED
      BY <1>4, <1>6, <3>5
  <2>5. QED
    BY <2>1, <2>2, <2>3, <2>4
<1>9. ViewOK(f.rep.vector, f.rep.view, now, B, T)
  BY <1>1, <1>8, Zenon DEF ViewOK
<1>10. QED
  BY <1>1, <1>7, <1>9 DEF DiskOK

\* OpenDurableReplica after a crash.
LEMMA RestartKeeps ==
  ASSUME SyncInv, NEW d \in Devices, Restart(d)
  PROVE  SyncInv' /\ DiskDone
<1> DEFINE now == CHOOSE t \in Hlcs(disk[d]) : \A u \in Hlcs(disk[d]) : u <= t
<1>1. /\ disk' = [disk EXCEPT ![d].rep = Replay(disk[d])]
      /\ clock' = [clock EXCEPT ![d] = now]
      /\ flow' = [p \in Pairs |-> IF d \in {p[1], p[2]} THEN Idle ELSE flow[p]]
      /\ born' = born /\ acked' = acked
  BY DEF Restart
<1>2. breaks' \in 0..MaxBreaks
  BY SyncAssumption DEF Restart, SyncInv, Rest
<1>3. /\ DiskOK(disk[d], clock[d], born, Top) /\ BornOK(born, Top) /\ disk[d] \in File(born)
      /\ Covers(disk[d].rep.vector, disk[d].rep.vector)
  BY DeviceFacts
<1>4. Replay(disk[d]) = disk[d].rep
  BY <1>3, ReplayFound DEF DiskOK, FileOK
<1>5. [disk[d] EXCEPT !.rep = disk[d].rep] = disk[d]
  BY <1>3 DEF File
<1>6. disk' = [disk EXCEPT ![d] = disk[d]]
  BY <1>1, <1>4, <1>5
<1> HIDE DEF now
<1>7. now \in 0..MaxTime /\ DiskOK(disk[d], now, born, Top)
  BY <1>3, ClockIsRestored DEF now
<1>8. DiskDone
  BY <1>1, <1>3, <1>6, <1>7, QuietStep
<1>9. \A p \in Pairs : flow'[p] = flow[p] \/ flow'[p] = Idle
  BY <1>1
<1>10. flow' = [p \in Pairs |-> flow'[p]]
  BY <1>1
<1>11. QED
  BY <1>1, <1>2, <1>8, <1>9, <1>10, AcksStay, FlowDone

\* The operation an edit signs: the device's next, with its frontier as context.
Signs(d, o) ==
    /\ o \in Op
    /\ o.actor = d
    /\ o.ctr = disk[d].rep.vector[d] + 1
    /\ o.ctx = disk[d].rep.vector
    /\ o.hlc > clock[d]

\* What an edit does.
EditOf(d, o) ==
    /\ Signs(d, o)
    /\ disk' = [disk EXCEPT ![d] = CompactIfNeeded(d, Store(disk[d], o), acked[d], o.hlc)]
    /\ born' = born \cup {o}
    /\ clock' = [clock EXCEPT ![d] = o.hlc]
    /\ UNCHANGED <<acked, flow, breaks>>

\* An edit signs one operation: the shape EditOf of the lemmas below.
LEMMA EditSigns ==
  ASSUME SyncInv, NEW d \in Devices, NEW kind \in Kinds, NEW t \in 1..MaxTime, Edit(d, kind, t)
  PROVE  \E o : EditOf(d, o)
<1>1. PICK c \in 1..MaxOps :
        /\ t > clock[d]
        /\ NextCounter(disk[d].rep, d, c)
        /\ disk' = [disk EXCEPT ![d] = CompactIfNeeded(d, Store(disk[d],
                       [actor |-> d, ctr |-> c, kind |-> kind, hlc |-> t, ctx |-> disk[d].rep.vector]),
                       acked[d], t)]
        /\ born' = born \cup {[actor |-> d, ctr |-> c, kind |-> kind, hlc |-> t, ctx |-> disk[d].rep.vector]}
        /\ clock' = [clock EXCEPT ![d] = t]
        /\ UNCHANGED <<acked, flow, breaks>>
  BY DEF Edit
<1> DEFINE o == [actor |-> d, ctr |-> c, kind |-> kind, hlc |-> t, ctx |-> disk[d].rep.vector]
<1>2. disk[d].rep.vector \in Vector
  BY DeviceFacts
<1>3. disk[d].rep.vector[d] \in Nat
  BY <1>2 DEF Vector
<1>4. o \in Op
  BY <1>2 DEF Op
<1>5. o.actor = d /\ o.ctr = c /\ o.hlc = t /\ o.ctx = disk[d].rep.vector
  OBVIOUS
<1>6. disk[d].rep.vector[d] = c - 1
  BY <1>1 DEF NextCounter
<1>7. Signs(d, o)
  <2> HIDE DEF o
  <2>1. QED
    BY <1>1, <1>3, <1>4, <1>5, <1>6 DEF Signs
<1>8. EditOf(d, o)
  BY <1>1, <1>7 DEF EditOf
<1>9. QED
  BY <1>8

\* The set of signed operations stays good with an edit.
LEMMA EditIsBorn ==
  ASSUME SyncInv, NEW d \in Devices, NEW o, Signs(d, o)
  PROVE  /\ BornOK(born \cup {o}, Moved(Top, o))
         /\ Grows(born, Top, born \cup {o}, Moved(Top, o))
         /\ \A a \in Devices : Moved(Top, o)[a] = IF a = d THEN o.ctr ELSE Top[a]
         /\ \A p \in born : ~Saw(p, o)
<1>1. /\ o \in Op /\ o.actor = d /\ o.ctr = disk[d].rep.vector[d] + 1
      /\ o.ctx = disk[d].rep.vector /\ o.hlc > clock[d]
  BY DEF Signs
<1>2. /\ DiskOK(disk[d], clock[d], born, Top) /\ BornOK(born, Top) /\ disk[d].rep.vector \in Vector
      /\ clock[d] \in Nat
  BY DeviceFacts
<1>3. o.ctr \in 1..MaxOps /\ o.hlc \in Nat /\ Top[d] = disk[d].rep.vector[d]
  BY <1>1 DEF Op, Top
<1>4. Top \in Vector /\ born \subseteq Op
  BY <1>2 DEF BornOK
<1>5. \A a \in Devices : Top[a] \in Nat /\ disk[d].rep.vector[a] \in Nat /\ disk[d].rep.vector[a] <= Top[a]
  BY <1>2, <1>4, ConfigAssumption DEF Vector, DiskOK, ViewOK, Covers
<1>6. \A a \in Devices : Moved(Top, o)[a] = IF a = d THEN o.ctr ELSE Top[a]
  BY <1>1, <1>4 DEF Moved, Vector
<1>7. Moved(Top, o) \in Vector
  BY <1>1, <1>3, <1>4, ConfigAssumption DEF Moved, Vector
<1>8. \A p \in born : p.actor \in Devices /\ p.ctr \in Nat /\ p.hlc \in Nat /\ p.ctx \in Vector
  BY <1>4 DEF Op
<1>9. \A p \in born : \A a \in Devices : p.ctx[a] \in Nat /\ p.ctx[a] <= Top[a]
  BY <1>2, <1>8, ConfigAssumption DEF BornOK, Covers, Vector
<1>10. \A p \in born : p.ctr <= Top[p.actor]
  BY <1>2 DEF BornOK
<1>11. o.ctr = Top[d] + 1
  BY <1>1, <1>3
<1>12. \A p \in born : p.actor = d => p.ctr < o.ctr
  BY <1>5, <1>8, <1>10, <1>11
<1>13. \A a \in Devices : Top[a] <= Moved(Top, o)[a] /\ Moved(Top, o)[a] \in Nat
  BY <1>3, <1>5, <1>6, <1>11
<1>14. Grows(born, Top, born \cup {o}, Moved(Top, o))
  <2>1. Covers(Moved(Top, o), Top)
    BY <1>13 DEF Covers
  <2>2. \A p \in born \cup {o} : p \in born \/ p.ctr > Top[p.actor]
    BY <1>1, <1>5, <1>11
  <2>3. QED
    BY <1>1, <1>4, <1>7, <2>1, <2>2 DEF Grows
<1>15. \A p \in born : ~Saw(p, o)
  BY <1>1, <1>5, <1>9, <1>11 DEF Saw
<1>16. ASSUME NEW p \in born, Saw(o, p) PROVE p.hlc < o.hlc
  <2>1. p \in Upto(born, disk[d].rep.vector)
    BY <1>1, <1>5, <1>8, <1>16 DEF Saw, Upto
  <2>2. p.hlc <= clock[d]
    BY <1>2, <2>1 DEF DiskOK, ViewOK
  <2>3. QED
    BY <1>1, <1>2, <1>3, <1>8, <2>2
<1>17. ~Saw(o, o)
  BY <1>1, <1>3, <1>5 DEF Saw
<1>18. BornOK(born \cup {o}, Moved(Top, o))
  <2>1. \A p, q \in born \cup {o} : p.actor = q.actor /\ p.ctr = q.ctr => p = q
    <3>1. \A p, q \in born : p.actor = q.actor /\ p.ctr = q.ctr => p = q
      BY <1>2 DEF BornOK
    <3>2. \A p \in born : ~(p.actor = o.actor /\ p.ctr = o.ctr)
      BY <1>1, <1>3, <1>8, <1>12
    <3>3. QED
      BY <3>1, <3>2
  <2>2. \A p \in born \cup {o} : p.ctr <= Moved(Top, o)[p.actor]
    <3>1. \A p \in born : p.ctr <= Moved(Top, o)[p.actor]
      BY <1>5, <1>8, <1>10, <1>13
    <3>2. o.ctr <= Moved(Top, o)[o.actor]
      BY <1>1, <1>3, <1>6
    <3>3. QED
      BY <3>1, <3>2
  <2>3. \A p \in born \cup {o} : p.ctx[p.actor] = p.ctr - 1
    <3>1. \A p \in born : p.ctx[p.actor] = p.ctr - 1
      BY <1>2 DEF BornOK
    <3>2. o.ctx[o.actor] = o.ctr - 1
      BY <1>1, <1>3, <1>5
    <3>3. QED
      BY <3>1, <3>2
  <2>4. \A p \in born \cup {o} : Covers(Moved(Top, o), p.ctx)
    <3>1. \A p \in born : Covers(Moved(Top, o), p.ctx)
      BY <1>5, <1>9, <1>13 DEF Covers
    <3>2. Covers(Moved(Top, o), o.ctx)
      BY <1>1, <1>5, <1>13 DEF Covers
    <3>3. QED
      BY <3>1, <3>2
  <2>5. \A p, q \in born \cup {o} : Saw(p, q) => q.hlc < p.hlc
    <3>1. \A p, q \in born : Saw(p, q) => q.hlc < p.hlc
      BY <1>2 DEF BornOK
    <3>2. QED
      BY <1>15, <1>16, <1>17, <3>1
  <2>6. QED
    BY <1>1, <1>4, <1>7, <2>1, <2>2, <2>3, <2>4, <2>5 DEF BornOK
<1>19. QED
  BY <1>6, <1>14, <1>15, <1>18

\* appendPeerConfigMutations.
LEMMA EditKeeps ==
  ASSUME SyncInv, NEW d \in Devices, NEW o, EditOf(d, o)
  PROVE  SyncInv' /\ DiskDone
<1> DEFINE B2 == born \cup {o}
           T2 == Moved(Top, o)
           f  == Store(disk[d], o)
           g  == CompactIfNeeded(d, f, acked[d], o.hlc)
<1>1. /\ Signs(d, o) /\ disk' = [disk EXCEPT ![d] = g] /\ born' = B2
      /\ clock' = [clock EXCEPT ![d] = o.hlc] /\ acked' = acked /\ flow' = flow /\ breaks' = breaks
  BY DEF EditOf
<1>2. /\ BornOK(B2, T2) /\ Grows(born, Top, B2, T2)
      /\ \A a \in Devices : T2[a] = IF a = d THEN o.ctr ELSE Top[a]
  BY <1>1, EditIsBorn
<1>3. /\ DiskOK(disk[d], clock[d], born, Top) /\ disk[d].rep.vector \in Vector /\ clock[d] \in Nat
  BY DeviceFacts
<1>4. /\ o \in B2 /\ o \in Op /\ o.actor = d /\ o.ctr = disk[d].rep.vector[d] + 1 /\ o.hlc > clock[d]
  BY <1>1 DEF Signs
<1>5. o.hlc \in 0..MaxTime /\ o.hlc \in Nat /\ o.ctr \in Nat
  BY <1>4 DEF Op
<1>6. IsFiniteSet(B2)
  BY FS_AddElement DEF SyncInv, Rest
<1> HIDE DEF B2, T2
<1>7. DiskOK(disk[d], clock[d], B2, T2)
  BY <1>2, <1>3, DiskGrows
<1>8. /\ DiskOK(f, o.hlc, B2, T2)
      /\ Covers(f.rep.vector, disk[d].rep.vector)
      /\ o.ctr <= f.rep.vector[o.actor]
  <2>1. o.ctr <= disk[d].rep.vector[o.actor] + 1 /\ clock[d] <= o.hlc /\ o.hlc <= o.hlc
    BY <1>3, <1>4, <1>5
  <2>2. QED
    BY <1>2, <1>3, <1>4, <1>5, <1>7, <2>1, StoreKeeps
<1> HIDE DEF f
<1>9. DiskOK(g, o.hlc, B2, T2) /\ g.rep.vector = f.rep.vector
  BY <1>2, <1>5, <1>8, BoundsKeep
<1> HIDE DEF g
<1>10. Covers(Top', T2)
  <2>1. disk'[d] = g /\ \A a \in Devices : a # d => disk'[a] = disk[a]
    BY <1>1 DEF SyncInv
  <2>2. \A a \in Devices : Top'[a] = disk'[a].rep.vector[a] /\ Top[a] = disk[a].rep.vector[a]
    BY DEF Top
  <2>3. \A a \in Devices : Top[a] \in Nat
    BY DEF SyncInv, BornOK, Vector
  <2>4. \A a \in Devices : T2[a] <= Top'[a]
    <3>1. TAKE a \in Devices
    <3>2. CASE a = d
      BY <1>2, <1>4, <1>8, <1>9, <2>1, <2>2, <3>2
    <3>3. CASE a # d
      BY <1>2, <2>1, <2>2, <2>3, <3>3
    <3>4. QED
      BY <3>2, <3>3
  <2>5. QED
    BY <2>4 DEF Covers
<1>11. Covers(g.rep.vector, disk[d].rep.vector)
  BY <1>8, <1>9
<1>12. DiskDone
  BY <1>1, <1>2, <1>5, <1>6, <1>9, <1>10, <1>11, DiskStep
<1>13. flow' = [p \in Pairs |-> flow'[p]] /\ breaks' \in 0..MaxBreaks /\ \A p \in Pairs : flow'[p] = flow[p]
  BY <1>1 DEF SyncInv, Rest
<1>14. QED
  BY <1>1, <1>12, <1>13, AcksStay, FlowDone

\* Every step keeps the invariant, and no frontier shrinks.
LEMMA NextKeeps ==
  ASSUME SyncInv, Next
  PROVE  SyncInv' /\ DiskDone
<1>1. ASSUME NEW d \in Devices, NEW kind \in Kinds, NEW t \in 1..MaxTime, Edit(d, kind, t)
      PROVE  SyncInv' /\ DiskDone
  BY <1>1, EditSigns, EditKeeps
<1>2. ASSUME NEW p \in Pairs, Transfer(p[1], p[2]) \/ Break(p[1], p[2])
      PROVE  SyncInv' /\ DiskDone
  <2>1. p[1] \in Devices /\ p[2] \in Devices /\ p[1] # p[2]
    BY DEF Pairs
  <2>2. CASE Break(p[1], p[2])
    BY <2>1, <2>2, BreakKeeps
  <2>3. CASE Transfer(p[1], p[2])
    BY <2>1, <2>3, AdvertiseKeeps, HandleInventoryKeeps, ReceiveSnapshotKeeps, ReceiveOpKeeps,
       FinishTransferKeeps, HandleAckKeeps DEF Transfer
  <2>4. QED
    BY <1>2, <2>2, <2>3
<1>3. ASSUME NEW d \in Devices, Restart(d) PROVE SyncInv' /\ DiskDone
  BY <1>3, RestartKeeps
<1>4. QED
  BY <1>1, <1>2, <1>3 DEF Next

-----------------------------------------------------------------------------
(* The theorems *)

\* All files start empty.
LEMMA InitSyncInv == Init => SyncInv
<1> SUFFICES ASSUME Init PROVE SyncInv
  OBVIOUS
<1>1. /\ disk = [d \in Devices |-> FromSnap(NoSnap)] /\ clock = [d \in Devices |-> 0] /\ born = {}
      /\ acked = [d \in Devices |-> [e \in Devices |-> Zero]] /\ flow = [p \in Pairs |-> Idle]
      /\ breaks = 0
  BY DEF Init
<1>2. Zero \in Vector /\ \A a \in Devices : Zero[a] = 0
  BY ConfigAssumption DEF Zero, Vector
<1>3. FromSnap(NoSnap).rep.vector = Zero
  BY DEF FromSnap, Install, NoSnap
<1>4. Top = Zero
  BY <1>1, <1>3, <1>2 DEF Top, Zero
<1>5. BornOK(born, Top)
  BY <1>1, <1>2, <1>4 DEF BornOK
<1>6. SnapOK(NoSnap, born, Top)
  BY <1>5, IdleOK
<1>7. NoSnap \in Snapshot(born) /\ NoSnap.hlc = 0
  BY <1>2, ConfigAssumption DEF NoSnap, Snapshot
<1>8. DiskOK(FromSnap(NoSnap), 0, born, Top)
  BY <1>5, <1>6, <1>7, FromSnapOK
<1>9. \A d \in Devices : disk[d] = FromSnap(NoSnap) /\ clock[d] = 0
  BY <1>1
<1>10. \A d \in Devices : DiskOK(disk[d], clock[d], born, Top)
  BY <1>8, <1>9
<1>11. disk \in [Devices -> File(born)]
  BY <1>1, <1>8 DEF DiskOK
<1>12. \A p \in Pairs : flow[p] = Idle /\ FlowOK(flow[p], disk[p[2]].rep.vector, born, Top)
  BY <1>1, <1>5, IdleOK
<1>13. flow \in [Pairs -> Transfers(born)]
  BY <1>1, <1>5, IdleOK
<1>14. Rest
  BY <1>1, <1>2, ConfigAssumption, SyncAssumption, FS_EmptySet DEF Rest
<1>15. AcksAreDurable
  BY <1>1, <1>2, <1>3, <1>9 DEF AcksAreDurable, Covers
<1>16. QED
  BY <1>5, <1>10, <1>11, <1>12, <1>13, <1>14, <1>15 DEF SyncInv

\* The invariant is inductive.
LEMMA NextSyncInv == SyncInv /\ [Next]_vars => SyncInv'
<1> SUFFICES ASSUME SyncInv, [Next]_vars PROVE SyncInv'
  OBVIOUS
<1>1. CASE Next
  BY <1>1, NextKeeps
<1>2. CASE UNCHANGED vars
  <2>1. UNCHANGED <<disk, clock, born, acked, flow, breaks>> /\ Top' = Top
    BY <1>2 DEF vars, Top
  <2>2. QED
    BY <2>1, Zenon DEF SyncInv, Rest, AcksAreDurable
<1>3. QED
  BY <1>1, <1>2

\* Every reachable state of the exchange satisfies the inductive invariant.
THEOREM SyncInvariance == Spec => []SyncInv
  BY InitSyncInv, NextSyncInv, PTL DEF Spec

\* Every variable keeps its type, nothing is stored, shown or sent that nobody
\* signed, and a record has at most one winner (replica.go, durable.go,
\* anti_entropy.go), for any number of devices, failures and operations.
THEOREM SyncTypeCorrect == Spec => []TypeOK
<1>1. SyncInv => TypeOK
  BY DEF SyncInv, Rest, BornOK, TypeOK, Transfers, DiskOK, ViewOK
<1>2. QED
  BY <1>1, SyncInvariance, PTL

\* A crash between any two steps loses nothing: OpenDurableReplica rebuilds from
\* config-replica.json the very replica that was in use, and never meets a tail
\* token that is a duplicate or compacted.
THEOREM FilesReplay == Spec => []FileReplays
<1>1. SyncInv => FileReplays
  <2> SUFFICES ASSUME SyncInv, NEW d \in Devices
               PROVE  /\ Replay(disk[d]) = disk[d].rep
                      /\ \A i \in DOMAIN disk[d].tail :
                            disk[d].tail[i].ctr > disk[d].rep.cover[disk[d].tail[i].actor]
                      /\ \A i, j \in DOMAIN disk[d].tail : disk[d].tail[i] = disk[d].tail[j] => i = j
    BY DEF FileReplays
  <2>1. disk[d] \in File(born) /\ FileOK(disk[d]) /\ born \subseteq Op
    BY DeviceFacts DEF DiskOK, BornOK
  <2>2. Replay(disk[d]) = disk[d].rep
    BY <2>1, ReplayFound DEF FileOK
  <2>3. ASSUME NEW i \in DOMAIN disk[d].tail
        PROVE  disk[d].tail[i].ctr > disk[d].rep.cover[disk[d].tail[i].actor]
    <3> DEFINE o == disk[d].tail[i]
    <3>1. o \in disk[d].rep.ops /\ disk[d].rep.ops \subseteq born /\ disk[d].rep.cover \in Vector
          /\ disk[d].rep.vector \in Vector
      BY <2>1 DEF FileOK, HasTail, File
    <3> HIDE DEF o
    <3>2. o.actor \in Devices /\ o.ctr \in Nat
      BY <2>1, <3>1 DEF Op
    <3>3. o.ctr \in Counters(disk[d].rep.ops, o.actor)
      BY <3>1 DEF Counters
    <3>4. o.ctr \in disk[d].rep.cover[o.actor] + 1 .. disk[d].rep.vector[o.actor]
      BY <2>1, <3>2, <3>3 DEF FileOK, HasHistory
    <3>5. disk[d].rep.cover[o.actor] \in Nat
      BY <3>1, <3>2 DEF Vector
    <3>6. o.ctr > disk[d].rep.cover[o.actor]
      BY <3>2, <3>4, <3>5
    <3>7. QED
      BY <3>6 DEF o
  <2>4. \A i, j \in DOMAIN disk[d].tail : disk[d].tail[i] = disk[d].tail[j] => i = j
    BY <2>1 DEF FileOK, HasTail
  <2>5. QED
    BY <2>2, <2>3, <2>4
<1>2. QED
  BY <1>1, SyncInvariance, PTL

\* No edit is lost or renumbered and no history has a gap, through compaction,
\* rebasing, lost channels and restarts (Replica.Append, RebaseSnapshot).
THEOREM NoEditIsLost == Spec => []EditsAreKept
<1>1. SyncInv => EditsAreKept
  <2> SUFFICES ASSUME SyncInv PROVE EditsAreKept
    OBVIOUS
  <2>1. BornOK(born, Top)
    BY DEF SyncInv
  <2>2. \A o \in born : o.actor \in Devices /\ Top[o.actor] = disk[o.actor].rep.vector[o.actor]
    BY <2>1 DEF BornOK, Op, Top
  <2>3. \A o \in born : o.ctr <= disk[o.actor].rep.vector[o.actor]
    BY <2>1, <2>2 DEF BornOK
  <2>4. \A o, p \in born : o.actor = p.actor /\ o.ctr = p.ctr => o = p
    BY <2>1 DEF BornOK
  <2>5. \A d, a \in Devices :
           Counters(disk[d].rep.ops, a) = disk[d].rep.cover[a] + 1 .. disk[d].rep.vector[a]
    BY DEF SyncInv, DiskOK, FileOK, HasHistory
  <2>6. QED
    BY <2>3, <2>4, <2>5 DEF EditsAreKept
<1>2. QED
  BY <1>1, SyncInvariance, PTL

\* What RecordConfigExchange keeps as acknowledged is durable at the other device,
\* so a tombstone is pruned only on the strength of files that cover it.
THEOREM AcksDurable == Spec => []AcksAreDurable
<1>1. SyncInv => AcksAreDurable
  BY DEF SyncInv
<1>2. QED
  BY <1>1, SyncInvariance, PTL

\* Where no delete is covered, a device shows the latest of the edits its frontier
\* covers, although it has met some of them only inside a snapshot.
THEOREM LatestIsShown == Spec => []ShowsTheLatest
<1>1. SyncInv => ShowsTheLatest
  <2> SUFFICES ASSUME SyncInv, NEW d \in Devices, \A o \in Seen(d) : o.kind = "set"
               PROVE  Shown(d) = {o \in Seen(d) : \A p \in Seen(d) \ {o} : Later(o, p)}
    BY DEF ShowsTheLatest
  <2> DEFINE S == Seen(d)
             view == disk[d].rep.view
  <2>1. ViewOK(disk[d].rep.vector, view, clock[d], born, Top) /\ born \subseteq Op
    BY DeviceFacts DEF DiskOK, BornOK
  <2>2. S = Upto(born, disk[d].rep.vector)
    BY DEF Seen, Upto
  <2>3. OnlySets(S) /\ S \subseteq born
    BY DEF OnlySets, Seen
  <2>4. ShowsLatest(view, S) /\ view \subseteq S
    BY <2>1, <2>2, <2>3 DEF ViewOK
  <2>5. Shown(d) = view
    BY <2>3, <2>4 DEF Shown, OnlySets
  <2>6. \A o \in S : o.hlc \in Nat /\ o.actor \in Nat
    BY <2>1, <2>3, ConfigAssumption DEF Op, Devices
  <2>7. view = {o \in S : \A p \in S \ {o} : Later(o, p)}
    <3> HIDE DEF S, view
    <3>1. CASE S = {} /\ view = {}
      BY <3>1
    <3>2. ASSUME NEW w \in S, view = {w}, \A p \in S : p # w => Later(w, p)
          PROVE  view = {o \in S : \A p \in S \ {o} : Later(o, p)}
      <4>1. ASSUME NEW o \in S, \A p \in S \ {o} : Later(o, p) PROVE o = w
        <5>1. SUFFICES ASSUME o # w PROVE FALSE
          OBVIOUS
        <5>2. Later(o, w) /\ Later(w, o)
          BY <3>2, <4>1, <5>1
        <5>3. QED
          BY <2>6, <5>2 DEF Later
      <4>2. QED
        BY <3>2, <4>1
    <3>3. QED
      BY <2>4, <3>1, <3>2 DEF ShowsLatest
  <2>8. QED
    BY <2>5, <2>7
<1>2. QED
  BY <1>1, SyncInvariance, PTL

\* stableConfigVector never passes what another member has acknowledged.
LEMMA StableIsAcked ==
  ASSUME NEW d \in Devices, NEW f, f.rep.vector \in Vector, NEW acks \in [Devices -> Vector],
         NEW e \in Devices, e # d, NEW a \in Devices
  PROVE  Stable(d, f, acks)[a] \in Nat /\ Stable(d, f, acks)[a] <= acks[e][a]
<1> DEFINE v == f.rep.vector[a]
           S == {v} \cup {acks[b][a] : b \in Devices \ {d}}
           Fits(n) == /\ \A b \in Devices \ {d} : n <= acks[b][a]
                      /\ n = v \/ \E b \in Devices \ {d} : n = acks[b][a]
<1>1. v \in Nat /\ \A b \in Devices : acks[b][a] \in Nat
  BY DEF Vector
<1> HIDE DEF v
<1>2. S \subseteq Nat /\ S # {}
  BY <1>1
<1>3. PICK x \in S : \A y \in S : x <= y
  <2> HIDE DEF S
  <2>1. QED
    BY <1>2, LeastElement
<1>4. x \in 0..v
  BY <1>1, <1>2, <1>3
<1>5. Fits(x)
  BY <1>3
<1>6. Stable(d, f, acks)[a] = CHOOSE n \in 0..v : Fits(n)
  BY DEF Stable, v
<1> HIDE DEF Fits
<1>7. Fits(Stable(d, f, acks)[a]) /\ Stable(d, f, acks)[a] \in 0..v
  BY <1>4, <1>5, <1>6
<1>8. QED
  BY <1>1, <1>7 DEF Fits

\* An edit is on show where it was made, and its tombstone is not pruned before
\* the other members have it.
LEMMA EditIsShown ==
  ASSUME SyncInv, NEW d \in Devices, NEW o, EditOf(d, o)
  PROVE  \/ disk'[d].rep.view = {o}
         \/ Devices = {d} /\ o.kind = "delete" /\ disk'[d].rep.view = {}
<1> DEFINE f == Store(disk[d], o)
           s == Stable(d, f, acked[d])
           g == CompactIfNeeded(d, f, acked[d], o.hlc)
<1>1. Signs(d, o) /\ disk'[d] = g
  BY DEF EditOf, SyncInv
<1>2. /\ BornOK(born \cup {o}, Moved(Top, o)) /\ Grows(born, Top, born \cup {o}, Moved(Top, o))
      /\ \A p \in born : ~Saw(p, o)
  BY <1>1, EditIsBorn
<1>3. /\ DiskOK(disk[d], clock[d], born, Top) /\ disk[d] \in File(born) /\ disk[d].rep.vector \in Vector
  BY DeviceFacts
<1>4. /\ o.actor = d /\ o \in Op /\ o.ctr = disk[d].rep.vector[d] + 1 /\ o.ctx = disk[d].rep.vector
  BY <1>1 DEF Signs
<1>5. /\ ~Known(disk[d].rep, o)
      /\ Apply(disk[d].rep, o) = [ops |-> disk[d].rep.ops \cup {o}, cover |-> disk[d].rep.cover,
                                  vector |-> Moved(disk[d].rep.vector, o),
                                  view |-> Winner(disk[d].rep.view, o)]
      /\ Moved(disk[d].rep.vector, o) \in Vector
  <2>1. born \cup {o} \subseteq Op /\ disk[d] \in File(born \cup {o}) /\ FileOK(disk[d])
    BY <1>2, <1>3, TypesGrow DEF BornOK, DiskOK
  <2>2. QED
    BY <1>4, <2>1, ApplyNext
<1>6. Winner(disk[d].rep.view, o) = {o}
  <2>1. ASSUME NEW p \in disk[d].rep.view PROVE OperationWins(o, p)
    <3>1. p \in born /\ p.ctr <= disk[d].rep.vector[p.actor] /\ born \subseteq Op
      BY <1>3 DEF DiskOK, ViewOK, Upto, SyncInv, BornOK
    <3>2. p.actor \in Devices /\ p.ctr \in Nat /\ disk[d].rep.vector[p.actor] \in Nat
      BY <1>3, <3>1 DEF Op, Vector
    <3>3. Saw(o, p) /\ ~Saw(p, o)
      BY <1>2, <1>4, <3>1, <3>2 DEF Saw
    <3>4. QED
      BY <3>3 DEF OperationWins
  <2>2. QED
    BY <2>1 DEF Winner
<1>7. f.rep = Apply(disk[d].rep, o)
  BY <1>5 DEF Store
<1> HIDE DEF f
<1>8. f.rep.view = {o} /\ f.rep.vector \in Vector
  BY <1>5, <1>6, <1>7
<1>9. g = f \/ g.rep.view = {o} \ Prunable(f, s)
  <2>1. g = f \/ g = FromSnap(Signed(d, f, s, o.hlc))
    BY Zenon DEF CompactIfNeeded
  <2>2. FromSnap(Signed(d, f, s, o.hlc)).rep.view = f.rep.view \ Prunable(f, s)
    BY DEF FromSnap, Install, Signed
  <2>3. QED
    BY <1>8, <2>1, <2>2
<1>10. Prunable(f, s) = {} \/ (Prunable(f, s) = {o} /\ o.kind = "delete" /\ s[d] >= o.ctr)
  BY <1>4, <1>8 DEF Prunable
<1> HIDE DEF g
<1>11. ASSUME NEW e \in Devices, e # d PROVE ~(s[d] >= o.ctr)
  <2>1. acked[d] \in [Devices -> Vector] /\ acked[d][e] \in Vector
    BY DEF SyncInv, Rest
  <2>2. s[d] \in Nat /\ s[d] <= acked[d][e][d]
    BY <1>8, <1>11, <2>1, StableIsAcked
  <2>3. acked[d][e][d] <= disk[e].rep.vector[d]
    BY <1>11 DEF SyncInv, AcksAreDurable, Covers
  <2>4. disk[e].rep.vector[d] <= Top[d] /\ disk[e].rep.vector \in Vector
    BY DeviceFacts DEF DiskOK, ViewOK, Covers
  <2>5. /\ acked[d][e][d] \in Nat /\ disk[e].rep.vector[d] \in Nat /\ disk[d].rep.vector[d] \in Nat
        /\ Top[d] = disk[d].rep.vector[d]
    BY <1>3, <2>1, <2>4 DEF Vector, Top
  <2>6. QED
    BY <1>4, <2>2, <2>3, <2>4, <2>5
<1>12. CASE Devices = {d}
  BY <1>1, <1>8, <1>9, <1>10, <1>12
<1>13. CASE Devices # {d}
  <2>1. PICK e \in Devices : e # d
    BY <1>13
  <2>2. Prunable(f, s) = {}
    BY <1>10, <1>11, <2>1
  <2>3. QED
    BY <1>1, <1>8, <1>9, <2>2
<1>14. QED
  BY <1>12, <1>13

\* Frontiers never shrink and an edit shows where it is made: what a reader of the
\* configuration on one device can rely on while AppendEncrypted, compaction,
\* RebaseSnapshot and OpenDurableReplica run.
THEOREM EditsHold == Spec => EditsTakeHold
<1> DEFINE Hold == /\ \A d \in Devices : Covers(disk'[d].rep.vector, disk[d].rep.vector)
                   /\ \A o \in born' \ born :
                         \/ disk'[o.actor].rep.view = {o}
                         \/ Devices = {o.actor} /\ o.kind = "delete" /\ disk'[o.actor].rep.view = {}
<1>1. SyncInv /\ [Next]_vars => [Hold]_vars
  <2> SUFFICES ASSUME SyncInv, Next PROVE Hold
    OBVIOUS
  <2>1. \A d \in Devices : Covers(disk'[d].rep.vector, disk[d].rep.vector)
    BY NextKeeps DEF DiskDone
  <2>2. born' = born \/ \E d \in Devices : \E o : EditOf(d, o)
    <3>1. ASSUME NEW p \in Pairs, Transfer(p[1], p[2]) \/ Break(p[1], p[2]) PROVE born' = born
      BY <3>1 DEF Transfer, Break, Advertise, HandleInventory, ReceiveSnapshot, ReceiveOp,
                  FinishTransfer, HandleAck
    <3>2. ASSUME NEW d \in Devices, Restart(d) PROVE born' = born
      BY <3>2 DEF Restart
    <3>3. QED
      BY <3>1, <3>2, EditSigns DEF Next
  <2>3. CASE born' = born
    BY <2>1, <2>3
  <2>4. ASSUME NEW d \in Devices, NEW o, EditOf(d, o) PROVE Hold
    <3>1. born' = born \cup {o} /\ o.actor = d
      BY <2>4 DEF EditOf, Signs
    <3>2. \/ disk'[d].rep.view = {o}
          \/ Devices = {d} /\ o.kind = "delete" /\ disk'[d].rep.view = {}
      BY <2>4, EditIsShown
    <3>3. QED
      BY <2>1, <3>1, <3>2
  <2>5. QED
    BY <2>2, <2>3, <2>4
<1>2. QED
  BY <1>1, SyncInvariance, PTL DEF Spec, EditsTakeHold
=============================================================================
