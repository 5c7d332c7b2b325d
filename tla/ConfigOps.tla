------------------------------ MODULE ConfigOps ------------------------------
(***************************************************************************)
(* The pure part of internal/configsync: signed operations, version         *)
(* vectors, the winner of two operations on a record, and what storing an   *)
(* operation does to a replica (replica.go, vector.go, clock.go).           *)
(*                                                                          *)
(* Devices are 1..N, in the order of their peer ids.  All operations are on *)
(* one record of the supported schema; a payload is the operation itself.   *)
(* An HLC timestamp is a number: Tick returns any value above the last one  *)
(* the device issued or observed, which stands for every wall clock within  *)
(* the skew limit.                                                          *)
(***************************************************************************)
EXTENDS Integers, FiniteSets, Sequences

CONSTANTS
    N,         \* devices of the Peer Space
    Kinds,     \* the mutations in the run: a subset of {"set", "delete"}
    MaxOps,    \* bound: operations one device appends
    MaxTime    \* bound: HLC values

ASSUME ConfigAssumption ==
    /\ N \in Nat \ {0} /\ MaxOps \in Nat /\ MaxTime \in Nat
    /\ Kinds \subseteq {"set", "delete"}

Devices == 1..N
Vector  == [Devices -> 0..MaxOps]
Zero    == [a \in Devices |-> 0]

\* VersionVector.Covers and Merge.
Covers(v, w) == \A a \in Devices : w[a] <= v[a]
Merge(v, w)  == [a \in Devices |-> IF w[a] > v[a] THEN w[a] ELSE v[a]]

Op == [actor : Devices, ctr : 1..MaxOps, kind : Kinds, hlc : 1..MaxTime, ctx : Vector]

Saw(o, p)   == o.ctx[p.actor] >= p.ctr
Later(o, p) == o.hlc > p.hlc \/ (o.hlc = p.hlc /\ o.actor > p.actor)

\* operationWins: causality first; concurrent operations by remove-wins, then
\* by HLC and actor.  One actor's HLCs differ, so op ids are never compared.
OperationWins(o, p) ==
    \/ Saw(o, p) /\ ~Saw(p, o)
    \/ /\ Saw(o, p) <=> Saw(p, o)
       /\ IF o.kind # p.kind THEN o.kind = "delete" ELSE Later(o, p)

-----------------------------------------------------------------------------
(* A replica: the operations stored above the compaction boundary, that      *)
(* boundary, the contiguous frontier, and the record's winner (at most one).  *)

EmptyReplica == [ops |-> {}, cover |-> Zero, vector |-> Zero, view |-> {}]

Counters(ops, a) == {o.ctr : o \in {p \in ops : p.actor = a}}

\* maxCounters[a] + 1, for the next local operation.
IsNextCounter(r, a, c) ==
    /\ c > r.cover[a]
    /\ \A k \in Counters(r.ops, a) : k < c
    /\ c = r.cover[a] + 1 \/ c - 1 \in Counters(r.ops, a)

\* Mutant: the frontier jumps to the counter just stored.
FrontierJumps(have, from) == CHOOSE n \in have : \A k \in have : k <= n

\* The loop that advances vector[actor] over the counters that are stored.
Frontier(have, from) ==
    CHOOSE n \in from..MaxOps : /\ n + 1 \notin have
                                /\ \A k \in from + 1..n : k \in have

\* Compacted, duplicate, or a fork of a stored operation: Apply changes nothing.
Known(r, o) == o.ctr <= r.cover[o.actor] \/ \E p \in r.ops : p.actor = o.actor /\ p.ctr = o.ctr

\* Mutant: the newest arrival is materialized.
ApplyLastWriter(r, o) ==
    IF Known(r, o) THEN r
    ELSE LET ops == r.ops \cup {o}
         IN  [ops |-> ops, cover |-> r.cover, view |-> {o},
              vector |-> [r.vector EXCEPT ![o.actor] = Frontier(Counters(ops, o.actor), @)]]

\* Mutant: the operation that loses its record stays in the view.
ApplyKeepsLoser(r, o) ==
    IF Known(r, o) THEN r
    ELSE LET ops == r.ops \cup {o}
         IN  [ops |-> ops, cover |-> r.cover, view |-> r.view \cup {o},
              vector |-> [r.vector EXCEPT ![o.actor] = Frontier(Counters(ops, o.actor), @)]]

\* Replica.Apply.
Apply(r, o) ==
    IF Known(r, o) THEN r
    ELSE LET ops == r.ops \cup {o}
         IN  [ops    |-> ops,
              cover  |-> r.cover,
              vector |-> [r.vector EXCEPT ![o.actor] = Frontier(Counters(ops, o.actor), @)],
              view   |-> IF \A p \in r.view : OperationWins(o, p) THEN {o} ELSE r.view]

Later2(x, y) == IF x > y THEN x ELSE y
=============================================================================
