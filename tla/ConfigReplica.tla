---------------------------- MODULE ConfigReplica ----------------------------
(***************************************************************************)
(* The replicas of a Peer Space (internal/configsync/replica.go): every     *)
(* device appends operations of its own and applies those of the others in  *)
(* any order, any number of times - what TestReplicaConvergesUnderShuffled- *)
(* DuplicateDelivery puts them through.  Nothing is compacted here.         *)
(***************************************************************************)
EXTENDS ConfigOps

VARIABLES
    rep,    \* each device's Replica
    clock,  \* the last HLC value each device issued or observed
    born    \* every operation ever signed

vars == <<rep, clock, born>>

Init ==
    /\ rep = [d \in Devices |-> EmptyReplica]
    /\ clock = [d \in Devices |-> 0]
    /\ born = {}

\* Mutant: the operation is handed out before it is stored.
AppendUnstored(d, kind, t) ==
    \E c \in 1..MaxOps :
        /\ t > clock[d]
        /\ IsNextCounter(rep[d], d, c) /\ rep[d].vector[d] = c - 1
        /\ born' = born \cup {[actor |-> d, ctr |-> c, kind |-> kind, hlc |-> t, ctx |-> rep[d].vector]}
        /\ clock' = [clock EXCEPT ![d] = t]
        /\ rep' = rep

\* Replica.Append (and AppendEncrypted): the next counter, the frontier as
\* causal context, a clock tick; refused unless the own history is contiguous.
AppendOp(d, kind, t) ==
    \E c \in 1..MaxOps :
        /\ t > clock[d]
        /\ IsNextCounter(rep[d], d, c) /\ rep[d].vector[d] = c - 1
        /\ LET o == [actor |-> d, ctr |-> c, kind |-> kind, hlc |-> t, ctx |-> rep[d].vector]
           IN  /\ rep' = [rep EXCEPT ![d] = Apply(@, o)]
               /\ born' = born \cup {o}
        /\ clock' = [clock EXCEPT ![d] = t]

\* Replica.Apply of an operation that arrives, again or for the first time.
Deliver(d, o) ==
    /\ rep' = [rep EXCEPT ![d] = Apply(@, o)]
    /\ clock' = [clock EXCEPT ![d] = IF Known(rep[d], o) THEN @ ELSE Later2(@, o.hlc)]
    /\ born' = born

Next ==
    \E d \in Devices : \/ \E kind \in Kinds, t \in 1..MaxTime : AppendOp(d, kind, t)
                       \/ \E o \in born : Deliver(d, o)

Spec == Init /\ [][Next]_vars

-----------------------------------------------------------------------------
(* Properties *)

\* Every variable keeps its type, and a record has at most one winner.
TypeOK ==
    /\ born \subseteq Op
    /\ clock \in [Devices -> 0..MaxTime]
    /\ rep \in [Devices -> [ops : SUBSET Op, cover : Vector, vector : Vector, view : SUBSET Op]]
    /\ \A d \in Devices : \A o, p \in rep[d].view : o = p

\* A counter of a device names one operation for ever (ErrCounterFork is never
\* raised between honest devices), and a device never loses its own operations.
CountersAreUnique ==
    /\ \A o, p \in born : o.actor = p.actor /\ o.ctr = p.ctr => o = p
    /\ \A o \in born : o \in rep[o.actor].ops

\* The frontier a device advertises and signs into its operations is honest: it
\* has every operation up to it and lacks the next one, in whatever order they
\* arrived.
FrontierIsExact ==
    \A d, a \in Devices :
        /\ \A k \in 1..rep[d].vector[a] : k \in Counters(rep[d].ops, a)
        /\ rep[d].vector[a] + 1 \notin Counters(rep[d].ops, a)

\* Two replicas that hold the same operations show the same record.
Converged == \A d, e \in Devices : rep[d].ops = rep[e].ops => rep[d].view = rep[e].view

OnlySets(ops) == \A o \in ops : o.kind = "set"

\* ... and they do, in whatever order the operations came, as long as no delete
\* is among them.
EditsConverged ==
    \A d, e \in Devices :
        rep[d].ops = rep[e].ops /\ OnlySets(rep[d].ops) => rep[d].view = rep[e].view
=============================================================================
