----------------------------- MODULE ConfigSync -----------------------------
(***************************************************************************)
(* The durable config replicas of a Peer Space and the exchange between     *)
(* them: local edits, the file with its signed snapshot and operation tail, *)
(* compaction and tombstone pruning, and one anti-entropy channel per pair  *)
(* (internal/configsync/durable.go, snapshot.go, anti_entropy.go;           *)
(* desktop/peer_config_channel.go, peer_config_sync.go and                  *)
(* peer_config_replica.go; internal/peerstore/store.go).                    *)
(*                                                                          *)
(* A token is one batch.  A channel is authenticated, ordered and closed by *)
(* the first handler error; what was in flight on it is lost.  Every member *)
(* stays active.                                                            *)
(***************************************************************************)
EXTENDS ConfigOps, SequencesExt

CONSTANTS
    TailBound,   \* peerConfigCompactTailOperations
    MaxBreaks,   \* bound: channel losses and restarts
    MaxOpen      \* bound: transfers under way at once

ASSUME SyncAssumption ==
    TailBound \in Nat \ {0} /\ MaxBreaks \in Nat /\ MaxOpen \in Nat \ {0}

VARIABLES
    disk,    \* the config-replica.json of each device, with the Replica built from it
    clock,   \* the last HLC value each device issued or observed
    born,    \* every operation ever signed
    acked,   \* acked[d][e]: what e has acknowledged to d (ConfigSyncPeers[e].Acknowledged)
    flow,    \* flow[<<e, d>>]: the transfer from e to d
    breaks

vars == <<disk, clock, born, acked, flow, breaks>>

Pairs == {p \in Devices \X Devices : p[1] # p[2]}

\* A signed Snapshot; the cover vector and the creator stand for its token, and
\* its HLC is the creator's clock, since it is only ever observed.
Snapshot(ops) == [by : 0..N, cover : Vector, view : SUBSET ops, hlc : 0..MaxTime]
NoSnap   == [by |-> 0, cover |-> Zero, view |-> {}, hlc |-> 0]
Idle     == [phase |-> "idle", vec |-> Zero, snap |-> NoSnap, ops |-> <<>>]

\* InstallSnapshot on an empty replica, and buildReplica from the file.
Install(s) == [ops |-> {}, cover |-> s.cover, vector |-> s.cover, view |-> s.view]
Replay(f)  ==
    LET after[k \in 0..Len(f.tail)] ==
            IF k = 0 THEN Install(f.snap) ELSE Apply(after[k - 1], f.tail[k])
    IN  after[Len(f.tail)]
FromSnap(s) == [rep |-> Install(s), tail |-> <<>>, snap |-> s]

\* A device's file with its replica, whose operations are all in ops.
File(ops) == [rep  : [ops : SUBSET ops, cover : Vector, vector : Vector, view : SUBSET ops],
              tail : Seq(ops),
              snap : Snapshot(ops)]

\* Mutant: the token is appended whether or not it was stored.
StoreAlways(f, o) == [rep |-> Apply(f.rep, o), tail |-> Append(f.tail, o), snap |-> f.snap]

\* DurableReplica.Apply: the tail grows only by operations that were stored.
Store(f, o) ==
    IF Known(f.rep, o) THEN f
    ELSE [rep |-> Apply(f.rep, o), tail |-> Append(f.tail, o), snap |-> f.snap]

Init ==
    /\ disk = [d \in Devices |-> FromSnap(NoSnap)]
    /\ clock = [d \in Devices |-> 0]
    /\ born = {}
    /\ acked = [d \in Devices |-> [e \in Devices |-> Zero]]
    /\ flow = [p \in Pairs |-> Idle]
    /\ breaks = 0

-----------------------------------------------------------------------------
(* Compaction *)

\* stableConfigVector: the own frontier, lowered to what every other member has
\* acknowledged to d.
Stable(d, f, acks) ==
    [a \in Devices |->
        CHOOSE n \in 0..f.rep.vector[a] :
            /\ \A e \in Devices \ {d} : n <= acks[e][a]
            /\ n = f.rep.vector[a] \/ \E e \in Devices \ {d} : n = acks[e][a]]

Prunable(f, stable) == {o \in f.rep.view : o.kind = "delete" /\ stable[o.actor] >= o.ctr}

\* Mutant: the snapshot forgets the winners another device wrote.
SignedOwn(d, f, stable, now) ==
    [by |-> d, cover |-> f.rep.vector, view |-> {o \in f.rep.view : o.actor = d}, hlc |-> now]

\* signSnapshot: the winners, without the prunable tombstones.
Signed(d, f, stable, now) ==
    [by |-> d, cover |-> f.rep.vector, view |-> f.rep.view \ Prunable(f, stable), hlc |-> now]

\* signSnapshot refuses a history with gaps, and VerifySnapshot (in buildReplica)
\* a winner whose causal context the cover vector does not cover.
CanSign(f, stable) ==
    /\ \A o \in f.rep.ops : o.ctr <= f.rep.vector[o.actor]
    /\ \A o \in f.rep.view \ Prunable(f, stable) : Covers(f.rep.vector, o.ctx)

\* compactIfNeeded and pruneStableTombstones share CompactForBounds; each is a
\* no-op, a compaction, or an error that leaves the file as it was.
TailIsFull(f) == Len(f.tail) >= TailBound
CompactIfNeeded(d, f, acks, now) ==
    LET stable == Stable(d, f, acks)
    IN  IF TailIsFull(f) /\ CanSign(f, stable) THEN FromSnap(Signed(d, f, stable, now)) ELSE f
CompactFails(d, f, acks) == TailIsFull(f) /\ ~CanSign(f, Stable(d, f, acks))
Prune(d, f, acks, now) ==
    LET stable == Stable(d, f, acks)
    IN  IF Prunable(f, stable) # {} /\ CanSign(f, stable)
        THEN FromSnap(Signed(d, f, stable, now)) ELSE f
PruneFails(d, f, acks) ==
    LET stable == Stable(d, f, acks) IN Prunable(f, stable) # {} /\ ~CanSign(f, stable)

-----------------------------------------------------------------------------
(* Local edits *)

\* Mutant: the next counter is taken from the tail, which compaction empties.
NextFromTail(r, d, c) == c = Cardinality(Counters(r.ops, d)) + 1

NextCounter(r, d, c) == IsNextCounter(r, d, c) /\ r.vector[d] = c - 1

\* appendPeerConfigMutations: AppendEncrypted, then compactIfNeeded.  A record is
\* deleted only while it is shown (PlanRecordReplacement).
Edit(d, kind, t) ==
    \E c \in 1..MaxOps :
        /\ t > clock[d]
        /\ NextCounter(disk[d].rep, d, c)
        /\ kind = "delete" => \E o \in disk[d].rep.view : o.kind = "set"
        /\ LET o == [actor |-> d, ctr |-> c, kind |-> kind, hlc |-> t, ctx |-> disk[d].rep.vector]
           IN  /\ disk' = [disk EXCEPT ![d] = CompactIfNeeded(d, Store(@, o), acked[d], t)]
               /\ born' = born \cup {o}
        /\ clock' = [clock EXCEPT ![d] = t]
        /\ UNCHANGED <<acked, flow, breaks>>

-----------------------------------------------------------------------------
(* The exchange: d's inventory, e's plan, its items, the final ack *)

\* A handler error closes the channel between d and e.
Closed(d, e) == [flow EXCEPT ![<<d, e>>] = Idle, ![<<e, d>>] = Idle]

\* Start: d advertises its durable frontier to e.
Advertise(e, d) ==
    /\ flow[<<e, d>>].phase = "idle"
    /\ Cardinality({p \in Pairs : flow[p].phase # "idle"}) < MaxOpen
    /\ flow' = [flow EXCEPT ![<<e, d>>] = [Idle EXCEPT !.phase = "inventory",
                                                       !.vec = disk[d].rep.vector]]
    /\ UNCHANGED <<disk, clock, born, acked, breaks>>

ByActorAndCounter(o, p) == o.actor < p.actor \/ (o.actor = p.actor /\ o.ctr < p.ctr)

\* Mutant: an operation just above the remote frontier is left out.
MissingLate(ops, vec) == {o \in ops : o.ctr > vec[o.actor] + 1}

\* MissingTokens, and the one sequence it sorts them into (in a set).
Missing(ops, vec) == {o \in ops : o.ctr > vec[o.actor]}
Sorted(ops) ==
    {s \in SetToSeqs(ops) : \A i, j \in DOMAIN s : i < j => ByActorAndCounter(s[i], s[j])}

\* StateForPeer: the snapshot and the whole tail for a peer behind the compaction
\* boundary, the missing tail for any other.  It is the one member of this set.
StateForPeer(f, vec) ==
    IF f.snap # NoSnap /\ ~Covers(vec, f.rep.cover)
    THEN {[phase |-> "sending", vec |-> vec, snap |-> f.snap, ops |-> f.tail]}
    ELSE {[phase |-> "sending", vec |-> vec, snap |-> NoSnap, ops |-> s] :
             s \in Sorted(Missing(f.rep.ops, vec))}

\* validateAntiEntropySyncState: from the snapshot, or else from the remote
\* frontier, every actor's operations lead without a gap to the sender's frontier.
PlanIsValid(f, plan) ==
    LET base     == IF plan.snap # NoSnap THEN plan.snap.cover ELSE plan.vec
        count(a, k) == Cardinality({i \in 1..k : plan.ops[i].actor = a})
    IN  /\ plan.snap # NoSnap => Covers(base, plan.vec)
        /\ \A k \in DOMAIN plan.ops :
              LET o == plan.ops[k]
              IN  /\ o.ctr = base[o.actor] + count(o.actor, k)
                  /\ Covers(f.rep.vector, o.ctx)
        /\ \A a \in Devices :
              f.rep.vector[a] > base[a] => f.rep.vector[a] = base[a] + count(a, Len(plan.ops))

\* Mutant: e takes its own frontier for acknowledged when it starts to send.
HandleInventoryOptimist(e, d) ==
    /\ flow[<<e, d>>].phase = "inventory"
    /\ \E plan \in StateForPeer(disk[e], flow[<<e, d>>].vec) :
          flow' = IF PlanIsValid(disk[e], plan) THEN [flow EXCEPT ![<<e, d>>] = plan]
                  ELSE Closed(d, e)
    /\ acked' = [acked EXCEPT ![e][d] = Merge(@, disk[e].rep.vector)]
    /\ UNCHANGED <<disk, clock, born, breaks>>

\* handleInventory: plan the transfer from the state of this moment.
HandleInventory(e, d) ==
    /\ flow[<<e, d>>].phase = "inventory"
    /\ \E plan \in StateForPeer(disk[e], flow[<<e, d>>].vec) :
          flow' = IF PlanIsValid(disk[e], plan) THEN [flow EXCEPT ![<<e, d>>] = plan]
                  ELSE Closed(d, e)
    /\ UNCHANGED <<disk, clock, born, acked, breaks>>

\* RebaseSnapshot refuses a snapshot that does not cover what d already has.
MayRebase(f, s) == Covers(s.cover, f.rep.vector)

\* persistSnapshot.  The snapshot d already has changes nothing.
ReceiveSnapshot(e, d) ==
    LET s == flow[<<e, d>>].snap
    IN  /\ flow[<<e, d>>].phase = "sending" /\ s # NoSnap
        /\ IF disk[d].snap = s \/ MayRebase(disk[d], s)
           THEN /\ disk' = [disk EXCEPT ![d] = IF @.snap = s THEN @ ELSE FromSnap(s)]
                /\ clock' = [clock EXCEPT ![d] = IF disk[d].snap = s THEN @ ELSE Later2(@, s.hlc)]
                /\ flow' = [flow EXCEPT ![<<e, d>>].snap = NoSnap]
           ELSE /\ flow' = Closed(d, e)
                /\ UNCHANGED <<disk, clock>>
        /\ UNCHANGED <<born, acked, breaks>>

\* AntiEntropyAssembler.Add takes the batch at the expected cursor only.
NextItem(k) == k = 1

\* persistPending of an operation: Apply, then compactIfNeeded, whose failure is a
\* handler error after the operation has been stored.
ReceiveOp(e, d) ==
    /\ flow[<<e, d>>].phase = "sending" /\ flow[<<e, d>>].snap = NoSnap
    /\ \E k \in DOMAIN flow[<<e, d>>].ops :
          LET o == flow[<<e, d>>].ops[k]
              f == Store(disk[d], o)
              now == IF f = disk[d] THEN clock[d] ELSE Later2(clock[d], o.hlc)
          IN  /\ NextItem(k)
              /\ disk' = [disk EXCEPT ![d] = CompactIfNeeded(d, f, acked[d], now)]
              /\ clock' = [clock EXCEPT ![d] = now]
              /\ flow' = IF CompactFails(d, f, acked[d]) THEN Closed(d, e)
                         ELSE [flow EXCEPT ![<<e, d>>].ops = RemoveAt(@, k)]
    /\ UNCHANGED <<born, acked, breaks>>

\* The acknowledgement of a whole transfer: d's durable frontier.
FinalAck(d) == [Idle EXCEPT !.phase = "acked", !.vec = disk[d].rep.vector]

\* handleBatch after the last item: the ack is sent, then recordExchange(nil)
\* prunes d's tombstones, whose failure closes the channel; e may still read the
\* ack that was sent before.
FinishTransfer(e, d) ==
    /\ flow[<<e, d>>].phase = "sending" /\ flow[<<e, d>>].snap = NoSnap
    /\ flow[<<e, d>>].ops = <<>>
    /\ disk' = [disk EXCEPT ![d] = Prune(d, @, acked[d], clock[d])]
    /\ flow' \in IF PruneFails(d, disk[d], acked[d])
                 THEN {Closed(d, e), [Closed(d, e) EXCEPT ![<<e, d>>] = FinalAck(d)]}
                 ELSE {[flow EXCEPT ![<<e, d>>] = FinalAck(d)]}
    /\ UNCHANGED <<clock, born, acked, breaks>>

\* handleAck of the final ack: RecordConfigExchange, then e's tombstones.
HandleAck(e, d) ==
    LET acks == [acked[e] EXCEPT ![d] = Merge(@, flow[<<e, d>>].vec)]
    IN  /\ flow[<<e, d>>].phase = "acked"
        /\ acked' = [acked EXCEPT ![e] = acks]
        /\ disk' = [disk EXCEPT ![e] = Prune(e, @, acks, clock[e])]
        /\ flow' = IF PruneFails(e, disk[e], acks) THEN Closed(d, e)
                   ELSE [flow EXCEPT ![<<e, d>>] = Idle]
        /\ UNCHANGED <<clock, born, breaks>>

-----------------------------------------------------------------------------
(* Failures *)

\* The channel is lost with everything in flight on it.
Break(e, d) ==
    /\ breaks < MaxBreaks
    /\ flow # Closed(d, e)
    /\ flow' = Closed(d, e)
    /\ breaks' = breaks + 1
    /\ UNCHANGED <<disk, clock, born, acked>>

Hlcs(f) == {0, f.snap.hlc} \cup {f.tail[i].hlc : i \in DOMAIN f.tail}

\* Mutant: only the tail is read back.
RestartTail(d) ==
    /\ breaks < MaxBreaks
    /\ disk' = [disk EXCEPT ![d].rep = Replay([disk[d] EXCEPT !.snap = NoSnap])]
    /\ clock' = [clock EXCEPT ![d] = CHOOSE t \in Hlcs(disk[d]) : \A u \in Hlcs(disk[d]) : u <= t]
    /\ flow' = [p \in Pairs |-> IF d \in {p[1], p[2]} THEN Idle ELSE flow[p]]
    /\ breaks' = breaks + 1
    /\ UNCHANGED <<born, acked>>

\* OpenDurableReplica after a crash: the replica and the clock are rebuilt from
\* the file, which every mutation replaced atomically.
Restart(d) ==
    /\ breaks < MaxBreaks
    /\ disk' = [disk EXCEPT ![d].rep = Replay(disk[d])]
    /\ clock' = [clock EXCEPT ![d] = CHOOSE t \in Hlcs(disk[d]) : \A u \in Hlcs(disk[d]) : u <= t]
    /\ flow' = [p \in Pairs |-> IF d \in {p[1], p[2]} THEN Idle ELSE flow[p]]
    /\ breaks' = breaks + 1
    /\ UNCHANGED <<born, acked>>

Transfer(e, d) ==
    \/ Advertise(e, d)
    \/ HandleInventory(e, d)
    \/ ReceiveSnapshot(e, d)
    \/ ReceiveOp(e, d)
    \/ FinishTransfer(e, d)
    \/ HandleAck(e, d)

Next ==
    \/ \E d \in Devices, kind \in Kinds, t \in 1..MaxTime : Edit(d, kind, t)
    \/ \E p \in Pairs : Transfer(p[1], p[2]) \/ Break(p[1], p[2])
    \/ \E d \in Devices : Restart(d)

Spec == Init /\ [][Next]_vars

\* Routes between members are planned again and again (runConfigSyncLoop, the
\* retry loops of the LAN and tunnel hosts), and a handler runs to its end.
FairSpec == Spec /\ \A p \in Pairs : WF_vars(Transfer(p[1], p[2]))

-----------------------------------------------------------------------------
(* Properties *)

\* Every variable keeps its type, whatever is stored, shown or under way was
\* signed by somebody, and a record has at most one winner.
TypeOK ==
    /\ born \subseteq Op
    /\ clock \in [Devices -> 0..MaxTime]
    /\ acked \in [Devices -> [Devices -> Vector]]
    /\ breaks \in 0..MaxBreaks
    /\ disk \in [Devices -> File(born)]
    /\ flow \in [Pairs -> [phase : {"idle", "inventory", "sending", "acked"}, vec : Vector,
                          snap : Snapshot(born), ops : Seq(born)]]
    /\ \A d \in Devices : \A o, p \in disk[d].rep.view : o = p

\* A crash at any point loses nothing: the file replays to the replica in use,
\* and no tail token is a duplicate or already compacted (which would make
\* buildReplica reject the file for ever).
FileReplays ==
    \A d \in Devices :
        /\ Replay(disk[d]) = disk[d].rep
        /\ \A i \in DOMAIN disk[d].tail : disk[d].tail[i].ctr > disk[d].rep.cover[disk[d].tail[i].actor]
        /\ \A i, j \in DOMAIN disk[d].tail : disk[d].tail[i] = disk[d].tail[j] => i = j

\* Whatever mix of snapshots, tails, broken transfers and restarts the devices go
\* through, a counter is never used twice and a device never loses an edit of its
\* own, although compaction and rebasing drop the operations it was counted from;
\* and no device's history has a gap, so an edit is never refused
\* (ErrCounterRollback) and compaction never finds an incomplete history.
EditsAreKept ==
    /\ \A o, p \in born : o.actor = p.actor /\ o.ctr = p.ctr => o = p
    /\ \A o \in born : o.ctr <= disk[o.actor].rep.vector[o.actor]
    /\ \A d, a \in Devices :
          Counters(disk[d].rep.ops, a) = disk[d].rep.cover[a] + 1 .. disk[d].rep.vector[a]

\* What a device takes for acknowledged by another is durable there ("DurableAck
\* is safe to send only after the operation and its vector have reached the
\* ... file"); tombstones are pruned on the strength of it.
AcksAreDurable ==
    \A d, e \in Devices : d # e => Covers(disk[e].rep.vector, acked[d][e])

\* A device never forgets: its frontier only grows, through rebasing, compaction
\* and restarts.  And an edit takes effect where it is made: right after it the
\* device shows that edit, also when it re-creates a record it has seen deleted
\* (only a device without peers may drop a tombstone of its own at once).
EditsTakeHold ==
    [][/\ \A d \in Devices : Covers(disk'[d].rep.vector, disk[d].rep.vector)
       /\ \A o \in born' \ born :
             \/ disk'[o.actor].rep.view = {o}
             \/ Devices = {o.actor} /\ o.kind = "delete" /\ disk'[o.actor].rep.view = {}]_vars

Shown(d) == {o \in disk[d].rep.view : o.kind = "set"}
Seen(d)  == {o \in born : o.ctr <= disk[d].rep.vector[o.actor]}

\* A device whose frontier covers no delete shows the latest of all the edits it
\* covers, whichever of them it has met only inside a snapshot.
ShowsTheLatest ==
    \A d \in Devices : (\A o \in Seen(d) : o.kind = "set") =>
        Shown(d) = {o \in Seen(d) : \A p \in Seen(d) \ {o} : Later(o, p)}

\* Two devices with the same frontier show the same record ("tombstones are
\* omitted only at the component-wise durable acknowledgement floor").
Converged ==
    \A d, e \in Devices :
        disk[d].rep.vector = disk[e].rep.vector => Shown(d) = Shown(e)

\* Once a device has all that another one has, it can bring that device up to
\* date ("a peer with an unshared branch must first replicate that branch").
SharedBranchSyncs ==
    \A d, e \in Devices :
        Covers(disk[e].rep.vector, disk[d].rep.vector)
            => \A plan \in StateForPeer(disk[e], disk[d].rep.vector) : PlanIsValid(disk[e], plan)

\* When the channels stop failing every device gets every edit. (Checked where
\* TailBound is out of reach: it says nothing of a plan built on a compacted
\* snapshot, which is SharedBranchSyncs.)
EventuallySynced ==
    <>[](\A d, e \in Devices : disk[d].rep.vector = disk[e].rep.vector)
=============================================================================
