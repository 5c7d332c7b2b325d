-------------------------- MODULE LazyStreamProofs --------------------------
(***************************************************************************)
(* Theorems about LazyStream, for any number of clients, connections,       *)
(* attaches and chunks.                                                     *)
(***************************************************************************)
EXTENDS LazyStream, TLAPS

\* The strengthening that makes NoOrphanMirror inductive: a connection that has
\* not announced holds no registry entry, which TypeOK and NoOrphanMirror
\* already say between them, so their conjunction is enough.
MirrorInv == TypeOK /\ NoOrphanMirror

\* Both ends start with no connection and an empty registry.
LEMMA InitMirrorInv == Init => MirrorInv
  BY LazyAssumption DEF Init, MirrorInv, TypeOK, NoOrphanMirror, Conns, NoHooks

\* Spawning a hook, and running one that is pending, keep the hook counters
\* natural numbers.
LEMMA HooksTyped ==
  ASSUME NEW hk \in [Conns -> [Hook -> Nat]], NEW g \in Conns, NEW h \in Hook
  PROVE  /\ Spawn(hk, g, h) \in [Conns -> [Hook -> Nat]]
         /\ hk[g][h] > 0 => Ran(hk, g, h) \in [Conns -> [Hook -> Nat]]
<1>1. hk[g] \in [Hook -> Nat] /\ hk[g][h] \in Nat
  OBVIOUS
<1>2. [hk[g] EXCEPT ![h] = hk[g][h] + 1] \in [Hook -> Nat]
  BY <1>1
<1>3. hk[g][h] > 0 => [hk[g] EXCEPT ![h] = hk[g][h] - 1] \in [Hook -> Nat]
  BY <1>1
<1>4. Spawn(hk, g, h) = [hk EXCEPT ![g] = [hk[g] EXCEPT ![h] = hk[g][h] + 1]]
  BY DEF Spawn
<1>5. Ran(hk, g, h) = [hk EXCEPT ![g] = [hk[g] EXCEPT ![h] = hk[g][h] - 1]]
  BY DEF Ran
<1>6. \A r \in [Hook -> Nat] : [hk EXCEPT ![g] = r] \in [Conns -> [Hook -> Nat]]
  OBVIOUS
<1>7. QED
  BY <1>2, <1>3, <1>4, <1>5, <1>6

\* A hook goroutine that runs, and may leave its frame to be enqueued.
LEMMA HookRuns ==
  ASSUME NEW hk \in [Conns -> [Hook -> Nat]], NEW g \in Conns,
         NEW h \in Hook, NEW k \in Hook, hk[g][h] > 0
  PROVE  Spawn(Ran(hk, g, h), g, k) \in [Conns -> [Hook -> Nat]]
  BY HooksTyped

Forwarders == [pos : 0..MaxSeq, till : 0..MaxSeq, upto : 0..MaxSeq, mark : BOOLEAN]
Frames     == [from : 0..MaxSeq, to : 0..MaxSeq]

\* The uplink reader adds a forwarder, cancels the one it has or does nothing.
LEMMA ReceivedTyped ==
  ASSUME TypeOK, DesktopReceives
  PROVE  fwds' \in Seq(Forwarders) /\ live' \in 0..Len(fwds')
<1> USE DEF TypeOK
<1>0. /\ MaxSeq \in Nat /\ produced \in 0..MaxSeq
      /\ fwds \in Seq(Forwarders) /\ Len(fwds) \in Nat /\ live \in 0..Len(fwds)
  BY LazyAssumption DEF Forwarders
<1>1. CASE fwds' = Stopped /\ live' = 0
  <2>1. CASE live = 0
    BY <1>0, <1>1, <2>1 DEF Stopped
  <2>2. CASE live # 0
    <3>1. live \in DOMAIN fwds /\ fwds[live] \in Forwarders
      BY <1>0, <2>2
    <3>2. [fwds[live] EXCEPT !.upto = produced] \in Forwarders
      BY <1>0, <3>1 DEF Forwarders
    <3>3. fwds' = [fwds EXCEPT ![live] = [fwds[live] EXCEPT !.upto = produced]]
      BY <1>1, <2>2 DEF Stopped
    <3>4. QED
      BY <1>0, <1>1, <3>1, <3>2, <3>3
  <2>3. QED
    BY <2>1, <2>2
<1>2. CASE UNCHANGED <<fwds, live>>
  BY <1>0, <1>2
<1>3. ASSUME NEW from \in 0..produced, fwds' = Append(fwds, Subscribes(from)),
             live' = Len(fwds) + 1
      PROVE  fwds' \in Seq(Forwarders) /\ live' \in 0..Len(fwds')
  <2>1. Subscribes(from) \in Forwarders
    BY <1>0 DEF Subscribes, Forwarder, Forwarders
  <2>2. QED
    BY <1>0, <1>3, <2>1
<1>4. QED
  BY <1>1, <1>2, <1>3 DEF DesktopReceives

\* What TypeOK says of forwarders and rings.
LEMMA ForwardersTyped ==
  ASSUME TypeOK
  PROVE  /\ MaxSeq \in Nat /\ MaxConns \in Nat /\ produced \in 0..MaxSeq
         /\ fwds \in Seq(Forwarders) /\ \A k \in DOMAIN fwds : fwds[k] \in Forwarders
         /\ DOMAIN fwds = 1..Len(fwds) /\ Len(fwds) \in Nat /\ live \in 0..Len(fwds)
         /\ ring \in [Conns -> Seq(Frames)]
         /\ desk # 0 => desk \in Conns
<1>1. MaxSeq \in Nat /\ MaxConns \in Nat
  BY LazyAssumption
<1>2. fwds \in Seq(Forwarders) /\ ring \in [Conns -> Seq(Frames)] /\ live \in 0..Len(fwds)
  BY Zenon DEF TypeOK, Forwarders, Frames
<1>3. DOMAIN fwds = 1..Len(fwds) /\ Len(fwds) \in Nat
  BY <1>2
<1>4. \A k \in DOMAIN fwds : fwds[k] \in Forwarders
  BY <1>2
<1>5. produced \in 0..MaxSeq /\ desk \in 0..MaxConns
  BY DEF TypeOK
<1>6. desk # 0 => desk \in Conns
  BY <1>1, <1>5 DEF Conns
<1>7. QED
  BY <1>1, <1>2, <1>3, <1>4, <1>5, <1>6

\* A resynced forwarder starts again somewhere in the scrollback.
LEMMA OverflowTyped ==
  ASSUME TypeOK, Overflow
  PROVE  fwds' \in Seq(Forwarders) /\ Len(fwds') = Len(fwds)
<1>0. /\ MaxSeq \in Nat /\ produced \in 0..MaxSeq
      /\ fwds \in Seq(Forwarders) /\ live \in 0..Len(fwds)
  BY LazyAssumption DEF TypeOK, Forwarders
<1>1. PICK from \in 0..(produced - 1) : fwds' = [fwds EXCEPT ![live] = Forwarder(from, produced, TRUE)]
  BY DEF Overflow
<1>2. Forwarder(from, produced, TRUE) \in Forwarders
  BY <1>0 DEF Forwarder, Forwarders
<1>3. live \in 1..Len(fwds)
  BY <1>0 DEF Overflow
<1>4. ASSUME NEW f \in Forwarders, fwds' = [fwds EXCEPT ![live] = f]
      PROVE  fwds' \in Seq(Forwarders) /\ Len(fwds') = Len(fwds)
  BY <1>0, <1>3, <1>4
<1>5. QED
  BY <1>1, <1>2, <1>4

\* A forwarder's step changes that forwarder, and pushes at most one frame to
\* the mirror of the desktop's connection.
LEMMA ForwarderTyped ==
  ASSUME TypeOK, NEW k \in DOMAIN fwds, ForwarderNext(k)
  PROVE  /\ fwds' \in Seq(Forwarders) /\ Len(fwds') = Len(fwds)
         /\ ring' \in [Conns -> Seq(Frames)]
<1>0. /\ MaxSeq \in Nat /\ MaxConns \in Nat /\ produced \in 0..MaxSeq
      /\ fwds \in Seq(Forwarders) /\ fwds[k] \in Forwarders
      /\ ring \in [Conns -> Seq(Frames)]
      /\ desk # 0 => desk \in Conns
  BY ForwardersTyped
<1>1. ASSUME NEW f \in Frames, Sends(f) PROVE ring' \in [Conns -> Seq(Frames)]
  BY <1>0, <1>1 DEF Sends
<1>2. ASSUME NEW f \in Forwarders, fwds' = [fwds EXCEPT ![k] = f]
      PROVE  fwds' \in Seq(Forwarders) /\ Len(fwds') = Len(fwds)
  BY <1>0, <1>2
<1>3. CASE ForwardMarker(k)
  <2>1. Marker \in Frames /\ Sends(Marker)
    BY <1>0, <1>3 DEF Marker, Frame, Frames, ForwardMarker
  <2>2. /\ [fwds[k] EXCEPT !.mark = FALSE] \in Forwarders
        /\ fwds' = [fwds EXCEPT ![k] = [fwds[k] EXCEPT !.mark = FALSE]]
    BY <1>0, <1>3 DEF Forwarders, ForwardMarker
  <2>3. QED
    BY <1>1, <1>2, <2>1, <2>2
<1>4. CASE Forward(k)
  <2>1. PICK to \in NextFrames(fwds[k]) :
           /\ Sends(Frame(fwds[k].pos + 1, to))
           /\ fwds' = [fwds EXCEPT ![k].pos = to]
    BY <1>4 DEF Forward
  <2>2. fwds[k].pos \in 0..MaxSeq /\ to \in 0..MaxSeq /\ fwds[k].pos + 1 \in 0..MaxSeq
    BY <1>0, <2>1 DEF NextFrames, Forwarders
  <2>3. Frame(fwds[k].pos + 1, to) \in Frames
    BY <2>2 DEF Frame, Frames
  <2>4. /\ [fwds[k] EXCEPT !.pos = to] \in Forwarders
        /\ fwds' = [fwds EXCEPT ![k] = [fwds[k] EXCEPT !.pos = to]]
    BY <1>0, <2>1, <2>2 DEF Forwarders
  <2>5. QED
    BY <1>1, <1>2, <2>1, <2>3, <2>4
<1>5. CASE ForwarderEnds(k)
  <2>1. /\ [fwds[k] EXCEPT !.upto = fwds[k].pos, !.mark = FALSE] \in Forwarders
        /\ fwds' = [fwds EXCEPT ![k] = [fwds[k] EXCEPT !.upto = fwds[k].pos, !.mark = FALSE]]
        /\ ring' = ring
    BY <1>0, <1>5 DEF Forwarders, ForwarderEnds
  <2>2. QED
    BY <1>0, <1>2, <2>1
<1>6. QED
  BY <1>3, <1>4, <1>5 DEF ForwarderNext

\* Every step of the relay, the desktop and the viewers keeps the types.
LEMMA NextTypeOK == TypeOK /\ [Next]_vars => TypeOK'
<1> SUFFICES ASSUME TypeOK, [Next]_vars PROVE TypeOK'
  OBVIOUS
<1>0. /\ \A h \in {"first", "last", "request", "stop"} : h \in Hook
      /\ \A g \in Conns : g \in 0..MaxConns /\ g # 0
      /\ \A g \in 0..MaxConns : g # 0 => g \in Conns
  BY LazyAssumption DEF Conns, Hook
<1> USE DEF TypeOK
<1>1. ASSUME NEW g \in Conns, Connect(g) PROVE TypeOK'
  BY <1>0, <1>1 DEF Connect
<1>2. ASSUME NEW g \in Conns, AnnounceAdd(g) PROVE TypeOK'
  BY <1>0, <1>2 DEF AnnounceAdd
<1>3. ASSUME NEW g \in Conns, AnnounceMirror(g) PROVE TypeOK'
  BY <1>3 DEF AnnounceMirror
<1>4. ASSUME NEW g \in Conns, LoseLink(g) PROVE TypeOK'
  <2>1. link' \in [Conns -> BOOLEAN] /\ down' \in [Conns -> Seq({"STREAM_REQUEST", "STREAM_STOP"})]
    BY <1>4 DEF LoseLink
  <2>2. QED
    BY <1>4, <2>1 DEF LoseLink
<1>5. ASSUME NEW g \in Conns, RelayNotices(g) PROVE TypeOK'
  BY <1>5 DEF RelayNotices
<1>6. ASSUME NEW g \in Conns, CleanupRemove(g) PROVE TypeOK'
  <2>1. /\ registry' \in 0..MaxConns /\ viewers' \in [Conns -> SUBSET Clients]
        /\ conn' \in [Conns -> {"none", "adding", "up", "cleanup", "gone"}]
    BY <1>6, LazyAssumption DEF CleanupRemove
  <2>2. QED
    BY <1>6, <2>1 DEF CleanupRemove
<1>7. ASSUME NEW g \in Conns, StartStream(g) PROVE TypeOK'
  <2>1. hooks' \in [Conns -> [Hook -> Nat]]
    BY <1>0, <1>7, HooksTyped, HookRuns DEF StartStream
  <2>2. streaming' \in [Conns -> BOOLEAN]
    BY <1>7 DEF StartStream
  <2>3. QED
    BY <1>7, <2>1, <2>2 DEF StartStream
<1>8. ASSUME NEW g \in Conns, StopStream(g) PROVE TypeOK'
  <2>1. hooks' \in [Conns -> [Hook -> Nat]]
    BY <1>0, <1>8, HooksTyped, HookRuns DEF StopStream
  <2>2. streaming' \in [Conns -> BOOLEAN]
    BY <1>8 DEF StopStream
  <2>3. QED
    BY <1>8, <2>1, <2>2 DEF StopStream
<1>9. ASSUME NEW g \in Conns, EnqueueRequest(g) \/ EnqueueStop(g) PROVE TypeOK'
  <2>1. PICK h \in Hook, f \in {"STREAM_REQUEST", "STREAM_STOP"} :
           hooks[g][h] > 0 /\ hooks' = Ran(hooks, g, h) /\ Enqueue(g, f)
    BY <1>0, <1>9 DEF EnqueueRequest, EnqueueStop
  <2>2. hooks' \in [Conns -> [Hook -> Nat]]
    BY <2>1, HooksTyped
  <2>3. down' \in [Conns -> Seq({"STREAM_REQUEST", "STREAM_STOP"})]
    BY <2>1 DEF Enqueue
  <2>4. QED
    BY <1>9, <2>2, <2>3 DEF EnqueueRequest, EnqueueStop
<1>10. ASSUME NEW c \in Clients, Attach(c) PROVE TypeOK'
  <2>1. hooks' \in [Conns -> [Hook -> Nat]]
    BY <1>0, <1>10, HooksTyped DEF Attach
  <2>2. viewers' \in [Conns -> SUBSET Clients]
    BY <1>0, <1>10 DEF Attach
  <2>3. attaches' \in 0..MaxAttach
    BY <1>10, LazyAssumption DEF Attach
  <2>4. QED
    BY <1>10, <2>1, <2>2, <2>3 DEF Attach
<1>11. ASSUME NEW c \in Clients, NEW g \in Conns, Detach(c, g) PROVE TypeOK'
  <2>1. hooks' \in [Conns -> [Hook -> Nat]]
    BY <1>0, <1>11, HooksTyped DEF Detach
  <2>2. viewers' \in [Conns -> SUBSET Clients]
    BY <1>11 DEF Detach
  <2>3. QED
    BY <1>11, <2>1, <2>2 DEF Detach
<1>12. CASE DesktopNotices
  <2>1. fwds' \in Seq(Forwarders) /\ live' \in 0..Len(fwds') /\ desk' \in 0..MaxConns
    BY <1>12, LazyAssumption DEF DesktopNotices
  <2>2. QED
    BY <1>12, <2>1 DEF DesktopNotices, Forwarders
<1>13. CASE DesktopReceives
  <2>1. desk \in Conns
    BY <1>0, <1>13 DEF DesktopReceives
  <2>2. down' \in [Conns -> Seq({"STREAM_REQUEST", "STREAM_STOP"})]
    BY <1>13, <2>1 DEF DesktopReceives
  <2>3. fwds' \in Seq(Forwarders) /\ live' \in 0..Len(fwds')
    BY <1>13, ReceivedTyped
  <2>4. QED
    BY <1>13, <2>2, <2>3 DEF DesktopReceives, Forwarders
<1>14. CASE Produce
  <2>1. produced' \in 0..MaxSeq
    BY <1>14, LazyAssumption DEF Produce
  <2>2. QED
    BY <1>14, <2>1 DEF Produce
<1>15. ASSUME NEW k \in DOMAIN fwds, ForwarderNext(k) PROVE TypeOK'
  <2>1. /\ fwds' \in Seq(Forwarders) /\ Len(fwds') = Len(fwds)
        /\ ring' \in [Conns -> Seq(Frames)]
    BY <1>15, ForwarderTyped
  <2>2. QED
    BY <1>15, <2>1 DEF ForwarderNext, ForwardMarker, Forward, ForwarderEnds, Sends, Forwarders, Frames
<1>16. CASE Overflow
  <2>1. fwds' \in Seq(Forwarders) /\ Len(fwds') = Len(fwds)
    BY <1>16, OverflowTyped
  <2>2. sheds' \in 0..MaxShed
    BY <1>16, LazyAssumption DEF Overflow
  <2>3. QED
    BY <1>16, <2>1, <2>2 DEF Overflow, Forwarders
<1>17. CASE UNCHANGED vars
  BY <1>17 DEF vars
<1>18. QED
  BY <1>1, <1>2, <1>3, <1>4, <1>5, <1>6, <1>7, <1>8, <1>9, <1>10, <1>11, <1>12,
     <1>13, <1>14, <1>15, <1>16, <1>17 DEF Next, ConnNext, HookNext, Done

\* No step orphans a mirror: only CleanupRemove ends a mirror's connection, and
\* it empties the registry and its mirror's subscribers together; only Attach
\* adds a viewer, to the registered mirror.
LEMMA NextNoOrphan == MirrorInv /\ [Next]_vars => NoOrphanMirror'
<1> SUFFICES ASSUME TypeOK, NoOrphanMirror, [Next]_vars PROVE NoOrphanMirror'
  BY DEF MirrorInv
<1>0. /\ registry \in {0} \cup Conns
      /\ conn \in [Conns -> {"none", "adding", "up", "cleanup", "gone"}]
      /\ viewers \in [Conns -> SUBSET Clients]
      /\ 0 \notin Conns
  BY LazyAssumption DEF TypeOK, Conns
<1> USE <1>0 DEF NoOrphanMirror
<1>1. ASSUME NEW g \in Conns, Connect(g) PROVE NoOrphanMirror'
  BY <1>1 DEF Connect
<1>2. ASSUME NEW g \in Conns, AnnounceAdd(g) PROVE NoOrphanMirror'
  BY <1>2 DEF AnnounceAdd
<1>3. ASSUME NEW g \in Conns, AnnounceMirror(g) PROVE NoOrphanMirror'
  BY <1>3 DEF AnnounceMirror
<1>4. ASSUME NEW g \in Conns, LoseLink(g) PROVE NoOrphanMirror'
  BY <1>4 DEF LoseLink
<1>5. ASSUME NEW g \in Conns, RelayNotices(g) PROVE NoOrphanMirror'
  BY <1>5 DEF RelayNotices
<1>6. ASSUME NEW g \in Conns, CleanupRemove(g) PROVE NoOrphanMirror'
  BY <1>6 DEF CleanupRemove
<1>7. ASSUME NEW g \in Conns, HookNext(g) PROVE NoOrphanMirror'
  BY <1>7 DEF HookNext, StartStream, StopStream, EnqueueRequest, EnqueueStop
<1>8. ASSUME NEW c \in Clients, Attach(c) PROVE NoOrphanMirror'
  BY <1>8 DEF Attach
<1>9. ASSUME NEW c \in Clients, NEW g \in Conns, Detach(c, g) PROVE NoOrphanMirror'
  BY <1>9 DEF Detach
<1>10. CASE \/ DesktopNotices \/ DesktopReceives \/ Produce \/ Overflow
             \/ \E k \in DOMAIN fwds : ForwarderNext(k)
  BY <1>10 DEF DesktopNotices, DesktopReceives, Produce, Overflow, ForwarderNext,
     ForwardMarker, Forward, ForwarderEnds, Sends
<1>11. CASE UNCHANGED vars
  BY <1>11 DEF vars
<1>12. QED
  BY <1>1, <1>2, <1>3, <1>4, <1>5, <1>6, <1>7, <1>8, <1>9, <1>10, <1>11
     DEF Next, ConnNext, Done

\* The mirror r has been pushed chunk n, or a reset marker.
Reached(r, n) == \E j \in DOMAIN r : r[j] = Marker \/ n \in r[j].from..r[j].to

\* A frame sequence without an unmarked hole.
Holeless(r) == \A i \in DOMAIN r : r[i].from <= 1 \/ ReachedBefore(r, r[i].from - 1, i)

\* The strengthening that makes NoUnmarkedHole inductive: a forwarder runs only
\* on the connection the desktop is on, and one that owes no marker is at the
\* beginning, or its mirror has the chunk it sent last, or a marker; a cancelled
\* one that has ended sends no more.
HoleInv ==
  /\ desk = 0 => fwds = << >>
  /\ \A k \in DOMAIN fwds :
        (~fwds[k].mark /\ fwds[k].upto > fwds[k].pos /\ fwds[k].pos > 0) => Reached(ring[desk], fwds[k].pos)
  /\ NoUnmarkedHole

\* The forwarder that streaming[id] names has not been cancelled.
LiveUnlimited == live # 0 => fwds[live].upto = MaxSeq

\* Only stopStream limits a forwarder, and it forgets it in the same step.
LEMMA NextLiveUnlimited == TypeOK /\ LiveUnlimited /\ [Next]_vars => LiveUnlimited'
<1> SUFFICES ASSUME TypeOK, LiveUnlimited, [Next]_vars PROVE LiveUnlimited'
  OBVIOUS
<1>0. /\ MaxSeq \in Nat /\ produced \in 0..MaxSeq
      /\ fwds \in Seq(Forwarders) /\ \A k \in DOMAIN fwds : fwds[k] \in Forwarders
      /\ DOMAIN fwds = 1..Len(fwds) /\ Len(fwds) \in Nat /\ live \in 0..Len(fwds)
  BY ForwardersTyped
<1>1. CASE UNCHANGED <<fwds, live>>
  BY <1>1 DEF LiveUnlimited
<1>2. CASE DesktopNotices
  BY <1>2 DEF DesktopNotices, LiveUnlimited
<1>3. CASE DesktopReceives
  <2>1. ASSUME NEW from \in 0..produced, fwds' = Append(fwds, Subscribes(from)), live' = Len(fwds) + 1
        PROVE  LiveUnlimited'
    <3>1. fwds'[Len(fwds) + 1] = Subscribes(from)
      BY <1>0, <2>1
    <3>2. Subscribes(from).upto = MaxSeq
      BY DEF Subscribes, Forwarder
    <3>3. QED
      BY <2>1, <3>1, <3>2 DEF LiveUnlimited
  <2>2. CASE live' = 0
    BY <2>2 DEF LiveUnlimited
  <2>3. QED
    BY <1>1, <1>3, <2>1, <2>2 DEF DesktopReceives
<1>4. CASE Overflow
  <2>1. PICK from \in 0..(produced - 1) : fwds' = [fwds EXCEPT ![live] = Forwarder(from, produced, TRUE)]
    BY <1>4 DEF Overflow
  <2>2. live \in DOMAIN fwds /\ live' = live
    BY <1>0, <1>4 DEF Overflow
  <2>3. fwds'[live] = Forwarder(from, produced, TRUE)
    BY <2>1, <2>2
  <2>4. QED
    BY <2>2, <2>3 DEF Forwarder, LiveUnlimited
<1>5. ASSUME NEW k \in DOMAIN fwds, ForwarderNext(k) PROVE LiveUnlimited'
  <2>1. live' = live /\ (live # 0 => live \in DOMAIN fwds)
    BY <1>0, <1>5 DEF ForwarderNext, ForwardMarker, Forward, ForwarderEnds
  <2>2. CASE ForwardMarker(k)
    BY <1>0, <2>1, <2>2 DEF ForwardMarker, LiveUnlimited, Forwarders
  <2>3. CASE Forward(k)
    <3>1. PICK to \in NextFrames(fwds[k]) : fwds' = [fwds EXCEPT ![k].pos = to]
      BY <2>3 DEF Forward
    <3>2. QED
      BY <1>0, <2>1, <3>1 DEF LiveUnlimited, Forwarders
  <2>4. CASE ForwarderEnds(k)
    BY <1>0, <2>1, <2>4 DEF ForwarderEnds, LiveUnlimited
  <2>5. QED
    BY <1>5, <2>2, <2>3, <2>4 DEF ForwarderNext
<1>6. CASE \/ \E g \in Conns : ConnNext(g) \/ HookNext(g)
           \/ \E c \in Clients : Attach(c) \/ \E g \in Conns : Detach(c, g)
           \/ Produce \/ Done \/ UNCHANGED vars
  BY <1>1, <1>6
     DEF ConnNext, HookNext, Connect, AnnounceAdd, AnnounceMirror, LoseLink, RelayNotices,
         CleanupRemove, StartStream, StopStream, EnqueueRequest, EnqueueStop,
         Attach, Detach, Produce, Done, vars
<1>7. QED
  BY <1>2, <1>3, <1>4, <1>5, <1>6 DEF Next

\* Appending a frame loses nothing that was reached and reaches its own chunks.
LEMMA AppendReaches ==
  ASSUME NEW r \in Seq(Frames), NEW f \in Frames
  PROVE  /\ \A n : Reached(r, n) => Reached(Append(r, f), n)
         /\ f = Marker => \A n : Reached(Append(r, f), n)
         /\ f.from <= f.to => Reached(Append(r, f), f.to)
<1>1. /\ DOMAIN r = 1..Len(r) /\ Len(r) \in Nat
      /\ DOMAIN Append(r, f) = 1..(Len(r) + 1)
      /\ \A i \in 1..Len(r) : Append(r, f)[i] = r[i]
      /\ Append(r, f)[Len(r) + 1] = f
      /\ Len(r) + 1 \in DOMAIN Append(r, f)
  OBVIOUS
<1>2. f.from <= f.to => f.to \in f.from..f.to
  BY DEF Frames
<1>3. QED
  BY <1>1, <1>2 DEF Reached

\* Appending a frame whose predecessor was reached leaves no unmarked hole.
LEMMA AppendHoleless ==
  ASSUME NEW r \in Seq(Frames), NEW f \in Frames, Holeless(r),
         f.from <= 1 \/ Reached(r, f.from - 1)
  PROVE  Holeless(Append(r, f))
<1>1. /\ DOMAIN r = 1..Len(r) /\ Len(r) \in Nat
      /\ DOMAIN Append(r, f) = 1..(Len(r) + 1)
      /\ \A i \in 1..Len(r) : Append(r, f)[i] = r[i]
      /\ Append(r, f)[Len(r) + 1] = f
  OBVIOUS
<1>2. SUFFICES ASSUME NEW i \in 1..(Len(r) + 1)
               PROVE  \/ Append(r, f)[i].from <= 1
                      \/ ReachedBefore(Append(r, f), Append(r, f)[i].from - 1, i)
  BY <1>1 DEF Holeless
<1>3. CASE i = Len(r) + 1
  <2>1. 1..(i - 1) = DOMAIN r /\ Append(r, f)[i] = f
    BY <1>1, <1>3
  <2>2. Reached(r, f.from - 1) => ReachedBefore(Append(r, f), f.from - 1, i)
    BY <1>1, <2>1 DEF Reached, ReachedBefore
  <2>3. QED
    BY <2>1, <2>2
<1>4. CASE i \in 1..Len(r)
  <2>1. Append(r, f)[i] = r[i] /\ (r[i].from <= 1 \/ ReachedBefore(r, r[i].from - 1, i))
    BY <1>1, <1>4 DEF Holeless
  <2>2. \A j \in 1..(i - 1) : j \in 1..Len(r) /\ Append(r, f)[j] = r[j]
    BY <1>1, <1>4
  <2>3. ReachedBefore(r, r[i].from - 1, i) => ReachedBefore(Append(r, f), r[i].from - 1, i)
    BY <2>2 DEF ReachedBefore
  <2>4. QED
    BY <2>1, <2>3
<1>5. QED
  BY <1>1, <1>3, <1>4

\* What a forwarder's step leaves the mirrors: only the desktop's gets a frame,
\* and one that keeps it without an unmarked hole.
LEMMA ForwarderHoleless ==
  ASSUME TypeOK, HoleInv, NEW k \in DOMAIN fwds, ForwarderNext(k)
  PROVE  HoleInv'
<1>0. /\ MaxSeq \in Nat /\ produced \in 0..MaxSeq
      /\ fwds \in Seq(Forwarders) /\ \A j \in DOMAIN fwds : fwds[j] \in Forwarders
      /\ ring \in [Conns -> Seq(Frames)]
      /\ desk # 0 /\ desk \in Conns /\ desk' = desk
  <2>1. fwds # << >>
    BY ForwardersTyped
  <2>2. desk # 0 /\ desk' = desk
    BY <2>1 DEF HoleInv, ForwarderNext, ForwardMarker, Forward, ForwarderEnds
  <2>3. QED
    BY <2>2, ForwardersTyped
<1>1. \A g \in Conns : ring[g] \in Seq(Frames) /\ Holeless(ring[g])
  BY <1>0 DEF HoleInv, NoUnmarkedHole, Holeless
<1>2. ASSUME NEW f \in Frames, Sends(f), NEW r \in Forwarders,
             fwds' = [fwds EXCEPT ![k] = r],
             f.from <= 1 \/ Reached(ring[desk], f.from - 1),
             f = Marker \/ (f.from <= f.to /\ r.pos = f.to)
      PROVE  HoleInv'
  <2>1. /\ ring'[desk] = Append(ring[desk], f)
        /\ \A g \in Conns : g # desk => ring'[g] = ring[g]
    BY <1>0, <1>2 DEF Sends
  <2>2. /\ \A n : Reached(ring[desk], n) => Reached(ring'[desk], n)
        /\ Reached(ring'[desk], r.pos)
    BY <1>1, <1>0, <1>2, <2>1, AppendReaches
  <2>3. Holeless(ring'[desk])
    BY <1>0, <1>1, <1>2, <2>1, AppendHoleless
  <2>4. NoUnmarkedHole'
    BY <1>1, <2>1, <2>3 DEF NoUnmarkedHole, Holeless
  <2>5. DOMAIN fwds' = DOMAIN fwds /\ fwds'[k] = r /\ \A j \in DOMAIN fwds : j # k => fwds'[j] = fwds[j]
    BY <1>0, <1>2
  <2>6. ASSUME NEW j \in DOMAIN fwds', ~fwds'[j].mark, fwds'[j].upto > fwds'[j].pos, fwds'[j].pos > 0
        PROVE  Reached(ring'[desk], fwds'[j].pos)
    BY <2>2, <2>5, <2>6 DEF HoleInv
  <2>7. QED
    BY <1>0, <2>4, <2>6 DEF HoleInv
<1>3. CASE ForwardMarker(k)
  <2>1. Marker \in Frames /\ Sends(Marker) /\ Marker.from <= 1
    BY <1>0, <1>3 DEF Marker, Frame, Frames, ForwardMarker
  <2>2. /\ [fwds[k] EXCEPT !.mark = FALSE] \in Forwarders
        /\ fwds' = [fwds EXCEPT ![k] = [fwds[k] EXCEPT !.mark = FALSE]]
    BY <1>0, <1>3 DEF Forwarders, ForwardMarker
  <2>3. QED
    BY <1>2, <2>1, <2>2
<1>4. CASE Forward(k)
  <2>1. PICK to \in NextFrames(fwds[k]) :
           /\ Sends(Frame(fwds[k].pos + 1, to))
           /\ fwds' = [fwds EXCEPT ![k].pos = to]
    BY <1>4 DEF Forward
  <2>2. /\ fwds[k].pos \in 0..MaxSeq /\ to \in 0..MaxSeq /\ fwds[k].pos + 1 \in 0..MaxSeq
        /\ fwds[k].pos + 1 <= to /\ fwds[k].upto > fwds[k].pos
    BY <1>0, <2>1 DEF NextFrames, Forwarders
  <2>3. /\ Frame(fwds[k].pos + 1, to) \in Frames
        /\ Frame(fwds[k].pos + 1, to).from = fwds[k].pos + 1
        /\ Frame(fwds[k].pos + 1, to).to = to
    BY <2>2 DEF Frame, Frames
  <2>4. /\ [fwds[k] EXCEPT !.pos = to] \in Forwarders
        /\ [fwds[k] EXCEPT !.pos = to].pos = to
        /\ fwds' = [fwds EXCEPT ![k] = [fwds[k] EXCEPT !.pos = to]]
    BY <1>0, <2>1, <2>2 DEF Forwarders
  <2>5. fwds[k].pos > 0 => Reached(ring[desk], fwds[k].pos)
    BY <1>4, <2>2 DEF Forward, HoleInv
  <2>6. \/ Frame(fwds[k].pos + 1, to).from <= 1
        \/ Reached(ring[desk], Frame(fwds[k].pos + 1, to).from - 1)
    <3>1. Frame(fwds[k].pos + 1, to).from - 1 = fwds[k].pos
      BY <2>2, <2>3
    <3>2. QED
      BY <2>2, <2>3, <2>5, <3>1
  <2>7. QED
    BY <1>2, <2>1, <2>2, <2>3, <2>4, <2>6
<1>5. CASE ForwarderEnds(k)
  <2>0. /\ fwds' = [fwds EXCEPT ![k] = [fwds[k] EXCEPT !.upto = fwds[k].pos, !.mark = FALSE]]
        /\ ring' = ring /\ fwds[k] \in Forwarders
    BY <1>0, <1>5 DEF ForwarderEnds
  <2>1. /\ DOMAIN fwds' = DOMAIN fwds /\ ring' = ring
        /\ fwds'[k].upto = fwds'[k].pos /\ fwds'[k].pos \in Nat
        /\ \A j \in DOMAIN fwds : j # k => fwds'[j] = fwds[j]
    <3>1. /\ [fwds[k] EXCEPT !.upto = fwds[k].pos, !.mark = FALSE].upto = fwds[k].pos
          /\ [fwds[k] EXCEPT !.upto = fwds[k].pos, !.mark = FALSE].pos = fwds[k].pos
          /\ fwds[k].pos \in Nat
      BY <1>0 DEF Forwarders
    <3>2. fwds'[k] = [fwds[k] EXCEPT !.upto = fwds[k].pos, !.mark = FALSE]
      BY <1>0, <2>0
    <3>3. DOMAIN fwds' = DOMAIN fwds /\ \A j \in DOMAIN fwds : j # k => fwds'[j] = fwds[j]
      BY <1>0, <2>0
    <3>4. QED
      BY <2>0, <3>1, <3>2, <3>3
  <2>2. NoUnmarkedHole'
    BY <2>1 DEF HoleInv, NoUnmarkedHole
  <2>3. QED
    BY <1>0, <2>1, <2>2 DEF HoleInv
<1>6. QED
  BY <1>3, <1>4, <1>5 DEF ForwarderNext

\* Only a forwarder writes to a ring; a new or resynced forwarder that does not
\* begin at the first chunk owes a marker, and a cancelled one is as it was.
LEMMA NextHoleInv == TypeOK /\ LiveUnlimited /\ HoleInv /\ [Next]_vars => HoleInv'
<1> SUFFICES ASSUME TypeOK, LiveUnlimited, HoleInv, [Next]_vars PROVE HoleInv'
  OBVIOUS
<1>0. /\ desk \in 0..MaxConns /\ MaxConns \in Nat /\ MaxSeq \in Nat
      /\ produced \in 0..MaxSeq
      /\ fwds \in Seq(Forwarders) /\ \A j \in DOMAIN fwds : fwds[j] \in Forwarders
      /\ DOMAIN fwds = 1..Len(fwds) /\ Len(fwds) \in Nat /\ live \in 0..Len(fwds)
  BY ForwardersTyped DEF TypeOK
<1>1. ASSUME NEW g \in Conns, Connect(g) PROVE HoleInv'
  <2>1. fwds = << >> /\ fwds' = << >> /\ ring' = ring /\ DOMAIN fwds' = {}
    BY <1>1 DEF Connect, HoleInv
  <2>2. NoUnmarkedHole'
    BY <2>1 DEF HoleInv, NoUnmarkedHole
  <2>3. QED
    BY <2>1, <2>2 DEF HoleInv
<1>2. CASE UNCHANGED <<fwds, desk, ring>>
  BY <1>2 DEF HoleInv, NoUnmarkedHole
<1>3. CASE DesktopNotices
  <2>1. fwds' = << >> /\ ring' = ring /\ DOMAIN fwds' = {}
    BY <1>3 DEF DesktopNotices
  <2>2. NoUnmarkedHole'
    BY <2>1 DEF HoleInv, NoUnmarkedHole
  <2>3. QED
    BY <2>1, <2>2 DEF HoleInv
<1>4. CASE DesktopReceives
  <2>0. desk # 0 /\ desk' = desk /\ ring' = ring /\ NoUnmarkedHole'
    BY <1>4 DEF DesktopReceives, HoleInv, NoUnmarkedHole
  <2>1. CASE fwds' = Stopped
    <3>1. /\ DOMAIN fwds' = DOMAIN fwds
          /\ \A j \in DOMAIN fwds :
                /\ fwds'[j].pos = fwds[j].pos /\ fwds'[j].mark = fwds[j].mark
                /\ fwds'[j].upto \in {fwds[j].upto, produced}
                /\ j # live => fwds'[j] = fwds[j]
      BY <1>0, <2>1 DEF Stopped, Forwarders
    <3>2. live # 0 => live \in DOMAIN fwds /\ fwds[live].upto = MaxSeq
      BY <1>0 DEF LiveUnlimited
    <3>3. ASSUME NEW j \in DOMAIN fwds, fwds'[j].upto > fwds'[j].pos PROVE fwds[j].upto > fwds[j].pos
      <4>1. fwds[j].pos \in Nat /\ fwds[j].upto \in Nat
        BY <1>0 DEF Forwarders
      <4>2. QED
        BY <1>0, <3>1, <3>2, <3>3, <4>1
    <3>4. QED
      BY <2>0, <3>1, <3>2, <3>3 DEF HoleInv
  <2>2. CASE UNCHANGED fwds
    BY <2>0, <2>2 DEF HoleInv
  <2>3. ASSUME NEW from \in 0..produced, fwds' = Append(fwds, Subscribes(from))
        PROVE  HoleInv'
    <3>1. /\ DOMAIN fwds' = 1..(Len(fwds) + 1)
          /\ \A j \in 1..Len(fwds) : fwds'[j] = fwds[j]
          /\ fwds'[Len(fwds) + 1] = Subscribes(from)
      BY <1>0, <2>3
    <3>2. Subscribes(from).pos = from /\ Subscribes(from).mark = (from > 0)
      BY DEF Subscribes, Forwarder
    <3>3. ASSUME NEW j \in DOMAIN fwds', ~fwds'[j].mark, fwds'[j].upto > fwds'[j].pos, fwds'[j].pos > 0
          PROVE  Reached(ring'[desk'], fwds'[j].pos)
      <4>1. CASE j = Len(fwds) + 1
        BY <3>1, <3>2, <3>3, <4>1
      <4>2. CASE j \in 1..Len(fwds)
        BY <1>0, <2>0, <3>1, <3>3, <4>2 DEF HoleInv
      <4>3. QED
        BY <1>0, <3>1, <4>1, <4>2
    <3>4. QED
      BY <2>0, <3>3 DEF HoleInv
  <2>4. QED
    BY <1>4, <2>1, <2>2, <2>3 DEF DesktopReceives
<1>5. CASE Overflow
  <2>1. PICK from \in 0..(produced - 1) : fwds' = [fwds EXCEPT ![live] = Forwarder(from, produced, TRUE)]
    BY <1>5 DEF Overflow
  <2>2. /\ DOMAIN fwds' = DOMAIN fwds /\ fwds'[live].mark
        /\ \A j \in DOMAIN fwds : j # live => fwds'[j] = fwds[j]
    BY <1>0, <1>5, <2>1 DEF Forwarder, Overflow
  <2>3. desk' = desk /\ ring' = ring /\ NoUnmarkedHole' /\ fwds # << >>
    BY <1>0, <1>5 DEF Overflow, HoleInv, NoUnmarkedHole
  <2>4. QED
    BY <2>2, <2>3 DEF HoleInv
<1>6. ASSUME NEW g \in Conns, ConnNext(g) \/ HookNext(g) PROVE HoleInv'
  BY <1>1, <1>2, <1>6
     DEF ConnNext, HookNext, AnnounceAdd, AnnounceMirror, LoseLink, RelayNotices,
         CleanupRemove, StartStream, StopStream, EnqueueRequest, EnqueueStop
<1>7. ASSUME NEW c \in Clients, Attach(c) \/ \E g \in Conns : Detach(c, g)
      PROVE  HoleInv'
  BY <1>2, <1>7 DEF Attach, Detach
<1>8. CASE Produce \/ Done \/ UNCHANGED vars
  BY <1>2, <1>8 DEF Produce, Done, vars
<1>9. ASSUME NEW k \in DOMAIN fwds, ForwarderNext(k) PROVE HoleInv'
  BY <1>9, ForwarderHoleless
<1>10. QED
  BY <1>3, <1>4, <1>5, <1>6, <1>7, <1>8, <1>9 DEF Next

\* The relay's and the desktop's state stay well typed: no hook counter goes
\* negative, no reference leaves the connections there are.
THEOREM LazyTypeCorrect == Spec => []TypeOK
<1>1. Init => TypeOK
  BY InitMirrorInv DEF MirrorInv
<1>2. QED
  BY <1>1, NextTypeOK, PTL DEF Spec

\* No mirror outlives its uplink in the registry and no viewer is left on a
\* mirror that nobody can find or close, whatever the order of reconnects,
\* cleanups, attaches and hooks (reconcile, cleanup, Registry.Add, Remove).
THEOREM NoMirrorIsOrphaned == Spec => []NoOrphanMirror
<1>1. MirrorInv /\ [Next]_vars => MirrorInv'
  BY NextTypeOK, NextNoOrphan DEF MirrorInv
<1>2. MirrorInv => NoOrphanMirror
  BY DEF MirrorInv
<1>3. QED
  BY InitMirrorInv, <1>1, <1>2, PTL DEF Spec

\* A mirror never misses output in the middle without a reset marker, for any
\* number of connections, forwarders and chunks, however the hooks of viewers
\* that come and go overtake each other and whatever cancelled forwarders still
\* send (startStream and stopStream on both ends, the relay's OUT handler).
THEOREM MirrorNeverSkips == Spec => []NoUnmarkedHole
<1>1. Init => TypeOK /\ LiveUnlimited /\ HoleInv
  BY InitMirrorInv DEF Init, MirrorInv, LiveUnlimited, HoleInv, NoUnmarkedHole
<1>2. (TypeOK /\ LiveUnlimited /\ HoleInv) /\ [Next]_vars => (TypeOK /\ LiveUnlimited /\ HoleInv)'
  BY NextTypeOK, NextLiveUnlimited, NextHoleInv
<1>3. TypeOK /\ LiveUnlimited /\ HoleInv => NoUnmarkedHole
  BY DEF HoleInv
<1>4. QED
  BY <1>1, <1>2, <1>3, PTL DEF Spec
=============================================================================
