----------------------------- MODULE LazyStream -----------------------------
(***************************************************************************)
(* Streaming on demand between a desktop's uplink (desktop/uplink.go) and   *)
(* the relay (internal/relay/uplink_conn.go, internal/session/registry.go): *)
(* one published session, the mirror each uplink connection builds for it,  *)
(* the first/last-subscriber hooks that send STREAM_REQUEST and             *)
(* STREAM_STOP, and reconnects of the uplink.                               *)
(*                                                                          *)
(* Mirror objects are named by the connection that built them, 1..MaxConns; *)
(* 0 stands for none.  Hooks run on goroutines of their own ("go            *)
(* firstHook()"): hooks[g] counts the ones that have not run yet and the    *)
(* ones that have set the streaming flag but not yet enqueued their frame.  *)
(* The ring of a mirror is the sequence of OUT frames it was pushed, each    *)
(* the chunks from..to it holds; a replay may merge many chunks into one.    *)
(*                                                                          *)
(* Every STREAM_REQUEST starts a forwarder with a subscription of its own.   *)
(* STREAM_STOP cancels it and does not wait: until it sees that, it may send *)
(* what its subscription had queued, next to a forwarder started since.  How *)
(* a subscription fills and overflows is SessionStream's subject: here it    *)
(* delivers in order, and jumps only behind a reset marker.                  *)
(***************************************************************************)
EXTENDS Integers, Sequences, FiniteSets

CONSTANTS
    Clients,
    MaxConns,    \* bound: uplink connections in the run
    MaxAttach,   \* bound: ATTACH frames in the run
    MaxSeq,      \* bound: chunks the desktop's PTY produces
    MaxShed      \* bound: overflows of a forwarder's subscription

ASSUME LazyAssumption ==
    /\ MaxConns \in Nat \ {0} /\ MaxAttach \in Nat /\ MaxSeq \in Nat /\ MaxShed \in Nat
    /\ IsFiniteSet(Clients)

Conns == 1..MaxConns

VARIABLES
    registry,   \* the mirror Registry.Get returns for the session, 0 if none
    conn,       \* relay side of each connection
    link,       \* the TCP connection still carries data
    streaming,  \* mirrorState.streaming
    viewers,    \* s.subs of each mirror
    hooks,      \* pending lifecycle goroutines of each mirror
    down,       \* u.out and the wire to the desktop
    desk,       \* the connection the desktop is on, 0 between connections
    fwds,       \* the forwarders started on the desktop's connection
    live,       \* the one streaming[id] names, 0: not streaming
    produced,   \* newest seq of the desktop's own session
    ring,       \* OUT frames pushed to each mirror
    attaches,
    sheds

vars == <<registry, conn, link, streaming, viewers, hooks, down, desk, fwds,
          live, produced, ring, attaches, sheds>>

Hook    == {"first", "last", "request", "stop"}
NoHooks == [h \in Hook |-> 0]

Init ==
    /\ registry = 0 /\ desk = 0 /\ fwds = << >> /\ live = 0 /\ produced = 0 /\ attaches = 0 /\ sheds = 0
    /\ conn = [g \in Conns |-> "none"]
    /\ link = [g \in Conns |-> FALSE]
    /\ streaming = [g \in Conns |-> FALSE]
    /\ viewers = [g \in Conns |-> {}]
    /\ hooks = [g \in Conns |-> NoHooks]
    /\ down = [g \in Conns |-> << >>]
    /\ ring = [g \in Conns |-> << >>]

-----------------------------------------------------------------------------
(* The uplink connection *)

\* uplink.Run: runOnce dials a new connection once the previous one is over.
Connect(g) ==
    /\ desk = 0 /\ conn[g] = "none" /\ ~link[g]
    /\ \A h \in Conns : h < g => conn[h] # "none"
    /\ desk' = g
    /\ link' = [link EXCEPT ![g] = TRUE]
    /\ UNCHANGED <<registry, conn, streaming, viewers, hooks, down, fwds, live, produced, ring, attaches, sheds>>

\* reconcile of an ANNOUNCE that names a session this connection has no mirror
\* for, up to Registry.Add: an existing entry of the same owner stays.
AnnounceAdd(g) ==
    /\ conn[g] = "none" /\ link[g]
    /\ registry' = IF registry = 0 THEN g ELSE registry
    /\ conn' = [conn EXCEPT ![g] = "adding"]
    /\ UNCHANGED <<link, streaming, viewers, hooks, down, desk, fwds, live, produced, ring, attaches, sheds>>

\* ... and then, under u.mu, the entry in u.mirrors.
AnnounceMirror(g) ==
    /\ conn[g] = "adding"
    /\ conn' = [conn EXCEPT ![g] = "up"]
    /\ UNCHANGED <<registry, link, streaming, viewers, hooks, down, desk, fwds, live, produced, ring, attaches, sheds>>

\* The network drops the connection; each end finds out on its own.
LoseLink(g) ==
    /\ link[g] /\ conn[g] = "up"
    /\ link' = [link EXCEPT ![g] = FALSE]
    /\ down' = [down EXCEPT ![g] = << >>]
    /\ UNCHANGED <<registry, conn, streaming, viewers, hooks, desk, fwds, live, produced, ring, attaches, sheds>>

\* runOnce returns: stopAll unsubscribes every local stream, and what a forwarder
\* still has goes to the out queue of a connection that is over.
DesktopNotices ==
    /\ desk # 0 /\ ~link[desk]
    /\ desk' = 0 /\ fwds' = << >> /\ live' = 0
    /\ UNCHANGED <<registry, conn, link, streaming, viewers, hooks, down, produced, ring, attaches, sheds>>

\* Mutant: without the ping only a connection that carries data is missed.
RelayNoticesTraffic(g) ==
    /\ conn[g] = "up" /\ ~link[g] /\ streaming[g]
    /\ conn' = [conn EXCEPT ![g] = "cleanup"]
    /\ UNCHANGED <<registry, link, streaming, viewers, hooks, down, desk, fwds, live, produced, ring, attaches, sheds>>

\* readLoop returns (read error, or writeLoop's ping failed): cleanup takes the
\* mirrors out of u.mirrors ...
RelayNotices(g) ==
    /\ conn[g] = "up" /\ ~link[g]
    /\ conn' = [conn EXCEPT ![g] = "cleanup"]
    /\ UNCHANGED <<registry, link, streaming, viewers, hooks, down, desk, fwds, live, produced, ring, attaches, sheds>>

\* Mutant: the mirrors are dropped from u.mirrors only.
CleanupKeepsEntry(g) ==
    /\ conn[g] = "cleanup"
    /\ conn' = [conn EXCEPT ![g] = "gone"]
    /\ UNCHANGED <<registry, viewers, link, streaming, hooks, down, desk, fwds, live, produced, ring, attaches, sheds>>

\* ... and calls removeSession(id): Registry.Remove closes whatever mirror the
\* registry holds under that id, and with it its subscribers.
CleanupRemove(g) ==
    /\ conn[g] = "cleanup"
    /\ conn' = [conn EXCEPT ![g] = "gone"]
    /\ registry' = 0
    /\ viewers' = [h \in Conns |-> IF h = registry THEN {} ELSE viewers[h]]
    /\ UNCHANGED <<link, streaming, hooks, down, desk, fwds, live, produced, ring, attaches, sheds>>

-----------------------------------------------------------------------------
(* Viewers: client_conn's ATTACH and Unsubscribe on the registered mirror *)

Spawn(hk, g, h) == [hk EXCEPT ![g][h] = @ + 1]
Ran(hk, g, h)   == [hk EXCEPT ![g][h] = @ - 1]

Attached(c) == \E g \in Conns : c \in viewers[g]

Attach(c) ==
    /\ registry # 0 /\ ~Attached(c) /\ attaches < MaxAttach
    /\ attaches' = attaches + 1
    /\ viewers' = [viewers EXCEPT ![registry] = @ \cup {c}]
    /\ hooks' = IF viewers[registry] = {} THEN Spawn(hooks, registry, "first")
                                          ELSE hooks
    /\ UNCHANGED <<registry, conn, link, streaming, down, desk, fwds, live, produced, ring, sheds>>

Detach(c, g) ==
    /\ c \in viewers[g]
    /\ viewers' = [viewers EXCEPT ![g] = @ \ {c}]
    /\ hooks' = IF viewers[g] = {c} THEN Spawn(hooks, g, "last") ELSE hooks
    /\ UNCHANGED <<registry, conn, link, streaming, down, desk, fwds, live, produced, ring, attaches, sheds>>

-----------------------------------------------------------------------------
(* Lifecycle hooks: uplinkSession.startStream and stopStream *)

InMirrors(g) == conn[g] = "up"

\* startStream up to u.mu.Unlock: unknown or already streaming returns early.
StartStream(g) ==
    /\ hooks[g]["first"] > 0
    /\ LET go == InMirrors(g) /\ ~streaming[g]
       IN  /\ streaming' = [streaming EXCEPT ![g] = @ \/ go]
           /\ hooks' = IF go THEN Spawn(Ran(hooks, g, "first"), g, "request")
                       ELSE Ran(hooks, g, "first")
    /\ UNCHANGED <<registry, conn, link, viewers, down, desk, fwds, live, produced, ring, attaches, sheds>>

StopStream(g) ==
    /\ hooks[g]["last"] > 0
    /\ LET go == InMirrors(g) /\ streaming[g]
       IN  /\ streaming' = [streaming EXCEPT ![g] = @ /\ ~go]
           /\ hooks' = IF go THEN Spawn(Ran(hooks, g, "last"), g, "stop")
                       ELSE Ran(hooks, g, "last")
    /\ UNCHANGED <<registry, conn, link, viewers, down, desk, fwds, live, produced, ring, attaches, sheds>>

\* enqueue: lost when the connection is already over.
Enqueue(g, frame) ==
    down' = [down EXCEPT ![g] = IF link[g] /\ conn[g] = "up" THEN Append(@, frame) ELSE @]

EnqueueRequest(g) ==
    /\ hooks[g]["request"] > 0
    /\ hooks' = Ran(hooks, g, "request")
    /\ Enqueue(g, "STREAM_REQUEST")
    /\ UNCHANGED <<registry, conn, link, streaming, viewers, desk, fwds, live, produced, ring, attaches, sheds>>

EnqueueStop(g) ==
    /\ hooks[g]["stop"] > 0
    /\ hooks' = Ran(hooks, g, "stop")
    /\ Enqueue(g, "STREAM_STOP")
    /\ UNCHANGED <<registry, conn, link, streaming, viewers, desk, fwds, live, produced, ring, attaches, sheds>>

-----------------------------------------------------------------------------
(* The desktop *)

\* A forwarder: the newest chunk it has sent; up to where its subscription holds
\* merged replay frames; the newest chunk it may send; a reset marker is due.
Forwarder(pos, till, mark) == [pos |-> pos, till |-> till, upto |-> MaxSeq, mark |-> mark]

\* stopStream forgets the forwarder and cancels it, without waiting for it: what
\* is produced from now on does not reach it.
Stopped == IF live = 0 THEN fwds ELSE [fwds EXCEPT ![live].upto = produced]

\* Mutant: a STREAM_REQUEST forwards only what is produced from now on.
SubscribesLive(from) == Forwarder(produced, produced, FALSE)

\* Subscribe with the since_seq the relay leaves 0: the replay of the scrollback,
\* behind a reset marker when its beginning was evicted or capped away.
Subscribes(from) == Forwarder(from, produced, from > 0)

\* The uplink reader; startStream ignores a duplicate, stopStream an unknown.
DesktopReceives ==
    /\ desk # 0 /\ link[desk] /\ down[desk] # << >>
    /\ down' = [down EXCEPT ![desk] = Tail(@)]
    /\ IF Head(down[desk]) = "STREAM_STOP" THEN fwds' = Stopped /\ live' = 0
       ELSE IF live # 0 THEN UNCHANGED <<fwds, live>>
       ELSE /\ \E from \in 0..produced : (from = produced => from = 0) /\ fwds' = Append(fwds, Subscribes(from))
            /\ live' = Len(fwds) + 1
    /\ UNCHANGED <<registry, conn, link, streaming, viewers, hooks, desk, produced, ring, attaches, sheds>>

Produce ==
    /\ produced < MaxSeq
    /\ produced' = produced + 1
    /\ UNCHANGED <<registry, conn, link, streaming, viewers, hooks, down, desk, fwds, live, ring, attaches, sheds>>

\* resyncSubscriber: the subscription overflows, what it had queued is dropped and
\* the scrollback's tail queued instead, behind a reset marker.
Overflow ==
    /\ live # 0 /\ produced > 0 /\ sheds < MaxShed
    /\ sheds' = sheds + 1
    /\ \E from \in 0..(produced - 1) : fwds' = [fwds EXCEPT ![live] = Forwarder(from, produced, TRUE)]
    /\ UNCHANGED <<registry, conn, link, streaming, viewers, hooks, down, desk, live, produced, ring, attaches>>

Frame(from, to) == [from |-> from, to |-> to]
Marker          == Frame(0, 0)

\* A forwarder's frame goes out and the relay's reader pushes it to the mirror.
Sends(frame) ==
    /\ desk # 0 /\ link[desk] /\ conn[desk] = "up"
    /\ ring' = [ring EXCEPT ![desk] = Append(@, frame)]

ForwardMarker(k) ==
    /\ fwds[k].mark
    /\ Sends(Marker)
    /\ fwds' = [fwds EXCEPT ![k].mark = FALSE]
    /\ UNCHANGED <<registry, conn, link, streaming, viewers, hooks, down, desk, live, produced, attaches, sheds>>

\* Mutant: the forwarder counts a chunk that it has not been given.
NextFramesAhead(f) == (f.pos + 1)..(produced + 1)

\* The newest chunk of the forwarder's next frame: any of the replay's, where
\* frames are merged, and one chunk at a time after it.
NextFrames(f) ==
    {to \in (f.pos + 1)..produced : to <= f.upto /\ (to <= f.till \/ to = f.pos + 1)}

Forward(k) ==
    /\ ~fwds[k].mark
    /\ \E to \in NextFrames(fwds[k]) :
          /\ Sends(Frame(fwds[k].pos + 1, to))
          /\ fwds' = [fwds EXCEPT ![k].pos = to]
    /\ UNCHANGED <<registry, conn, link, streaming, viewers, hooks, down, desk, live, produced, attaches, sheds>>

\* A cancelled forwarder sees its context done; what it had left is dropped.
ForwarderEnds(k) ==
    /\ k # live /\ (fwds[k].mark \/ fwds[k].upto > fwds[k].pos)
    /\ fwds' = [fwds EXCEPT ![k].upto = fwds[k].pos, ![k].mark = FALSE]
    /\ UNCHANGED <<registry, conn, link, streaming, viewers, hooks, down, desk, live, produced, ring, attaches, sheds>>

ForwarderNext(k) == ForwardMarker(k) \/ Forward(k) \/ ForwarderEnds(k)

-----------------------------------------------------------------------------
ConnNext(g) == \/ Connect(g) \/ AnnounceAdd(g) \/ AnnounceMirror(g)
               \/ LoseLink(g) \/ RelayNotices(g) \/ CleanupRemove(g)
HookNext(g) == StartStream(g) \/ StopStream(g) \/ EnqueueRequest(g) \/ EnqueueStop(g)
Done == /\ desk = 0 /\ produced = MaxSeq /\ \A g \in Conns : conn[g] = "gone" /\ hooks[g] = NoHooks
        /\ UNCHANGED vars

Next ==
    \/ \E g \in Conns : ConnNext(g) \/ HookNext(g)
    \/ \E c \in Clients : Attach(c) \/ \E g \in Conns : Detach(c, g)
    \/ DesktopNotices \/ DesktopReceives \/ Produce \/ Overflow
    \/ \E k \in DOMAIN fwds : ForwarderNext(k)
    \/ Done

\* A lost connection is noticed by both ends (read error or ping timeout), the
\* desktop reconnects with bounded backoff, and goroutines run.
Fairness ==
    /\ \A g \in Conns : /\ WF_vars(Connect(g)) /\ WF_vars(AnnounceAdd(g))
                        /\ WF_vars(AnnounceMirror(g)) /\ WF_vars(RelayNotices(g))
                        /\ WF_vars(CleanupRemove(g)) /\ WF_vars(HookNext(g))
    /\ WF_vars(DesktopNotices) /\ WF_vars(DesktopReceives)

Spec     == Init /\ [][Next]_vars
FairSpec == Spec /\ Fairness

-----------------------------------------------------------------------------
(* Properties *)

\* Every variable keeps its type.
TypeOK ==
    /\ registry \in 0..MaxConns /\ desk \in 0..MaxConns
    /\ conn \in [Conns -> {"none", "adding", "up", "cleanup", "gone"}]
    /\ link \in [Conns -> BOOLEAN] /\ streaming \in [Conns -> BOOLEAN]
    /\ viewers \in [Conns -> SUBSET Clients]
    /\ hooks \in [Conns -> [Hook -> Nat]]
    /\ down \in [Conns -> Seq({"STREAM_REQUEST", "STREAM_STOP"})]
    /\ produced \in 0..MaxSeq /\ live \in 0..Len(fwds)
    /\ fwds \in Seq([pos : 0..MaxSeq, till : 0..MaxSeq, upto : 0..MaxSeq, mark : BOOLEAN])
    /\ ring \in [Conns -> Seq([from : 0..MaxSeq, to : 0..MaxSeq])] /\ attaches \in 0..MaxAttach
    /\ sheds \in 0..MaxShed

\* The registered mirror belongs to a connection whose cleanup is still to
\* come, so no mirror outlives its uplink in the registry, and every viewer is
\* on the registered mirror: none is left on one nobody can find or close.
NoOrphanMirror ==
    /\ registry # 0 => conn[registry] \in {"adding", "up", "cleanup"}
    /\ \A g \in Conns : viewers[g] # {} => registry = g

\* The desktop's connection g is up at both ends and nothing is in flight on it.
Settled(g) == /\ desk = g /\ link[g] /\ conn[g] = "up"
              /\ hooks[g] = NoHooks /\ down[g] = << >>

\* Streaming on demand: with nothing in flight, the desktop streams to a mirror
\* exactly when somebody watches it.
StreamsOnDemand == \A g \in Conns : Settled(g) => (viewers[g] # {} <=> live # 0)

\* A reconnected desktop's ANNOUNCE rebuilds the manifest: while its connection
\* is up and every older connection has been cleaned up, the session it
\* announced is registered and can be attached.
AnnouncedIsRegistered ==
    \A g \in Conns : (Settled(g) /\ \A h \in Conns : h < g => conn[h] = "gone") => registry # 0

\* The mirror r has been pushed chunk n, or a reset marker, before its i-th frame.
ReachedBefore(r, n, i) ==
    \E j \in 1..(i - 1) : r[j] = Marker \/ n \in r[j].from..r[j].to

\* The uplink never makes a mirror miss output in the middle unmarked: whatever
\* frame a mirror is pushed begins with the session's first chunk, or the chunk
\* before it is there already, or a reset marker is; however often viewers come
\* and go, hooks overtake each other, cancelled forwarders send what they had
\* left next to the new one, and replays are merged, cut or resynced.
NoUnmarkedHole ==
    \A g \in Conns : \A i \in DOMAIN ring[g] :
        ring[g][i].from <= 1 \/ ReachedBefore(ring[g], ring[g][i].from - 1, i)

\* What ringbuf.Since relies on: the seqs a mirror's ring holds only grow.  Not
\* so: every STREAM_REQUEST replays from the start into the same mirror.
MirrorIsOrdered ==
    \A g \in Conns : \A i, j \in DOMAIN ring[g] :
        (i < j /\ ring[g][j] # Marker) => ring[g][i].to < ring[g][j].to

\* A connection that is lost is eventually cleaned up, and its mirror with it.
LostMirrorForgotten == \A g \in Conns : (conn[g] = "up" /\ ~link[g]) ~> (conn[g] = "gone" /\ registry # g)
=============================================================================
