---------------------------- MODULE SessionStream ----------------------------
(***************************************************************************)
(* One live session of internal/session: the scrollback ring               *)
(* (internal/ringbuf), the subscriber set, the fan-out of PushOut, the     *)
(* replay of Subscribe and its hand-over to the live stream, the resync of *)
(* a slow subscriber, and the client end of the socket                     *)
(* (desktop/frontend connection.ts, web client-conn.ts).                   *)
(*                                                                         *)
(* A chunk is its seq and one unit of bytes, so byte budgets become        *)
(* numbers of chunks.  What a client shows is the sequence of chunk seqs   *)
(* written to its terminal since the last clear-screen marker.             *)
(*                                                                         *)
(* The session is a relay-side mirror (driverFromUpstream): OUT and META   *)
(* are applied by the one uplink reader, ClaimDriver by a client's own     *)
(* goroutine.  Each step below runs between two lock operations.           *)
(***************************************************************************)
EXTENDS Integers, Sequences, FiniteSets

CONSTANTS
    Clients,        \* connections of viewers
    RingCap,        \* scrollbackBytes
    ReplayCap,      \* replayTailCapBytes
    CoalesceTarget, \* replayCoalesceTargetBytes
    ResyncTail,     \* resyncTailBytes
    QueueDepth,     \* subscriberQueueDepth
    MaxSeq,         \* bound: chunks the PTY produces
    MaxMeta,        \* bound: META broadcasts of the reader
    MaxClaims,      \* bound: CLAIM_DRIVER frames
    MaxDrops        \* bound: connections lost

ASSUME StreamAssumption ==
    /\ {RingCap, ReplayCap, CoalesceTarget, ResyncTail, QueueDepth} \subseteq Nat \ {0}
    /\ QueueDepth > 2   \* a resync's marker and tail, and the newcomer's META
    /\ {MaxSeq, MaxMeta, MaxClaims, MaxDrops} \subseteq Nat
    /\ "reader" \notin Clients

VARIABLES
    ring,    \* s.scroll: the seqs of the chunks kept, oldest first
    last,    \* seq of the newest chunk the PTY loop has produced
    subs,    \* s.subs
    closed,  \* s.closed
    out,     \* sub.out of each client's current subscriber
    att,     \* where each client's Subscribe stands
    th,      \* the fan-out each goroutine is in the middle of
    screen,  \* chunks on the client's terminal since the last marker
    cursor,  \* the client's last committed seq
    told,    \* the client has received CLOSE
    dedup,   \* a desktop client, which drops OUT at or below its cursor, or a
             \* web client, which writes all of it
    metas, claims, drops

vars == <<ring, last, subs, closed, out, att, th, screen, cursor, told,
          dedup, metas, claims, drops>>

Threads == {"reader"} \cup Clients

-----------------------------------------------------------------------------
(* internal/ringbuf *)

Newest(s, n) == IF Len(s) > n THEN SubSeq(s, Len(s) - n + 1, Len(s)) ELSE s

\* Mutant: a ring that never evicts.
PushUnbounded(buf, seq) == Append(buf, seq)

\* Buffer.Push: append, then evict the oldest until the budget is met.
Push(buf, seq) == Newest(Append(buf, seq), RingCap)

\* Mutant: an off-by-one in the comparison with since_seq.
SinceSkips(buf, since) == SelectSeq(buf, LAMBDA x : x > since + 1)

\* Buffer.Since: everything from the first chunk above since onwards.
Since(buf, since) ==
    LET above == {i \in DOMAIN buf : buf[i] > since}
    IN  IF above = {} THEN << >>
        ELSE SubSeq(buf, CHOOSE i \in above : \A j \in above : i <= j, Len(buf))

OldestSeq(buf) == IF buf = << >> THEN 0 ELSE buf[1]
LatestSeq(buf) == IF buf = << >> THEN 0 ELSE buf[Len(buf)]
TailBytes(buf) == Newest(buf, ResyncTail)

-----------------------------------------------------------------------------
(* Frames *)

Out(seq, data)  == [kind |-> "out", seq |-> seq, data |-> data]
Control(kind)   == [kind |-> kind, seq |-> 0, data |-> << >>]
ResetMarker     == Control("reset")

Fits(q)         == Len(q) < QueueDepth
TrySend(q, f)   == IF Fits(q) THEN Append(q, f) ELSE q

\* capReplayTail
CapReplayTail(chunks) == Newest(chunks, ReplayCap)
CappedTail(chunks)    == Len(chunks) > ReplayCap

\* replayIsTruncated
ReplayIsTruncated(oldest, since, count) ==
    /\ count > 0
    /\ oldest > since + 1

\* Mutant: batches labelled with the seq of their first chunk.
ReplayFramesFirst(chunks) ==
    [i \in 1..((Len(chunks) + CoalesceTarget - 1) \div CoalesceTarget) |->
        LET from == (i - 1) * CoalesceTarget + 1
            to   == IF i * CoalesceTarget < Len(chunks) THEN i * CoalesceTarget ELSE Len(chunks)
        IN  Out(chunks[from], SubSeq(chunks, from, to))]

\* enqueueReplayChunks: the chunks in batches of at most CoalesceTarget, each
\* labelled with the seq of its last chunk.
ReplayFrames(chunks) ==
    LET n == (Len(chunks) + CoalesceTarget - 1) \div CoalesceTarget
        End(i) == IF i * CoalesceTarget < Len(chunks) THEN i * CoalesceTarget
                                                      ELSE Len(chunks)
    IN  [i \in 1..n |->
            Out(chunks[End(i)], SubSeq(chunks, (i - 1) * CoalesceTarget + 1, End(i)))]

\* Enqueue frames in order; what does not fit is not sent.
AllFit(q, frames)     == Len(q) + Len(frames) <= QueueDepth
EnqueueAll(q, frames) == IF AllFit(q, frames) THEN q \o frames
                         ELSE SubSeq(q \o frames, 1, QueueDepth)

-----------------------------------------------------------------------------
Idle     == [pc |-> "idle", frame |-> Control("none"), pend |-> {},
             sub |-> "none", tail |-> << >>, label |-> 0]
Detached == [pc |-> "off", chunks |-> << >>, capped |-> FALSE, lastSeq |-> 0]

Init ==
    /\ ring = << >> /\ last = 0
    /\ subs = {} /\ closed = FALSE
    /\ out = [c \in Clients |-> << >>]
    /\ att = [c \in Clients |-> Detached]
    /\ th = [t \in Threads |-> Idle]
    /\ screen = [c \in Clients |-> << >>]
    /\ cursor = [c \in Clients |-> 0]
    /\ told = [c \in Clients |-> FALSE]
    /\ dedup \in [Clients -> BOOLEAN]
    /\ metas = 0 /\ claims = 0 /\ drops = 0

client == <<screen, cursor, told, dedup>>
bounds == <<metas, claims, drops>>

-----------------------------------------------------------------------------
(* Session.fanout: snapshot the subscribers under the lock, then one        *)
(* non-blocking send to each; a full queue is resynced instead.             *)

StartFanout(t, f) == th' = [th EXCEPT ![t] = [Idle EXCEPT !.pc = "fanout", !.frame = f]]

\* What goroutine t does after its fan-out: the reader that has broadcast
\* CLOSE goes on to Registry.Remove.
AfterFanout(f) == IF f.kind = "close" THEN [Idle EXCEPT !.pc = "remove"] ELSE Idle

\* Session.PushOut, up to the fan-out.  The seq is the caller's: here the next
\* number, which the reader of a PTY gives (internal/relay/adopt.go).  An uplink
\* may push its mirror repeated and merged seqs and markers: see LazyStream.
PushOut ==
    /\ th["reader"].pc = "idle" /\ ~closed /\ last < MaxSeq
    /\ last' = last + 1
    /\ ring' = Push(ring, last + 1)
    /\ StartFanout("reader", Out(last + 1, <<last + 1>>))
    /\ UNCHANGED <<subs, closed, out, att, client, bounds>>

\* A META change broadcast by the reader (UpdateMeta, or the one PushOut makes
\* before it pushes).
BroadcastMeta ==
    /\ th["reader"].pc = "idle" /\ ~closed /\ metas < MaxMeta
    /\ metas' = metas + 1
    /\ StartFanout("reader", Control("meta"))
    /\ UNCHANGED <<ring, last, subs, closed, out, att, client, claims, drops>>

\* The PTY ended: Broadcast(CLOSE), then removeSession.
EndOfSession ==
    /\ th["reader"].pc = "idle" /\ ~closed
    /\ StartFanout("reader", Control("close"))
    /\ UNCHANGED <<ring, last, subs, closed, out, att, client, bounds>>

\* Session.ClaimDriver by a registered subscriber: its own goroutine
\* broadcasts the META.
ClaimDriver(c) ==
    /\ att[c].pc = "live" /\ c \in subs /\ th[c].pc = "idle" /\ claims < MaxClaims
    /\ claims' = claims + 1
    /\ StartFanout(c, Control("meta"))
    /\ UNCHANGED <<ring, last, subs, closed, out, att, client, metas, drops>>

Snapshot(t) ==
    /\ th[t].pc = "fanout"
    /\ th' = [th EXCEPT ![t] = IF subs = {} THEN AfterFanout(@.frame)
                               ELSE [@ EXCEPT !.pc = "send", !.pend = subs]]
    /\ UNCHANGED <<ring, last, subs, closed, out, att, client, bounds>>

\* The fan-out record of a goroutine that is finished with subscriber c.
Served(r, c) ==
    IF r.pend = {c} THEN AfterFanout(r.frame)
    ELSE [r EXCEPT !.pc = "send", !.pend = @ \ {c}, !.sub = "none",
                   !.tail = << >>, !.label = 0]

Send(t, c) ==
    /\ th[t].pc = "send" /\ c \in th[t].pend
    /\ IF Fits(out[c])
       THEN /\ out' = [out EXCEPT ![c] = Append(@, th[t].frame)]
            /\ th' = [th EXCEPT ![t] = Served(@, c)]
       ELSE /\ th' = [th EXCEPT ![t] = [@ EXCEPT !.pc = "full", !.sub = c]]
            /\ out' = out
    /\ UNCHANGED <<ring, last, subs, closed, att, client, bounds>>

(* Session.resyncSubscriber, one action for each read or send that another  *)
(* goroutine can come between.                                              *)

ResyncDrain(t) ==
    /\ th[t].pc = "full"
    /\ out' = [out EXCEPT ![th[t].sub] = << >>]
    /\ th' = [th EXCEPT ![t].pc = "drained"]
    /\ UNCHANGED <<ring, last, subs, closed, att, client, bounds>>

ResyncTailBytes(t) ==
    /\ th[t].pc = "drained"
    /\ th' = [th EXCEPT ![t] = [@ EXCEPT !.pc = "tail", !.tail = TailBytes(ring)]]
    /\ UNCHANGED <<ring, last, subs, closed, out, att, client, bounds>>

ResyncLatestSeq(t) ==
    /\ th[t].pc = "tail"
    /\ th' = [th EXCEPT ![t] = [@ EXCEPT !.pc = "label", !.label = LatestSeq(ring)]]
    /\ UNCHANGED <<ring, last, subs, closed, out, att, client, bounds>>

\* Mutant: the queue is reset but the tail is not sent.
ResyncMarkerOnly(t) ==
    /\ th[t].pc = "label"
    /\ out' = [out EXCEPT ![th[t].sub] = TrySend(@, ResetMarker)]
    /\ th' = [th EXCEPT ![t] = Served(@, th[t].sub)]
    /\ UNCHANGED <<ring, last, subs, closed, att, client, bounds>>

ResyncMarker(t) ==
    /\ th[t].pc = "label"
    /\ LET c == th[t].sub
       IN  /\ out' = [out EXCEPT ![c] = TrySend(@, ResetMarker)]
           /\ th' = [th EXCEPT ![t] = IF Fits(out[c]) /\ @.tail # << >>
                                      THEN [@ EXCEPT !.pc = "marked"]
                                      ELSE Served(@, c)]
    /\ UNCHANGED <<ring, last, subs, closed, att, client, bounds>>

ResyncSendTail(t) ==
    /\ th[t].pc = "marked"
    /\ LET c == th[t].sub
       IN  /\ out' = [out EXCEPT ![c] = TrySend(@, Out(th[t].label, th[t].tail))]
           /\ th' = [th EXCEPT ![t] = Served(@, c)]
    /\ UNCHANGED <<ring, last, subs, closed, att, client, bounds>>

Resync(t) ==
    \/ ResyncDrain(t) \/ ResyncTailBytes(t) \/ ResyncLatestSeq(t)
    \/ ResyncMarker(t) \/ ResyncSendTail(t)

\* Registry.Remove -> Session.Close.
CloseSession ==
    /\ th["reader"].pc = "remove"
    /\ closed' = TRUE /\ subs' = {}
    /\ att' = [c \in Clients |-> IF c \in subs THEN [att[c] EXCEPT !.pc = "cut"] ELSE att[c]]
    /\ th' = [th EXCEPT !["reader"] = Idle]
    /\ UNCHANGED <<ring, last, out, client, bounds>>

-----------------------------------------------------------------------------
(* Session.Subscribe.  Nobody reads or writes the new queue until the        *)
(* subscriber joins s.subs, so a batch of sends is one step.                 *)

\* ATTACH with since_seq = cursor: the first Since, capped.
Attach(c) ==
    /\ att[c].pc = "off" /\ ~closed
    /\ LET chunks == Since(ring, cursor[c])
       IN  att' = [att EXCEPT ![c] =
                     [pc |-> "snapshot", chunks |-> CapReplayTail(chunks),
                      capped |-> CappedTail(chunks), lastSeq |-> cursor[c]]]
    /\ UNCHANGED <<ring, last, subs, closed, out, th, client, bounds>>

\* Send frames; on a full queue the subscriber is closed mid-attach.
Replay(c, frames, next, lastSeq) ==
    /\ out' = [out EXCEPT ![c] = EnqueueAll(@, frames)]
    /\ att' = [att EXCEPT ![c] =
                 [Detached EXCEPT !.pc = IF AllFit(out[c], frames) THEN next ELSE "dropped",
                                  !.lastSeq = lastSeq]]

\* REPLAY_PROGRESS start, the reset marker of a truncated replay, the chunks.
ReplaySnapshot(c) ==
    /\ att[c].pc = "snapshot"
    /\ LET a      == att[c]
           torn   == a.capped \/ ReplayIsTruncated(OldestSeq(ring), a.lastSeq, Len(a.chunks))
           marker == IF torn THEN <<ResetMarker>> ELSE << >>
       IN  Replay(c, <<Control("progress")>> \o marker \o ReplayFrames(a.chunks), "catchup",
                  IF a.chunks = << >> THEN a.lastSeq ELSE LatestSeq(a.chunks))
    /\ UNCHANGED <<ring, last, subs, closed, th, client, bounds>>

\* The catch-up loop: what the ring gained since, until there is nothing.
CatchUp(c) ==
    /\ att[c].pc = "catchup" /\ ~closed
    /\ LET more == Since(ring, att[c].lastSeq)
       IN  /\ more # << >>
           /\ Replay(c, ReplayFrames(more), "catchup", LatestSeq(more))
    /\ UNCHANGED <<ring, last, subs, closed, th, client, bounds>>

\* Mutant: join s.subs right after the replay, without the last look at the ring.
JoinEarly(c) ==
    /\ att[c].pc = "catchup"
    /\ LET joins == ~closed /\ Fits(out[c])
       IN  /\ att' = [att EXCEPT ![c].pc = IF joins THEN "joined" ELSE "dropped"]
           /\ out' = [out EXCEPT ![c] = IF joins THEN Append(@, Control("progress")) ELSE @]
           /\ subs' = IF joins THEN subs \cup {c} ELSE subs
    /\ UNCHANGED <<ring, last, closed, th, client, bounds>>

\* Nothing left to catch up on: still under s.mu, queue REPLAY_PROGRESS end
\* and join s.subs.
Join(c) ==
    /\ att[c].pc = "catchup"
    /\ closed \/ Since(ring, att[c].lastSeq) = << >>
    /\ LET joins == ~closed /\ Fits(out[c])
       IN  /\ att' = [att EXCEPT ![c].pc = IF joins THEN "joined" ELSE "dropped"]
           /\ out' = [out EXCEPT ![c] = IF joins THEN Append(@, Control("progress")) ELSE @]
           /\ subs' = IF joins THEN subs \cup {c} ELSE subs
    /\ UNCHANGED <<ring, last, closed, th, client, bounds>>

\* After the unlock, the META snapshot for the newcomer alone; from then on the
\* connection's writer drains the queue.
SendSnapshotMeta(c) ==
    /\ att[c].pc = "joined"
    /\ out' = [out EXCEPT ![c] = TrySend(@, Control("meta"))]
    /\ att' = [att EXCEPT ![c].pc = "live"]
    /\ UNCHANGED <<ring, last, subs, closed, th, client, bounds>>

-----------------------------------------------------------------------------
(* The connection: handleClient's writer and the client's frame handler.    *)

\* Mutant: the frame whose seq is the cursor counts as new.
CommitsAgain(c, f) == f.kind = "out" /\ (dedup[c] => f.seq >= cursor[c])

\* DirectRouteTracker.acceptOutput, or the web client's lack of it: is the OUT
\* frame written to the terminal?
Commits(c, f) == f.kind = "out" /\ (dedup[c] => f.seq > cursor[c])

\* handleProtocolFrame / onmessage of the client.
Deliver(c) ==
    /\ att[c].pc \in {"live", "cut", "dropped"} /\ out[c] # << >>
    /\ LET f == Head(out[c])
       IN  /\ screen' = [screen EXCEPT ![c] = IF f.kind = "reset" THEN << >>
                                              ELSE IF Commits(c, f) THEN @ \o f.data ELSE @]
           /\ cursor' = [cursor EXCEPT ![c] = IF f.kind = "out" /\ f.seq > @ THEN f.seq ELSE @]
           /\ told' = [told EXCEPT ![c] = @ \/ f.kind = "close"]
    /\ out' = [out EXCEPT ![c] = Tail(@)]
    /\ UNCHANGED <<ring, last, subs, closed, att, th, dedup, bounds>>

\* Goroutines that still hold the subscriber of c serve a queue nobody reads.
Forget(c) ==
    th' = [t \in Threads |->
             IF c \notin th[t].pend THEN th[t]
             ELSE IF th[t].pc = "send" \/ th[t].sub = c THEN Served(th[t], c)
             ELSE [th[t] EXCEPT !.pend = @ \ {c}]]

\* The writer sees sub.Done() - which its select may prefer to frames that are
\* still queued - and closes the socket.
Hangup(c) ==
    /\ att[c].pc \in {"cut", "dropped"}
    /\ att' = [att EXCEPT ![c] = [Detached EXCEPT !.pc = IF att[c].pc = "cut" THEN "ended" ELSE "off"]]
    /\ out' = [out EXCEPT ![c] = << >>]
    /\ Forget(c)
    /\ UNCHANGED <<ring, last, subs, closed, client, bounds>>

\* The connection is lost; the handler's deferred Unsubscribe runs, and the
\* client may attach again from its cursor.
Disconnect(c) ==
    /\ att[c].pc = "live" /\ drops < MaxDrops /\ th[c].pc = "idle"
    /\ drops' = drops + 1
    /\ subs' = subs \ {c}
    /\ att' = [att EXCEPT ![c] = Detached]
    /\ out' = [out EXCEPT ![c] = << >>]
    /\ Forget(c)
    /\ UNCHANGED <<ring, last, closed, client, metas, claims>>

-----------------------------------------------------------------------------
Finished == closed /\ \A c \in Clients : att[c].pc \in {"off", "ended"}

ReaderNext == PushOut \/ BroadcastMeta \/ EndOfSession \/ CloseSession
ThreadNext(t) == Snapshot(t) \/ (\E c \in Clients : Send(t, c)) \/ Resync(t)
SubscribeNext(c) ==
    Attach(c) \/ ReplaySnapshot(c) \/ CatchUp(c) \/ Join(c) \/ SendSnapshotMeta(c)

Next ==
    \/ ReaderNext
    \/ \E t \in Threads : ThreadNext(t)
    \/ \E c \in Clients : \/ SubscribeNext(c) \/ ClaimDriver(c)
                          \/ Deliver(c) \/ Hangup(c) \/ Disconnect(c)
    \/ Finished /\ UNCHANGED vars

\* Goroutines keep running, and a writer either writes or fails its deadline.
Fairness ==
    /\ \A t \in Threads : WF_vars(ThreadNext(t))
    /\ \A c \in Clients : WF_vars(Deliver(c))

Spec     == Init /\ [][Next]_vars
FairSpec == Spec /\ Fairness

-----------------------------------------------------------------------------
(* Properties *)

Seqs   == 0..MaxSeq
Frame  == [kind : {"none", "out", "reset", "meta", "progress", "close"},
           seq : Seqs, data : Seq(Seqs)]
Attachment == [pc : {"off", "snapshot", "catchup", "joined", "live", "cut", "dropped", "ended"},
               chunks : Seq(Seqs), capped : BOOLEAN, lastSeq : Seqs]
Fanout == [pc : {"idle", "fanout", "send", "full", "drained", "tail", "label", "marked", "remove"},
           frame : Frame, pend : SUBSET Clients,
           sub : Clients \cup {"none"}, tail : Seq(Seqs), label : Seqs]

\* The scrollback ring is the contiguous run of seqs that ends at the newest
\* chunk: Since and replayIsTruncated read holes from its two ends alone.
RingIsSuffix == ring = [i \in 1..Len(ring) |-> last - Len(ring) + i]

\* Every variable keeps its type, and no queue exceeds subscriberQueueDepth.
TypeOK ==
    /\ ring \in Seq(Seqs) /\ Len(ring) <= RingCap /\ RingIsSuffix
    /\ last \in Seqs /\ closed \in BOOLEAN /\ subs \subseteq Clients
    /\ out \in [Clients -> Seq(Frame)]
    /\ \A c \in Clients : Len(out[c]) <= QueueDepth
    /\ att \in [Clients -> Attachment] /\ th \in [Threads -> Fanout]
    /\ screen \in [Clients -> Seq(Seqs)]
    /\ cursor \in [Clients -> Seqs]
    /\ told \in [Clients -> BOOLEAN] /\ dedup \in [Clients -> BOOLEAN]
    /\ metas \in 0..MaxMeta /\ claims \in 0..MaxClaims /\ drops \in 0..MaxDrops

\* No goroutine but the reader has fanned out: nobody has sent CLAIM_DRIVER.
OneFanout == claims = 0

Consecutive(s) == \A i \in 1..Len(s) - 1 : s[i + 1] = s[i] + 1

\* Every queued OUT frame carries consecutive chunks ending with the one its
\* seq names (enqueueReplayChunks, resyncSubscriber): the client commits that
\* seq, so a label ahead of the bytes would lose output on the next ATTACH.  A
\* resync reads the two separately, so this needs a single fan-out goroutine.
LabelsHonest == OneFanout =>
    \A c \in Clients : \A i \in DOMAIN out[c] :
        LET f == out[c][i]
        IN  f.kind = "out" => /\ f.data # << >>
                              /\ f.data[Len(f.data)] = f.seq
                              /\ Consecutive(f.data)

\* A hole on a terminal (chunks skipped with no marker between) is made only
\* of chunks the ring had evicted: replay, catch-up, fan-out and resync never
\* skip a chunk the scrollback still has.
HolesWereEvicted == OneFanout =>
    \A c \in Clients : \A i \in 1..Len(screen[c]) - 1 :
        screen[c][i + 1] > screen[c][i] + 1 => screen[c][i + 1] <= OldestSeq(ring)

\* A client that drops OUT at or below its cursor never shows a chunk twice nor
\* out of order, although Subscribe's hand-over and a resync queue duplicates.
\* (A second resync could drain the marker of the first.)
NothingShownTwice ==
    OneFanout => \A c \in Clients : dedup[c] =>
        \A i \in 1..Len(screen[c]) - 1 : screen[c][i] < screen[c][i + 1]

\* No goroutine is fanning out and the live client c has drained its queue.
Drained(c) == /\ att[c].pc = "live" /\ out[c] = << >>
              /\ \A t \in Threads : th[t].pc = "idle"

\* The terminal of c ends with the newest chunk.
Current(c) == screen[c] # << >> /\ screen[c][Len(screen[c])] = last

\* A live client that has drained its queue has committed the newest chunk:
\* nothing was lost on the way, through any number of overflows, resyncs and
\* re-attaches.  (A second goroutine's resync can drain a chunk and then find the
\* queue filled with META again before its own marker: the chunk is lost.)  And as
\* long as its connection lasts a web client, although a resync clears its
\* terminal first, then shows a view that ends with the newest chunk.
DrainedMeansCurrent == OneFanout =>
    \A c \in Clients : Drained(c) =>
        /\ cursor[c] = last
        /\ drops = 0 /\ last > 0 /\ ~dedup[c] => Current(c)

\* What fanout says of every client: one that fell behind is handed "a coherent
\* recent view".  A client that drops OUT at or below its cursor is not.
CoherentView == OneFanout /\ last > 0 => \A c \in Clients : Drained(c) => Current(c)

\* Once the PTY is quiet, a client that stays attached reaches the last chunk,
\* unless a second goroutine fans out meanwhile.
EventuallyCurrent ==
    \A c \in Clients :
        (last = MaxSeq /\ att[c].pc = "live") ~>
            (cursor[c] = MaxSeq \/ att[c].pc # "live" \/ ~OneFanout)
=============================================================================
