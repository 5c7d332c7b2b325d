---------------------------- MODULE ClientRoute ----------------------------
(***************************************************************************)
(* One viewer's SessionConnection (desktop/frontend/src/lib/connection.ts)  *)
(* with its DirectRouteTracker (directRoute.ts) and the one-shot            *)
(* DirectClientTransport (directClient.ts): a relay WebSocket that          *)
(* reconnects with since_seq, an opportunistic direct channel that takes    *)
(* over when its replay has caught up, and the fall-back to the relay.      *)
(*                                                                          *)
(* log is what the session broadcasts: an entry is where the broadcast left *)
(* the session, the sequence number of its last OUT and its driver ("" for  *)
(* none); it is an OUT frame when the number moved, else a META.  A socket  *)
(* and a direct channel deliver the same stream: the OUTs after since_seq,  *)
(* the end of the replay, a META snapshot, then the log as it grows.  What  *)
(* is in flight on a channel is therefore given by its position pos in the  *)
(* log.  An OUT frame may hold several chunks under the number of the last: *)
(* a replay merges them, and the relay's mirror is pushed the desktop's     *)
(* replays as they come, from the start each time.  The session keeps all   *)
(* its output here: eviction and the reset markers it brings are            *)
(* SessionStream's subject, and on the direct channel a marker fails the    *)
(* route as any bad frame does (DirectFails).  The network is external.     *)
(* Inputs are numbered as typed; up holds the frames on their way to the    *)
(* host, in each channel (socket i is i, the direct channel 0); input 0 is  *)
(* a CLAIM_DRIVER.  The record of a socket is free for reuse once it is     *)
(* closed.  shown is the runs of output the terminal was given, in order.   *)
(***************************************************************************)
EXTENDS Integers, Sequences, FiniteSets

CONSTANTS
    MaxSeq,      \* bound: OUT frames of the session
    MaxFaults,   \* bound: lost sockets and channels, suspensions, preference changes
    MaxInput,    \* bound: inputs typed
    MaxDriver,   \* bound: driver changes the viewer did not ask for
    MaxEvents    \* bound: outputs, inputs and driver changes together

ASSUME RouteAssumption ==
    /\ MaxSeq \in Nat /\ MaxFaults \in Nat /\ MaxInput \in Nat
    /\ MaxDriver \in Nat /\ MaxEvents \in Nat

Socks   == 1..(MaxFaults + 1)
Drivers == {"", "me", "other"}
DirectChan == 0
Chans   == Socks \cup {DirectChan}

VARIABLES
    log, got, up,                  \* the host and the way to it
    app,                           \* "on" or "suspended"
    prefer, attempted, replayDone, \* preferDirect, directAttempted, relayReplayComplete
    rt,                            \* DirectRouteTracker
    cur, socks, timer,             \* this.ws, the sockets not yet closed, reconnectTimer
    dt,                            \* this.direct
    pend, typed,                   \* pendingInputs
    view, isDriver, recover, claim,
    shown, faults

host   == <<log, got>>
flags  == <<prefer, attempted, replayDone>>
link   == <<cur, socks, timer>>
input  == <<pend, typed>>
driver == <<view, isDriver, recover, claim>>
vars   == <<host, up, app, flags, rt, link, dt, input, driver, shown, faults>>

NoSock   == [gen |-> 0, st |-> "none", pos |-> 0, ph |-> "replay"]
Closing  == [NoSock EXCEPT !.st = "closing"]
NoDirect == [gen |-> 0, st |-> "none", pos |-> 0, ph |-> "replay"]
\* Mutant: one frame of margin below the cursor.
TrackerWithMargin(seq) == [st |-> "RelayAttached", gen |-> 1, com |-> seq - 1, obs |-> 0, ready |-> FALSE]

\* new DirectRouteTracker(committedSeq).
Tracker(seq) == [st |-> "RelayAttached", gen |-> 1, com |-> seq, obs |-> 0, ready |-> FALSE]

Init ==
    /\ log = << >> /\ got = << >> /\ up = [ch \in Chans |-> << >>]
    /\ app = "on" /\ prefer \in BOOLEAN /\ attempted = FALSE /\ replayDone = FALSE
    /\ rt = Tracker(0)
    /\ cur = 1 /\ timer = FALSE
    /\ socks = [i \in Socks |-> IF i = 1 THEN [NoSock EXCEPT !.gen = 1, !.st = "connecting"]
                                         ELSE NoSock]
    /\ dt = NoDirect
    /\ pend = << >> /\ typed = 0
    /\ view = "" /\ isDriver = FALSE /\ recover = "no" /\ claim = FALSE
    /\ shown = << >> /\ faults = 0

Room == Len(log) + typed < MaxEvents

-----------------------------------------------------------------------------
(* The stream a channel carries *)

SeqAt(p)    == IF p = 0 THEN 0 ELSE log[p].seq
DriverAt(p) == IF p = 0 THEN "" ELSE log[p].driver
IsOut(p)    == SeqAt(p) # SeqAt(p - 1)
Produced    == SeqAt(Len(log))
\* Where the OUT with this number stands, or the start.
StandsAt(p, seq) == SeqAt(p) = seq /\ (p = 0 \/ IsOut(p))
PosOf(seq)  == CHOOSE p \in 0..Len(log) : StandsAt(p, seq)
\* An OUT takes a channel from position q to p: in a replay it holds any number
\* of chunks and passes the METAs among them.
OutTo(q, p, ph) == IsOut(p) /\ (ph = "live" => \A m \in (q + 1)..p : IsOut(m))

-----------------------------------------------------------------------------
(* DirectRouteTracker *)

AcceptsRoute(r, gen, route) ==
    /\ gen = r.gen
    /\ \/ route = "relay"  /\ r.st # "DirectActive"
       \/ route = "direct" /\ r.st \in {"DirectReplay", "DirectActive"}

InputRoute(r) == CASE r.st = "DirectActive"     -> "direct"
                   [] r.st = "RelayReattaching" -> "none"
                   [] OTHER                     -> "relay"

\* Mutant: a frame at the cursor counts as new.
AcceptedAgain(r, seq) == seq >= r.com

\* acceptOutput of a route acceptsRoute lets through.  The direct route's own
\* progress counts even where the frame is a duplicate.
Accepted(r, seq) == seq > r.com
AcceptOutput(r, route, seq) ==
    [r EXCEPT !.obs = IF route = "direct" /\ r.st = "DirectReplay" /\ seq > @ THEN seq ELSE @,
              !.com = IF Accepted(r, seq) THEN seq ELSE @]
NoteDirectReady(r, seq) ==
    [r EXCEPT !.obs = IF seq > @ THEN seq ELSE @, !.ready = TRUE]

CanActivateDirect(r) == r.st = "DirectReplay" /\ r.ready /\ r.obs >= r.com

BeginDirect(r) == [r EXCEPT !.st = "DirectConnecting", !.obs = r.com, !.ready = FALSE]
\* obs and ready mean nothing outside DirectReplay; they are cleared where it is left.
Left(r)        == [r EXCEPT !.obs = 0, !.ready = FALSE]
AbortDirect(r) == [Left(r) EXCEPT !.gen = @ + 1, !.st = "RelayAttached"]
DirectLost(r)  == [Left(r) EXCEPT !.gen = @ + 1, !.st = "RelayReattaching"]

-----------------------------------------------------------------------------
(* Sending *)

WSOpen == cur # 0 /\ socks[cur].st = "open"

\* A frame n sent on channel ch.
Send(ch, n) == up' = [up EXCEPT ![ch] = Append(@, n)]

\* The claims that go first: `before`, then the one that waits.
Claims(before) == before \o (IF claim THEN <<0>> ELSE << >>)

\* Mutant: what is flushed stays queued.
FlushKeeps(ch, before) ==
    /\ up' = [up EXCEPT ![ch] = @ \o Claims(before) \o pend]
    /\ claim' = FALSE /\ pend' = pend

\* flushPendingRelayWrites and flushPendingDirectWrites: the claim first, then
\* the inputs in the order typed.
Flush(ch, before) ==
    /\ up' = [up EXCEPT ![ch] = @ \o Claims(before) \o pend]
    /\ claim' = FALSE /\ pend' = << >>

\* Mutant: while the route is being re-established input goes to any open socket.
SendInputUnfrozen ==
    /\ typed < MaxInput /\ Room
    /\ typed' = typed + 1
    /\ \/ /\ InputRoute(rt) = "direct"
          /\ Send(DirectChan, typed + 1) /\ pend' = pend
       \/ /\ InputRoute(rt) # "direct" /\ WSOpen
          /\ Send(cur, typed + 1) /\ pend' = pend
       \/ /\ InputRoute(rt) # "direct" /\ ~WSOpen
          /\ pend' = Append(pend, typed + 1) /\ up' = up
    /\ UNCHANGED <<host, app, flags, rt, link, dt, driver, shown, faults>>

\* sendInput: the direct channel (which may refuse, and then fails soon), a
\* queue while no route takes input or the socket is opening, nothing at all
\* while the socket is closing.
SendInput ==
    /\ typed < MaxInput /\ Room
    /\ typed' = typed + 1
    /\ \/ /\ InputRoute(rt) = "direct" /\ dt.st = "authed"
          /\ Send(DirectChan, typed + 1) /\ pend' = pend
       \/ /\ \/ InputRoute(rt) = "direct" /\ dt.st # "authed"
             \/ InputRoute(rt) = "none"
             \/ InputRoute(rt) = "relay" /\ cur = 0
             \/ InputRoute(rt) = "relay" /\ cur # 0 /\ socks[cur].st = "connecting"
          /\ pend' = Append(pend, typed + 1) /\ up' = up
       \/ /\ InputRoute(rt) = "relay" /\ WSOpen
          /\ Send(cur, typed + 1) /\ pend' = pend
       \/ /\ InputRoute(rt) = "relay" /\ cur # 0 /\ socks[cur].st = "closing"
          /\ UNCHANGED <<up, pend>>
    /\ UNCHANGED <<host, app, flags, rt, link, dt, driver, shown, faults>>

\* claimDriver by the user's click: kept for the next attach when it cannot be sent.
ClaimDriver ==
    /\ app = "on" /\ ~isDriver /\ ~claim
    /\ Len(log) - Produced < MaxDriver /\ Room
    /\ \A ch \in Chans : \A k \in DOMAIN up[ch] : up[ch][k] # 0
    /\ \/ /\ InputRoute(rt) = "direct" /\ dt.st = "authed"
          /\ Send(DirectChan, 0) /\ claim' = FALSE
       \/ /\ InputRoute(rt) = "relay" /\ WSOpen
          /\ Send(cur, 0) /\ claim' = FALSE
       \/ /\ \/ InputRoute(rt) = "none"
             \/ InputRoute(rt) = "relay" /\ ~WSOpen
             \/ InputRoute(rt) = "direct" /\ dt.st # "authed"
          /\ claim' = TRUE /\ up' = up
    /\ UNCHANGED <<host, app, flags, rt, link, dt, input, view, isDriver, recover, shown, faults>>

-----------------------------------------------------------------------------
(* The relay socket *)

\* What a channel sent and the host has not taken is lost with it.
Without(ch) == [up EXCEPT ![ch] = << >>]

FreeSock(i) == socks[i].st = "none" /\ \A j \in 1..(i - 1) : socks[j].st # "none"

\* handleOpenFailure: the constructor threw, which costs a fault of its own.
HandleOpenFailure(spent) ==
    /\ faults + spent < MaxFaults /\ faults' = faults + spent + 1
    /\ cur' = 0 /\ timer' = TRUE /\ socks' = socks

\* openWS under tracker r, after `spent` faults.
OpenWS(r, on, spent) ==
    IF ~on \/ ~AcceptsRoute(r, r.gen, "relay")
    THEN timer' = FALSE /\ faults' = faults + spent /\ UNCHANGED <<cur, socks>>
    ELSE \/ /\ \E i \in Socks :
                  /\ FreeSock(i) /\ cur' = i
                  /\ socks' = [socks EXCEPT ![i] = [NoSock EXCEPT !.gen = r.gen, !.st = "connecting"]]
            /\ timer' = FALSE /\ faults' = faults + spent
         \/ HandleOpenFailure(spent)

\* ws.onopen: a socket of another generation is closed, else ATTACH, and the
\* queued writes where the relay takes input.  since_seq is the cursor.
SocketOpens(i) ==
    /\ socks[i].st = "connecting" /\ cur = i
    /\ IF AcceptsRoute(rt, socks[i].gen, "relay")
       THEN /\ socks' = [socks EXCEPT ![i].st = "open", ![i].pos = PosOf(rt.com)]
            /\ recover' = IF isDriver THEN "want" ELSE "no"
            /\ IF InputRoute(rt) = "relay" THEN Flush(i, << >>)
                                           ELSE UNCHANGED <<up, claim, pend>>
       ELSE /\ socks' = [socks EXCEPT ![i] = Closing]
            /\ UNCHANGED <<recover, up, claim, pend>>
    /\ UNCHANGED <<host, app, flags, rt, cur, timer, dt, typed, view, isDriver, shown, faults>>

\* ws.onmessage's filter: the current socket, opened under this generation.
Hears(i) == cur = i /\ AcceptsRoute(rt, socks[i].gen, "relay")

\* A transport that has started to signal, with since_seq as tracker r has it.
Signalling(r) == [NoDirect EXCEPT !.gen = r.gen, !.st = "signal", !.pos = PosOf(r.com)]

\* maybeStartDirect under tracker r; an endpoint, WebRTC and an unlocked
\* account key may each be missing.
MaybeStartDirect(r, pref, tried) ==
    IF pref /\ ~tried /\ r.st = "RelayAttached" /\ app = "on"
    THEN /\ attempted' = TRUE
         /\ \/ rt' = BeginDirect(r) /\ dt' = Signalling(r)
            \/ rt' = r /\ UNCHANGED dt
    ELSE attempted' = tried /\ rt' = r /\ UNCHANGED dt

\* The runs given after an OUT with the chunks from..to has been received.
Given(from, to) == IF Accepted(rt, to) THEN Append(shown, [from |-> from, to |-> to]) ELSE shown

\* OUT on a socket, in the replay or live.  It may begin with chunks that the
\* socket has brought before, when the mirror was replayed to again.
RelayOut(i) ==
    /\ socks[i].st = "open" /\ Hears(i) /\ socks[i].ph \in {"replay", "live"}
    /\ \E p \in (socks[i].pos + 1)..Len(log), from \in 1..(SeqAt(socks[i].pos) + 1) :
          /\ OutTo(socks[i].pos, p, socks[i].ph)
          /\ socks' = [socks EXCEPT ![i].pos = p]
          /\ rt' = AcceptOutput(rt, "relay", SeqAt(p))
          /\ shown' = Given(from, SeqAt(p))
    /\ UNCHANGED <<host, up, app, flags, cur, timer, dt, input, driver, faults>>

\* REPLAY_PROGRESS end, sent when the replay has caught up with position p: the
\* end of the freeze, or the occasion to try the direct route.
RelayEnd(i) ==
    /\ socks[i].st = "open" /\ Hears(i) /\ socks[i].ph = "replay"
    /\ \E p \in socks[i].pos..Len(log) :
          /\ SeqAt(p) = SeqAt(socks[i].pos)
          /\ socks' = [socks EXCEPT ![i].pos = p, ![i].ph = "snap"]
    /\ replayDone' = TRUE /\ prefer' = prefer
    /\ IF rt.st = "RelayReattaching"
       THEN /\ rt' = [rt EXCEPT !.st = "RelayAttached"] /\ UNCHANGED <<attempted, dt>>
            /\ Flush(i, IF ~claim /\ recover = "vacant" THEN <<0>> ELSE << >>)
            /\ recover' = IF recover = "vacant" THEN "no" ELSE recover
       ELSE MaybeStartDirect(rt, prefer, attempted) /\ UNCHANGED <<up, claim, pend, recover>>
    /\ UNCHANGED <<host, app, cur, timer, typed, view, isDriver, shown, faults>>

\* The rest of handleMeta: adopt the driver it names.
AdoptDriver(d) == view' = d /\ isDriver' = (IF d = view THEN isDriver ELSE d = "me")

\* handleMeta from the relay.  The first META after a reconnect lets a former
\* driver reclaim a vacant session, and only then.
RelayMeta(i) ==
    /\ socks[i].st = "open" /\ Hears(i)
    /\ \/ socks[i].ph = "snap" /\ socks' = [socks EXCEPT ![i].ph = "live"]
       \/ /\ socks[i].ph = "live" /\ socks[i].pos < Len(log) /\ ~IsOut(socks[i].pos + 1)
          /\ socks' = [socks EXCEPT ![i].pos = @ + 1]
    /\ LET d == DriverAt(socks'[i].pos) IN
          IF recover # "no" /\ d = ""
          THEN IF rt.st = "RelayReattaching"
               THEN recover' = "vacant" /\ UNCHANGED <<view, isDriver, up, claim>>
               ELSE /\ recover' = "no" /\ Send(i, 0)
                    /\ claim' = FALSE /\ UNCHANGED <<view, isDriver>>
          ELSE recover' = "no" /\ AdoptDriver(d) /\ UNCHANGED <<up, claim>>
    /\ UNCHANGED <<host, app, flags, rt, cur, timer, dt, input, shown, faults>>

\* Mutant: onclose forgets to compare the socket with the current one.
SocketClosedUnchecked(i) ==
    /\ socks[i].st \in {"connecting", "open", "closing"}
    /\ \/ socks[i].st = "closing" /\ faults' = faults
       \/ socks[i].st # "closing" /\ faults < MaxFaults /\ faults' = faults + 1
    /\ socks' = [socks EXCEPT ![i] = NoSock]
    /\ up' = Without(i)
    /\ cur' = 0 /\ timer' = (app = "on")
    /\ UNCHANGED <<host, app, flags, rt, dt, input, driver, shown>>

\* ws.onclose, after a close of ours or of the network.
SocketClosed(i) ==
    /\ socks[i].st \in {"connecting", "open", "closing"}
    /\ \/ socks[i].st = "closing" /\ faults' = faults
       \/ socks[i].st # "closing" /\ faults < MaxFaults /\ faults' = faults + 1
    /\ socks' = [socks EXCEPT ![i] = NoSock]
    /\ up' = Without(i)
    /\ IF cur = i THEN cur' = 0 /\ timer' = (app = "on") ELSE UNCHANGED <<cur, timer>>
    /\ UNCHANGED <<host, app, flags, rt, dt, input, driver, shown>>

TimerFires ==
    /\ timer /\ OpenWS(rt, TRUE, 0)
    /\ UNCHANGED <<host, up, app, flags, rt, dt, input, driver, shown>>

\* this.ws.close() and this.ws = null.
Dropped == IF cur = 0 THEN socks ELSE [socks EXCEPT ![cur] = Closing]

-----------------------------------------------------------------------------
(* The direct channel *)

\* Signalling, ICE and the host's hello; then AUTH_OK and onAuthenticated.
DirectSignalled ==
    /\ dt.st = "signal" /\ dt' = [dt EXCEPT !.st = "hello"]
    /\ UNCHANGED <<host, up, app, flags, rt, link, input, driver, shown, faults>>

DirectAuthenticated ==
    /\ dt.st = "hello" /\ dt' = [dt EXCEPT !.st = "authed"]
    /\ rt' = [rt EXCEPT !.st = "DirectReplay"]
    /\ UNCHANGED <<host, up, app, flags, link, input, driver, shown, faults>>

\* The claim that goes out on the direct channel before it is activated.
Reclaim == IF isDriver THEN <<0>> ELSE << >>

\* The direct channel d refuses a frame part way through the flush: what has not
\* been sent stays queued, and the channel's failure is to be reported.
FlushRefused(d) ==
    /\ faults < MaxFaults /\ faults' = faults + 1
    /\ dt' = [d EXCEPT !.st = "closing"]
    /\ \/ /\ claim /\ UNCHANGED <<claim, pend>>
          /\ up' = [up EXCEPT ![DirectChan] = @ \o Reclaim]
       \/ \E n \in 0..(Len(pend) - 1) :
             /\ up' = [up EXCEPT ![DirectChan] = @ \o Claims(Reclaim) \o SubSeq(pend, 1, n)]
             /\ claim' = FALSE /\ pend' = SubSeq(pend, n + 1, Len(pend))

\* maybeActivateDirect under tracker r on channel d: re-claim the session, close
\* the relay socket and release what is queued on the new route.
MaybeActivateDirect(r, d) ==
    IF CanActivateDirect(r)
    THEN /\ rt' = [Left(r) EXCEPT !.st = "DirectActive"]
         /\ socks' = Dropped /\ cur' = 0 /\ timer' = FALSE
         /\ \/ Flush(DirectChan, Reclaim) /\ dt' = d /\ faults' = faults
            \/ FlushRefused(d)
    ELSE rt' = r /\ dt' = d /\ UNCHANGED <<link, up, claim, pend, faults>>

\* OUT on the direct channel: merged in the replay, a chunk at a time after it.
DirectOut ==
    /\ dt.st = "authed" /\ dt.ph \in {"replay", "live"}
    /\ \E p \in (dt.pos + 1)..Len(log) :
          /\ OutTo(dt.pos, p, dt.ph) /\ (dt.ph = "live" => p = dt.pos + 1)
          /\ MaybeActivateDirect(AcceptOutput(rt, "direct", SeqAt(p)), [dt EXCEPT !.pos = p])
          /\ shown' = Given(SeqAt(dt.pos) + 1, SeqAt(p))
    /\ UNCHANGED <<host, app, flags, typed, view, isDriver, recover>>

\* DIRECT_READY and onReady.
DirectReady ==
    /\ dt.st = "authed" /\ dt.ph = "replay"
    /\ \E p \in dt.pos..Len(log) :
          /\ SeqAt(p) = SeqAt(dt.pos)
          /\ MaybeActivateDirect(NoteDirectReady(rt, SeqAt(p)), [dt EXCEPT !.pos = p, !.ph = "snap"])
    /\ UNCHANGED <<host, app, flags, typed, view, isDriver, recover, shown>>

DirectMeta ==
    /\ dt.st = "authed"
    /\ \/ dt.ph = "snap" /\ dt' = [dt EXCEPT !.ph = "live"]
       \/ /\ dt.ph = "live" /\ dt.pos < Len(log) /\ ~IsOut(dt.pos + 1)
          /\ dt' = [dt EXCEPT !.pos = @ + 1]
    /\ AdoptDriver(DriverAt(dt'.pos))
    /\ UNCHANGED <<host, up, app, flags, rt, link, input, recover, claim, shown, faults>>

\* The data channel is closing: it refuses frames and its failure is not
\* reported yet.
DirectCloses ==
    /\ dt.st = "authed" /\ faults < MaxFaults /\ faults' = faults + 1
    /\ dt' = [dt EXCEPT !.st = "closing"]
    /\ UNCHANGED <<host, up, app, flags, rt, link, input, driver, shown>>

\* fail and handleDirectFailure: the attempt is abandoned, or the active route
\* is given up and the relay is attached again.
DirectFails ==
    /\ \/ dt.st = "closing"
       \/ dt.st \in {"signal", "hello", "authed"} /\ faults < MaxFaults
    /\ dt' = NoDirect /\ up' = Without(DirectChan)
    /\ LET spent == IF dt.st = "closing" THEN 0 ELSE 1 IN
       IF rt.st = "DirectActive"
       THEN rt' = DirectLost(rt) /\ OpenWS(DirectLost(rt), TRUE, spent)
       ELSE rt' = AbortDirect(rt) /\ faults' = faults + spent /\ UNCHANGED link
    /\ UNCHANGED <<host, app, flags, input, driver, shown>>

-----------------------------------------------------------------------------
(* What the user interface asks for *)

SetPreferDirect(on) ==
    /\ prefer # on /\ faults < MaxFaults
    /\ prefer' = on
    /\ IF on
       THEN /\ IF replayDone THEN MaybeStartDirect(rt, TRUE, FALSE)
                             ELSE attempted' = FALSE /\ UNCHANGED <<rt, dt>>
            /\ faults' = faults + 1 /\ UNCHANGED <<link, up>>
       ELSE /\ dt' = NoDirect /\ up' = Without(DirectChan) /\ UNCHANGED attempted
            /\ \/ /\ rt.st \in {"DirectConnecting", "DirectReplay"}
                  /\ rt' = AbortDirect(rt) /\ faults' = faults + 1 /\ UNCHANGED link
               \/ /\ rt.st = "DirectActive"
                  /\ rt' = DirectLost(rt) /\ OpenWS(DirectLost(rt), app = "on", 1)
               \/ /\ rt.st \in {"RelayAttached", "RelayReattaching"}
                  /\ faults' = faults + 1 /\ UNCHANGED <<rt, link>>
    /\ UNCHANGED <<host, app, replayDone, input, driver, shown>>

\* suspend: no socket, no direct route, no timer; queued input stays.  detach
\* does the same for good, as a suspension that no attach follows.
Suspend ==
    /\ app = "on" /\ faults < MaxFaults
    /\ app' = "suspended" /\ faults' = faults + 1
    /\ dt' = NoDirect /\ up' = Without(DirectChan) /\ claim' = FALSE
    /\ socks' = Dropped /\ cur' = 0 /\ timer' = FALSE
    /\ UNCHANGED <<host, flags, rt, input, view, isDriver, recover, shown>>

\* Mutant: attach goes on with the route it was suspended on.
AttachKeepsRoute ==
    /\ app = "suspended" /\ app' = "on"
    /\ rt' = rt /\ attempted' = FALSE /\ replayDone' = FALSE
    /\ OpenWS(rt, TRUE, 0)
    /\ UNCHANGED <<host, up, prefer, dt, input, driver, shown>>

\* attach after a suspension.
Attach ==
    /\ app = "suspended" /\ app' = "on"
    /\ rt' = Tracker(rt.com) /\ attempted' = FALSE /\ replayDone' = FALSE
    /\ OpenWS(Tracker(rt.com), TRUE, 0)
    /\ UNCHANGED <<host, up, prefer, dt, input, driver, shown>>

-----------------------------------------------------------------------------
(* The session (external) *)

Produce ==
    /\ Produced < MaxSeq /\ Room
    /\ log' = Append(log, [seq |-> Produced + 1, driver |-> DriverAt(Len(log))])
    /\ UNCHANGED <<got, up, app, flags, rt, link, dt, input, driver, shown, faults>>

Meta(d) == [seq |-> Produced, driver |-> d]
DriverChanges(d) ==
    /\ Len(log) - Produced < MaxDriver /\ Room /\ d # DriverAt(Len(log))
    /\ log' = Append(log, Meta(d))
    /\ UNCHANGED <<got, up, app, flags, rt, link, dt, input, driver, shown, faults>>

\* The host takes the oldest frame of some channel.
HostTakes(ch) ==
    /\ up[ch] # << >> /\ up' = [up EXCEPT ![ch] = Tail(@)]
    /\ IF Head(up[ch]) = 0
       THEN /\ log' = IF DriverAt(Len(log)) = "me" THEN log ELSE Append(log, Meta("me"))
            /\ got' = got
       ELSE got' = Append(got, Head(up[ch])) /\ log' = log
    /\ UNCHANGED <<app, flags, rt, link, dt, input, driver, shown, faults>>

Next ==
    \/ \E i \in Socks : \/ SocketOpens(i) \/ SocketClosed(i)
                        \/ RelayOut(i) \/ RelayEnd(i) \/ RelayMeta(i)
    \/ TimerFires
    \/ DirectSignalled \/ DirectAuthenticated \/ DirectOut \/ DirectReady \/ DirectMeta
    \/ DirectCloses \/ DirectFails
    \/ SendInput \/ ClaimDriver
    \/ \E on \in BOOLEAN : SetPreferDirect(on)
    \/ Suspend \/ Attach
    \/ Produce \/ (\E d \in Drivers : DriverChanges(d)) \/ (\E ch \in Chans : HostTakes(ch))

\* The event loop runs what is due, an open channel delivers what was sent on
\* it or is reported broken, and the relay can be reached.  Nothing is owed to
\* the user, to the faults or to a direct attempt that is still being set up.
Fairness ==
    /\ \A i \in Socks :
          /\ WF_vars(SocketOpens(i)) /\ WF_vars(SocketClosed(i) /\ socks[i].st = "closing")
          /\ WF_vars(RelayOut(i)) /\ WF_vars(RelayEnd(i)) /\ WF_vars(RelayMeta(i))
    /\ WF_vars(TimerFires)
    /\ WF_vars(DirectOut) /\ WF_vars(DirectReady) /\ WF_vars(DirectMeta)
    /\ WF_vars(DirectFails /\ dt.st = "closing")
    /\ WF_vars(\E ch \in Chans : HostTakes(ch))

Spec == Init /\ [][Next]_vars /\ Fairness

-----------------------------------------------------------------------------
(* Properties *)

Frames == [seq : 0..MaxSeq, driver : Drivers]
Track  == [st : {"RelayAttached", "DirectConnecting", "DirectReplay", "DirectActive",
                 "RelayReattaching"},
           gen : Nat, com : 0..MaxSeq, obs : 0..MaxSeq, ready : BOOLEAN]
Sock   == [gen : Nat, st : {"none", "connecting", "open", "closing"}, pos : Nat,
           ph : {"replay", "snap", "live"}]
Direct == [gen : Nat, st : {"none", "signal", "hello", "authed", "closing"}, pos : Nat,
           ph : {"replay", "snap", "live"}]
Runs   == [from : 1..MaxSeq, to : 1..MaxSeq]

TypeOK ==
    /\ log \in Seq(Frames) /\ got \in Seq(1..MaxInput)
    /\ up \in [Chans -> Seq(0..MaxInput)]
    /\ app \in {"on", "suspended"}
    /\ prefer \in BOOLEAN /\ attempted \in BOOLEAN /\ replayDone \in BOOLEAN
    /\ rt \in Track /\ dt \in Direct /\ dt.pos <= Len(log)
    /\ cur \in Socks \cup {0} /\ timer \in BOOLEAN
    /\ socks \in [Socks -> Sock] /\ \A i \in Socks : socks[i].pos <= Len(log)
    /\ pend \in Seq(1..MaxInput) /\ typed \in 0..MaxInput
    /\ view \in Drivers /\ isDriver \in BOOLEAN /\ claim \in BOOLEAN
    /\ recover \in {"no", "want", "vacant"}
    /\ shown \in Seq(Runs) /\ faults \in 0..MaxFaults

V == INSTANCE OrderedViewer WITH produced <- Produced, typed <- typed, taken <- got

\* Whatever mixture of relay sockets and direct channels carried it, however its
\* frames were merged, the terminal has been given all output up to the cursor:
\* each run it was given ends with something new and begins no later than right
\* after what it had.  So since_seq never skips a chunk; some may come twice.
NothingSkipped ==
    /\ rt.com = V!Newest(shown)
    /\ \A k \in DOMAIN shown : V!Continues(IF k = 1 THEN 0 ELSE shown[k - 1].to, shown[k])

\* No input sent on any channel, and none the host has taken, is younger than
\* one still waiting in pendingInputs, and none is both sent and waiting.
QueueIsYoungest ==
    \A n \in {pend[k] : k \in DOMAIN pend} :
        /\ \A ch \in Chans : \A k \in DOMAIN up[ch] : up[ch][k] < n
        /\ \A k \in DOMAIN got : got[k] < n

\* The connection never forgets a socket it has not closed: one that is opening
\* or open is this.ws, and while the application is away there is none.
NoForgottenSocket ==
    \A i \in Socks : socks[i].st \in {"connecting", "open"} => i = cur /\ app = "on"

\* However often the route changes between an input's being typed and its being
\* sent, the host takes it at most once; and output is shown without a gap.
ImplementsViewer == V!Spec

\* A socket that stayed open across abortDirect: its generation is past, so
\* every frame on it is ignored until the network closes it.
Deaf == cur # 0 /\ socks[cur].st = "open" /\ socks[cur].gen # rt.gen

\* In the end the terminal shows everything the session produced and names its
\* driver, unless the socket has gone deaf; and whatever was typed or claimed
\* while no route could take it has been sent.
EventuallyCurrent ==
    <>[](app = "on" => /\ (rt.com = Produced /\ view = DriverAt(Len(log))) \/ Deaf
                       /\ pend = << >> /\ ~claim)

\* What the design says of a failed direct attempt: the session stays connected
\* through the relay, so the terminal still catches up.
FallbackKeepsRelay == <>[](app = "on" => rt.com = Produced)
=============================================================================
