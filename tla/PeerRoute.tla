----------------------------- MODULE PeerRoute -----------------------------
(***************************************************************************)
(* One accountless viewer: PeerSessionConnection                            *)
(* (desktop/frontend/src/lib/peerSessionConnection.ts).  It reconnects over *)
(* direct, falls back to a Quick Tunnel when direct cannot be reached, and  *)
(* from a ready tunnel probes for direct again, runs a direct candidate     *)
(* beside the tunnel and promotes it when its replay is complete.           *)
(*                                                                          *)
(* c is the connection object.  A transport is a slot; a closed transport   *)
(* keeps its slot while a callback of it may still be queued.  Queries to   *)
(* the Go side are promises: asks are the fallback queries in flight,       *)
(* probes the failback queries, each with the generation it was made under. *)
(* The host (desktop/peer_quicktunnel_host.go) subscribes each transport    *)
(* from the start, whatever since_seq it was given: it replays all output   *)
(* in frames that merge chunks under the number of the last, announces the  *)
(* end with DIRECT_READY, and moves the session's lease to the newest       *)
(* subscription: the older one delivers nothing past that point.  shown is  *)
(* the runs of chunks the terminal was given.  The session keeps all its    *)
(* output here; eviction is SessionStream's subject.                        *)
(***************************************************************************)
EXTENDS Integers, Sequences, FiniteSets

CONSTANTS
    MaxSeq,     \* bound: OUT frames of the session
    MaxFaults,  \* bound: lost transports, suspensions, route changes by the user
    MaxInput,   \* bound: inputs typed
    MaxSlots,   \* bound: transports that may still call back
    MaxProbes   \* bound: failback queries in flight

ASSUME PeerAssumption ==
    /\ MaxSeq \in Nat /\ MaxFaults \in Nat /\ MaxInput \in Nat
    /\ MaxSlots \in Nat \ {0} /\ MaxProbes \in Nat

Slots  == 1..MaxSlots
Routes == {"direct", "quick_tunnel"}
None   == 0

VARIABLES
    produced, got,       \* the host
    up,                  \* the inputs on their way to it, in each transport
    on,                  \* not suspended
    c,                   \* the connection object
    slots,               \* every transport that may still call back
    asks, probes,        \* promises in flight
    lastSeq, shown,      \* the cursor, and the runs from..to the terminal was given
    pend, typed, faults

host == <<produced, got>>
out  == <<lastSeq, shown>>
vars == <<host, up, on, c, slots, asks, probes, out, pend, typed, faults>>

Empty == [st |-> "none", gen |-> 0, pos |-> 0, end |-> -1, cap |-> -1]

\* A transport that has been created.
Opening(g) == [Empty EXCEPT !.st = "opening", !.gen = g]
Fresh(S, k) == S[k].st = "none" /\ \A j \in 1..(k - 1) : S[j].st # "none"

\* The constructor and the first attach.
Init ==
    /\ produced = 0 /\ got = << >> /\ up = [k \in Slots |-> << >>] /\ on = TRUE
    /\ \E r \in Routes :
          c = [gen |-> 1, tr |-> 1, ho |-> None, ready |-> FALSE, route |-> r,
               timer |-> FALSE, fbp |-> FALSE, ftimer |-> 0, probe |-> 0]
    /\ slots = [k \in Slots |-> IF k = 1 THEN Opening(1) ELSE Empty]
    /\ asks = {} /\ probes = {}
    /\ lastSeq = 0 /\ shown = << >> /\ pend = << >> /\ typed = 0 /\ faults = 0

-----------------------------------------------------------------------------
(* The connection object *)

IsCurrent(i)         == on /\ c.tr = i /\ c.gen = slots[i].gen
IsHandoverCurrent(i) == on /\ c.ho = i /\ c.gen = slots[i].gen

\* transport.close(): the slot stays while callbacks may be queued.
Close(S, K) == [k \in Slots |-> IF k \in K /\ S[k].st # "none"
                                THEN [Empty EXCEPT !.st = "closed", !.gen = S[k].gen]
                                ELSE S[k]]
\* What transports K had sent and the host has not taken is lost with them.
Lost(K) == [k \in Slots |-> IF k \in K THEN << >> ELSE up[k]]

\* start of a transport in slot k.
Started(o, k) == [o EXCEPT !.gen = @ + 1, !.fbp = FALSE, !.ready = FALSE, !.tr = k]

\* recover: ask for a tunnel where the failure allows it, else retry later.
Recovered(o, ask) ==
    LET b == [o EXCEPT !.ftimer = 0, !.ready = FALSE]
    IN IF ask THEN [b EXCEPT !.fbp = TRUE] ELSE [b EXCEPT !.timer = TRUE]
MayAsk(o) == o.route = "direct"

\* scheduleDirectFailback.
FailbackScheduled(o) ==
    [o EXCEPT !.ftimer = IF o.route = "quick_tunnel" /\ o.ready /\ o.ho = None /\ o.probe = 0
                         THEN o.gen ELSE 0]

\* closeTransport, with the generation it bumps.
Torn(o) == [o EXCEPT !.gen = @ + 1, !.fbp = FALSE, !.probe = 0, !.ftimer = 0,
                     !.ho = None, !.tr = None, !.ready = FALSE]

-----------------------------------------------------------------------------
(* Sending *)

\* Mutant: input is sent before the replay is complete.
CanSendEarly == c.ho = None /\ c.tr # None

\* send refuses while a candidate is being tried.
CanSend == c.ho = None /\ c.ready /\ c.tr # None

SendInput ==
    /\ typed < MaxInput /\ typed' = typed + 1
    /\ \/ CanSend  /\ up' = [up EXCEPT ![c.tr] = Append(@, typed + 1)] /\ pend' = pend
       \/ ~CanSend /\ pend' = Append(pend, typed + 1) /\ up' = up
    /\ UNCHANGED <<host, on, c, slots, asks, probes, out, faults>>

-----------------------------------------------------------------------------
(* The transport's callbacks *)

\* onAuthenticated, of the current transport or of the candidate.
Authenticated(i) ==
    /\ slots[i].st = "opening" /\ (IsCurrent(i) \/ IsHandoverCurrent(i))
    /\ slots' = [slots EXCEPT ![i].st = "authed"]
    /\ UNCHANGED <<host, up, on, c, asks, probes, out, pend, typed, faults>>

\* Mutant: the end of the replay is the number of the next chunk.
HostJoinsPast(i) ==
    /\ slots[i].st = "authed" /\ slots[i].end = -1
    /\ slots' = [k \in Slots |->
          IF k = i THEN [slots[i] EXCEPT !.end = produced + 1]
          ELSE IF slots[k].end # -1 /\ slots[k].cap = -1 THEN [slots[k] EXCEPT !.cap = produced]
          ELSE slots[k]]
    /\ UNCHANGED <<host, up, on, c, asks, probes, out, pend, typed, faults>>

\* The host's start: it subscribes transport i from 0, which queues the whole
\* replay, and moves the lease to it.
HostJoins(i) ==
    /\ slots[i].st = "authed" /\ slots[i].end = -1
    /\ slots' = [k \in Slots |->
          IF k = i THEN [slots[i] EXCEPT !.end = produced]
          ELSE IF slots[k].end # -1 /\ slots[k].cap = -1 THEN [slots[k] EXCEPT !.cap = produced]
          ELSE slots[k]]
    /\ UNCHANGED <<host, up, on, c, asks, probes, out, pend, typed, faults>>

\* How far transport i may deliver now: the replay, and what follows once
\* DIRECT_READY has been received.
Horizon(i) == IF slots[i].st = "authed" THEN slots[i].end
              ELSE IF slots[i].cap # -1 THEN slots[i].cap ELSE produced

\* Mutant: the frame is not compared with the cursor.
NewFrameAlways(seq) == TRUE

\* handleFrame of OUT: only what lies beyond the cursor is shown.
NewFrame(seq) == seq > lastSeq

\* A frame takes transport i to chunk p: merged in the replay, one chunk after it.
Out(i) ==
    /\ slots[i].st \in {"authed", "live"}
    /\ \E p \in (slots[i].pos + 1)..Horizon(i) :
          /\ slots[i].st = "live" => p = slots[i].pos + 1
          /\ slots' = [slots EXCEPT ![i].pos = p]
          /\ IF (IsCurrent(i) \/ IsHandoverCurrent(i)) /\ NewFrame(p)
             THEN lastSeq' = p /\ shown' = Append(shown, [from |-> slots[i].pos + 1, to |-> p])
             ELSE UNCHANGED out
    /\ UNCHANGED <<host, up, on, c, asks, probes, pend, typed, faults>>

\* onReady of the current transport: the writers are released.  (A replay that
\* ended below the cursor is refused; this host never ends one there.)
Ready(i) ==
    /\ slots[i].st = "authed" /\ slots[i].end # -1 /\ slots[i].pos = slots[i].end
    /\ IsCurrent(i) /\ slots[i].end >= lastSeq
    /\ slots' = [slots EXCEPT ![i].st = "live"]
    /\ lastSeq' = slots[i].end /\ shown' = shown
    /\ c' = FailbackScheduled([c EXCEPT !.ready = TRUE])
    /\ up' = [up EXCEPT ![i] = @ \o pend] /\ pend' = << >>
    /\ UNCHANGED <<host, on, asks, probes, typed, faults>>

\* Mutant: the promoted candidate leaves the tunnel open.
PromoteKeepsTunnel(i) ==
    /\ slots[i].st = "authed" /\ slots[i].end # -1 /\ slots[i].pos = slots[i].end
    /\ IsHandoverCurrent(i) /\ slots[i].end >= lastSeq
    /\ slots' = [slots EXCEPT ![i].st = "live"]
    /\ lastSeq' = slots[i].end /\ shown' = shown
    /\ c' = [c EXCEPT !.ho = None, !.tr = i, !.route = "direct", !.ready = TRUE]
    /\ up' = [up EXCEPT ![i] = @ \o pend] /\ pend' = << >>
    /\ UNCHANGED <<host, on, asks, probes, typed, faults>>

\* onReady of the candidate and promoteHandover.
Promote(i) ==
    /\ slots[i].st = "authed" /\ slots[i].end # -1 /\ slots[i].pos = slots[i].end
    /\ IsHandoverCurrent(i) /\ slots[i].end >= lastSeq
    /\ slots' = Close([slots EXCEPT ![i].st = "live"], {c.tr} \ {None})
    /\ lastSeq' = slots[i].end /\ shown' = shown
    /\ c' = [c EXCEPT !.ho = None, !.tr = i, !.route = "direct", !.ready = TRUE]
    /\ up' = [Lost({c.tr}) EXCEPT ![i] = @ \o pend] /\ pend' = << >>
    /\ UNCHANGED <<host, on, asks, probes, typed, faults>>

\* Mutant: any failure is taken for the current transport's.
FailsUnchecked(i) ==
    /\ slots[i].st # "none"
    /\ \/ slots[i].st = "closed" /\ faults' = faults
       \/ slots[i].st # "closed" /\ faults < MaxFaults /\ faults' = faults + 1
    /\ c' = Recovered([c EXCEPT !.tr = None], FALSE) /\ asks' = asks
    /\ slots' = [slots EXCEPT ![i] = Empty] /\ up' = Lost({i})
    /\ UNCHANGED <<host, on, probes, out, pend, typed>>

\* fail: the tunnel of a running hand-over is only forgotten, any other loss of
\* the current transport is recovered from.
Fail(i) ==
    /\ IsCurrent(i)
    /\ slots' = [slots EXCEPT ![i] = Empty] /\ up' = Lost({i})
    /\ \/ /\ c.ho # None
          /\ c' = [c EXCEPT !.tr = None, !.ready = FALSE] /\ asks' = asks
       \/ /\ c.ho = None
          /\ \E ask \in {FALSE, MayAsk(c)} :
                /\ c' = Recovered([c EXCEPT !.tr = None], ask)
                /\ asks' = IF ask THEN asks \cup {c.gen} ELSE asks

\* failHandover: a candidate takes the tunnel with it.
FailHandover(i) ==
    /\ IsHandoverCurrent(i)
    /\ c' = Recovered([c EXCEPT !.ho = None, !.tr = None, !.route = "quick_tunnel"], FALSE)
    /\ asks' = asks
    /\ slots' = [Close(slots, {c.tr} \ {None}) EXCEPT ![i] = Empty]
    /\ up' = Lost({i, c.tr})

\* onFailure.  A transport that is neither is ignored.  The host closes what
\* lost its lease, the rest is a fault.
Fails(i) ==
    /\ slots[i].st # "none"
    /\ \/ slots[i].st = "closed" \/ slots[i].cap # -1
       \/ faults < MaxFaults
    /\ faults' = IF slots[i].st = "closed" \/ slots[i].cap # -1 THEN faults ELSE faults + 1
    /\ \/ Fail(i) \/ FailHandover(i)
       \/ /\ ~IsCurrent(i) /\ ~IsHandoverCurrent(i)
          /\ slots' = [slots EXCEPT ![i] = Empty] /\ UNCHANGED <<c, asks, up>>
    /\ UNCHANGED <<host, on, probes, out, pend, typed>>

-----------------------------------------------------------------------------
(* Timers and promises *)

\* start: open a transport on the chosen route, unless the
\* factory throws.
Start(o) ==
    \/ /\ \E k \in Slots : /\ Fresh(slots, k) /\ c' = Started(o, k)
                           /\ slots' = [slots EXCEPT ![k] = Opening(o.gen + 1)]
       /\ UNCHANGED <<asks, faults>>
    \/ /\ faults < MaxFaults /\ faults' = faults + 1 /\ slots' = slots
       /\ \E ask \in {FALSE, MayAsk(o)} :
             /\ c' = Recovered(Started(o, None), ask)
             /\ asks' = IF ask THEN asks \cup {o.gen + 1} ELSE asks

ReconnectTimer ==
    /\ c.timer /\ Start([c EXCEPT !.timer = FALSE])
    /\ UNCHANGED <<host, up, on, probes, out, pend, typed>>

\* Mutant: the answer is applied whatever happened meanwhile.
FallbackAnswersStale(g, available) ==
    /\ asks' = asks \ {g}
    /\ IF ~on THEN c' = c
       ELSE IF available
       THEN c' = [c EXCEPT !.fbp = FALSE, !.route = "quick_tunnel", !.timer = TRUE]
       ELSE c' = [c EXCEPT !.fbp = FALSE, !.timer = TRUE]
    /\ UNCHANGED <<host, up, on, slots, probes, out, pend, typed, faults>>

\* tryQuickTunnelFallback after its await: the answer, or no answer in a second.
FallbackAnswers(g, available) ==
    /\ IF g # c.gen \/ ~c.fbp \/ ~on \/ c.tr # None
       THEN asks' = asks \ {g} /\ UNCHANGED <<c, slots, faults>>
       ELSE \/ /\ available /\ asks' = asks \ {g} /\ faults' = faults
               /\ \E k \in Slots :
                     /\ Fresh(slots, k)
                     /\ c' = Started([c EXCEPT !.route = "quick_tunnel"], k)
                     /\ slots' = [slots EXCEPT ![k] = Opening(c.gen + 1)]
            \/ /\ ~available
               /\ c' = [c EXCEPT !.fbp = FALSE, !.timer = TRUE]
               /\ asks' = asks \ {g} /\ UNCHANGED <<slots, faults>>
    /\ UNCHANGED <<host, up, on, probes, out, pend, typed>>

MayProbe(g) == g = c.gen /\ c.route = "quick_tunnel" /\ c.ready /\ on /\ c.ho = None

NewProbe(id) == /\ \A q \in probes : q.id # id
                /\ \A n \in 1..(id - 1) : \E q \in probes : q.id = n

\* The failback timer: query whether direct is back.
FailbackTimer ==
    /\ c.ftimer # 0
    /\ IF MayProbe(c.ftimer) /\ c.probe = 0
       THEN \E id \in 1..MaxProbes :
               /\ NewProbe(id)
               /\ c' = [c EXCEPT !.ftimer = 0, !.probe = id]
               /\ probes' = probes \cup {[id |-> id, gen |-> c.ftimer]}
       ELSE c' = [c EXCEPT !.ftimer = 0] /\ probes' = probes
    /\ UNCHANGED <<host, up, on, slots, asks, out, pend, typed, faults>>

\* startDirectHandover: a candidate beside the tunnel.
StartDirectHandover(o) ==
    \E k \in Slots : /\ Fresh(slots, k) /\ c' = [o EXCEPT !.ho = k]
                     /\ slots' = [slots EXCEPT ![k] = Opening(c.gen)]

\* probeDirectFailback after its await.
ProbeAnswers(q, available) ==
    /\ probes' = probes \ {q}
    /\ LET b == [c EXCEPT !.probe = IF @ = q.id THEN 0 ELSE @] IN
       \/ /\ ~MayProbe(q.gen) /\ c' = b /\ slots' = slots
       \/ /\ MayProbe(q.gen) /\ ~available /\ c' = FailbackScheduled(b) /\ slots' = slots
       \/ /\ MayProbe(q.gen) /\ available /\ StartDirectHandover(b)
    /\ UNCHANGED <<host, up, on, asks, out, pend, typed, faults>>

-----------------------------------------------------------------------------
(* What the user interface asks for *)

Suspend ==
    /\ on /\ faults < MaxFaults /\ faults' = faults + 1 /\ on' = FALSE
    /\ c' = [Torn(c) EXCEPT !.timer = FALSE]
    /\ slots' = Close(slots, {c.tr, c.ho} \ {None}) /\ up' = Lost({c.tr, c.ho})
    /\ UNCHANGED <<host, asks, probes, out, pend, typed>>

Attach ==
    /\ ~on /\ on' = TRUE
    /\ Start(c)
    /\ UNCHANGED <<host, up, probes, out, pend, typed>>

\* setRoute to the other route: everything is torn down and started again.
SetRoute ==
    /\ on /\ faults < MaxFaults /\ faults' = faults + 1
    /\ LET o == [Torn(c) EXCEPT !.timer = FALSE,
                                !.route = IF @ = "direct" THEN "quick_tunnel" ELSE "direct"]
           S == Close(slots, {c.tr, c.ho} \ {None})
       IN \E k \in Slots :
             /\ Fresh(S, k) /\ c' = Started(o, k)
             /\ slots' = [S EXCEPT ![k] = Opening(o.gen + 1)]
    /\ up' = Lost({c.tr, c.ho})
    /\ UNCHANGED <<host, on, asks, probes, out, pend, typed>>

\* setRoute(quick_tunnel) during a hand-over: cancelHandover.
CancelHandover ==
    /\ on /\ c.ho # None /\ c.route = "quick_tunnel"
    /\ faults < MaxFaults /\ faults' = faults + 1
    /\ c' = [c EXCEPT !.ho = None, !.tr = None, !.ready = FALSE, !.timer = TRUE]
    /\ slots' = Close(slots, {c.tr, c.ho} \ {None}) /\ up' = Lost({c.tr, c.ho})
    /\ UNCHANGED <<host, on, asks, probes, out, pend, typed>>

-----------------------------------------------------------------------------
(* The session at the host *)

Produce ==
    /\ produced < MaxSeq /\ produced' = produced + 1
    /\ UNCHANGED <<got, up, on, c, slots, asks, probes, out, pend, typed, faults>>

\* The host takes the oldest input of some transport.
HostTakes(k) ==
    /\ up[k] # << >>
    /\ got' = Append(got, Head(up[k]))
    /\ up' = [up EXCEPT ![k] = Tail(@)]
    /\ UNCHANGED <<produced, on, c, slots, asks, probes, out, pend, typed, faults>>

Next ==
    \/ SendInput
    \/ \E i \in Slots : Authenticated(i) \/ HostJoins(i) \/ Out(i) \/ Ready(i) \/ Promote(i) \/ Fails(i)
    \/ ReconnectTimer \/ FailbackTimer
    \/ \E g \in asks, a \in BOOLEAN : FallbackAnswers(g, a)
    \/ \E q \in probes, a \in BOOLEAN : ProbeAnswers(q, a)
    \/ Suspend \/ Attach \/ SetRoute \/ CancelHandover
    \/ Produce \/ \E k \in Slots : HostTakes(k)

\* The event loop runs what is due; a transport gets ready, delivers what the
\* host sends, or is reported broken; a query is answered or times out.
Fairness ==
    /\ \A i \in Slots :
          /\ WF_vars(Authenticated(i)) /\ WF_vars(HostJoins(i)) /\ WF_vars(Out(i))
          /\ WF_vars(Ready(i)) /\ WF_vars(Promote(i))
          /\ WF_vars(Fails(i) /\ (slots[i].st = "closed" \/ slots[i].cap # -1))
    /\ WF_vars(ReconnectTimer)
    /\ WF_vars(\E g \in asks, a \in BOOLEAN : FallbackAnswers(g, a))
    /\ WF_vars(\E q \in probes, a \in BOOLEAN : ProbeAnswers(q, a))
    /\ WF_vars(\E k \in Slots : HostTakes(k))

Spec == Init /\ [][Next]_vars /\ Fairness

-----------------------------------------------------------------------------
(* Properties *)

Conn == [gen : Nat, tr : Slots \cup {None}, ho : Slots \cup {None}, ready : BOOLEAN,
         route : Routes, timer : BOOLEAN, fbp : BOOLEAN, ftimer : Nat, probe : 0..MaxProbes]
Slot == [st : {"none", "opening", "authed", "live", "closed"}, gen : Nat,
         pos : 0..MaxSeq, end : -1..MaxSeq, cap : -1..MaxSeq]
Runs == [from : 1..MaxSeq, to : 1..MaxSeq]

TypeOK ==
    /\ produced \in 0..MaxSeq /\ got \in Seq(1..MaxInput) /\ on \in BOOLEAN
    /\ up \in [Slots -> Seq(1..MaxInput)]
    /\ c \in Conn /\ slots \in [Slots -> Slot]
    /\ asks \subseteq Nat /\ probes \subseteq [id : 1..MaxProbes, gen : Nat]
    /\ lastSeq \in 0..MaxSeq /\ shown \in Seq(Runs) /\ pend \in Seq(1..MaxInput)
    /\ typed \in 0..MaxInput /\ faults \in 0..MaxFaults

\* No input overtakes one that is still queued, across hand-overs too.
QueueIsYoungest ==
    \A n \in {pend[k] : k \in DOMAIN pend} :
        /\ \A k \in Slots : \A j \in DOMAIN up[k] : up[k][j] < n
        /\ \A k \in DOMAIN got : got[k] < n

\* A transport that was not closed is the one in use or the candidate: no route
\* is left running that nobody listens to.
NoForgottenTransport ==
    \A k \in Slots : slots[k].st \in {"opening", "authed", "live"} => k \in {c.tr, c.ho}

\* The connection is never left with nothing to wait for, and never recovers
\* twice at once: without a transport and a candidate there is exactly one of a
\* reconnect and a fallback query whose answer will be accepted, and with one
\* of them there is no reconnect that would start a second transport.
AlwaysRecovering ==
    /\ on /\ c.tr = None /\ c.ho = None =>
          (c.timer \/ (c.fbp /\ c.gen \in asks)) /\ ~(c.timer /\ c.fbp)
    /\ c.timer => on /\ c.tr = None /\ c.ho = None

\* In the end everything produced is shown and everything typed is sent.
EventuallyCurrent == <>[](on => lastSeq = produced /\ pend = << >>)

V == INSTANCE OrderedViewer WITH taken <- got

\* With two transports replaying the same output from the start in frames of any
\* size, and answers to earlier generations still arriving, the connection
\* implements what every terminal connection promises: output without a gap, each
\* input at most once.
ImplementsViewer == V!Spec

\* After falling back to the tunnel the viewer keeps asking whether direct is
\* back, as the protocol document says: a ready tunnel has a failback timer, a
\* query whose answer counts, or a candidate.
FailbackStaysScheduled ==
    on /\ c.ready /\ c.route = "quick_tunnel" =>
        c.ftimer # 0 \/ c.ho # None \/ \E q \in probes : MayProbe(q.gen)
=============================================================================
