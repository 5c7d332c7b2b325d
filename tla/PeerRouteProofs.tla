-------------------------- MODULE PeerRouteProofs --------------------------
(***************************************************************************)
(* Theorems about PeerRoute, for any number of transports, queries, faults, *)
(* frames and inputs: what the accountless viewer keeps hold of, that it    *)
(* always has something to recover by, that input keeps its order, and that *)
(* it implements OrderedViewer.                                             *)
(***************************************************************************)
EXTENDS PeerRoute, SequenceTheorems, TLAPS

-----------------------------------------------------------------------------
(* What the operators on the connection object and the slots return *)

\* recover, start, closeTransport and scheduleDirectFailback keep the object's
\* shape.
LEMMA ConnTyped ==
  ASSUME NEW o \in Conn
  PROVE  /\ \A ask \in BOOLEAN : Recovered(o, ask) \in Conn
         /\ \A k \in Slots \cup {None} : Started(o, k) \in Conn
         /\ Torn(o) \in Conn
         /\ FailbackScheduled(o) \in Conn
<1>0. /\ o.gen + 1 \in Nat /\ o.gen \in Nat /\ 0 \in Nat /\ 0 \in 0..MaxProbes
      /\ None \in Slots \cup {None} /\ {TRUE, FALSE} \subseteq BOOLEAN
  BY PeerAssumption DEF None, Conn
<1>1. \A ask \in BOOLEAN : Recovered(o, ask) \in Conn
  BY <1>0, Zenon DEF Recovered, Conn
<1>2. \A k \in Slots \cup {None} : Started(o, k) \in Conn
  BY <1>0, Zenon DEF Started, Conn
<1>3. Torn(o) \in Conn
  BY <1>0, Zenon DEF Torn, Conn
<1>4. FailbackScheduled(o) \in Conn
  BY <1>0, Zenon DEF FailbackScheduled, Conn
<1>5. QED
  BY <1>1, <1>2, <1>3, <1>4

\* A new transport, and closing any, keep the shape of the slots.
LEMMA SlotsTyped ==
  ASSUME NEW S \in [Slots -> Slot]
  PROVE  /\ Empty \in Slot
         /\ \A g \in Nat : Opening(g) \in Slot
         /\ \A K : Close(S, K) \in [Slots -> Slot]
<1>0. 0 \in 0..MaxSeq /\ -1 \in -1..MaxSeq
  BY PeerAssumption
<1>1. Empty \in Slot
  BY <1>0 DEF Empty, Slot
<1>2. \A g \in Nat : Opening(g) \in Slot
  BY <1>0 DEF Opening, Empty, Slot
<1>3. ASSUME NEW K PROVE Close(S, K) \in [Slots -> Slot]
  <2>1. \A k \in Slots : S[k] \in Slot /\ S[k].gen \in Nat
    BY DEF Slot
  <2>2. \A k \in Slots : [Empty EXCEPT !.st = "closed", !.gen = S[k].gen] \in Slot
    BY <1>0, <2>1 DEF Empty, Slot
  <2>3. QED
    BY <2>1, <2>2 DEF Close
<1>4. QED
  BY <1>1, <1>2, <1>3

\* The connection object and the slots start well formed.
LEMMA InitTypeOK == Init => TypeOK
<1> SUFFICES ASSUME Init PROVE TypeOK
  OBVIOUS
<1>0. 1 \in Slots /\ 0 \in 0..MaxSeq /\ 0 \in 0..MaxProbes
  BY PeerAssumption DEF Slots
<1>1. c \in Conn
  <2>1. PICK r \in Routes :
           c = [gen |-> 1, tr |-> 1, ho |-> None, ready |-> FALSE, route |-> r,
                timer |-> FALSE, fbp |-> FALSE, ftimer |-> 0, probe |-> 0]
    BY DEF Init
  <2>2. QED
    BY <1>0, <2>1 DEF Conn, None
<1>2. Empty \in Slot /\ Opening(1) \in Slot
  <2>1. -1 \in -1..MaxSeq /\ 1 \in Nat /\ 0 \in Nat
    BY PeerAssumption
  <2>2. QED
    BY <1>0, <2>1, Zenon DEF Empty, Opening, Slot
<1>3. slots \in [Slots -> Slot]
  BY <1>2 DEF Init
<1>4. up \in [Slots -> Seq(1..MaxInput)]
  BY DEF Init
<1>5. QED
  BY <1>0, <1>1, <1>3, <1>4, PeerAssumption DEF Init, TypeOK

\* A start, whatever the object and the faults, keeps the types.
LEMMA StartTyped ==
  ASSUME TypeOK, NEW o \in Conn, Start(o)
  PROVE  c' \in Conn /\ slots' \in [Slots -> Slot] /\ asks' \subseteq Nat /\ faults' \in 0..MaxFaults
<1>0. /\ o.gen + 1 \in Nat /\ lastSeq \in 0..MaxSeq /\ slots \in [Slots -> Slot]
      /\ asks \subseteq Nat /\ faults \in 0..MaxFaults /\ None \in Slots \cup {None}
  BY DEF TypeOK, Conn
<1>1. ASSUME NEW k \in Slots, c' = Started(o, k),
             slots' = [slots EXCEPT ![k] = Opening(o.gen + 1)],
             UNCHANGED <<asks, faults>>
      PROVE  c' \in Conn /\ slots' \in [Slots -> Slot] /\ asks' \subseteq Nat /\ faults' \in 0..MaxFaults
  <2>1. c' \in Conn
    BY <1>1, ConnTyped
  <2>2. slots' \in [Slots -> Slot]
    BY <1>0, <1>1, SlotsTyped
  <2>3. QED
    BY <1>0, <1>1, <2>1, <2>2
<1>2. ASSUME faults < MaxFaults, faults' = faults + 1, slots' = slots,
             NEW ask \in {FALSE, MayAsk(o)}, c' = Recovered(Started(o, None), ask),
             asks' = IF ask THEN asks \cup {o.gen + 1} ELSE asks
      PROVE  c' \in Conn /\ slots' \in [Slots -> Slot] /\ asks' \subseteq Nat /\ faults' \in 0..MaxFaults
  <2>1. Started(o, None) \in Conn
    BY <1>0, ConnTyped
  <2>2. ask \in BOOLEAN
    BY <1>2 DEF MayAsk
  <2>3. c' \in Conn
    BY <1>2, <2>1, <2>2, ConnTyped
  <2>4. faults' \in 0..MaxFaults
    BY <1>0, <1>2, PeerAssumption
  <2>5. QED
    BY <1>0, <1>2, <2>3, <2>4
<1>3. QED
  BY <1>1, <1>2 DEF Start

\* Every step of the connection, its transports and the host keeps the types.
LEMMA NextTypeOK == TypeOK /\ [Next]_vars => TypeOK'
<1> SUFFICES ASSUME TypeOK, [Next]_vars PROVE TypeOK'
  OBVIOUS
<1>0. /\ c \in Conn /\ slots \in [Slots -> Slot] /\ up \in [Slots -> Seq(1..MaxInput)]
      /\ c.gen \in Nat /\ c.gen + 1 \in Nat /\ 0 \in 0..MaxProbes /\ 0 \in Nat
      /\ {TRUE, FALSE} \subseteq BOOLEAN /\ None \in Slots \cup {None}
      /\ {"direct", "quick_tunnel"} \subseteq Routes
      /\ lastSeq \in 0..MaxSeq
  BY PeerAssumption DEF TypeOK, Conn, Routes
<1>lost. \A K : Lost(K) \in [Slots -> Seq(1..MaxInput)]
  <2>1. << >> \in Seq(1..MaxInput)
    OBVIOUS
  <2>2. QED
    BY <1>0, <2>1, Zenon DEF Lost
<1>1. CASE SendInput
  <2>1. typed + 1 \in 1..MaxInput /\ typed' \in 0..MaxInput
    BY <1>1, PeerAssumption DEF SendInput, TypeOK
  <2>2. up' \in [Slots -> Seq(1..MaxInput)] /\ pend' \in Seq(1..MaxInput)
    <3>1. CASE CanSend /\ up' = [up EXCEPT ![c.tr] = Append(@, typed + 1)] /\ pend' = pend
      <4>1. c.tr \in Slots
        BY <1>0, <3>1 DEF CanSend, Conn
      <4>2. Append(up[c.tr], typed + 1) \in Seq(1..MaxInput)
        BY <1>0, <2>1, <4>1
      <4>3. QED
        BY <1>0, <3>1, <4>2 DEF TypeOK
    <3>2. CASE pend' = Append(pend, typed + 1) /\ up' = up
      BY <2>1, <3>2 DEF TypeOK
    <3>3. QED
      BY <1>1, <3>1, <3>2 DEF SendInput
  <2>3. QED
    BY <1>1, <2>1, <2>2 DEF SendInput, TypeOK, host, out
<1>2. ASSUME NEW i \in Slots, Authenticated(i) PROVE TypeOK'
  <2>1. slots' \in [Slots -> Slot]
    BY <1>0, <1>2 DEF Authenticated, Slot
  <2>2. QED
    BY <1>2, <2>1 DEF Authenticated, TypeOK, host, out
<1>3. ASSUME NEW i \in Slots, HostJoins(i) PROVE TypeOK'
  <2>1. produced \in -1..MaxSeq
    BY DEF TypeOK
  <2>2. \A k \in Slots : /\ [slots[k] EXCEPT !.end = produced] \in Slot
                          /\ [slots[k] EXCEPT !.cap = produced] \in Slot
                          /\ slots[k] \in Slot
    BY <1>0, <2>1 DEF Slot
  <2>3. slots' \in [Slots -> Slot]
    BY <1>3, <2>2 DEF HostJoins
  <2>4. QED
    BY <1>3, <2>3 DEF HostJoins, TypeOK, host, out
<1>4. ASSUME NEW i \in Slots, Out(i) PROVE TypeOK'
  <2>0. /\ slots[i].pos \in 0..MaxSeq /\ slots[i].end \in -1..MaxSeq
        /\ slots[i].cap \in -1..MaxSeq /\ produced \in 0..MaxSeq
    BY <1>0 DEF TypeOK, Slot
  <2>1. Horizon(i) \in -1..MaxSeq
    BY <2>0, PeerAssumption DEF Horizon
  <2>2. PICK p \in (slots[i].pos + 1)..Horizon(i) :
           /\ slots' = [slots EXCEPT ![i].pos = p]
           /\ \/ lastSeq' = p /\ shown' = Append(shown, [from |-> slots[i].pos + 1, to |-> p])
              \/ lastSeq' = lastSeq /\ shown' = shown
    BY <1>4 DEF Out, out
  <2>3. p \in 0..MaxSeq /\ p \in 1..MaxSeq /\ slots[i].pos + 1 \in 1..MaxSeq
    BY <2>0, <2>1, PeerAssumption
  <2>4. slots' \in [Slots -> Slot]
    BY <1>0, <2>2, <2>3 DEF Slot
  <2>5. [from |-> slots[i].pos + 1, to |-> p] \in Runs
    BY <2>3 DEF Runs
  <2>6. lastSeq' \in 0..MaxSeq /\ shown' \in Seq(Runs)
    <3>1. shown \in Seq(Runs)
      BY DEF TypeOK
    <3>2. Append(shown, [from |-> slots[i].pos + 1, to |-> p]) \in Seq(Runs)
      BY <2>5, <3>1, AppendProperties
    <3>3. QED
      BY <1>0, <2>2, <2>3, <3>1, <3>2
  <2>7. QED
    BY <1>4, <2>4, <2>6 DEF Out, TypeOK, host
<1>5. ASSUME NEW i \in Slots, Ready(i) PROVE TypeOK'
  <2>1. lastSeq' \in 0..MaxSeq
    BY <1>0, <1>5 DEF Ready, Slot
  <2>2. slots' \in [Slots -> Slot]
    BY <1>0, <1>5 DEF Ready, Slot
  <2>3. [c EXCEPT !.ready = TRUE] \in Conn
    BY <1>0, Zenon DEF Conn
  <2>4. c' \in Conn
    BY <1>5, <2>3, ConnTyped DEF Ready
  <2>5. up' \in [Slots -> Seq(1..MaxInput)] /\ pend' \in Seq(1..MaxInput)
    BY <1>0, <1>5 DEF Ready, TypeOK
  <2>6. QED
    BY <1>5, <2>1, <2>2, <2>4, <2>5 DEF Ready, TypeOK, host, out
<1>6. ASSUME NEW i \in Slots, Promote(i) PROVE TypeOK'
  <2>1. lastSeq' \in 0..MaxSeq
    BY <1>0, <1>6 DEF Promote, Slot
  <2>2. [slots EXCEPT ![i].st = "live"] \in [Slots -> Slot]
    BY <1>0 DEF Slot
  <2>3. slots' \in [Slots -> Slot]
    BY <1>6, <2>2, SlotsTyped DEF Promote
  <2>4. c' \in Conn
    BY <1>0, <1>6, Zenon DEF Promote, Conn
  <2>5. up' \in [Slots -> Seq(1..MaxInput)] /\ pend' \in Seq(1..MaxInput)
    <3>1. Lost({c.tr})[i] \o pend \in Seq(1..MaxInput)
      BY <1>lost DEF TypeOK
    <3>2. QED
      BY <1>lost, <1>6, <3>1 DEF Promote
  <2>6. QED
    BY <1>6, <2>1, <2>3, <2>4, <2>5 DEF Promote, TypeOK, host, out
<1>7. ASSUME NEW i \in Slots, Fails(i) PROVE TypeOK'
  <2>0. faults' \in 0..MaxFaults
    BY <1>7, PeerAssumption DEF Fails, TypeOK
  <2>1. \A S \in [Slots -> Slot] : [S EXCEPT ![i] = Empty] \in [Slots -> Slot]
    BY <1>0, SlotsTyped
  <2>2. CASE Fail(i)
    <3>1. slots' \in [Slots -> Slot] /\ up' \in [Slots -> Seq(1..MaxInput)]
      BY <1>0, <1>lost, <2>1, <2>2 DEF Fail
    <3>2. CASE c.ho # None /\ c' = [c EXCEPT !.tr = None, !.ready = FALSE] /\ asks' = asks
      <4>1. c' \in Conn
        BY <1>0, <3>2, Zenon DEF Conn
      <4>2. QED
        BY <1>7, <2>0, <3>1, <3>2, <4>1 DEF Fails, TypeOK, host, out
    <3>3. ASSUME NEW ask \in {FALSE, MayAsk(c)},
                 c' = Recovered([c EXCEPT !.tr = None], ask),
                 asks' = IF ask THEN asks \cup {c.gen} ELSE asks
          PROVE  TypeOK'
      <4>1. [c EXCEPT !.tr = None] \in Conn
        BY <1>0, Zenon DEF Conn
      <4>2. ask \in BOOLEAN
        BY <3>3 DEF MayAsk
      <4>3. c' \in Conn
        BY <3>3, <4>1, <4>2, ConnTyped
      <4>4. asks' \subseteq Nat
        BY <1>0, <3>3 DEF TypeOK
      <4>5. QED
        BY <1>7, <2>0, <3>1, <4>3, <4>4 DEF Fails, TypeOK, host, out
    <3>4. QED
      BY <2>2, <3>2, <3>3 DEF Fail
  <2>3. CASE FailHandover(i)
    <3>1. slots' \in [Slots -> Slot] /\ up' \in [Slots -> Seq(1..MaxInput)]
      BY <1>0, <1>lost, <2>1, <2>3, SlotsTyped DEF FailHandover
    <3>2. [c EXCEPT !.ho = None, !.tr = None, !.route = "quick_tunnel"] \in Conn
      BY <1>0, Zenon DEF Conn
    <3>3. c' \in Conn
      BY <2>3, <3>2, ConnTyped DEF FailHandover
    <3>4. QED
      BY <1>7, <2>0, <2>3, <3>1, <3>3 DEF Fails, FailHandover, TypeOK, host, out
  <2>4. CASE slots' = [slots EXCEPT ![i] = Empty] /\ UNCHANGED <<c, asks, up>>
    BY <1>0, <1>7, <2>0, <2>1, <2>4 DEF Fails, TypeOK, host, out
  <2>5. QED
    BY <1>7, <2>2, <2>3, <2>4 DEF Fails
<1>8. CASE ReconnectTimer
  <2>1. [c EXCEPT !.timer = FALSE] \in Conn
    BY <1>0, Zenon DEF Conn
  <2>2. QED
    BY <1>8, <2>1, StartTyped DEF ReconnectTimer, TypeOK, host, out
<1>9. CASE FailbackTimer
  <2>1. CASE c' = [c EXCEPT !.ftimer = 0] /\ probes' = probes
    <3>1. c' \in Conn
      BY <1>0, <2>1, Zenon DEF Conn
    <3>2. QED
      BY <1>9, <2>1, <3>1 DEF FailbackTimer, TypeOK, host, out
  <2>2. ASSUME NEW id \in 1..MaxProbes, c' = [c EXCEPT !.ftimer = 0, !.probe = id],
               probes' = probes \cup {[id |-> id, gen |-> c.ftimer]}
        PROVE  TypeOK'
    <3>1. id \in 0..MaxProbes /\ c.ftimer \in Nat
      BY <1>0, PeerAssumption DEF Conn
    <3>2. c' \in Conn
      BY <1>0, <2>2, <3>1, Zenon DEF Conn
    <3>3. probes' \subseteq [id : 1..MaxProbes, gen : Nat]
      BY <2>2, <3>1 DEF TypeOK
    <3>4. QED
      BY <1>9, <3>2, <3>3 DEF FailbackTimer, TypeOK, host, out
  <2>3. QED
    BY <1>9, <2>1, <2>2 DEF FailbackTimer
<1>10. ASSUME NEW g \in asks, NEW a \in BOOLEAN, FallbackAnswers(g, a) PROVE TypeOK'
  <2>1. asks' \subseteq Nat /\ faults' = faults
    BY <1>10 DEF FallbackAnswers, TypeOK
  <2>2. CASE UNCHANGED <<c, slots>>
    BY <1>10, <2>1, <2>2 DEF FallbackAnswers, TypeOK, host, out
  <2>3. ASSUME NEW k \in Slots, c' = Started([c EXCEPT !.route = "quick_tunnel"], k),
               slots' = [slots EXCEPT ![k] = Opening(c.gen + 1)]
        PROVE  TypeOK'
    <3>1. [c EXCEPT !.route = "quick_tunnel"] \in Conn
      BY <1>0, Zenon DEF Conn
    <3>2. c' \in Conn
      BY <2>3, <3>1, ConnTyped
    <3>3. slots' \in [Slots -> Slot]
      BY <1>0, <2>3, SlotsTyped
    <3>4. QED
      BY <1>10, <2>1, <3>2, <3>3 DEF FallbackAnswers, TypeOK, host, out
  <2>4. CASE c' = [c EXCEPT !.fbp = FALSE, !.timer = TRUE] /\ slots' = slots
    <3>1. c' \in Conn
      BY <1>0, <2>4, Zenon DEF Conn
    <3>2. QED
      BY <1>10, <2>1, <2>4, <3>1 DEF FallbackAnswers, TypeOK, host, out
  <2>5. QED
    BY <1>10, <2>2, <2>3, <2>4 DEF FallbackAnswers
<1>11. ASSUME NEW q \in probes, NEW a \in BOOLEAN, ProbeAnswers(q, a) PROVE TypeOK'
  <2> DEFINE b == [c EXCEPT !.probe = IF @ = q.id THEN 0 ELSE @]
  <2>1. b \in Conn
    BY <1>0, Zenon DEF Conn
  <2>2. probes' \subseteq [id : 1..MaxProbes, gen : Nat]
    BY <1>11 DEF ProbeAnswers, TypeOK
  <2>3. c' \in Conn /\ slots' \in [Slots -> Slot]
    <3>1. CASE c' = b /\ slots' = slots
      BY <1>0, <2>1, <3>1
    <3>2. CASE c' = FailbackScheduled(b) /\ slots' = slots
      BY <1>0, <2>1, <3>2, ConnTyped
    <3>3. CASE StartDirectHandover(b)
      <4>1. PICK k \in Slots : /\ c' = [b EXCEPT !.ho = k]
                               /\ slots' = [slots EXCEPT ![k] = Opening(c.gen)]
        BY <3>3 DEF StartDirectHandover
      <4>2. c' \in Conn
        BY <2>1, <4>1, Zenon DEF Conn
      <4>3. QED
        BY <1>0, <4>1, <4>2, SlotsTyped
    <3>4. QED
      BY <1>11, <3>1, <3>2, <3>3 DEF ProbeAnswers
  <2>4. QED
    BY <1>11, <2>2, <2>3 DEF ProbeAnswers, TypeOK, host, out
<1>12. CASE Suspend
  <2>1. faults' \in 0..MaxFaults
    BY <1>12, PeerAssumption DEF Suspend, TypeOK
  <2>2. Torn(c) \in Conn
    BY <1>0, ConnTyped
  <2>3. c' \in Conn
    BY <1>0, <1>12, <2>2, Zenon DEF Suspend, Conn
  <2>4. slots' \in [Slots -> Slot] /\ up' \in [Slots -> Seq(1..MaxInput)]
    BY <1>0, <1>lost, <1>12, SlotsTyped DEF Suspend
  <2>5. QED
    BY <1>12, <2>1, <2>3, <2>4 DEF Suspend, TypeOK, host, out
<1>13. CASE Attach
  BY <1>0, <1>13, StartTyped DEF Attach, TypeOK, host, out
<1>14. CASE SetRoute
  <2> DEFINE o == [Torn(c) EXCEPT !.timer = FALSE,
                                  !.route = IF @ = "direct" THEN "quick_tunnel" ELSE "direct"]
             S == Close(slots, {c.tr, c.ho} \ {None})
  <2>1. faults' \in 0..MaxFaults
    BY <1>14, PeerAssumption DEF SetRoute, TypeOK
  <2>2. Torn(c) \in Conn
    BY <1>0, ConnTyped
  <2>3. o \in Conn
    BY <1>0, <2>2, Zenon DEF Conn
  <2>4. S \in [Slots -> Slot] /\ o.gen + 1 \in Nat
    <3>1. \A x \in Conn : x.gen + 1 \in Nat
      BY DEF Conn
    <3>2. QED
      BY <1>0, <2>3, <3>1, SlotsTyped, Zenon
  <2>5. PICK k \in Slots : /\ c' = Started(o, k)
                           /\ slots' = [S EXCEPT ![k] = Opening(o.gen + 1)]
    BY <1>14 DEF SetRoute
  <2>6. c' \in Conn
    BY <2>3, <2>5, ConnTyped
  <2>7. slots' \in [Slots -> Slot]
    BY <1>0, <2>4, <2>5, SlotsTyped
  <2>8. up' \in [Slots -> Seq(1..MaxInput)]
    BY <1>lost, <1>14 DEF SetRoute
  <2>9. QED
    BY <1>14, <2>1, <2>6, <2>7, <2>8 DEF SetRoute, TypeOK, host, out
<1>15. CASE CancelHandover
  <2>1. faults' \in 0..MaxFaults
    BY <1>15, PeerAssumption DEF CancelHandover, TypeOK
  <2>2. c' \in Conn
    BY <1>0, <1>15, Zenon DEF CancelHandover, Conn
  <2>3. slots' \in [Slots -> Slot] /\ up' \in [Slots -> Seq(1..MaxInput)]
    BY <1>0, <1>lost, <1>15, SlotsTyped DEF CancelHandover
  <2>4. QED
    BY <1>15, <2>1, <2>2, <2>3 DEF CancelHandover, TypeOK, host, out
<1>16. CASE Produce
  BY <1>16, PeerAssumption DEF Produce, TypeOK, out
<1>17. ASSUME NEW k \in Slots, HostTakes(k) PROVE TypeOK'
  <2>1. up[k] \in Seq(1..MaxInput) /\ up[k] # << >>
    BY <1>0, <1>17 DEF HostTakes
  <2>2. Head(up[k]) \in 1..MaxInput /\ Tail(up[k]) \in Seq(1..MaxInput)
    BY <2>1, HeadTailProperties
  <2>3. up' \in [Slots -> Seq(1..MaxInput)] /\ got' \in Seq(1..MaxInput)
    BY <1>0, <1>17, <2>2 DEF HostTakes, TypeOK
  <2>4. QED
    BY <1>17, <2>3 DEF HostTakes, TypeOK, out
<1>18. CASE UNCHANGED vars
  BY <1>18 DEF vars, host, out, TypeOK
<1>19. QED
  BY <1>1, <1>2, <1>3, <1>4, <1>5, <1>6, <1>7, <1>8, <1>9, <1>10, <1>11, <1>12,
     <1>13, <1>14, <1>15, <1>16, <1>17, <1>18 DEF Next

-----------------------------------------------------------------------------
(* What the connection keeps hold of, and how it recovers *)

Running == {"opening", "authed", "live"}

\* The strengthening that makes NoForgottenTransport and AlwaysRecovering
\* inductive.  The transports that run are exactly the one in use and the
\* candidate, both made under the current generation; a suspended connection
\* has neither, a connection whose writers are released has a transport, and a
\* fallback query that counts is only out while there is neither.
HandleInv ==
  /\ \A k \in Slots : slots[k].st \in Running <=> k \in {c.tr, c.ho}
  /\ \A k \in Slots : slots[k].st \in Running => slots[k].gen = c.gen
  /\ c.tr = c.ho => c.tr = None
  /\ ~on => c.tr = None /\ c.ho = None
  /\ c.ready => c.tr # None
  /\ c.fbp => c.tr = None /\ c.ho = None
  /\ AlwaysRecovering

\* What closing and opening do to the slots.
LEMMA SlotFields ==
  ASSUME NEW S \in [Slots -> Slot]
  PROVE  /\ Empty.st = "none" /\ Empty.pos = 0 /\ Empty.end = -1 /\ Empty.cap = -1
         /\ \A g : LET s == Opening(g) IN
                /\ s.st = "opening" /\ s.gen = g /\ s.pos = 0 /\ s.end = -1 /\ s.cap = -1
         /\ \A K : \A k \in Slots : LET s == Close(S, K)[k] IN
                /\ k \notin K => s = S[k]
                /\ k \in K => /\ s.st \in {"none", "closed"}
                              /\ S[k].st # "none" => s.pos = 0 /\ s.end = -1 /\ s.cap = -1
                              /\ S[k].st = "none" => s = S[k]
<1>1. Empty.st = "none" /\ Empty.pos = 0 /\ Empty.end = -1 /\ Empty.cap = -1
  BY DEF Empty
<1>2. \A g : LET s == Opening(g) IN
          s.st = "opening" /\ s.gen = g /\ s.pos = 0 /\ s.end = -1 /\ s.cap = -1
  BY DEF Opening, Empty
<1>3. ASSUME NEW K, NEW k \in Slots
      PROVE  LET s == Close(S, K)[k] IN
                /\ k \notin K => s = S[k]
                /\ k \in K => /\ s.st \in {"none", "closed"}
                              /\ S[k].st # "none" => s.pos = 0 /\ s.end = -1 /\ s.cap = -1
                              /\ S[k].st = "none" => s = S[k]
  BY DEF Close, Empty
<1>4. QED
  BY <1>1, <1>2, <1>3

\* A transport started where none runs.
LEMMA StartHandles ==
  ASSUME TypeOK, HandleInv, NEW o \in Conn, Start(o), on',
         c.tr = None, c.ho = None, o.ho = None, o.timer = FALSE
  PROVE  HandleInv'
<1>0. /\ slots \in [Slots -> Slot] /\ \A k \in Slots : slots[k].st \notin Running
      /\ None \notin Slots
  BY PeerAssumption DEF TypeOK, HandleInv, None, Slots
<1>1. ASSUME NEW k \in Slots, c' = Started(o, k),
             slots' = [slots EXCEPT ![k] = Opening(o.gen + 1)]
      PROVE  HandleInv'
  <2>1. /\ c'.gen = o.gen + 1 /\ c'.tr = k /\ c'.ho = None /\ c'.ready = FALSE
        /\ c'.fbp = FALSE /\ c'.timer = FALSE
    BY <1>1 DEF Started, Conn
  <2>2. /\ slots'[k].st = "opening" /\ slots'[k].gen = o.gen + 1
        /\ \A j \in Slots \ {k} : slots'[j] = slots[j]
    BY <1>0, <1>1, SlotFields
  <2>3. k # None
    BY <1>0
  <2>4. QED
    BY <1>0, <2>1, <2>2, <2>3 DEF HandleInv, AlwaysRecovering, Running
<1>2. ASSUME slots' = slots, NEW ask \in {FALSE, MayAsk(o)},
             c' = Recovered(Started(o, None), ask),
             asks' = IF ask THEN asks \cup {o.gen + 1} ELSE asks
      PROVE  HandleInv'
  <2>1. Started(o, None) \in Conn /\ ask \in BOOLEAN
    BY <1>2, ConnTyped DEF MayAsk
  <2>2. /\ c'.gen = o.gen + 1 /\ c'.tr = None /\ c'.ho = None /\ c'.ready = FALSE
        /\ c'.fbp = ask /\ c'.timer = ~ask
    BY <1>2, <2>1 DEF Recovered, Started, Conn
  <2>3. QED
    BY <1>0, <1>2, <2>1, <2>2 DEF HandleInv, AlwaysRecovering, Running
<1>3. QED
  BY <1>1, <1>2 DEF Start

\* The first attach has one transport and nothing to recover.
LEMMA InitHandles == Init => HandleInv
<1> SUFFICES ASSUME Init PROVE HandleInv
  OBVIOUS
<1>0. 1 \in Slots /\ 1 # None
  BY PeerAssumption DEF Slots, None
<1>1. /\ c.gen = 1 /\ c.tr = 1 /\ c.ho = None /\ c.ready = FALSE /\ c.timer = FALSE
      /\ c.fbp = FALSE /\ on
  BY DEF Init
<1>2. \A k \in Slots : /\ k = 1 => slots[k].st = "opening" /\ slots[k].gen = 1
                       /\ k # 1 => slots[k].st = "none"
  BY DEF Init, Opening, Empty
<1>3. QED
  BY <1>0, <1>1, <1>2, PeerAssumption DEF HandleInv, AlwaysRecovering, Running, Slots, None

\* A frame moves the position of its own slot and nothing else of the slots.
LEMMA OutMoves ==
  ASSUME TypeOK, NEW i \in Slots, Out(i)
  PROVE  \E p \in Nat : slots' = [slots EXCEPT ![i].pos = p]
<1>1. PICK p \in (slots[i].pos + 1)..Horizon(i) : slots' = [slots EXCEPT ![i].pos = p]
  BY Zenon DEF Out
<1>2. slots[i].pos \in Nat
  BY DEF TypeOK, Slot
<1>3. p \in Nat
  BY <1>1, <1>2
<1>4. QED
  BY <1>1, <1>3, Zenon

\* No step loses hold of a transport that runs, leaves the connection with
\* nothing to wait for, or starts a second recovery beside the first.
LEMMA NextHandles == TypeOK /\ HandleInv /\ [Next]_vars => HandleInv'
<1> SUFFICES ASSUME TypeOK, HandleInv, [Next]_vars PROVE HandleInv'
  OBVIOUS
<1>0. /\ c \in Conn /\ slots \in [Slots -> Slot] /\ None \notin Slots /\ on \in BOOLEAN
      /\ c.timer \in BOOLEAN /\ c.fbp \in BOOLEAN /\ c.ready \in BOOLEAN
      /\ c.tr \in Slots \cup {None} /\ c.ho \in Slots \cup {None} /\ c.gen \in Nat
      /\ \A k \in Slots : slots[k] \in Slot
  BY PeerAssumption DEF TypeOK, Conn, None, Slots
<1>same. ASSUME UNCHANGED <<on, asks>>,
                /\ c'.gen = c.gen /\ c'.tr = c.tr /\ c'.ho = c.ho /\ c'.ready = c.ready
                /\ c'.fbp = c.fbp /\ c'.timer = c.timer,
                \A k \in Slots : /\ slots'[k].st \in Running <=> slots[k].st \in Running
                                 /\ slots'[k].gen = slots[k].gen
         PROVE  HandleInv'
  BY <1>0, <1>same DEF HandleInv, AlwaysRecovering
<1>1. CASE SendInput
  BY <1>1, <1>same DEF SendInput
<1>2. ASSUME NEW i \in Slots, Authenticated(i) PROVE HandleInv'
  <2>1. \A k \in Slots : /\ slots'[k].st \in Running <=> slots[k].st \in Running
                         /\ slots'[k].gen = slots[k].gen
    BY <1>0, <1>2 DEF Authenticated, Running, Slot
  <2>2. QED
    BY <1>2, <1>same, <2>1 DEF Authenticated
<1>3. ASSUME NEW i \in Slots, HostJoins(i) PROVE HandleInv'
  <2>1. \A k \in Slots : slots'[k].st = slots[k].st /\ slots'[k].gen = slots[k].gen
    BY <1>0, <1>3 DEF HostJoins, Slot
  <2>2. QED
    BY <1>3, <1>same, <2>1 DEF HostJoins
<1>4. ASSUME NEW i \in Slots, Out(i) PROVE HandleInv'
  <2>1. PICK p \in Nat : slots' = [slots EXCEPT ![i].pos = p]
    BY <1>4, OutMoves
  <2>2. \A k \in Slots : slots'[k].st = slots[k].st /\ slots'[k].gen = slots[k].gen
    BY <1>0, <2>1 DEF Slot
  <2>3. QED
    BY <1>4, <1>same, <2>2 DEF Out
<1>5. ASSUME NEW i \in Slots, Ready(i) PROVE HandleInv'
  <2>1. \A k \in Slots : /\ slots'[k].st \in Running <=> slots[k].st \in Running
                         /\ slots'[k].gen = slots[k].gen
    BY <1>0, <1>5 DEF Ready, Running, Slot
  <2>2. /\ c'.gen = c.gen /\ c'.tr = c.tr /\ c'.ho = c.ho /\ c'.ready = TRUE
        /\ c'.fbp = c.fbp /\ c'.timer = c.timer
    BY <1>0, <1>5 DEF Ready, FailbackScheduled, Conn
  <2>3. c.tr = i /\ UNCHANGED <<on, asks>>
    BY <1>5 DEF Ready, IsCurrent
  <2>4. QED
    BY <1>0, <2>1, <2>2, <2>3 DEF HandleInv, AlwaysRecovering
<1>6. ASSUME NEW i \in Slots, Promote(i) PROVE HandleInv'
  <2>1. /\ c'.gen = c.gen /\ c'.tr = i /\ c'.ho = None /\ c'.ready = TRUE
        /\ c'.fbp = c.fbp /\ c'.timer = c.timer
    BY <1>0, <1>6 DEF Promote, Conn
  <2>2. c.ho = i /\ i # None /\ on /\ UNCHANGED <<on, asks>> /\ c.tr # i
    BY <1>0, <1>6 DEF Promote, IsHandoverCurrent, HandleInv
  <2> DEFINE S == [slots EXCEPT ![i].st = "live"]
  <2>3. S \in [Slots -> Slot]
    BY <1>0 DEF Slot
  <2>4. /\ S[i].st = "live" /\ S[i].gen = slots[i].gen
        /\ \A k \in Slots \ {i} : S[k] = slots[k]
    BY <1>0 DEF Slot
  <2>5. slots' = Close(S, {c.tr} \ {None})
    BY <1>6 DEF Promote
  <2>6. /\ slots'[i].st = "live" /\ slots'[i].gen = slots[i].gen
        /\ \A k \in Slots \ {i} : /\ k = c.tr => slots'[k].st \in {"none", "closed"}
                                  /\ k # c.tr => slots'[k] = slots[k]
    <3> HIDE DEF S
    <3>1. QED
      BY <1>0, <2>2, <2>3, <2>4, <2>5, SlotFields
  <2>7. QED
    BY <1>0, <2>1, <2>2, <2>6 DEF HandleInv, AlwaysRecovering, Running
<1>7. ASSUME NEW i \in Slots, Fails(i) PROVE HandleInv'
  <2>0. /\ Empty.st = "none" /\ UNCHANGED on
        /\ slots[i].st = "closed" => ~IsCurrent(i) /\ ~IsHandoverCurrent(i)
    BY <1>0, <1>7, SlotFields DEF Fails, IsCurrent, IsHandoverCurrent, HandleInv, Running
  <2>1. CASE Fail(i)
    <3>1. /\ c.tr = i /\ on /\ c.fbp = FALSE /\ c.timer = FALSE /\ c.ho # i
          /\ slots'[i].st = "none" /\ \A k \in Slots \ {i} : slots'[k] = slots[k]
      BY <1>0, <2>0, <2>1 DEF Fail, IsCurrent, HandleInv, AlwaysRecovering
    <3>2. CASE c.ho # None /\ c' = [c EXCEPT !.tr = None, !.ready = FALSE] /\ asks' = asks
      <4>1. /\ c'.gen = c.gen /\ c'.tr = None /\ c'.ho = c.ho /\ c'.ready = FALSE
            /\ c'.fbp = c.fbp /\ c'.timer = c.timer
        BY <1>0, <3>2 DEF Conn
      <4>2. QED
        BY <1>0, <2>0, <3>1, <3>2, <4>1 DEF HandleInv, AlwaysRecovering, Running
    <3>3. ASSUME c.ho = None, NEW ask \in {FALSE, MayAsk(c)},
                 c' = Recovered([c EXCEPT !.tr = None], ask),
                 asks' = IF ask THEN asks \cup {c.gen} ELSE asks
          PROVE  HandleInv'
      <4>1. ask \in BOOLEAN
        BY <3>3 DEF MayAsk
      <4>2. /\ c'.gen = c.gen /\ c'.tr = None /\ c'.ho = None /\ c'.ready = FALSE
            /\ c'.fbp = ask /\ c'.timer = ~ask
        BY <1>0, <3>1, <3>3, <4>1 DEF Recovered, Conn
      <4>3. QED
        BY <1>0, <2>0, <3>1, <3>3, <4>1, <4>2 DEF HandleInv, AlwaysRecovering, Running
    <3>4. QED
      BY <2>1, <3>2, <3>3 DEF Fail
  <2>2. CASE FailHandover(i)
    <3>1. c.ho = i /\ on /\ c.fbp = FALSE /\ c.timer = FALSE /\ c.tr # i
      BY <1>0, <2>2 DEF FailHandover, IsHandoverCurrent, HandleInv, AlwaysRecovering
    <3>2. /\ c'.gen = c.gen /\ c'.tr = None /\ c'.ho = None /\ c'.ready = FALSE
          /\ c'.fbp = FALSE /\ c'.timer = TRUE
      BY <1>0, <2>2, <3>1 DEF FailHandover, Recovered, Conn
    <3>3. \A k \in Slots : slots'[k].st \notin Running
      <4> DEFINE S == Close(slots, {c.tr} \ {None})
      <4>1. S \in [Slots -> Slot]
        BY <1>0, SlotsTyped
      <4>2. \A k \in Slots : /\ k = c.tr => S[k].st \in {"none", "closed"}
                             /\ k # c.tr => S[k] = slots[k]
        BY <1>0, SlotFields
      <4>3. slots' = [S EXCEPT ![i] = Empty]
        BY <2>2 DEF FailHandover
      <4>4. QED
        BY <1>0, <2>0, <3>1, <4>1, <4>2, <4>3 DEF HandleInv, Running
    <3>4. QED
      BY <1>0, <2>0, <3>1, <3>2, <3>3 DEF HandleInv, AlwaysRecovering
  <2>3. CASE /\ ~IsCurrent(i) /\ ~IsHandoverCurrent(i)
             /\ slots' = [slots EXCEPT ![i] = Empty] /\ UNCHANGED <<c, asks, up>>
    <3>1. slots[i].st \notin Running
      BY <1>0, <2>3 DEF HandleInv, IsCurrent, IsHandoverCurrent
    <3>2. \A k \in Slots : (k = i => slots'[k].st = "none") /\ (k # i => slots'[k] = slots[k])
      BY <1>0, <2>0, <2>3
    <3>3. QED
      BY <1>0, <2>0, <2>3, <3>1, <3>2 DEF HandleInv, AlwaysRecovering, Running
  <2>4. QED
    BY <1>7, <2>1, <2>2, <2>3 DEF Fails
<1>8. CASE ReconnectTimer
  <2> DEFINE o == [c EXCEPT !.timer = FALSE]
  <2>1. c.tr = None /\ c.ho = None /\ on'
    BY <1>8 DEF ReconnectTimer, HandleInv, AlwaysRecovering
  <2>2. o \in Conn /\ o.ho = c.ho /\ o.timer = FALSE
    <3>1. FALSE \in BOOLEAN
      OBVIOUS
    <3>2. o \in Conn
      BY <1>0, <3>1, Zenon DEF Conn
    <3>3. o.ho = c.ho /\ o.timer = FALSE
      BY <1>0 DEF Conn
    <3>4. QED
      BY <3>2, <3>3
  <2>3. Start(o)
    BY <1>8 DEF ReconnectTimer
  <2>4. QED
    <3> HIDE DEF o
    <3>1. QED
      BY <2>1, <2>2, <2>3, StartHandles
<1>9. CASE FailbackTimer
  <2>1. /\ c'.gen = c.gen /\ c'.tr = c.tr /\ c'.ho = c.ho /\ c'.ready = c.ready
        /\ c'.fbp = c.fbp /\ c'.timer = c.timer
    BY <1>0, <1>9 DEF FailbackTimer, Conn
  <2>2. QED
    BY <1>9, <1>same, <2>1 DEF FailbackTimer
<1>10. ASSUME NEW g \in asks, NEW a \in BOOLEAN, FallbackAnswers(g, a) PROVE HandleInv'
  <2>1. asks' = asks \ {g} /\ UNCHANGED on
    BY <1>10 DEF FallbackAnswers
  <2>2. CASE (g # c.gen \/ ~c.fbp \/ ~on \/ c.tr # None) /\ UNCHANGED <<c, slots, faults>>
    BY <1>0, <2>1, <2>2 DEF HandleInv, AlwaysRecovering
  <2>3. ASSUME NEW k \in Slots, c.fbp, on, c.tr = None,
               c' = Started([c EXCEPT !.route = "quick_tunnel"], k),
               slots' = [slots EXCEPT ![k] = Opening(c.gen + 1)]
        PROVE  HandleInv'
    <3>1. c.ho = None /\ c.timer = FALSE /\ k # None
      BY <1>0, <2>3 DEF HandleInv, AlwaysRecovering
    <3>2. /\ c'.gen = c.gen + 1 /\ c'.tr = k /\ c'.ho = None /\ c'.ready = FALSE
          /\ c'.fbp = FALSE /\ c'.timer = FALSE
      BY <1>0, <2>3, <3>1 DEF Started, Conn
    <3>3. /\ slots'[k].st = "opening" /\ slots'[k].gen = c.gen + 1
          /\ \A j \in Slots \ {k} : slots'[j] = slots[j]
      BY <1>0, <2>3, SlotFields
    <3>4. QED
      BY <1>0, <2>1, <2>3, <3>1, <3>2, <3>3 DEF HandleInv, AlwaysRecovering, Running
  <2>4. CASE /\ c.fbp /\ on /\ c.tr = None
             /\ c' = [c EXCEPT !.fbp = FALSE, !.timer = TRUE] /\ slots' = slots
    <3>1. c.ho = None
      BY <2>4 DEF HandleInv
    <3>2. /\ c'.gen = c.gen /\ c'.tr = None /\ c'.ho = None /\ c'.ready = c.ready
          /\ c'.fbp = FALSE /\ c'.timer = TRUE
      BY <1>0, <2>4, <3>1 DEF Conn
    <3>3. QED
      BY <1>0, <2>1, <2>4, <3>1, <3>2 DEF HandleInv, AlwaysRecovering
  <2>5. QED
    BY <1>10, <2>2, <2>3, <2>4 DEF FallbackAnswers
<1>11. ASSUME NEW q \in probes, NEW a \in BOOLEAN, ProbeAnswers(q, a) PROVE HandleInv'
  <2> DEFINE b == [c EXCEPT !.probe = IF @ = q.id THEN 0 ELSE @]
  <2>0. b \in Conn
    <3>1. 0 \in 0..MaxProbes
      BY PeerAssumption
    <3>2. QED
      BY <1>0, <3>1, Zenon DEF Conn
  <2>1. /\ b.gen = c.gen /\ b.tr = c.tr /\ b.ho = c.ho /\ b.ready = c.ready
        /\ b.fbp = c.fbp /\ b.timer = c.timer
    BY <1>0 DEF Conn
  <2>2. UNCHANGED <<on, asks>>
    BY <1>11 DEF ProbeAnswers
  <2> HIDE DEF b
  <2>3. CASE c' = b /\ slots' = slots
    BY <1>same, <2>1, <2>2, <2>3
  <2>4. CASE c' = FailbackScheduled(b) /\ slots' = slots
    <3>1. /\ c'.gen = c.gen /\ c'.tr = c.tr /\ c'.ho = c.ho /\ c'.ready = c.ready
          /\ c'.fbp = c.fbp /\ c'.timer = c.timer
      BY <2>0, <2>1, <2>4 DEF FailbackScheduled, Conn
    <3>2. QED
      BY <1>same, <2>2, <2>4, <3>1
  <2>5. CASE MayProbe(q.gen) /\ StartDirectHandover(b)
    <3>1. PICK k \in Slots : /\ Fresh(slots, k) /\ c' = [b EXCEPT !.ho = k]
                             /\ slots' = [slots EXCEPT ![k] = Opening(c.gen)]
      BY <2>5 DEF StartDirectHandover
    <3>2. /\ c'.gen = c.gen /\ c'.tr = c.tr /\ c'.ho = k /\ c'.ready = c.ready
          /\ c'.fbp = c.fbp /\ c'.timer = c.timer
      BY <2>0, <2>1, <3>1 DEF Conn
    <3>3. /\ c.tr # None /\ c.ho = None /\ on /\ c.tr # k /\ k # None
          /\ c.fbp = FALSE /\ c.timer = FALSE
      BY <1>0, <2>5, <3>1 DEF MayProbe, HandleInv, AlwaysRecovering, Fresh, Running
    <3>4. /\ slots'[k].st = "opening" /\ slots'[k].gen = c.gen
          /\ \A j \in Slots \ {k} : slots'[j] = slots[j]
      BY <1>0, <3>1, SlotFields
    <3>5. QED
      BY <1>0, <2>2, <3>2, <3>3, <3>4 DEF HandleInv, AlwaysRecovering, Running
  <2>6. QED
    BY <1>11, <2>3, <2>4, <2>5 DEF ProbeAnswers, b
<1>torn. ASSUME slots' = Close(slots, {c.tr, c.ho} \ {None})
         PROVE  \A k \in Slots : slots'[k].st \notin Running
  BY <1>0, <1>torn, SlotFields DEF HandleInv, Running
<1>12. CASE Suspend
  <2>1. /\ c'.tr = None /\ c'.ho = None /\ c'.ready = FALSE /\ c'.fbp = FALSE
        /\ c'.timer = FALSE /\ ~on'
    BY <1>0, <1>12 DEF Suspend, Torn, Conn
  <2>2. QED
    BY <1>0, <1>12, <1>torn, <2>1 DEF Suspend, HandleInv, AlwaysRecovering
<1>13. CASE Attach
  <2>1. c.tr = None /\ c.ho = None /\ c.timer = FALSE /\ on' /\ Start(c)
    BY <1>0, <1>13 DEF Attach, HandleInv, AlwaysRecovering
  <2>2. QED
    BY <1>0, <2>1, StartHandles
<1>14. CASE SetRoute
  <2> DEFINE o == [Torn(c) EXCEPT !.timer = FALSE,
                                  !.route = IF @ = "direct" THEN "quick_tunnel" ELSE "direct"]
             S == Close(slots, {c.tr, c.ho} \ {None})
  <2>1. on /\ UNCHANGED on
    BY <1>14 DEF SetRoute
  <2>2. PICK k \in Slots : /\ c' = Started(o, k)
                           /\ slots' = [S EXCEPT ![k] = Opening(o.gen + 1)]
    BY <1>14 DEF SetRoute
  <2>3. Torn(c) \in Conn
    BY <1>0, ConnTyped
  <2>4. /\ c'.gen = o.gen + 1 /\ c'.tr = k /\ c'.ho = None /\ c'.ready = FALSE
        /\ c'.fbp = FALSE /\ c'.timer = FALSE
    <3>1. Torn(c).ho = None
      BY <1>0 DEF Torn, Conn
    <3>2. QED
      BY <2>2, <2>3, <3>1 DEF Started, Conn
  <2>5. S \in [Slots -> Slot]
    BY <1>0, SlotsTyped
  <2>6. \A j \in Slots : S[j].st \notin Running
    BY <1>0, SlotFields DEF HandleInv, Running
  <2>7. /\ slots'[k].st = "opening" /\ slots'[k].gen = o.gen + 1
        /\ \A j \in Slots \ {k} : slots'[j] = S[j]
    <3> HIDE DEF S, o
    <3>1. QED
      BY <2>2, <2>5, SlotFields
  <2>8. k # None
    BY <1>0
  <2>9. QED
    <3> HIDE DEF S, o
    <3>1. QED
      BY <1>0, <2>1, <2>4, <2>6, <2>7, <2>8 DEF HandleInv, AlwaysRecovering, Running
<1>15. CASE CancelHandover
  <2>1. on /\ UNCHANGED on /\ c.fbp = FALSE
    BY <1>0, <1>15 DEF CancelHandover, HandleInv
  <2>2. /\ c'.tr = None /\ c'.ho = None /\ c'.ready = FALSE /\ c'.fbp = FALSE
        /\ c'.timer = TRUE
    BY <1>0, <1>15, <2>1 DEF CancelHandover, Conn
  <2>3. \A k \in Slots : slots'[k].st \notin Running
    BY <1>15, <1>torn DEF CancelHandover
  <2>4. QED
    BY <1>0, <2>1, <2>2, <2>3 DEF HandleInv, AlwaysRecovering
<1>16. CASE Produce \/ (\E k \in Slots : HostTakes(k)) \/ UNCHANGED vars
  BY <1>16, <1>same DEF Produce, HostTakes, vars
<1>17. QED
  BY <1>1, <1>2, <1>3, <1>4, <1>5, <1>6, <1>7, <1>8, <1>9, <1>10, <1>11, <1>12,
     <1>13, <1>14, <1>15, <1>16 DEF Next

-----------------------------------------------------------------------------
(* What is shown *)

\* Every transport that runs is listened to, so the cursor follows each of them:
\* no transport is ahead of the cursor, and none of the host's marks (the end of
\* a replay, the point where a lease moved on) is ahead of what was produced.
CursorInv ==
  /\ lastSeq <= produced
  /\ \A k \in Slots : /\ slots[k].pos <= lastSeq
                      /\ slots[k].end <= produced /\ slots[k].cap <= produced

\* A transport that may deliver is the one in use or the candidate.
LEMMA RunningIsHeard ==
  ASSUME TypeOK, HandleInv, NEW i \in Slots, slots[i].st \in Running
  PROVE  IsCurrent(i) \/ IsHandoverCurrent(i)
<1>1. None \notin Slots
  BY PeerAssumption DEF Slots, None
<1>2. QED
  BY <1>1 DEF HandleInv, IsCurrent, IsHandoverCurrent, TypeOK

\* A frame either ends below the cursor and is dropped, or begins no later than
\* right behind the cursor, ends beyond it and moves it there.
LEMMA OutGoesOn ==
  ASSUME TypeOK, HandleInv, CursorInv, NEW i \in Slots, Out(i)
  PROVE  \E p \in 1..produced :
            /\ slots' = [slots EXCEPT ![i].pos = p]
            /\ \/ p <= lastSeq /\ UNCHANGED <<lastSeq, shown>>
               \/ /\ slots[i].pos + 1 \in 1..(lastSeq + 1) /\ slots[i].pos + 1 <= p
                  /\ p > lastSeq /\ lastSeq' = p
                  /\ shown' = Append(shown, [from |-> slots[i].pos + 1, to |-> p])
<1>1. /\ slots[i].pos \in Nat /\ slots[i].end \in Int /\ slots[i].cap \in Int
      /\ lastSeq \in Nat /\ produced \in Nat /\ slots[i].pos <= lastSeq
      /\ slots[i].end <= produced /\ slots[i].cap <= produced
  BY PeerAssumption DEF TypeOK, Slot, CursorInv
<1>2. Horizon(i) <= produced /\ Horizon(i) \in Int
  BY <1>1 DEF Horizon
<1>3. IsCurrent(i) \/ IsHandoverCurrent(i)
  BY RunningIsHeard DEF Out, Running
<1>4. PICK p \in (slots[i].pos + 1)..Horizon(i) :
         /\ slots' = [slots EXCEPT ![i].pos = p]
         /\ \/ /\ p > lastSeq /\ lastSeq' = p
               /\ shown' = Append(shown, [from |-> slots[i].pos + 1, to |-> p])
            \/ ~(p > lastSeq) /\ UNCHANGED <<lastSeq, shown>>
  BY <1>3 DEF Out, NewFrame, out
<1>5. p \in 1..produced /\ slots[i].pos + 1 \in 1..(lastSeq + 1) /\ slots[i].pos + 1 <= p
      /\ (~(p > lastSeq) => p <= lastSeq)
  BY <1>1, <1>2
<1>6. QED
  BY <1>4, <1>5

\* No step takes a transport past the cursor.
LEMMA NextCursor == TypeOK /\ HandleInv /\ CursorInv /\ [Next]_vars => CursorInv'
<1> SUFFICES ASSUME TypeOK, HandleInv, CursorInv, [Next]_vars PROVE CursorInv'
  OBVIOUS
<1>0. /\ slots \in [Slots -> Slot] /\ lastSeq \in Nat /\ produced \in Nat
      /\ \A k \in Slots : /\ slots[k] \in Slot /\ slots[k].pos \in Nat
                          /\ slots[k].end \in Int /\ slots[k].cap \in Int
      /\ MaxSeq \in Nat
  BY PeerAssumption DEF TypeOK, Slot
<1>empty. /\ Empty.pos <= lastSeq /\ Empty.end <= produced /\ Empty.cap <= produced
          /\ \A g : LET s == Opening(g) IN
                s.pos <= lastSeq /\ s.end <= produced /\ s.cap <= produced
  BY <1>0, SlotFields
<1>set. ASSUME NEW S \in [Slots -> Slot], NEW k \in Slots, NEW g,
               \A j \in Slots : S[j].pos <= lastSeq /\ S[j].end <= produced /\ S[j].cap <= produced,
               \/ slots' = S
               \/ slots' = [S EXCEPT ![k] = Empty]
               \/ slots' = [S EXCEPT ![k] = Opening(g)],
               UNCHANGED <<lastSeq, produced>>
        PROVE  CursorInv'
  BY <1>empty, <1>set DEF CursorInv
<1>close. ASSUME NEW K
          PROVE  /\ Close(slots, K) \in [Slots -> Slot]
                 /\ \A j \in Slots : LET s == Close(slots, K)[j] IN
                       s.pos <= lastSeq /\ s.end <= produced /\ s.cap <= produced
  <2>1. Close(slots, K) \in [Slots -> Slot]
    BY <1>0, SlotsTyped
  <2>2. ASSUME NEW j \in Slots
        PROVE  LET s == Close(slots, K)[j] IN
                  s.pos <= lastSeq /\ s.end <= produced /\ s.cap <= produced
    <3>1. \/ Close(slots, K)[j] = slots[j]
          \/ LET s == Close(slots, K)[j] IN s.pos = 0 /\ s.end = -1 /\ s.cap = -1
      BY <1>0, SlotFields
    <3>2. QED
      BY <1>0, <3>1 DEF CursorInv
  <2>3. QED
    BY <2>1, <2>2
<1>slots. \A j \in Slots : slots[j].pos <= lastSeq /\ slots[j].end <= produced /\ slots[j].cap <= produced
  BY DEF CursorInv
<1>same. ASSUME UNCHANGED <<slots, lastSeq, produced>> PROVE CursorInv'
  BY <1>same DEF CursorInv
<1>start. ASSUME NEW o, Start(o), UNCHANGED <<lastSeq, produced>> PROVE CursorInv'
  BY <1>0, <1>set, <1>same, <1>slots, <1>start DEF Start
<1>1. CASE SendInput \/ FailbackTimer \/ (\E k \in Slots : HostTakes(k)) \/ UNCHANGED vars
  BY <1>1, <1>same DEF SendInput, FailbackTimer, HostTakes, vars, host, out
<1>2. ASSUME NEW i \in Slots, Authenticated(i) PROVE CursorInv'
  <2>1. \A k \in Slots : /\ slots'[k].pos = slots[k].pos /\ slots'[k].end = slots[k].end
                         /\ slots'[k].cap = slots[k].cap
    BY <1>0, <1>2 DEF Authenticated, Slot
  <2>2. QED
    BY <1>2, <2>1 DEF Authenticated, CursorInv, host, out
<1>3. ASSUME NEW i \in Slots, HostJoins(i) PROVE CursorInv'
  <2>1. \A k \in Slots : /\ slots'[k].pos = slots[k].pos
                         /\ slots'[k].end \in {slots[k].end, produced}
                         /\ slots'[k].cap \in {slots[k].cap, produced}
    BY <1>0, <1>3 DEF HostJoins, Slot
  <2>2. QED
    BY <1>0, <1>3, <2>1 DEF HostJoins, CursorInv, host, out
<1>4. ASSUME NEW i \in Slots, Out(i) PROVE CursorInv'
  <2>0. PICK p \in 1..produced : /\ slots' = [slots EXCEPT ![i].pos = p]
                                 /\ \/ p <= lastSeq /\ lastSeq' = lastSeq
                                    \/ p > lastSeq /\ lastSeq' = p
    BY <1>4, OutGoesOn
  <2>1. /\ slots'[i].pos = p
        /\ \A k \in Slots : /\ slots'[k].end = slots[k].end /\ slots'[k].cap = slots[k].cap
                            /\ k # i => slots'[k].pos = slots[k].pos
    BY <1>0, <2>0 DEF Slot
  <2>2. produced' = produced
    BY <1>4 DEF Out, host
  <2>3. QED
    BY <1>0, <2>0, <2>1, <2>2 DEF CursorInv
<1>5. ASSUME NEW i \in Slots, Ready(i) PROVE CursorInv'
  <2>1. \A k \in Slots : /\ slots'[k].pos = slots[k].pos /\ slots'[k].end = slots[k].end
                         /\ slots'[k].cap = slots[k].cap
    BY <1>0, <1>5 DEF Ready, Slot
  <2>2. lastSeq' = slots[i].end /\ slots[i].end >= lastSeq /\ produced' = produced
    BY <1>5 DEF Ready, host, out
  <2>3. QED
    BY <1>0, <2>1, <2>2 DEF CursorInv
<1>6. ASSUME NEW i \in Slots, Promote(i) PROVE CursorInv'
  <2> DEFINE S == [slots EXCEPT ![i].st = "live"]
  <2>1. S \in [Slots -> Slot]
    BY <1>0 DEF Slot
  <2>2. \A k \in Slots : S[k].pos = slots[k].pos /\ S[k].end = slots[k].end /\ S[k].cap = slots[k].cap
    BY <1>0 DEF Slot
  <2>3. /\ slots' = Close(S, {c.tr} \ {None}) /\ lastSeq' = slots[i].end
        /\ slots[i].end >= lastSeq /\ produced' = produced
    BY <1>6 DEF Promote, host, out
  <2> HIDE DEF S
  <2>4. \A k \in Slots : \/ slots'[k] = S[k]
                         \/ slots'[k].pos = 0 /\ slots'[k].end = -1 /\ slots'[k].cap = -1
    BY <2>1, <2>3, SlotFields
  <2>5. /\ slots[i].end \in Int /\ slots[i].end <= produced /\ 0 <= slots[i].end
    BY <1>0, <2>3 DEF CursorInv
  <2>6. ASSUME NEW k \in Slots
        PROVE  slots'[k].pos <= lastSeq' /\ slots'[k].end <= produced' /\ slots'[k].cap <= produced'
    <3>1. slots[k].pos <= lastSeq /\ slots[k].end <= produced /\ slots[k].cap <= produced
      BY DEF CursorInv
    <3>2. CASE slots'[k] = S[k]
      BY <1>0, <2>2, <2>3, <2>5, <3>1, <3>2
    <3>3. CASE slots'[k].pos = 0 /\ slots'[k].end = -1 /\ slots'[k].cap = -1
      BY <1>0, <2>3, <2>5, <3>3
    <3>4. QED
      BY <2>4, <3>2, <3>3
  <2>7. QED
    BY <2>3, <2>5, <2>6 DEF CursorInv
<1>7. ASSUME NEW i \in Slots, Fails(i) PROVE CursorInv'
  <2>1. UNCHANGED <<lastSeq, produced>>
    BY <1>7 DEF Fails, host, out
  <2>2. \/ slots' = [slots EXCEPT ![i] = Empty]
        \/ slots' = [Close(slots, {c.tr} \ {None}) EXCEPT ![i] = Empty]
    BY <1>7 DEF Fails, Fail, FailHandover
  <2>3. QED
    BY <1>0, <1>set, <1>close, <1>slots, <2>1, <2>2
<1>8. CASE ReconnectTimer \/ Attach
  BY <1>8, <1>start DEF ReconnectTimer, Attach, host, out
<1>9. ASSUME NEW g \in asks, NEW a \in BOOLEAN, FallbackAnswers(g, a) PROVE CursorInv'
  <2>1. UNCHANGED <<lastSeq, produced>>
    BY <1>9 DEF FallbackAnswers, host, out
  <2>2. \/ slots' = slots
        \/ \E k \in Slots : slots' = [slots EXCEPT ![k] = Opening(c.gen + 1)]
    BY <1>9 DEF FallbackAnswers
  <2>3. QED
    BY <1>0, <1>set, <1>same, <1>slots, <2>1, <2>2
<1>10. ASSUME NEW q \in probes, NEW a \in BOOLEAN, ProbeAnswers(q, a) PROVE CursorInv'
  <2>1. UNCHANGED <<lastSeq, produced>>
    BY <1>10 DEF ProbeAnswers, host, out
  <2>2. \/ slots' = slots
        \/ \E k \in Slots : slots' = [slots EXCEPT ![k] = Opening(c.gen)]
    BY <1>10 DEF ProbeAnswers, StartDirectHandover
  <2>3. QED
    BY <1>0, <1>set, <1>same, <1>slots, <2>1, <2>2
<1>11. CASE Suspend \/ CancelHandover
  <2>1. slots' = Close(slots, {c.tr, c.ho} \ {None}) /\ UNCHANGED <<lastSeq, produced>>
    BY <1>11 DEF Suspend, CancelHandover, host, out
  <2>2. QED
    BY <1>close, <2>1 DEF CursorInv
<1>12. CASE SetRoute
  <2>1. UNCHANGED <<lastSeq, produced>>
    BY <1>12 DEF SetRoute, host, out
  <2>2. PICK k \in Slots, g \in {Torn(c).gen + 1, [Torn(c) EXCEPT !.timer = FALSE,
                   !.route = IF @ = "direct" THEN "quick_tunnel" ELSE "direct"].gen + 1} :
           slots' = [Close(slots, {c.tr, c.ho} \ {None}) EXCEPT ![k] = Opening(g)]
    BY <1>12 DEF SetRoute
  <2>3. QED
    BY <1>set, <1>close, <2>1, <2>2
<1>13. CASE Produce
  BY <1>0, <1>13 DEF Produce, CursorInv, out
<1>14. QED
  BY <1>1, <1>2, <1>3, <1>4, <1>5, <1>6, <1>7, <1>8, <1>9, <1>10, <1>11, <1>12, <1>13
     DEF Next

\* The first transport starts at the cursor.
LEMMA InitCursor == Init => CursorInv
<1> SUFFICES ASSUME Init PROVE CursorInv
  OBVIOUS
<1>1. \A k \in Slots : slots[k].pos = 0 /\ slots[k].end = -1 /\ slots[k].cap = -1
  BY DEF Init, Opening, Empty
<1>2. QED
  BY <1>1 DEF Init, CursorInv

-----------------------------------------------------------------------------
(* What is typed *)

\* QueueIsYoungest, position by position.
Younger ==
  \A n \in DOMAIN pend :
     /\ \A k \in Slots : \A j \in DOMAIN up[k] : up[k][j] < pend[n]
     /\ \A j \in DOMAIN got : got[j] < pend[n]

\* The queue holds inputs in the order typed, younger than everything sent; what
\* was sent and not taken is in one transport once, and was not taken before.
InputInv ==
  /\ \A i \in DOMAIN pend : pend[i] <= typed
  /\ \A i, j \in DOMAIN pend : i # j => pend[i] # pend[j]
  /\ \A k \in Slots : \A i \in DOMAIN up[k] : up[k][i] <= typed
  /\ \A k, l \in Slots : \A i \in DOMAIN up[k], j \in DOMAIN up[l] :
        up[k][i] = up[l][j] => k = l /\ i = j
  /\ \A k \in Slots : \A i \in DOMAIN up[k], j \in DOMAIN got : up[k][i] # got[j]
  /\ \A j \in DOMAIN got : got[j] <= typed
  /\ Younger

\* Positions and elements of a sequence of inputs.
LEMMA InputsAreNumbers ==
  ASSUME NEW s \in Seq(1..MaxInput)
  PROVE  \A n \in DOMAIN s : n \in Nat /\ n # Len(s) + 1 /\ s[n] \in Nat
<1>1. Len(s) \in Nat /\ DOMAIN s = 1..Len(s)
  OBVIOUS
<1>2. \A n \in 1..Len(s) : s[n] \in 1..MaxInput
  BY ElementOfSeq
<1>3. \A x \in 1..MaxInput : x \in Nat
  BY PeerAssumption
<1>4. QED
  BY <1>1, <1>2, <1>3

\* Nothing is typed before the first attach.
LEMMA InitInput == Init => InputInv
  BY DEF Init, InputInv, Younger

\* Losing what transports had sent disturbs no order.
LEMMA LosingKeepsOrder ==
  ASSUME TypeOK, InputInv, \A k \in Slots : up'[k] \in {<< >>, up[k]},
         UNCHANGED <<pend, typed, got>>
  PROVE  InputInv'
<1>1. \A k \in Slots : \A i \in DOMAIN up'[k] : i \in DOMAIN up[k] /\ up'[k][i] = up[k][i]
  OBVIOUS
<1>2. QED
  BY <1>1 DEF InputInv, Younger

\* The queue flushed behind what its transport has sent.
LEMMA FlushKeepsOrder ==
  ASSUME TypeOK, InputInv, NEW i \in Slots, NEW U \in [Slots -> Seq(1..MaxInput)],
         \A k \in Slots : U[k] \in {<< >>, up[k]},
         up' = [U EXCEPT ![i] = @ \o pend], pend' = << >>, UNCHANGED <<typed, got>>
  PROVE  InputInv'
<1>0. /\ pend \in Seq(1..MaxInput) /\ typed \in Nat /\ U[i] \in Seq(1..MaxInput)
      /\ Len(pend) \in Nat /\ Len(U[i]) \in Nat
      /\ DOMAIN pend = 1..Len(pend) /\ DOMAIN U[i] = 1..Len(U[i])
  BY DEF TypeOK
<1>nat. /\ \A n \in DOMAIN pend : pend[n] \in Nat
        /\ \A k \in Slots : \A n \in DOMAIN up[k] : up[k][n] \in Nat
        /\ \A n \in DOMAIN got : got[n] \in Nat
  BY InputsAreNumbers DEF TypeOK
<1>sent. \A h \in Slots : \A x \in DOMAIN U[h] :
            /\ x \in DOMAIN up[h] /\ U[h][x] = up[h][x] /\ U[h][x] <= typed
            /\ \A j \in DOMAIN got : U[h][x] # got[j]
  BY DEF InputInv
<1>1. \A k \in Slots : k # i => up'[k] = U[k]
  OBVIOUS
<1>2. up'[i] = U[i] \o pend
  OBVIOUS
<1>3. ASSUME NEW n \in DOMAIN up'[i]
      PROVE  \/ n \in DOMAIN U[i] /\ up'[i][n] = U[i][n]
             \/ n > Len(U[i]) /\ n - Len(U[i]) \in DOMAIN pend /\ up'[i][n] = pend[n - Len(U[i])]
  BY <1>0, <1>2
<1>4. ASSUME NEW k \in Slots, NEW n \in DOMAIN up'[k]
      PROVE  up'[k][n] <= typed /\ \A j \in DOMAIN got : up'[k][n] # got[j]
  <2>1. \A m \in DOMAIN pend, j \in DOMAIN got : pend[m] # got[j]
    BY <1>nat DEF InputInv, Younger
  <2>2. CASE k = i
    BY <1>sent, <1>3, <2>1, <2>2 DEF InputInv
  <2>3. CASE k # i
    BY <1>sent, <1>1, <2>3
  <2>4. QED
    BY <2>2, <2>3
<1>5. ASSUME NEW k \in Slots, NEW l \in Slots, NEW m \in DOMAIN up'[k], NEW n \in DOMAIN up'[l],
             up'[k][m] = up'[l][n]
      PROVE  k = l /\ m = n
  <2>0. /\ \A h \in Slots : \A x \in DOMAIN U[h], y \in DOMAIN pend : U[h][x] # pend[y]
        /\ \A h, g \in Slots : \A x \in DOMAIN U[h], y \in DOMAIN U[g] :
              U[h][x] = U[g][y] => h = g /\ x = y
    <3>1. \A h \in Slots : \A x \in DOMAIN U[h], y \in DOMAIN pend : U[h][x] # pend[y]
      BY <1>nat, <1>sent DEF InputInv, Younger
    <3>2. \A h, g \in Slots : \A x \in DOMAIN U[h], y \in DOMAIN U[g] :
              U[h][x] = U[g][y] => h = g /\ x = y
      BY <1>sent DEF InputInv
    <3>3. QED
      BY <3>1, <3>2
  <2>1. CASE k # i /\ l # i
    BY <1>1, <1>5, <2>0, <2>1
  <2>2. CASE k = i /\ l # i
    BY <1>1, <1>3, <1>5, <2>0, <2>2
  <2>3. CASE k # i /\ l = i
    BY <1>1, <1>3, <1>5, <2>0, <2>3
  <2>4. CASE k = i /\ l = i
    <3>1. m \in Nat /\ n \in Nat
      BY <1>0, <1>2, <2>4
    <3>2. CASE m \in DOMAIN U[i] /\ up'[i][m] = U[i][m]
      BY <1>3, <1>5, <2>0, <2>4, <3>2
    <3>3. CASE /\ m > Len(U[i]) /\ m - Len(U[i]) \in DOMAIN pend
               /\ up'[i][m] = pend[m - Len(U[i])]
      <4>1. /\ n > Len(U[i]) /\ n - Len(U[i]) \in DOMAIN pend
            /\ up'[i][n] = pend[n - Len(U[i])]
        BY <1>3, <1>5, <2>0, <2>4, <3>3
      <4>2. m - Len(U[i]) = n - Len(U[i])
        BY <1>5, <2>4, <3>3, <4>1 DEF InputInv
      <4>3. QED
        BY <1>0, <2>4, <3>1, <4>2
    <3>4. QED
      BY <1>3, <2>4, <3>2, <3>3
  <2>5. QED
    BY <2>1, <2>2, <2>3, <2>4
<1>6. QED
  BY <1>4, <1>5 DEF InputInv, Younger


\* Nothing waits in the queue of a connection that may send.
Flushed == c.ready /\ c.ho = None => pend = << >>

\* The first attach has an empty queue.
LEMMA InitFlushed == Init => Flushed
  BY DEF Init, Flushed

\* A connection that becomes able to send has flushed its queue.
LEMMA NextFlushed == TypeOK /\ HandleInv /\ Flushed /\ [Next]_vars => Flushed'
<1> SUFFICES ASSUME TypeOK, HandleInv, Flushed, [Next]_vars PROVE Flushed'
  OBVIOUS
<1>0. c \in Conn /\ None \notin Slots /\ c.ready \in BOOLEAN
  BY PeerAssumption DEF TypeOK, None, Slots, Conn
<1>same. ASSUME c'.ready => c.ready, c'.ho = c.ho, pend' = pend PROVE Flushed'
  BY <1>same DEF Flushed
<1>down. ASSUME ~c'.ready PROVE Flushed'
  BY <1>down DEF Flushed
<1>start. ASSUME NEW o \in Conn, Start(o) PROVE Flushed'
  <2>1. \A k \in Slots \cup {None} : Started(o, k) \in Conn /\ ~Started(o, k).ready
    BY <1>0, ConnTyped DEF Started, Conn
  <2>2. \A ask \in BOOLEAN : ~Recovered(Started(o, None), ask).ready
    BY <2>1 DEF Recovered, Conn
  <2>3. MayAsk(o) \in BOOLEAN
    BY DEF MayAsk
  <2>4. QED
    BY <1>start, <1>down, <2>1, <2>2, <2>3 DEF Start
<1>1. CASE SendInput
  BY <1>0, <1>1 DEF SendInput, CanSend, Flushed, HandleInv
<1>2. ASSUME NEW i \in Slots, Authenticated(i) \/ HostJoins(i) \/ Out(i) PROVE Flushed'
  BY <1>2, <1>same DEF Authenticated, HostJoins, Out
<1>3. ASSUME NEW i \in Slots, Ready(i) \/ Promote(i) PROVE Flushed'
  BY <1>3 DEF Ready, Promote, Flushed
<1>4. ASSUME NEW i \in Slots, Fails(i) PROVE Flushed'
  <2>0. \A o \in Conn, ask \in BOOLEAN : ~Recovered(o, ask).ready
    BY DEF Recovered, Conn
  <2>1. /\ [c EXCEPT !.tr = None] \in Conn
        /\ [c EXCEPT !.ho = None, !.tr = None, !.route = "quick_tunnel"] \in Conn
    BY <1>0, Zenon DEF Conn, Routes
  <2>2. MayAsk(c) \in BOOLEAN
    BY DEF MayAsk
  <2>3. CASE Fail(i)
    <3>1. CASE c' = [c EXCEPT !.tr = None, !.ready = FALSE]
      BY <1>0, <1>down, <3>1 DEF Conn
    <3>2. CASE \E ask \in {FALSE, MayAsk(c)} : c' = Recovered([c EXCEPT !.tr = None], ask)
      BY <1>down, <2>0, <2>1, <2>2, <3>2
    <3>3. QED
      BY <2>3, <3>1, <3>2 DEF Fail
  <2>4. CASE FailHandover(i)
    BY <1>down, <2>0, <2>1, <2>4 DEF FailHandover
  <2>5. CASE UNCHANGED c
    BY <1>4, <1>same, <2>5 DEF Fails
  <2>6. QED
    BY <1>4, <2>3, <2>4, <2>5 DEF Fails
<1>5. CASE ReconnectTimer \/ Attach
  <2>1. [c EXCEPT !.timer = FALSE] \in Conn
    BY <1>0 DEF Conn
  <2>2. QED
    BY <1>0, <1>5, <1>start, <2>1 DEF ReconnectTimer, Attach
<1>6. CASE FailbackTimer
  <2>1. c'.ready = c.ready /\ c'.ho = c.ho
    BY <1>0, <1>6 DEF FailbackTimer, Conn
  <2>2. QED
    BY <1>6, <1>same, <2>1 DEF FailbackTimer
<1>7. ASSUME NEW g \in asks, NEW a \in BOOLEAN, FallbackAnswers(g, a) PROVE Flushed'
  <2>1. \/ UNCHANGED c
        \/ \E k : c' = Started([c EXCEPT !.route = "quick_tunnel"], k)
        \/ c' = [c EXCEPT !.fbp = FALSE, !.timer = TRUE]
    BY <1>7 DEF FallbackAnswers
  <2>2. (c'.ready => c.ready) /\ c'.ho = c.ho
    BY <1>0, <2>1 DEF Started, Conn
  <2>3. QED
    BY <1>7, <1>same, <2>2 DEF FallbackAnswers
<1>8. ASSUME NEW q \in probes, NEW a \in BOOLEAN, ProbeAnswers(q, a) PROVE Flushed'
  <2> DEFINE b == [c EXCEPT !.probe = IF @ = q.id THEN 0 ELSE @]
  <2>1. b \in Conn /\ b.ready = c.ready /\ b.ho = c.ho
    <3>1. 0 \in 0..MaxProbes
      BY PeerAssumption
    <3>2. QED
      BY <1>0, <3>1 DEF Conn
  <2>2. c' = b \/ c' = FailbackScheduled(b) \/ \E k \in Slots : c' = [b EXCEPT !.ho = k]
    BY <1>8 DEF ProbeAnswers, StartDirectHandover
  <2>3. pend' = pend
    BY <1>8 DEF ProbeAnswers
  <2> HIDE DEF b
  <2>4. CASE c' = b \/ c' = FailbackScheduled(b)
    BY <1>same, <2>1, <2>3, <2>4 DEF FailbackScheduled, Conn
  <2>5. CASE \E k \in Slots : c' = [b EXCEPT !.ho = k]
    BY <1>0, <2>1, <2>5 DEF Flushed, Conn
  <2>6. QED
    BY <2>2, <2>4, <2>5
<1>9. CASE Suspend \/ SetRoute \/ CancelHandover
  <2>1. CASE Suspend
    BY <1>0, <1>down, <2>1 DEF Suspend, Torn, Conn
  <2>2. CASE SetRoute
    <3> DEFINE o == [Torn(c) EXCEPT !.timer = FALSE,
                     !.route = IF @ = "direct" THEN "quick_tunnel" ELSE "direct"]
    <3>1. \E k \in Slots : c' = Started(o, k)
      BY <2>2 DEF SetRoute
    <3>2. Torn(c) \in Conn
      BY <1>0, ConnTyped
    <3>3. o \in Conn
      BY <3>2, Zenon DEF Conn, Routes
    <3> HIDE DEF o
    <3>4. QED
      BY <1>down, <3>1, <3>3 DEF Started, Conn
  <2>3. CASE CancelHandover
    BY <1>0, <1>down, <2>3 DEF CancelHandover, Conn
  <2>4. QED
    BY <1>9, <2>1, <2>2, <2>3
<1>10. CASE Produce \/ (\E k \in Slots : HostTakes(k)) \/ UNCHANGED vars
  BY <1>10, <1>same DEF Produce, HostTakes, vars
<1>11. QED
  BY <1>1, <1>2, <1>3, <1>4, <1>5, <1>6, <1>7, <1>8, <1>9, <1>10 DEF Next

\* No step sends an input while an older one waits, or sends or takes one a
\* second time.
LEMMA NextInput == TypeOK /\ HandleInv /\ Flushed /\ InputInv /\ [Next]_vars => InputInv'
<1> SUFFICES ASSUME TypeOK, HandleInv, Flushed, InputInv, [Next]_vars PROVE InputInv'
  OBVIOUS
<1>0. /\ c \in Conn /\ up \in [Slots -> Seq(1..MaxInput)] /\ pend \in Seq(1..MaxInput)
      /\ typed \in Nat /\ got \in Seq(1..MaxInput) /\ None \notin Slots
      /\ \A k \in Slots : up[k] \in Seq(1..MaxInput)
  BY PeerAssumption DEF TypeOK, None, Slots
<1>nat. /\ \A n \in DOMAIN pend : n # Len(pend) + 1 /\ pend[n] \in Nat
        /\ \A k \in Slots : \A n \in DOMAIN up[k] : up[k][n] \in Nat /\ n # Len(up[k]) + 1
        /\ \A n \in DOMAIN got : got[n] \in Nat
  BY <1>0, InputsAreNumbers
<1>lost. \A K : /\ Lost(K) \in [Slots -> Seq(1..MaxInput)]
                /\ \A k \in Slots : Lost(K)[k] \in {<< >>, up[k]}
  <2>1. << >> \in Seq(1..MaxInput)
    OBVIOUS
  <2>2. QED
    BY <1>0, <2>1, Zenon DEF Lost
<1>same. ASSUME UNCHANGED <<up, pend, typed, got>> PROVE InputInv'
  BY <1>same, LosingKeepsOrder
<1>lose. ASSUME NEW K, up' = Lost(K), UNCHANGED <<pend, typed, got>> PROVE InputInv'
  BY <1>lose, <1>lost, LosingKeepsOrder
<1>1. CASE SendInput
  <2>0. typed' = typed + 1 /\ got' = got
    BY <1>1 DEF SendInput, host, out
  <2>1. CASE CanSend /\ up' = [up EXCEPT ![c.tr] = Append(@, typed + 1)] /\ pend' = pend
    <3>1. c.tr \in Slots /\ pend = << >>
      BY <1>0, <2>1 DEF CanSend, Flushed, Conn
    <3>2. \A k \in Slots : \A n \in DOMAIN up'[k] :
             \/ n \in DOMAIN up[k] /\ up'[k][n] = up[k][n]
             \/ k = c.tr /\ n = Len(up[k]) + 1 /\ up'[k][n] = typed + 1
      BY <1>0, <2>1, <3>1
    <3>3. \A k \in Slots : \A n \in DOMAIN up[k] : up[k][n] <= typed /\ up[k][n] # typed + 1
      BY <1>0, <1>nat DEF InputInv
    <3>4. \A n \in DOMAIN got : got[n] <= typed + 1 /\ got[n] # typed + 1
      BY <1>0, <1>nat DEF InputInv
    <3>5. \A k \in Slots : \A n \in DOMAIN up'[k] :
             /\ up'[k][n] <= typed + 1 /\ \A j \in DOMAIN got : up'[k][n] # got[j]
      BY <1>0, <1>nat, <3>2, <3>3, <3>4 DEF InputInv
    <3>6. \A k, l \in Slots : \A i \in DOMAIN up'[k], j \in DOMAIN up'[l] :
             up'[k][i] = up'[l][j] => k = l /\ i = j
      BY <3>2, <3>3 DEF InputInv
    <3>7. QED
      BY <2>0, <2>1, <3>1, <3>4, <3>5, <3>6 DEF InputInv, Younger
  <2>2. CASE pend' = Append(pend, typed + 1) /\ up' = up
    <3>1. \A n \in DOMAIN pend' : \/ n \in DOMAIN pend /\ pend'[n] = pend[n]
                                  \/ n = Len(pend) + 1 /\ pend'[n] = typed + 1
      BY <1>0, <2>2
    <3>2. QED
      BY <1>0, <1>nat, <2>0, <2>2, <3>1 DEF InputInv, Younger
  <2>3. QED
    BY <1>1, <2>1, <2>2 DEF SendInput
<1>2. ASSUME NEW i \in Slots, Authenticated(i) \/ HostJoins(i) \/ Out(i) PROVE InputInv'
  BY <1>2, <1>same DEF Authenticated, HostJoins, Out, host, out
<1>3. ASSUME NEW i \in Slots, Ready(i) PROVE InputInv'
  BY <1>0, <1>3, FlushKeepsOrder DEF Ready, host, out
<1>4. ASSUME NEW i \in Slots, Promote(i) PROVE InputInv'
  <2>1. PICK U \in [Slots -> Seq(1..MaxInput)] :
           /\ \A k \in Slots : U[k] \in {<< >>, up[k]}
           /\ up' = [U EXCEPT ![i] = @ \o pend]
    BY <1>4, <1>lost DEF Promote
  <2>2. QED
    BY <1>4, <2>1, FlushKeepsOrder DEF Promote, host, out
<1>5. ASSUME NEW i \in Slots, Fails(i) PROVE InputInv'
  BY <1>5, <1>same, <1>lose DEF Fails, Fail, FailHandover, host, out
<1>6. ASSUME ReconnectTimer \/ Attach \/ FailbackTimer \/ Produce \/ UNCHANGED vars PROVE InputInv'
  BY <1>6, <1>same DEF ReconnectTimer, Attach, FailbackTimer, Produce, vars, host, out
<1>7. ASSUME NEW g \in asks, NEW a \in BOOLEAN, FallbackAnswers(g, a) PROVE InputInv'
  BY <1>7, <1>same DEF FallbackAnswers, host, out
<1>8. ASSUME NEW q \in probes, NEW a \in BOOLEAN, ProbeAnswers(q, a) PROVE InputInv'
  BY <1>8, <1>same DEF ProbeAnswers, host, out
<1>9. CASE Suspend \/ SetRoute \/ CancelHandover
  BY <1>9, <1>lose DEF Suspend, SetRoute, CancelHandover, host, out
<1>10. ASSUME NEW k \in Slots, HostTakes(k) PROVE InputInv'
  <2>1. /\ up[k] # << >> /\ got' = Append(got, Head(up[k])) /\ up' = [up EXCEPT ![k] = Tail(@)]
        /\ UNCHANGED <<pend, typed>>
    BY <1>10 DEF HostTakes
  <2>2. /\ Len(up[k]) \in Nat \ {0} /\ Head(up[k]) = up[k][1] /\ 1 \in DOMAIN up[k]
        /\ \A n \in DOMAIN Tail(up[k]) : n \in Nat /\ n + 1 \in DOMAIN up[k] /\ n + 1 # 1
                                         /\ Tail(up[k])[n] = up[k][n + 1]
    BY <1>0, <2>1, HeadTailProperties
  <2>3. \A n \in DOMAIN got' : \/ n \in DOMAIN got /\ got'[n] = got[n]
                               \/ got'[n] = up[k][1]
    BY <1>0, <2>1, <2>2
  <2>4. /\ up'[k] = Tail(up[k]) /\ \A l \in Slots : l # k => up'[l] = up[l]
    BY <1>0, <2>1
  <2>5. ASSUME NEW l \in Slots, NEW n \in DOMAIN up'[l]
        PROVE  \E m \in DOMAIN up[l] : /\ up'[l][n] = up[l][m] /\ (l = k => m = n + 1 /\ n \in Nat)
                                       /\ (l # k => m = n)
    <3>1. CASE l = k
      BY <2>2, <2>4, <3>1
    <3>2. CASE l # k
      BY <2>4, <3>2
    <3>3. QED
      BY <3>1, <3>2
  <2>6. \A l \in Slots : \A n \in DOMAIN up'[l], j \in DOMAIN got' : up'[l][n] # got'[j]
    <3>1. ASSUME NEW l \in Slots, NEW n \in DOMAIN up'[l], NEW j \in DOMAIN got'
          PROVE  up'[l][n] # got'[j]
      <4>1. PICK m \in DOMAIN up[l] : /\ up'[l][n] = up[l][m] /\ (l = k => m # 1)
        <5>1. CASE l = k
          <6>1. n \in DOMAIN Tail(up[k]) /\ up'[l][n] = Tail(up[k])[n]
            BY <2>4, <5>1
          <6>2. n + 1 \in DOMAIN up[k] /\ n + 1 # 1 /\ Tail(up[k])[n] = up[k][n + 1]
            BY <2>2, <6>1
          <6>3. QED
            BY <5>1, <6>1, <6>2
        <5>2. CASE l # k
          BY <2>5, <5>2
        <5>3. QED
          BY <5>1, <5>2
      <4>2. up[l][m] # up[k][1]
        BY <2>2, <4>1 DEF InputInv
      <4>3. QED
        BY <2>3, <4>1, <4>2 DEF InputInv
    <3>2. QED
      BY <3>1
  <2>7. \A l, m \in Slots : \A i \in DOMAIN up'[l], j \in DOMAIN up'[m] :
           up'[l][i] = up'[m][j] => l = m /\ i = j
    <3>1. ASSUME NEW l \in Slots, NEW m \in Slots, NEW i \in DOMAIN up'[l], NEW j \in DOMAIN up'[m],
                 up'[l][i] = up'[m][j]
          PROVE  l = m /\ i = j
      <4>1. PICK x \in DOMAIN up[l] : /\ up'[l][i] = up[l][x] /\ (l = k => x = i + 1 /\ i \in Nat)
                                      /\ (l # k => x = i)
        BY <2>5
      <4>2. PICK y \in DOMAIN up[m] : /\ up'[m][j] = up[m][y] /\ (m = k => y = j + 1 /\ j \in Nat)
                                      /\ (m # k => y = j)
        BY <2>5
      <4>3. l = m /\ x = y
        <5>1. up[l][x] = up[m][y]
          BY <3>1, <4>1, <4>2
        <5>2. QED
          BY <4>1, <4>2, <5>1 DEF InputInv
      <4>4. QED
        BY <4>1, <4>2, <4>3
    <3>2. QED
      BY <3>1
  <2>8. QED
    BY <2>1, <2>2, <2>3, <2>5, <2>6, <2>7 DEF InputInv, Younger
<1>11. QED
  BY <1>1, <1>2, <1>3, <1>4, <1>5, <1>6, <1>7, <1>8, <1>9, <1>10 DEF Next

-----------------------------------------------------------------------------
(* The theorems *)

\* The cursor is the end of the newest run that was shown.
ShownInv == lastSeq = V!Newest(shown)

\* A frame that is shown leaves the cursor at its end; nothing else moves it.
LEMMA NextShown == TypeOK /\ HandleInv /\ CursorInv /\ ShownInv /\ [Next]_vars => ShownInv'
<1> SUFFICES ASSUME TypeOK, HandleInv, CursorInv, ShownInv, [Next]_vars PROVE ShownInv'
  OBVIOUS
<1>same. ASSUME UNCHANGED <<lastSeq, shown>> PROVE ShownInv'
  BY <1>same DEF ShownInv, V!Newest
<1>1. ASSUME NEW i \in Slots, Out(i) PROVE ShownInv'
  <2>1. PICK p \in 1..produced :
           \/ UNCHANGED <<lastSeq, shown>>
           \/ lastSeq' = p /\ shown' = Append(shown, [from |-> slots[i].pos + 1, to |-> p])
    BY <1>1, OutGoesOn
  <2>2. ASSUME lastSeq' = p, shown' = Append(shown, [from |-> slots[i].pos + 1, to |-> p])
        PROVE  ShownInv'
    <3>1. shown \in Seq(Runs)
      BY DEF TypeOK
    <3>2. shown' # << >> /\ shown'[Len(shown')].to = p
      BY <2>2, <3>1
    <3>3. QED
      BY <2>2, <3>2, Zenon DEF ShownInv, V!Newest
  <2>3. QED
    BY <1>same, <2>1, <2>2
<1>2. ASSUME NEW i \in Slots, Ready(i) \/ Promote(i) PROVE ShownInv'
  <2>1. slots[i].pos = slots[i].end /\ slots[i].end >= lastSeq /\ lastSeq' = slots[i].end /\ shown' = shown
    BY <1>2 DEF Ready, Promote
  <2>2. lastSeq \in Nat /\ slots[i].pos \in Nat /\ slots[i].pos <= lastSeq
    BY PeerAssumption DEF TypeOK, Slot, CursorInv
  <2>3. QED
    BY <1>same, <2>1, <2>2
<1>3. ASSUME NEW i \in Slots, Authenticated(i) \/ HostJoins(i) \/ Fails(i) PROVE ShownInv'
  BY <1>3, <1>same DEF Authenticated, HostJoins, Fails, out
<1>4. CASE SendInput \/ ReconnectTimer \/ FailbackTimer \/ Attach \/ Suspend \/ SetRoute \/ CancelHandover
  BY <1>4, <1>same DEF SendInput, ReconnectTimer, FailbackTimer, Attach, Suspend, SetRoute, CancelHandover, out
<1>5. ASSUME NEW g \in asks, NEW a \in BOOLEAN, FallbackAnswers(g, a) PROVE ShownInv'
  BY <1>5, <1>same DEF FallbackAnswers, out
<1>6. ASSUME NEW q \in probes, NEW a \in BOOLEAN, ProbeAnswers(q, a) PROVE ShownInv'
  BY <1>6, <1>same DEF ProbeAnswers, out
<1>7. CASE Produce \/ (\E k \in Slots : HostTakes(k)) \/ UNCHANGED vars
  BY <1>7, <1>same DEF Produce, HostTakes, vars, out
<1>8. QED
  BY <1>1, <1>2, <1>3, <1>4, <1>5, <1>6, <1>7 DEF Next

\* The inductive invariant of the accountless viewer.
Inv == TypeOK /\ HandleInv /\ CursorInv /\ ShownInv /\ Flushed /\ InputInv

\* Every reachable state of the connection, its transports and its host satisfies
\* the inductive invariant.
LEMMA Invariance == Spec => []Inv
<1>0. Init => ShownInv
  BY DEF Init, ShownInv, V!Newest
<1>1. Init => Inv
  BY <1>0, InitTypeOK, InitHandles, InitCursor, InitFlushed, InitInput DEF Inv
<1>2. Inv /\ [Next]_vars => Inv'
  BY NextTypeOK, NextHandles, NextCursor, NextShown, NextFlushed, NextInput DEF Inv
<1>3. QED
  BY <1>1, <1>2, PTL DEF Spec

\* The connection object, the slots, the queues and the promises keep their
\* types and bounds.
THEOREM TypeCorrect == Spec => []TypeOK
<1>1. Inv => TypeOK
  BY DEF Inv
<1>2. QED
  BY <1>1, Invariance, PTL

\* However hand-overs, failures, suspensions and late callbacks interleave, every
\* transport that runs is the one in use or the candidate.
THEOREM TransportsHeld == Spec => []NoForgottenTransport
<1>1. Inv => NoForgottenTransport
  BY DEF Inv, HandleInv, NoForgottenTransport, Running
<1>2. QED
  BY <1>1, Invariance, PTL

\* The connection never waits for nothing and never recovers twice at once.
THEOREM Recovering == Spec => []AlwaysRecovering
<1>1. Inv => AlwaysRecovering
  BY DEF Inv, HandleInv
<1>2. QED
  BY <1>1, Invariance, PTL

\* Input keeps its order over every hand-over and reconnect.
THEOREM InputKeepsOrder == Spec => []QueueIsYoungest
<1>1. Inv => QueueIsYoungest
  BY DEF Inv, InputInv, Younger, QueueIsYoungest
<1>2. QED
  BY <1>1, Invariance, PTL

\* Every step of the connection is a step of the abstract viewer, or none.
LEMMA StepRefines == Inv /\ [Next]_vars => [V!Next]_(V!vars)
<1> SUFFICES ASSUME Inv, [Next]_vars PROVE [V!Next]_(V!vars)
  OBVIOUS
<1>0. /\ lastSeq \in Nat /\ produced \in Nat /\ None \notin Slots
      /\ \A k \in Slots : /\ slots[k].pos \in Nat /\ slots[k].end \in Int
                          /\ slots[k].pos <= lastSeq
  BY PeerAssumption DEF Inv, TypeOK, Slot, CursorInv, None, Slots
<1>same. ASSUME UNCHANGED <<produced, shown, typed, got>> PROVE [V!Next]_(V!vars)
  BY <1>same DEF V!vars
<1>1. CASE SendInput
  BY <1>1 DEF SendInput, host, out, V!Next, V!Type
<1>2. ASSUME NEW i \in Slots, Authenticated(i) \/ HostJoins(i) \/ Fails(i) PROVE [V!Next]_(V!vars)
  BY <1>2, <1>same DEF Authenticated, HostJoins, Fails, host, out
<1>3. ASSUME NEW i \in Slots, Out(i) PROVE [V!Next]_(V!vars)
  <2>1. UNCHANGED <<produced, got, typed>>
    BY <1>3 DEF Out, host, out
  <2>2. PICK p \in 1..produced :
           \/ shown' = shown
           \/ /\ slots[i].pos + 1 \in 1..(lastSeq + 1) /\ slots[i].pos + 1 <= p /\ p > lastSeq
              /\ shown' = Append(shown, [from |-> slots[i].pos + 1, to |-> p])
    BY <1>3, OutGoesOn DEF Inv
  <2>3. ASSUME slots[i].pos + 1 \in 1..(lastSeq + 1), slots[i].pos + 1 <= p, p > lastSeq,
               shown' = Append(shown, [from |-> slots[i].pos + 1, to |-> p])
        PROVE  V!Show
    <3> DEFINE run == [from |-> slots[i].pos + 1, to |-> p]
    <3>1. slots[i].pos + 1 \in 1..produced
      BY <1>0, <2>3
    <3>2. run \in [from : 1..produced, to : 1..produced] /\ run.from = slots[i].pos + 1 /\ run.to = p
      BY <3>1
    <3>3. shown' = Append(shown, run)
      BY <2>3
    <3> HIDE DEF run
    <3>4. V!Continues(V!Newest(shown), run)
      BY <2>3, <3>2 DEF V!Continues, Inv, ShownInv
    <3>5. QED
      BY <2>1, <3>2, <3>3, <3>4 DEF V!Show
  <2>4. QED
    BY <1>same, <2>1, <2>2, <2>3 DEF V!Next
<1>4. ASSUME NEW i \in Slots, Ready(i) \/ Promote(i) PROVE [V!Next]_(V!vars)
  <2>1. UNCHANGED <<produced, got, typed>>
    BY <1>4 DEF Ready, Promote, host, out
  <2>2. shown' = shown
    BY <1>4 DEF Ready, Promote
  <2>3. QED
    BY <1>same, <2>1, <2>2
<1>5. CASE ReconnectTimer \/ FailbackTimer \/ Attach \/ Suspend \/ SetRoute \/ CancelHandover
  BY <1>5, <1>same DEF ReconnectTimer, FailbackTimer, Attach, Suspend, SetRoute, CancelHandover, host, out
<1>6. ASSUME NEW g \in asks, NEW a \in BOOLEAN, FallbackAnswers(g, a) PROVE [V!Next]_(V!vars)
  BY <1>6, <1>same DEF FallbackAnswers, host, out
<1>7. ASSUME NEW q \in probes, NEW a \in BOOLEAN, ProbeAnswers(q, a) PROVE [V!Next]_(V!vars)
  BY <1>7, <1>same DEF ProbeAnswers, host, out
<1>8. CASE Produce
  BY <1>8 DEF Produce, V!Next, V!Produce, out
<1>9. ASSUME NEW k \in Slots, HostTakes(k) PROVE [V!Next]_(V!vars)
  <2>1. /\ up[k] \in Seq(1..MaxInput) /\ up[k] # << >> /\ got' = Append(got, Head(up[k]))
        /\ UNCHANGED <<produced, shown, typed>>
    BY <1>9 DEF HostTakes, Inv, TypeOK, out
  <2>2. Head(up[k]) = up[k][1] /\ 1 \in DOMAIN up[k] /\ up[k][1] \in 1..MaxInput
    <3>1. Len(up[k]) \in Nat \ {0} /\ DOMAIN up[k] = 1..Len(up[k])
      BY <2>1
    <3>2. Head(up[k]) = up[k][1] /\ 1 \in 1..Len(up[k])
      BY <2>1, <3>1
    <3>3. QED
      BY <2>1, <3>1, <3>2, ElementOfSeq
  <2>3. typed \in Nat /\ up[k][1] <= typed /\ \A j \in DOMAIN got : up[k][1] # got[j]
    BY <2>2, PeerAssumption DEF Inv, InputInv, TypeOK
  <2>4. up[k][1] \in (1..typed) \ {got[j] : j \in DOMAIN got}
    BY <2>2, <2>3, PeerAssumption
  <2>5. V!Take
    BY <2>1, <2>2, <2>4 DEF V!Take
  <2>6. QED
    BY <2>5 DEF V!Next
<1>10. CASE UNCHANGED vars
  BY <1>10, <1>same DEF vars, host, out
<1>11. QED
  BY <1>1, <1>2, <1>3, <1>4, <1>5, <1>6, <1>7, <1>8, <1>9, <1>10 DEF Next

\* The accountless viewer implements what every terminal connection promises:
\* output is shown without a gap, though the replay of a new transport, which
\* begins at the start and merges chunks, may show some of it again; every input
\* is taken at most once.
THEOREM ViewerRefined == Spec => ImplementsViewer
<1>1. Init => V!Init
  BY DEF Init, V!Init
<1>2. QED
  BY <1>1, StepRefines, Invariance, PTL DEF Spec, ImplementsViewer, V!Spec
=============================================================================
