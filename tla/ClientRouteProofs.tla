------------------------- MODULE ClientRouteProofs -------------------------
(***************************************************************************)
(* Theorems about ClientRoute, for any number of sockets, faults, frames,   *)
(* inputs and driver changes: what is shown skips nothing, no socket is     *)
(* forgotten, input keeps its order, and the connection implements          *)
(* OrderedViewer.                                                           *)
(***************************************************************************)
EXTENDS ClientRoute, SequenceTheorems, TLAPS

-----------------------------------------------------------------------------
(* What the operators return *)

\* The tracker's operations keep its shape, and only acceptOutput moves its cursor.
LEMMA TrackTyped ==
  ASSUME NEW r \in Track, NEW seq \in 0..MaxSeq
  PROVE  /\ \A route : /\ AcceptOutput(r, route, seq) \in Track
                       /\ AcceptOutput(r, route, seq).com = IF seq > r.com THEN seq ELSE r.com
                       /\ AcceptOutput(r, route, seq).st = r.st
         /\ NoteDirectReady(r, seq) \in Track /\ NoteDirectReady(r, seq).com = r.com
         /\ NoteDirectReady(r, seq).st = r.st
         /\ Tracker(seq) \in Track /\ Tracker(seq).com = seq /\ Tracker(seq).st = "RelayAttached"
<1>0. 0 \in 0..MaxSeq /\ 1 \in Nat /\ {TRUE, FALSE} \subseteq BOOLEAN
  BY RouteAssumption
<1>1. ASSUME NEW route PROVE AcceptOutput(r, route, seq) \in Track
  BY <1>0, Zenon DEF AcceptOutput, Track
<1>2. ASSUME NEW route
      PROVE  /\ AcceptOutput(r, route, seq).com = IF seq > r.com THEN seq ELSE r.com
             /\ AcceptOutput(r, route, seq).st = r.st
  BY DEF AcceptOutput, Accepted, Track
<1>3. NoteDirectReady(r, seq) \in Track
  BY <1>0, Zenon DEF NoteDirectReady, Track
<1>4. NoteDirectReady(r, seq).com = r.com /\ NoteDirectReady(r, seq).st = r.st
  BY DEF NoteDirectReady, Track
<1>5. Tracker(seq) \in Track /\ Tracker(seq).com = seq /\ Tracker(seq).st = "RelayAttached"
  BY <1>0 DEF Tracker, Track
<1>6. QED
  BY <1>1, <1>2, <1>3, <1>4, <1>5

\* Where the route begins, is taken and is left, the cursor stays.
LEMMA RouteTyped ==
  ASSUME NEW r \in Track
  PROVE  /\ BeginDirect(r) \in Track /\ BeginDirect(r).com = r.com
         /\ BeginDirect(r).st = "DirectConnecting"
         /\ AbortDirect(r) \in Track /\ AbortDirect(r).com = r.com
         /\ AbortDirect(r).st = "RelayAttached"
         /\ DirectLost(r) \in Track /\ DirectLost(r).com = r.com
         /\ DirectLost(r).st = "RelayReattaching"
         /\ \A st \in {"RelayAttached", "DirectReplay", "DirectActive"} :
               /\ [r EXCEPT !.st = st] \in Track /\ [r EXCEPT !.st = st].com = r.com
               /\ [r EXCEPT !.st = st].st = st
               /\ [Left(r) EXCEPT !.st = st] \in Track /\ [Left(r) EXCEPT !.st = st].com = r.com
               /\ [Left(r) EXCEPT !.st = st].st = st
<1>0. 0 \in 0..MaxSeq /\ {TRUE, FALSE} \subseteq BOOLEAN /\ r.gen + 1 \in Nat
  BY RouteAssumption DEF Track
<1>1. BeginDirect(r) \in Track
  BY <1>0, Zenon DEF BeginDirect, Track
<1>2. BeginDirect(r).com = r.com /\ BeginDirect(r).st = "DirectConnecting"
  BY DEF BeginDirect, Track
<1>3. Left(r) \in Track /\ Left(r).gen + 1 \in Nat
  <2>1. Left(r) \in Track
    BY <1>0, Zenon DEF Left, Track
  <2>2. QED
    BY <2>1 DEF Track
<1>4. Left(r).com = r.com
  BY DEF Left, Track
<1>5. AbortDirect(r) \in Track /\ DirectLost(r) \in Track
  BY <1>3, Zenon DEF AbortDirect, DirectLost, Track
<1>6. /\ AbortDirect(r).com = r.com /\ AbortDirect(r).st = "RelayAttached"
      /\ DirectLost(r).com = r.com /\ DirectLost(r).st = "RelayReattaching"
  BY <1>3, <1>4 DEF AbortDirect, DirectLost, Track
<1>7. ASSUME NEW q \in Track, NEW st \in {"RelayAttached", "DirectReplay", "DirectActive"}
      PROVE  /\ [q EXCEPT !.st = st] \in Track /\ [q EXCEPT !.st = st].com = q.com
             /\ [q EXCEPT !.st = st].st = st
  BY DEF Track
<1>8. QED
  BY <1>1, <1>2, <1>3, <1>4, <1>5, <1>6, <1>7

\* Socket and channel records.
LEMMA RecordsTyped ==
  /\ NoSock \in Sock /\ NoSock.pos = 0 /\ NoSock.st = "none"
  /\ Closing \in Sock /\ Closing.pos = 0 /\ Closing.st = "closing"
  /\ NoDirect \in Direct /\ NoDirect.pos = 0 /\ NoDirect.st = "none"
  /\ \A g \in Nat : LET s == [NoSock EXCEPT !.gen = g, !.st = "connecting"]
                    IN s \in Sock /\ s.pos = 0 /\ s.st = "connecting"
BY DEF NoSock, Closing, NoDirect, Sock, Direct

\* Closing the socket in use disturbs no other and leaves it at the start.
LEMMA DroppedTyped ==
  ASSUME TypeOK
  PROVE  /\ Dropped \in [Socks -> Sock]
         /\ \A i \in Socks : Dropped[i] = IF i = cur THEN Closing ELSE socks[i]
<1>1. /\ socks \in [Socks -> Sock] /\ cur \in Socks \cup {0} /\ 0 \notin Socks
  BY RouteAssumption DEF TypeOK, Socks
<1>2. QED
  BY <1>1, RecordsTyped DEF Dropped

\* The numbers in the stream.
LEMMA SeqAtTyped ==
  ASSUME TypeOK
  PROVE  /\ \A p \in 0..Len(log) : SeqAt(p) \in 0..MaxSeq /\ SeqAt(p) \in Nat
         /\ Produced \in 0..MaxSeq /\ Produced \in Nat /\ Len(log) \in Nat
         /\ \A p \in 0..Len(log) : DriverAt(p) \in Drivers
<1>1. log \in Seq(Frames)
  BY DEF TypeOK
<1>2. Len(log) \in Nat
  BY <1>1, LenProperties
<1>3. \A p \in 1..Len(log) : log[p] \in Frames
  BY <1>1, ElementOfSeq
<1>4. 0 \in 0..MaxSeq /\ \A n \in 0..MaxSeq : n \in Nat
  BY RouteAssumption
<1>5. \A p \in 0..Len(log) : p # 0 => p \in 1..Len(log)
  BY <1>2
<1>6. \A p \in 0..Len(log) : SeqAt(p) \in 0..MaxSeq
  BY <1>3, <1>4, <1>5, Zenon DEF SeqAt, Frames
<1>7. \A p \in 0..Len(log) : DriverAt(p) \in Drivers
  BY <1>3, <1>5, Zenon DEF DriverAt, Frames, Drivers
<1>8. Len(log) \in 0..Len(log)
  BY <1>2
<1>9. QED
  BY <1>2, <1>4, <1>6, <1>7, <1>8, Zenon DEF Produced

\* Opening a socket: nothing for a route or an application that forbids it, a
\* free record that connects, or a reconnect later.
LEMMA OpenFacts ==
  ASSUME TypeOK, NEW r \in Track, NEW on \in BOOLEAN, NEW spent \in 0..1,
         faults + spent <= MaxFaults, OpenWS(r, on, spent)
  PROVE  /\ cur' \in Socks \cup {0} /\ timer' \in BOOLEAN /\ socks' \in [Socks -> Sock]
         /\ faults' \in 0..MaxFaults
         /\ \A i \in Socks : socks'[i].pos \in {0, socks[i].pos}
         /\ \/ (~on \/ r.st = "DirectActive") /\ timer' = FALSE /\ UNCHANGED <<cur, socks>>
            \/ /\ on /\ r.st # "DirectActive" /\ timer' = FALSE
               /\ cur' \in Socks /\ socks'[cur'].st = "connecting"
               /\ \A i \in Socks : i # cur' => socks'[i] = socks[i]
            \/ /\ on /\ r.st # "DirectActive" /\ timer' = TRUE /\ cur' = 0 /\ socks' = socks
<1>0. /\ socks \in [Socks -> Sock] /\ cur \in Socks \cup {0} /\ faults \in 0..MaxFaults
      /\ r.gen \in Nat /\ 0 \notin Socks
  BY RouteAssumption DEF TypeOK, Track, Socks
<1>1. CASE ~on \/ r.st = "DirectActive"
  <2>1. timer' = FALSE /\ faults' = faults + spent /\ UNCHANGED <<cur, socks>>
    BY <1>1 DEF OpenWS, AcceptsRoute
  <2>2. faults' \in 0..MaxFaults
    BY <1>0, <2>1, RouteAssumption
  <2>3. QED
    BY <1>0, <1>1, <2>1, <2>2
<1>2. CASE on /\ r.st # "DirectActive"
  <2>1. \/ /\ \E i \in Socks :
                /\ cur' = i
                /\ socks' = [socks EXCEPT ![i] = [NoSock EXCEPT !.gen = r.gen, !.st = "connecting"]]
           /\ timer' = FALSE /\ faults' = faults + spent
        \/ HandleOpenFailure(spent)
    BY <1>2 DEF OpenWS, AcceptsRoute
  <2>2. CASE HandleOpenFailure(spent)
    BY <1>0, <1>2, <2>2, RouteAssumption DEF HandleOpenFailure
  <2>3. ASSUME NEW i \in Socks, cur' = i, timer' = FALSE, faults' = faults + spent,
               socks' = [socks EXCEPT ![i] = [NoSock EXCEPT !.gen = r.gen, !.st = "connecting"]]
        PROVE  /\ cur' \in Socks \cup {0} /\ timer' \in BOOLEAN /\ socks' \in [Socks -> Sock]
               /\ faults' \in 0..MaxFaults
               /\ \A j \in Socks : socks'[j].pos \in {0, socks[j].pos}
               /\ cur' \in Socks /\ socks'[cur'].st = "connecting"
               /\ \A j \in Socks : j # cur' => socks'[j] = socks[j]
    <3> DEFINE N == [NoSock EXCEPT !.gen = r.gen, !.st = "connecting"]
    <3>1. N \in Sock /\ N.pos = 0 /\ N.st = "connecting"
      BY <1>0, RecordsTyped
    <3>2. socks' = [socks EXCEPT ![i] = N]
      BY <2>3
    <3> HIDE DEF N
    <3>3. socks' \in [Socks -> Sock] /\ socks'[i] = N /\ \A j \in Socks : j # i => socks'[j] = socks[j]
      BY <1>0, <3>1, <3>2
    <3>4. faults' \in 0..MaxFaults
      BY <1>0, <2>3, RouteAssumption
    <3>5. QED
      BY <2>3, <3>1, <3>3, <3>4
  <2>4. QED
    BY <1>2, <2>1, <2>2, <2>3
<1>3. QED
  BY <1>1, <1>2

\* A flush: claims, then the queue, behind what the channel carries.
LEMMA FlushFacts ==
  ASSUME TypeOK, NEW ch \in Chans, NEW before \in Seq({0}), Flush(ch, before)
  PROVE  /\ up' \in [Chans -> Seq(0..MaxInput)] /\ claim' = FALSE /\ pend' = << >>
         /\ \E z \in Seq({0}) : up' = [up EXCEPT ![ch] = (@ \o z) \o pend]
<1>0. /\ up \in [Chans -> Seq(0..MaxInput)] /\ up[ch] \in Seq(0..MaxInput)
      /\ pend \in Seq(1..MaxInput)
  BY DEF TypeOK
<1>1. Claims(before) \in Seq({0})
  <2>1. <<0>> \in Seq({0}) /\ << >> \in Seq({0})
    OBVIOUS
  <2>2. before \o <<0>> \in Seq({0}) /\ before \o << >> \in Seq({0})
    BY <2>1, ConcatProperties
  <2>3. QED
    BY <2>2 DEF Claims
<1>2. Claims(before) \in Seq(0..MaxInput) /\ pend \in Seq(0..MaxInput)
  <2>1. {0} \subseteq 0..MaxInput /\ 1..MaxInput \subseteq 0..MaxInput
    BY RouteAssumption
  <2>2. QED
    BY <1>0, <1>1, <2>1, SeqMonotonic
<1>3. (up[ch] \o Claims(before)) \o pend \in Seq(0..MaxInput)
  BY <1>0, <1>2
<1>4. /\ up' = [up EXCEPT ![ch] = (@ \o Claims(before)) \o pend]
      /\ claim' = FALSE /\ pend' = << >>
  BY DEF Flush
<1>5. QED
  BY <1>0, <1>1, <1>3, <1>4

-----------------------------------------------------------------------------
(* What is shown *)

\* The stream's numbers run from 0 without a gap, the cursor is within it, no
\* channel stands past the cursor, and the runs shown reach it without a hole.
StreamInv ==
  /\ \A p \in 0..Len(log) : SeqAt(p) <= Produced
  /\ \A s \in 0..Produced : \E p \in 0..Len(log) : StandsAt(p, s)
  /\ rt.com <= Produced
  /\ \A i \in Socks : SeqAt(socks[i].pos) <= rt.com
  /\ SeqAt(dt.pos) <= rt.com
  /\ NothingSkipped

\* since_seq names a place of the stream.
LEMMA PosOfFacts ==
  ASSUME TypeOK, StreamInv
  PROVE  PosOf(rt.com) \in 0..Len(log) /\ SeqAt(PosOf(rt.com)) = rt.com
<1>1. rt.com \in 0..Produced
  BY SeqAtTyped DEF TypeOK, Track, StreamInv
<1>2. \E p \in 0..Len(log) : StandsAt(p, rt.com)
  BY <1>1 DEF StreamInv
<1>3. PosOf(rt.com) \in 0..Len(log) /\ StandsAt(PosOf(rt.com), rt.com)
  BY <1>2, Zenon DEF PosOf
<1>4. QED
  BY <1>3 DEF StandsAt

\* maybeStartDirect: nothing, or a transport that signals from the cursor.
LEMMA StartDirectFacts ==
  ASSUME TypeOK, StreamInv, NEW pref \in BOOLEAN, NEW tried \in BOOLEAN,
         MaybeStartDirect(rt, pref, tried)
  PROVE  /\ attempted' \in BOOLEAN /\ rt' \in Track /\ rt'.com = rt.com
         /\ dt' \in Direct /\ dt'.pos <= Len(log) /\ SeqAt(dt'.pos) <= rt.com
         /\ \/ rt' = rt /\ dt' = dt
            \/ /\ rt.st = "RelayAttached" /\ app = "on"
               /\ rt'.st = "DirectConnecting" /\ dt'.st = "signal"
<1>0. /\ rt \in Track /\ dt \in Direct /\ dt.pos <= Len(log) /\ SeqAt(dt.pos) <= rt.com
      /\ rt.gen \in Nat /\ rt.com \in Nat
  BY RouteAssumption DEF TypeOK, StreamInv, Track
<1>1. /\ Signalling(rt) \in Direct /\ Signalling(rt).pos = PosOf(rt.com)
      /\ Signalling(rt).st = "signal" /\ PosOf(rt.com) <= Len(log)
      /\ SeqAt(PosOf(rt.com)) <= rt.com
  <2>1. PosOf(rt.com) \in Nat /\ PosOf(rt.com) <= Len(log) /\ SeqAt(PosOf(rt.com)) = rt.com
    BY PosOfFacts, SeqAtTyped
  <2>2. Signalling(rt) \in Direct /\ Signalling(rt).pos = PosOf(rt.com) /\ Signalling(rt).st = "signal"
    BY <1>0, <2>1 DEF Signalling, NoDirect, Direct
  <2>3. QED
    BY <1>0, <2>1, <2>2
<1>2. /\ attempted' \in BOOLEAN
      /\ \/ rt' = rt /\ dt' = dt
         \/ rt' = BeginDirect(rt) /\ dt' = Signalling(rt) /\ rt.st = "RelayAttached" /\ app = "on"
  BY DEF MaybeStartDirect
<1>3. CASE rt' = rt /\ dt' = dt
  BY <1>0, <1>2, <1>3
<1>4. CASE rt' = BeginDirect(rt) /\ dt' = Signalling(rt) /\ rt.st = "RelayAttached" /\ app = "on"
  <2>1. rt' \in Track /\ rt'.com = rt.com /\ rt'.st = "DirectConnecting"
    BY <1>0, <1>4, RouteTyped
  <2>2. QED
    BY <1>1, <1>2, <1>4, <2>1
<1>5. QED
  BY <1>2, <1>3, <1>4

\* What a flush that is refused part way leaves: on the channel the claims and the
\* first n of the queue, in the queue the rest; or one claim and all the queue.
Refused(ch) ==
  \/ pend' = pend /\ \E z \in Seq({0}) : up' = [up EXCEPT ![ch] = @ \o z]
  \/ \E n \in 0..(Len(pend) - 1), z \in Seq({0}) :
        /\ up' = [up EXCEPT ![ch] = (@ \o z) \o SubSeq(pend, 1, n)]
        /\ pend' = SubSeq(pend, n + 1, Len(pend))

\* The direct channel refuses: its failure is to come, and what was typed is on it
\* or queued.
LEMMA RefusedFacts ==
  ASSUME TypeOK, NEW d \in Direct, FlushRefused(d)
  PROVE  /\ dt' \in Direct /\ dt'.pos = d.pos /\ dt'.st = "closing" /\ faults' \in 0..MaxFaults
         /\ up' \in [Chans -> Seq(0..MaxInput)] /\ claim' \in BOOLEAN /\ pend' \in Seq(1..MaxInput)
         /\ Refused(DirectChan)
<1>0. /\ up \in [Chans -> Seq(0..MaxInput)] /\ up[DirectChan] \in Seq(0..MaxInput)
      /\ pend \in Seq(1..MaxInput) /\ claim \in BOOLEAN /\ Len(pend) \in Nat /\ DirectChan \in Chans
  <2>1. up \in [Chans -> Seq(0..MaxInput)] /\ pend \in Seq(1..MaxInput) /\ claim \in BOOLEAN
    BY DEF TypeOK
  <2>2. DirectChan \in Chans /\ Len(pend) \in Nat
    BY <2>1, LenProperties DEF Chans
  <2>3. QED
    BY <2>1, <2>2
<1>1. Reclaim \in Seq({0}) /\ Claims(Reclaim) \in Seq({0})
  <2>1. <<0>> \in Seq({0}) /\ << >> \in Seq({0})
    OBVIOUS
  <2>2. Reclaim \in Seq({0})
    BY <2>1 DEF Reclaim
  <2>3. Reclaim \o <<0>> \in Seq({0}) /\ Reclaim \o << >> \in Seq({0})
    BY <2>1, <2>2, ConcatProperties
  <2>4. QED
    BY <2>2, <2>3 DEF Claims
<1>2. Reclaim \in Seq(0..MaxInput) /\ Claims(Reclaim) \in Seq(0..MaxInput)
  <2>1. {0} \subseteq 0..MaxInput
    BY RouteAssumption
  <2>2. QED
    BY <1>1, <2>1, SeqMonotonic
<1>3. dt' \in Direct /\ dt'.pos = d.pos /\ dt'.st = "closing" /\ faults' \in 0..MaxFaults
  <2>1. dt' = [d EXCEPT !.st = "closing"] /\ faults < MaxFaults /\ faults' = faults + 1
    BY DEF FlushRefused
  <2>2. faults' \in 0..MaxFaults
    BY <2>1, RouteAssumption DEF TypeOK
  <2>3. dt' \in Direct /\ dt'.pos = d.pos /\ dt'.st = "closing"
    BY <2>1 DEF Direct
  <2>4. QED
    BY <2>2, <2>3
<1>4. CASE claim /\ UNCHANGED <<claim, pend>> /\ up' = [up EXCEPT ![DirectChan] = @ \o Reclaim]
  <2>1. up[DirectChan] \o Reclaim \in Seq(0..MaxInput)
    BY <1>0, <1>2, ConcatProperties
  <2>2. up' \in [Chans -> Seq(0..MaxInput)]
    BY <1>0, <1>4, <2>1
  <2>3. Refused(DirectChan)
    BY <1>1, <1>4, Zenon DEF Refused
  <2>4. QED
    BY <1>0, <1>3, <1>4, <2>2, <2>3
<1>5. ASSUME NEW n \in 0..(Len(pend) - 1), claim' = FALSE,
             up' = [up EXCEPT ![DirectChan] = @ \o Claims(Reclaim) \o SubSeq(pend, 1, n)],
             pend' = SubSeq(pend, n + 1, Len(pend))
      PROVE  /\ up' \in [Chans -> Seq(0..MaxInput)] /\ claim' \in BOOLEAN /\ pend' \in Seq(1..MaxInput)
             /\ Refused(DirectChan)
  <2>1. SubSeq(pend, 1, n) \in Seq(1..MaxInput) /\ SubSeq(pend, n + 1, Len(pend)) \in Seq(1..MaxInput)
    <3>1. \A x \in 1..n : x \in 1..Len(pend)
      BY <1>0
    <3>2. \A x \in (n + 1)..Len(pend) : x \in 1..Len(pend)
      BY <1>0
    <3>3. \A x \in 1..Len(pend) : pend[x] \in 1..MaxInput
      BY <1>0, ElementOfSeq
    <3>4. n \in Int /\ n + 1 \in Int /\ 1 \in Int /\ Len(pend) \in Int
      BY <1>0
    <3>5. \A x \in 1..n : pend[x] \in 1..MaxInput
      BY <3>1, <3>3
    <3>6. \A x \in (n + 1)..Len(pend) : pend[x] \in 1..MaxInput
      BY <3>2, <3>3
    <3>7. QED
      BY <3>4, <3>5, <3>6, SubSeqProperties
  <2>2. SubSeq(pend, 1, n) \in Seq(0..MaxInput)
    <3>1. 1..MaxInput \subseteq 0..MaxInput
      BY RouteAssumption
    <3>2. QED
      BY <2>1, <3>1, SeqMonotonic
  <2>3. (up[DirectChan] \o Claims(Reclaim)) \o SubSeq(pend, 1, n) \in Seq(0..MaxInput)
    <3>1. up[DirectChan] \o Claims(Reclaim) \in Seq(0..MaxInput)
      BY <1>0, <1>2, ConcatProperties
    <3>2. QED
      BY <2>2, <3>1, ConcatProperties
  <2>4. up' = [up EXCEPT ![DirectChan] = (@ \o Claims(Reclaim)) \o SubSeq(pend, 1, n)]
    BY <1>5
  <2>5. up' \in [Chans -> Seq(0..MaxInput)]
    BY <1>0, <2>3, <2>4
  <2>6. Refused(DirectChan)
    BY <1>1, <1>5, <2>4, Zenon DEF Refused
  <2>7. QED
    BY <1>5, <2>1, <2>5, <2>6
<1>6. QED
  BY <1>3, <1>4, <1>5 DEF FlushRefused

\* maybeActivateDirect: nothing but the tracker, or the relay socket is dropped and
\* the queue flushed to the direct channel, as far as it takes it.
LEMMA ActivateFacts ==
  ASSUME TypeOK, NEW r \in Track, NEW d \in Direct, MaybeActivateDirect(r, d)
  PROVE  /\ rt' \in Track /\ rt'.com = r.com
         /\ dt' \in Direct /\ dt'.pos = d.pos /\ faults' \in 0..MaxFaults
         /\ cur' \in Socks \cup {0} /\ timer' \in BOOLEAN /\ socks' \in [Socks -> Sock]
         /\ \A i \in Socks : socks'[i].pos \in {0, socks[i].pos}
         /\ up' \in [Chans -> Seq(0..MaxInput)] /\ claim' \in BOOLEAN /\ pend' \in Seq(1..MaxInput)
         /\ \/ rt' = r /\ dt' = d /\ UNCHANGED <<cur, socks, timer, up, claim, pend>>
            \/ /\ r.st = "DirectReplay" /\ rt'.st = "DirectActive"
               /\ cur' = 0 /\ timer' = FALSE /\ socks' = Dropped /\ dt' = d /\ pend' = << >>
               /\ \E z \in Seq({0}) : up' = [up EXCEPT ![DirectChan] = (@ \o z) \o pend]
            \/ /\ r.st = "DirectReplay" /\ rt'.st = "DirectActive"
               /\ cur' = 0 /\ timer' = FALSE /\ socks' = Dropped /\ dt'.st = "closing"
               /\ Refused(DirectChan)
<1>1. CASE ~CanActivateDirect(r)
  BY <1>1 DEF MaybeActivateDirect, TypeOK, link
<1>2. CASE CanActivateDirect(r)
  <2>1. /\ rt' = [Left(r) EXCEPT !.st = "DirectActive"] /\ r.st = "DirectReplay"
        /\ socks' = Dropped /\ cur' = 0 /\ timer' = FALSE
        /\ \/ Flush(DirectChan, Reclaim) /\ dt' = d /\ faults' = faults
           \/ FlushRefused(d)
    BY <1>2 DEF MaybeActivateDirect, CanActivateDirect
  <2>2. Reclaim \in Seq({0})
    <3>1. <<0>> \in Seq({0}) /\ << >> \in Seq({0})
      OBVIOUS
    <3>2. QED
      BY <3>1 DEF Reclaim
  <2>0. DirectChan \in Chans
    BY DEF Chans
  <2>4. socks' \in [Socks -> Sock] /\ \A i \in Socks : socks'[i].pos \in {0, socks[i].pos}
    BY <2>1, DroppedTyped, RecordsTyped
  <2>5. rt' \in Track /\ rt'.com = r.com /\ rt'.st = "DirectActive"
    BY <2>1, RouteTyped
  <2>6. cur' \in Socks \cup {0} /\ timer' \in BOOLEAN
    BY <2>1, Zenon
  <2>7. CASE Flush(DirectChan, Reclaim) /\ dt' = d /\ faults' = faults
    <3>1. /\ up' \in [Chans -> Seq(0..MaxInput)] /\ claim' = FALSE /\ pend' = << >>
          /\ \E z \in Seq({0}) : up' = [up EXCEPT ![DirectChan] = (@ \o z) \o pend]
      BY <2>0, <2>2, <2>7, FlushFacts
    <3>2. claim' \in BOOLEAN /\ pend' \in Seq(1..MaxInput) /\ faults' \in 0..MaxFaults
      <4>1. << >> \in Seq(1..MaxInput)
        OBVIOUS
      <4>2. QED
        BY <2>7, <3>1, <4>1, Zenon DEF TypeOK
    <3>3. QED
      BY <2>1, <2>4, <2>5, <2>6, <2>7, <3>1, <3>2, Zenon
  <2>8. CASE FlushRefused(d)
    <3>1. /\ dt' \in Direct /\ dt'.pos = d.pos /\ dt'.st = "closing" /\ faults' \in 0..MaxFaults
          /\ up' \in [Chans -> Seq(0..MaxInput)] /\ claim' \in BOOLEAN /\ pend' \in Seq(1..MaxInput)
          /\ Refused(DirectChan)
      BY <2>8, RefusedFacts
    <3>2. QED
      BY <2>1, <2>4, <2>5, <2>6, <3>1, Zenon
  <2>9. QED
    BY <2>1, <2>7, <2>8
<1>3. QED
  BY <1>1, <1>2

\* A frame sent on a channel.
LEMMA SendTyped ==
  ASSUME TypeOK, NEW ch \in Chans, NEW n \in 0..MaxInput, Send(ch, n)
  PROVE  up' \in [Chans -> Seq(0..MaxInput)]
<1>1. up \in [Chans -> Seq(0..MaxInput)] /\ Append(up[ch], n) \in Seq(0..MaxInput)
  BY DEF TypeOK
<1>2. QED
  BY <1>1 DEF Send

\* A step that moves no cursor and takes no channel past it.
LEMMA StreamKept ==
  ASSUME TypeOK, StreamInv, UNCHANGED <<log, shown>>, rt'.com = rt.com,
         \A i \in Socks : SeqAt(socks'[i].pos) <= rt.com, SeqAt(dt'.pos) <= rt.com
  PROVE  StreamInv'
<1>1. \A p : SeqAt(p)' = SeqAt(p)
  BY DEF SeqAt
<1>2. SeqAt(dt.pos)' = SeqAt(dt'.pos) /\ \A i \in Socks : SeqAt(socks[i].pos)' = SeqAt(socks'[i].pos)
  BY DEF SeqAt
<1>3. Produced' = Produced
  BY DEF Produced, SeqAt
<1>4. \A p, s : StandsAt(p, s)' = StandsAt(p, s)
  BY DEF StandsAt, IsOut, SeqAt
<1>5. NothingSkipped'
  BY Zenon DEF NothingSkipped, StreamInv, V!Newest
<1>6. QED
  BY <1>1, <1>2, <1>3, <1>4, <1>5 DEF StreamInv

\* A run that goes on from the cursor, put behind the others.
LEMMA RunAppended ==
  ASSUME TypeOK, NothingSkipped, NEW run \in Runs, V!Continues(rt.com, run)
  PROVE  /\ Append(shown, run) \in Seq(Runs)
         /\ V!Newest(Append(shown, run)) = run.to
         /\ \A k \in DOMAIN Append(shown, run) :
              V!Continues(IF k = 1 THEN 0 ELSE Append(shown, run)[k - 1].to, Append(shown, run)[k])
<1> DEFINE t == Append(shown, run)
<1>0. shown \in Seq(Runs) /\ Len(shown) \in Nat
  BY LenProperties DEF TypeOK
<1>L. PICK L \in Nat : L = Len(shown)
  BY <1>0
<1>1. /\ t \in Seq(Runs) /\ Len(t) = L + 1 /\ t[L + 1] = run /\ \A k \in 1..L : t[k] = shown[k]
      /\ DOMAIN t = 1..(L + 1) /\ DOMAIN shown = 1..L
  BY <1>0, <1>L, AppendProperties, LenProperties
<1> HIDE DEF t
<1>2. rt.com = IF L = 0 THEN 0 ELSE shown[L].to
  BY <1>0, <1>L, EmptySeq DEF NothingSkipped, V!Newest
<1>3. V!Newest(t) = run.to
  <2>1. t # << >>
    BY <1>1, EmptySeq
  <2>2. QED
    BY <1>1, <2>1 DEF V!Newest
<1>4. ASSUME NEW k \in 1..(L + 1) PROVE V!Continues(IF k = 1 THEN 0 ELSE t[k - 1].to, t[k])
  <2>1. CASE k \in 1..L
    <3>1. V!Continues(IF k = 1 THEN 0 ELSE shown[k - 1].to, shown[k])
      BY <1>1, <2>1 DEF NothingSkipped
    <3>2. t[k] = shown[k] /\ (k # 1 => t[k - 1] = shown[k - 1])
      BY <1>1, <2>1
    <3>3. QED
      BY <3>1, <3>2
  <2>2. CASE k = L + 1
    <3>1. (IF k = 1 THEN 0 ELSE t[k - 1].to) = rt.com
      BY <1>1, <1>2, <2>2
    <3>2. t[k] = run
      BY <1>1, <2>2
    <3>3. QED
      BY <3>1, <3>2
  <2>3. QED
    BY <2>1, <2>2
<1>5. QED
  BY <1>1, <1>3, <1>4 DEF t

\* An OUT that begins no later than right after what its channel had brought goes
\* on from the cursor, or ends within what was shown before.
LEMMA StreamShows ==
  ASSUME TypeOK, StreamInv, log' = log, NEW p \in 0..Len(log), NEW q \in 0..Len(log),
         NEW from \in 1..(SeqAt(q) + 1), SeqAt(q) <= rt.com,
         rt'.com = IF SeqAt(p) > rt.com THEN SeqAt(p) ELSE rt.com,
         shown' = Given(from, SeqAt(p)),
         \A i \in Socks : socks'[i].pos \in {0, p, socks[i].pos},
         dt'.pos \in {p, dt.pos}
  PROVE  /\ StreamInv' /\ shown' \in Seq(Runs)
         /\ \/ shown' = shown
            \/ \E run \in [from : 1..Produced, to : 1..Produced] :
                  V!Continues(V!Newest(shown), run) /\ shown' = Append(shown, run)
<1>0. /\ rt.com \in Nat /\ SeqAt(p) \in 0..MaxSeq /\ SeqAt(p) \in Nat /\ SeqAt(q) \in Nat
      /\ SeqAt(p) <= Produced /\ Produced \in Nat /\ SeqAt(p) <= MaxSeq
      /\ rt.com <= Produced /\ shown \in Seq(Runs) /\ SeqAt(0) = 0
  <2>1. rt.com \in Nat /\ shown \in Seq(Runs)
    BY RouteAssumption DEF TypeOK, Track
  <2>2. /\ SeqAt(p) \in 0..MaxSeq /\ SeqAt(p) \in Nat /\ SeqAt(q) \in Nat /\ Produced \in Nat
    BY SeqAtTyped
  <2>3. SeqAt(p) <= MaxSeq
    BY <2>2, RouteAssumption
  <2>4. SeqAt(p) <= Produced /\ rt.com <= Produced
    BY DEF StreamInv
  <2>5. SeqAt(0) = 0
    BY DEF SeqAt
  <2>6. QED
    BY <2>1, <2>2, <2>3, <2>4, <2>5
<1>2. rt'.com \in Nat /\ rt'.com >= rt.com /\ rt'.com <= Produced /\ SeqAt(p) <= rt'.com
  BY <1>0
<1>3. \A x : SeqAt(x)' = SeqAt(x)
  BY DEF SeqAt
<1>4. SeqAt(dt.pos)' = SeqAt(dt'.pos) /\ \A i \in Socks : SeqAt(socks[i].pos)' = SeqAt(socks'[i].pos)
  BY DEF SeqAt
<1>5. Produced' = Produced
  BY DEF Produced, SeqAt
<1>6. \A x, s : StandsAt(x, s)' = StandsAt(x, s)
  BY DEF StandsAt, IsOut, SeqAt
<1>7. SeqAt(dt'.pos) <= rt'.com
  <2>1. SeqAt(dt.pos) <= rt.com /\ SeqAt(dt.pos) \in Nat
    BY SeqAtTyped DEF StreamInv, TypeOK, Direct
  <2>2. QED
    BY <1>0, <1>2, <2>1
<1>8. ASSUME NEW i \in Socks PROVE SeqAt(socks'[i].pos) <= rt'.com
  <2>1. SeqAt(socks[i].pos) <= rt.com /\ SeqAt(socks[i].pos) \in Nat
    <3>1. socks[i].pos \in Nat /\ socks[i].pos <= Len(log)
      BY DEF TypeOK, Sock
    <3>2. socks[i].pos \in 0..Len(log)
      BY <3>1, SeqAtTyped
    <3>3. QED
      BY <3>2, SeqAtTyped DEF StreamInv
  <2>2. QED
    BY <1>0, <1>2, <2>1
<1> DEFINE run == [from |-> from, to |-> SeqAt(p)]
<1>9. /\ NothingSkipped' /\ shown' \in Seq(Runs)
      /\ \/ shown' = shown
         \/ \E x \in [from : 1..Produced, to : 1..Produced] :
               V!Continues(V!Newest(shown), x) /\ shown' = Append(shown, x)
  <2>0. NothingSkipped /\ rt.com = V!Newest(shown)
    BY DEF StreamInv, NothingSkipped
  <2>1. CASE ~(SeqAt(p) > rt.com)
    <3>1. rt'.com = rt.com /\ shown' = shown
      BY <1>0, <2>1 DEF Given, Accepted
    <3>2. NothingSkipped'
      BY <2>0, <3>1, Zenon DEF NothingSkipped, V!Newest
    <3>3. QED
      BY <1>0, <3>1, <3>2
  <2>2. CASE SeqAt(p) > rt.com
    <3>1. rt'.com = SeqAt(p) /\ shown' = Append(shown, run)
      BY <1>0, <2>2 DEF Given, Accepted
    <3>2. from \in 1..(rt.com + 1) /\ from \in 1..Produced /\ SeqAt(p) \in 1..Produced
          /\ from \in 1..MaxSeq /\ SeqAt(p) \in 1..MaxSeq
      BY <1>0, <2>2, RouteAssumption
    <3>3. run \in Runs /\ run \in [from : 1..Produced, to : 1..Produced] /\ run.to = SeqAt(p)
      BY <3>2 DEF Runs
    <3>4. V!Continues(rt.com, run)
      BY <2>2, <3>2 DEF V!Continues
    <3> HIDE DEF run
    <3>5. /\ Append(shown, run) \in Seq(Runs) /\ V!Newest(Append(shown, run)) = SeqAt(p)
          /\ \A k \in DOMAIN Append(shown, run) :
               V!Continues(IF k = 1 THEN 0 ELSE Append(shown, run)[k - 1].to, Append(shown, run)[k])
      BY <2>0, <3>3, <3>4, RunAppended
    <3>6. V!Newest(shown') = SeqAt(p) /\ \A k \in DOMAIN shown' :
               V!Continues(IF k = 1 THEN 0 ELSE shown'[k - 1].to, shown'[k])
      BY <3>1, <3>5, Zenon
    <3>7. NothingSkipped'
      BY <3>1, <3>6, Zenon DEF NothingSkipped, V!Newest
    <3>8. QED
      BY <2>0, <3>1, <3>3, <3>4, <3>5, <3>7
  <2>3. QED
    BY <2>1, <2>2
<1>10. StreamInv'
  BY <1>2, <1>3, <1>4, <1>5, <1>6, <1>7, <1>8, <1>9 DEF StreamInv
<1>11. QED
  BY <1>9, <1>10

\* The session broadcasts an OUT or a META.
LEMMA StreamGrows ==
  ASSUME TypeOK, StreamInv, NEW e \in Frames, log' = Append(log, e),
         e.seq \in {Produced, Produced + 1}, UNCHANGED <<rt, socks, dt, shown>>
  PROVE  /\ StreamInv' /\ log' \in Seq(Frames) /\ Produced' = e.seq
         /\ dt.pos <= Len(log') /\ \A i \in Socks : socks[i].pos <= Len(log')
<1>0. /\ log \in Seq(Frames) /\ Len(log) \in Nat /\ Produced \in Nat /\ rt.com \in Nat
      /\ dt.pos \in 0..Len(log)
      /\ \A i \in Socks : socks[i].pos \in 0..Len(log)
      /\ \A p \in 0..Len(log) : SeqAt(p) \in Nat
  BY SeqAtTyped, RouteAssumption DEF TypeOK, Track, Direct, Sock
<1>L. PICK L \in Nat : L = Len(log)
  BY <1>0
<1>1. /\ log' \in Seq(Frames) /\ Len(log') = L + 1 /\ log'[L + 1] = e
      /\ \A p \in 1..L : log'[p] = log[p]
  BY <1>0, <1>L, AppendProperties
<1>2. \A p \in 0..L : SeqAt(p)' = SeqAt(p) /\ SeqAt(p) \in Nat /\ SeqAt(p) <= Produced
  <2>1. ASSUME NEW p \in 0..L PROVE SeqAt(p)' = SeqAt(p)
    BY <1>1 DEF SeqAt
  <2>2. QED
    BY <1>0, <1>L, <2>1 DEF StreamInv
<1>3. SeqAt(L + 1)' = e.seq /\ Produced' = e.seq
  <2>1. L + 1 # 0
    OBVIOUS
  <2>2. SeqAt(L + 1)' = log'[L + 1].seq
    BY <2>1 DEF SeqAt
  <2>3. Produced' = log'[Len(log')].seq
    BY <1>1, <2>1 DEF Produced, SeqAt
  <2>4. QED
    BY <1>1, <2>2, <2>3
<1>4. e.seq \in Nat /\ e.seq >= Produced
  BY <1>0
<1>5. ASSUME NEW p \in 0..(L + 1) PROVE SeqAt(p)' <= Produced'
  <2>1. CASE p \in 0..L
    BY <1>0, <1>2, <1>3, <1>4, <2>1
  <2>2. CASE p = L + 1
    BY <1>3, <1>4, <2>2
  <2>3. QED
    BY <2>1, <2>2
<1>6. ASSUME NEW s \in 0..e.seq PROVE \E p \in 0..(L + 1) : StandsAt(p, s)'
  <2>1. CASE s \in 0..Produced
    <3>1. PICK p \in 0..L : StandsAt(p, s)
      BY <1>L, <2>1 DEF StreamInv
    <3>2. p # 0 => p - 1 \in 0..L
      OBVIOUS
    <3>3. StandsAt(p, s)'
      BY <1>2, <3>1, <3>2 DEF StandsAt, IsOut
    <3>4. QED
      BY <3>3
  <2>2. CASE s = e.seq /\ e.seq = Produced + 1
    <3>1. SeqAt(L)' = Produced
      BY <1>2, <1>L DEF Produced
    <3>2. (L + 1) - 1 = L /\ L + 1 \in 0..(L + 1)
      OBVIOUS
    <3>3. StandsAt(L + 1, s)'
      BY <1>0, <1>3, <2>2, <3>1, <3>2 DEF StandsAt, IsOut
    <3>4. QED
      BY <3>2, <3>3
  <2>3. QED
    BY <1>0, <1>4, <2>1, <2>2
<1>7. SeqAt(dt.pos)' <= rt'.com /\ \A i \in Socks : SeqAt(socks[i].pos)' <= rt'.com
  <2>1. ASSUME NEW p \in 0..L, SeqAt(p) <= rt.com PROVE SeqAt(p)' <= rt'.com
    BY <1>2, <2>1
  <2>2. \A x \in 0..L : SeqAt(x)' = IF x = 0 THEN 0 ELSE log'[x].seq
    BY DEF SeqAt
  <2>3. SeqAt(dt.pos)' = IF dt.pos = 0 THEN 0 ELSE log'[dt.pos].seq
    BY DEF SeqAt
  <2>4. \A i \in Socks : SeqAt(socks[i].pos)' = IF socks[i].pos = 0 THEN 0 ELSE log'[socks[i].pos].seq
    BY DEF SeqAt
  <2>5. SeqAt(dt.pos) <= rt.com /\ \A i \in Socks : SeqAt(socks[i].pos) <= rt.com
    BY DEF StreamInv
  <2>6. QED
    BY <1>0, <1>L, <2>1, <2>2, <2>3, <2>4, <2>5
<1>8. rt'.com <= Produced'
  <2>1. rt.com <= Produced /\ rt'.com = rt.com
    BY DEF StreamInv
  <2>2. QED
    BY <1>0, <1>3, <1>4, <2>1
<1>9. NothingSkipped'
  BY Zenon DEF StreamInv, NothingSkipped, V!Newest
<1>10. StreamInv'
  BY <1>1, <1>3, <1>5, <1>6, <1>7, <1>8, <1>9 DEF StreamInv
<1>11. QED
  BY <1>0, <1>L, <1>1, <1>3, <1>10

\* The first socket connects at the start of an empty stream.
LEMMA InitCore == Init => TypeOK /\ StreamInv
<1> SUFFICES ASSUME Init PROVE TypeOK /\ StreamInv
  OBVIOUS
<1>0. 1 \in Socks /\ 0 \in 0..MaxSeq /\ 0 \in 0..MaxInput /\ 0 \in 0..MaxFaults /\ 1 \in Nat
  BY RouteAssumption DEF Socks
<1>1. socks \in [Socks -> Sock] /\ \A i \in Socks : socks[i].pos = 0
  BY RecordsTyped DEF Init
<1>2. rt \in Track /\ rt.com = 0 /\ rt.st = "RelayAttached"
  BY <1>0, RouteAssumption DEF Init, Track, Tracker
<1>3. dt \in Direct /\ dt.pos = 0
  BY RecordsTyped DEF Init
<1>empty. \A S : << >> \in Seq(S)
  BY EmptySeq
<1>4. up \in [Chans -> Seq(0..MaxInput)]
  BY <1>empty DEF Init
<1>5. log \in Seq(Frames) /\ Len(log) = 0
  <2>1. log = << >>
    BY DEF Init
  <2>2. QED
    BY <1>empty, <2>1, EmptySeq
<1>6. got \in Seq(1..MaxInput) /\ pend \in Seq(1..MaxInput) /\ shown \in Seq(Runs)
  <2>1. got = << >> /\ pend = << >> /\ shown = << >>
    BY DEF Init
  <2>2. QED
    BY <1>empty, <2>1
<1>7. TypeOK
  <2>1. /\ app = "on" /\ prefer \in BOOLEAN /\ attempted = FALSE /\ replayDone = FALSE
        /\ cur = 1 /\ timer = FALSE /\ typed = 0 /\ view = "" /\ isDriver = FALSE
        /\ recover = "no" /\ claim = FALSE /\ faults = 0
    BY DEF Init
  <2>2. view \in Drivers
    BY <2>1 DEF Drivers
  <2>3. dt.pos <= Len(log) /\ \A i \in Socks : socks[i].pos <= Len(log)
    BY <1>1, <1>3, <1>5
  <2>4. typed \in 0..MaxInput /\ faults \in 0..MaxFaults /\ cur \in Socks \cup {0}
    BY <1>0, <2>1
  <2>5. QED
    BY <1>1, <1>2, <1>3, <1>4, <1>5, <1>6, <2>1, <2>2, <2>3, <2>4 DEF TypeOK
<1>8. SeqAt(0) = 0 /\ Produced = 0
  BY <1>5 DEF SeqAt, Produced
<1>9. NothingSkipped
  <2>1. shown = << >>
    BY DEF Init
  <2>2. DOMAIN shown = {}
    BY <2>1
  <2>3. QED
    BY <1>2, <2>1, <2>2 DEF NothingSkipped, V!Newest
<1>10. \A p \in 0..0 : p = 0
  OBVIOUS
<1>11. 0 \in 0..0 /\ StandsAt(0, 0)
  BY <1>8 DEF StandsAt
<1>12. StreamInv
  BY <1>1, <1>2, <1>3, <1>5, <1>8, <1>9, <1>10, <1>11 DEF StreamInv
<1>13. QED
  BY <1>7, <1>12

\* Every step keeps the types, the stream's shape and what was shown.
LEMMA NextCore == TypeOK /\ StreamInv /\ [Next]_vars => TypeOK' /\ StreamInv'
<1> SUFFICES ASSUME TypeOK, StreamInv, [Next]_vars PROVE TypeOK' /\ StreamInv'
  OBVIOUS
<1>0. /\ rt \in Track /\ rt.com \in 0..MaxSeq /\ rt.com \in Nat
      /\ dt \in Direct /\ dt.pos \in 0..Len(log) /\ SeqAt(dt.pos) <= rt.com
      /\ socks \in [Socks -> Sock] /\ Len(log) \in Nat
      /\ \A i \in Socks : /\ socks[i] \in Sock /\ socks[i].pos \in 0..Len(log)
                          /\ SeqAt(socks[i].pos) <= rt.com
      /\ up \in [Chans -> Seq(0..MaxInput)] /\ faults \in 0..MaxFaults /\ faults \in Nat
      /\ Socks \subseteq Chans /\ DirectChan \in Chans /\ 0 \notin Socks
      /\ SeqAt(0) = 0 /\ 0 \in 0..Len(log) /\ 0 \in 0..MaxInput
  <2>1. rt \in Track /\ rt.com \in 0..MaxSeq /\ rt.com \in Nat /\ faults \in 0..MaxFaults /\ faults \in Nat
    BY RouteAssumption DEF TypeOK, Track
  <2>2. Len(log) \in Nat
    BY SeqAtTyped
  <2>3. dt \in Direct /\ dt.pos \in 0..Len(log) /\ SeqAt(dt.pos) <= rt.com
    BY <2>2 DEF TypeOK, Direct, StreamInv
  <2>4. /\ socks \in [Socks -> Sock]
        /\ \A i \in Socks : /\ socks[i] \in Sock /\ socks[i].pos \in 0..Len(log)
                            /\ SeqAt(socks[i].pos) <= rt.com
    BY <2>2 DEF TypeOK, Sock, StreamInv
  <2>5. up \in [Chans -> Seq(0..MaxInput)] /\ Socks \subseteq Chans /\ DirectChan \in Chans
    BY DEF TypeOK, Chans
  <2>6. 0 \notin Socks /\ SeqAt(0) = 0 /\ 0 \in 0..MaxInput
    BY RouteAssumption DEF Socks, SeqAt
  <2>7. QED
    BY <2>1, <2>2, <2>3, <2>4, <2>5, <2>6
<1>pos. /\ \A i \in Socks : /\ socks[i].pos \in Nat /\ socks[i].pos <= Len(log)
                            /\ SeqAt(socks[i].pos) <= rt.com
        /\ dt.pos \in Nat /\ dt.pos <= Len(log) /\ SeqAt(dt.pos) <= rt.com
        /\ Len(log) \in Nat /\ SeqAt(0) = 0 /\ rt.com \in Nat
  BY <1>0
<1>fault. faults \in Nat /\ faults <= MaxFaults
  BY <1>0, RouteAssumption
<1>rt. rt \in Track
  BY <1>0
<1>without. ASSUME NEW ch PROVE Without(ch) \in [Chans -> Seq(0..MaxInput)]
  <2>1. << >> \in Seq(0..MaxInput)
    OBVIOUS
  <2>2. QED
    BY <1>0, <2>1, Zenon DEF Without
<1>kept. ASSUME UNCHANGED <<log, shown>>, rt'.com = rt.com,
                \A i \in Socks : socks'[i].pos \in {0, socks[i].pos}, dt'.pos \in {0, dt.pos}
         PROVE  /\ StreamInv' /\ dt'.pos <= Len(log')
                /\ \A i \in Socks : socks'[i].pos <= Len(log')
  <2>1. /\ \A i \in Socks : socks'[i].pos <= Len(log) /\ SeqAt(socks'[i].pos) <= rt.com
        /\ dt'.pos <= Len(log) /\ SeqAt(dt'.pos) <= rt.com
    BY <1>pos, <1>kept
  <2>2. QED
    BY <1>kept, <2>1, StreamKept
<1>1. CASE SendInput
  <2>1. typed + 1 \in 0..MaxInput /\ typed + 1 \in 1..MaxInput /\ typed' = typed + 1
    BY <1>1, RouteAssumption DEF SendInput, TypeOK
  <2>2. up' \in [Chans -> Seq(0..MaxInput)] /\ pend' \in Seq(1..MaxInput)
    <3>0. pend \in Seq(1..MaxInput) /\ Append(pend, typed + 1) \in Seq(1..MaxInput)
      BY <2>1 DEF TypeOK
    <3>1. CASE Send(DirectChan, typed + 1) /\ pend' = pend
      BY <1>0, <2>1, <3>0, <3>1, SendTyped
    <3>2. CASE WSOpen /\ Send(cur, typed + 1) /\ pend' = pend
      <4>1. cur \in Chans
        BY <1>0, <3>2 DEF WSOpen, TypeOK
      <4>2. QED
        BY <2>1, <3>0, <3>2, <4>1, SendTyped
    <3>3. CASE up' = up /\ (pend' = pend \/ pend' = Append(pend, typed + 1))
      BY <1>0, <3>0, <3>3
    <3>4. QED
      BY <1>1, <3>1, <3>2, <3>3 DEF SendInput
  <2>3. UNCHANGED <<log, got, app, prefer, attempted, replayDone, rt, cur, socks, timer, dt, view,
                    isDriver, recover, claim, shown, faults>>
    BY <1>1 DEF SendInput, host, flags, link, driver
  <2>4. TypeOK'
    BY <2>1, <2>2, <2>3 DEF TypeOK
  <2>5. QED
    BY <1>kept, <2>3, <2>4
<1>2. CASE ClaimDriver
  <2>1. up' \in [Chans -> Seq(0..MaxInput)] /\ claim' \in BOOLEAN
    <3>1. CASE Send(DirectChan, 0) /\ claim' = FALSE
      BY <1>0, <3>1, SendTyped
    <3>2. CASE WSOpen /\ Send(cur, 0) /\ claim' = FALSE
      <4>1. cur \in Chans
        BY <1>0, <3>2 DEF WSOpen, TypeOK
      <4>2. QED
        BY <1>0, <3>2, <4>1, SendTyped
    <3>3. CASE up' = up /\ claim' = TRUE
      BY <1>0, <3>3
    <3>4. QED
      BY <1>2, <3>1, <3>2, <3>3 DEF ClaimDriver
  <2>2. UNCHANGED <<log, got, app, prefer, attempted, replayDone, rt, cur, socks, timer, dt, pend,
                    typed, view, isDriver, recover, shown, faults>>
    BY <1>2 DEF ClaimDriver, host, flags, link, input
  <2>3. TypeOK'
    BY <2>1, <2>2 DEF TypeOK
  <2>4. QED
    BY <1>kept, <2>2, <2>3
<1>3. ASSUME NEW i \in Socks, SocketOpens(i) PROVE TypeOK' /\ StreamInv'
  <2>1. UNCHANGED <<log, got, app, prefer, attempted, replayDone, rt, cur, timer, dt, typed, view,
                    isDriver, shown, faults>>
    BY <1>3 DEF SocketOpens, host, flags
  <2>2. CASE AcceptsRoute(rt, socks[i].gen, "relay")
    <3>1. /\ socks' = [socks EXCEPT ![i].st = "open", ![i].pos = PosOf(rt.com)]
          /\ recover' = IF isDriver THEN "want" ELSE "no"
          /\ IF InputRoute(rt) = "relay" THEN Flush(i, << >>) ELSE UNCHANGED <<up, claim, pend>>
      BY <1>3, <2>2 DEF SocketOpens
    <3>2. PosOf(rt.com) \in 0..Len(log) /\ SeqAt(PosOf(rt.com)) = rt.com
      BY PosOfFacts
    <3>3. PosOf(rt.com) \in Nat
      BY <1>0, <3>2
    <3>4. /\ socks' \in [Socks -> Sock] /\ socks'[i].pos = PosOf(rt.com)
          /\ \A j \in Socks : j # i => socks'[j] = socks[j]
      BY <1>0, <3>1, <3>3 DEF Sock
    <3>5. \A j \in Socks : SeqAt(socks'[j].pos) <= rt.com /\ socks'[j].pos <= Len(log)
      BY <1>0, <3>2, <3>4
    <3>6. up' \in [Chans -> Seq(0..MaxInput)] /\ claim' \in BOOLEAN /\ pend' \in Seq(1..MaxInput)
      <4>1. CASE Flush(i, << >>)
        <5>1. << >> \in Seq({0}) /\ << >> \in Seq(1..MaxInput) /\ i \in Chans
          BY <1>0
        <5>2. QED
          BY <4>1, <5>1, FlushFacts
      <4>2. CASE UNCHANGED <<up, claim, pend>>
        BY <4>2 DEF TypeOK
      <4>3. QED
        BY <3>1, <4>1, <4>2
    <3>7. TypeOK'
      BY <2>1, <3>1, <3>4, <3>5, <3>6 DEF TypeOK
    <3>8. QED
      BY <1>0, <2>1, <3>5, <3>7, StreamKept
  <2>3. CASE ~AcceptsRoute(rt, socks[i].gen, "relay")
    <3>1. socks' = [socks EXCEPT ![i] = Closing] /\ UNCHANGED <<recover, up, claim, pend>>
      BY <1>3, <2>3 DEF SocketOpens
    <3>2. socks' \in [Socks -> Sock] /\ \A j \in Socks : socks'[j].pos \in {0, socks[j].pos}
      BY <1>0, <3>1, RecordsTyped
    <3>3. StreamInv' /\ \A j \in Socks : socks'[j].pos <= Len(log')
      BY <1>kept, <2>1, <3>2
    <3>4. TypeOK'
      BY <2>1, <3>1, <3>2, <3>3 DEF TypeOK
    <3>5. QED
      BY <3>3, <3>4
  <2>4. QED
    BY <2>2, <2>3
<1>4. ASSUME NEW i \in Socks, SocketClosed(i) PROVE TypeOK' /\ StreamInv'
  <2>1. UNCHANGED <<log, got, app, prefer, attempted, replayDone, rt, dt, pend, typed, view,
                    isDriver, recover, claim, shown>>
    BY <1>4 DEF SocketClosed, host, flags, input, driver
  <2>2. socks' = [socks EXCEPT ![i] = NoSock] /\ up' = Without(i)
    BY <1>4 DEF SocketClosed
  <2>3. faults' \in 0..MaxFaults
    BY <1>0, <1>4, RouteAssumption DEF SocketClosed
  <2>4. cur' \in Socks \cup {0} /\ timer' \in BOOLEAN
    BY <1>4 DEF SocketClosed, TypeOK
  <2>5. socks' \in [Socks -> Sock] /\ \A j \in Socks : socks'[j].pos \in {0, socks[j].pos}
    BY <1>0, <2>2, RecordsTyped
  <2>6. StreamInv' /\ \A j \in Socks : socks'[j].pos <= Len(log')
    BY <1>kept, <2>1, <2>5
  <2>7. up' \in [Chans -> Seq(0..MaxInput)]
    BY <1>without, <2>2
  <2>8. TypeOK'
    BY <2>1, <2>3, <2>4, <2>5, <2>6, <2>7 DEF TypeOK
  <2>9. QED
    BY <2>6, <2>8
<1>5. ASSUME NEW i \in Socks, RelayOut(i) PROVE TypeOK' /\ StreamInv'
  <2>1. UNCHANGED <<log, got, up, app, prefer, attempted, replayDone, cur, timer, dt, pend, typed,
                    view, isDriver, recover, claim, faults>>
    BY <1>5 DEF RelayOut, host, flags, input, driver
  <2>2. PICK p \in (socks[i].pos + 1)..Len(log), from \in 1..(SeqAt(socks[i].pos) + 1) :
           /\ socks' = [socks EXCEPT ![i].pos = p]
           /\ rt' = AcceptOutput(rt, "relay", SeqAt(p))
           /\ shown' = Given(from, SeqAt(p))
    BY <1>5 DEF RelayOut
  <2>3. p \in 0..Len(log) /\ p \in Nat /\ p <= Len(log)
    BY <1>0, <2>2
  <2>4. SeqAt(p) \in 0..MaxSeq
    BY <2>3, SeqAtTyped
  <2>5. rt' \in Track /\ rt'.com = IF SeqAt(p) > rt.com THEN SeqAt(p) ELSE rt.com
    BY <1>0, <2>2, <2>4, TrackTyped
  <2>6. /\ socks' \in [Socks -> Sock] /\ socks'[i].pos = p
        /\ \A j \in Socks : j # i => socks'[j] = socks[j]
    BY <1>0, <2>2, <2>3 DEF Sock
  <2>7. StreamInv' /\ shown' \in Seq(Runs)
    BY <1>0, <2>1, <2>2, <2>3, <2>5, <2>6, StreamShows
  <2>8. \A j \in Socks : socks'[j].pos <= Len(log)
    BY <1>pos, <2>3, <2>6
  <2>9. TypeOK'
    BY <2>1, <2>5, <2>6, <2>7, <2>8 DEF TypeOK
  <2>10. QED
    BY <2>7, <2>9
<1>6. ASSUME NEW i \in Socks, RelayEnd(i) PROVE TypeOK' /\ StreamInv'
  <2>1. UNCHANGED <<log, got, app, prefer, cur, timer, typed, view, isDriver, shown, faults>>
        /\ replayDone' = TRUE
    BY <1>6 DEF RelayEnd, host
  <2>2. PICK p \in socks[i].pos..Len(log) :
           /\ SeqAt(p) = SeqAt(socks[i].pos)
           /\ socks' = [socks EXCEPT ![i].pos = p, ![i].ph = "snap"]
    BY <1>6 DEF RelayEnd
  <2>3. p \in Nat /\ p <= Len(log)
    BY <1>0, <2>2
  <2>4. /\ socks' \in [Socks -> Sock] /\ socks'[i].pos = p
        /\ \A j \in Socks : j # i => socks'[j] = socks[j]
    BY <1>0, <2>2, <2>3 DEF Sock
  <2>5. \A j \in Socks : SeqAt(socks'[j].pos) <= rt.com /\ socks'[j].pos <= Len(log)
    BY <1>0, <2>2, <2>3, <2>4
  <2>6. CASE rt.st = "RelayReattaching"
    <3> DEFINE before == IF ~claim /\ recover = "vacant" THEN <<0>> ELSE << >>
    <3>1. /\ rt' = [rt EXCEPT !.st = "RelayAttached"] /\ UNCHANGED <<attempted, dt>>
          /\ Flush(i, before) /\ recover' = IF recover = "vacant" THEN "no" ELSE recover
      BY <1>6, <2>6 DEF RelayEnd
    <3>2. before \in Seq({0})
      <4>1. <<0>> \in Seq({0}) /\ << >> \in Seq({0})
        OBVIOUS
      <4>2. QED
        BY <4>1
    <3> HIDE DEF before
    <3>3. rt' \in Track /\ rt'.com = rt.com
      BY <1>0, <3>1, RouteTyped
    <3>4. up' \in [Chans -> Seq(0..MaxInput)] /\ claim' = FALSE /\ pend' = << >>
      BY <1>0, <3>1, <3>2, FlushFacts
    <3>5. StreamInv'
      BY <1>0, <2>1, <2>5, <3>1, <3>3, StreamKept
    <3>6. << >> \in Seq(1..MaxInput)
      OBVIOUS
    <3>7. TypeOK'
      BY <2>1, <2>4, <2>5, <3>1, <3>3, <3>4, <3>6 DEF TypeOK
    <3>8. QED
      BY <3>5, <3>7
  <2>7. CASE rt.st # "RelayReattaching"
    <3>1. MaybeStartDirect(rt, prefer, attempted) /\ UNCHANGED <<up, claim, pend, recover>>
      BY <1>6, <2>7 DEF RelayEnd
    <3>2. prefer \in BOOLEAN /\ attempted \in BOOLEAN
      BY DEF TypeOK
    <3>3. /\ attempted' \in BOOLEAN /\ rt' \in Track /\ rt'.com = rt.com
          /\ dt' \in Direct /\ dt'.pos <= Len(log) /\ SeqAt(dt'.pos) <= rt.com
      BY <3>1, <3>2, StartDirectFacts
    <3>4. StreamInv'
      BY <2>1, <2>5, <3>3, StreamKept
    <3>5. TypeOK'
      BY <2>1, <2>4, <2>5, <3>1, <3>3 DEF TypeOK
    <3>6. QED
      BY <3>4, <3>5
  <2>8. QED
    BY <2>6, <2>7
<1>7. ASSUME NEW i \in Socks, RelayMeta(i) PROVE TypeOK' /\ StreamInv'
  <2>1. UNCHANGED <<log, got, app, prefer, attempted, replayDone, rt, cur, timer, dt, pend, typed,
                    shown, faults>>
    BY <1>7 DEF RelayMeta, host, flags, input
  <2>2. /\ socks' \in [Socks -> Sock] /\ SeqAt(socks'[i].pos) = SeqAt(socks[i].pos)
        /\ socks'[i].pos \in 0..Len(log) /\ \A j \in Socks : j # i => socks'[j] = socks[j]
    <3>1. CASE socks' = [socks EXCEPT ![i].ph = "live"]
      <4>1. /\ socks' \in [Socks -> Sock] /\ socks'[i].pos = socks[i].pos
            /\ \A j \in Socks : j # i => socks'[j] = socks[j]
        BY <1>0, <3>1 DEF Sock
      <4>2. QED
        BY <1>0, <4>1
    <3>2. CASE /\ socks[i].pos < Len(log) /\ ~IsOut(socks[i].pos + 1)
               /\ socks' = [socks EXCEPT ![i].pos = @ + 1]
      <4>1. socks[i].pos + 1 \in Nat /\ socks[i].pos + 1 \in 0..Len(log) /\ (socks[i].pos + 1) - 1 = socks[i].pos
        BY <1>pos, <3>2
      <4>2. /\ socks' \in [Socks -> Sock] /\ socks'[i].pos = socks[i].pos + 1
            /\ \A j \in Socks : j # i => socks'[j] = socks[j]
        BY <1>0, <3>2, <4>1 DEF Sock
      <4>3. SeqAt(socks[i].pos + 1) = SeqAt(socks[i].pos)
        BY <3>2, <4>1 DEF IsOut
      <4>4. QED
        BY <4>1, <4>2, <4>3
    <3>3. QED
      BY <1>7, <3>1, <3>2 DEF RelayMeta
  <2>3. \A j \in Socks : SeqAt(socks'[j].pos) <= rt.com /\ socks'[j].pos <= Len(log)
    BY <1>pos, <2>2
  <2>4. StreamInv'
    BY <1>0, <2>1, <2>3, StreamKept
  <2>5. DriverAt(socks'[i].pos) \in Drivers
    BY <2>2, SeqAtTyped
  <2>6. /\ recover' \in {"no", "want", "vacant"} /\ view' \in Drivers /\ isDriver' \in BOOLEAN
        /\ up' \in [Chans -> Seq(0..MaxInput)] /\ claim' \in BOOLEAN
    <3>0. view \in Drivers /\ isDriver \in BOOLEAN /\ claim \in BOOLEAN
      BY DEF TypeOK
    <3>1. CASE recover' = "vacant" /\ UNCHANGED <<view, isDriver, up, claim>>
      BY <1>0, <3>0, <3>1
    <3>2. CASE recover' = "no" /\ Send(i, 0) /\ claim' = FALSE /\ UNCHANGED <<view, isDriver>>
      <4>1. i \in Chans /\ 0 \in 0..MaxInput
        BY <1>0
      <4>2. QED
        BY <3>0, <3>2, <4>1, SendTyped
    <3>3. CASE recover' = "no" /\ AdoptDriver(DriverAt(socks'[i].pos)) /\ UNCHANGED <<up, claim>>
      BY <1>0, <2>5, <3>0, <3>3 DEF AdoptDriver
    <3>4. QED
      BY <1>7, <3>1, <3>2, <3>3 DEF RelayMeta
  <2>7. TypeOK'
    BY <2>1, <2>2, <2>3, <2>6 DEF TypeOK
  <2>8. QED
    BY <2>4, <2>7
<1>8. CASE TimerFires
  <2>1. UNCHANGED <<log, got, up, app, prefer, attempted, replayDone, rt, dt, pend, typed, view,
                    isDriver, recover, claim, shown>>
    BY <1>8 DEF TimerFires, host, flags, input, driver
  <2>2. OpenWS(rt, TRUE, 0) /\ TRUE \in BOOLEAN /\ 0 \in 0..1 /\ faults + 0 <= MaxFaults
    <3>1. OpenWS(rt, TRUE, 0)
      BY <1>8 DEF TimerFires
    <3>2. 0 \in 0..1 /\ faults + 0 <= MaxFaults
      BY <1>fault
    <3>3. QED
      BY <3>1, <3>2
  <2>3. /\ cur' \in Socks \cup {0} /\ timer' \in BOOLEAN /\ socks' \in [Socks -> Sock]
        /\ faults' \in 0..MaxFaults
        /\ \A i \in Socks : socks'[i].pos \in {0, socks[i].pos}
    BY <1>0, <2>2, OpenFacts
  <2>4. StreamInv' /\ \A j \in Socks : socks'[j].pos <= Len(log')
    BY <1>kept, <2>1, <2>3
  <2>5. TypeOK'
    BY <2>1, <2>3, <2>4 DEF TypeOK
  <2>6. QED
    BY <2>4, <2>5
<1>9. CASE DirectSignalled \/ DirectAuthenticated \/ DirectCloses
  <2>1. UNCHANGED <<log, got, up, app, prefer, attempted, replayDone, cur, socks, timer, pend, typed,
                    view, isDriver, recover, claim, shown>>
    BY <1>9 DEF DirectSignalled, DirectAuthenticated, DirectCloses, host, flags, link, input, driver
  <2>2. faults' \in 0..MaxFaults
    BY <1>0, <1>9, RouteAssumption DEF DirectSignalled, DirectAuthenticated, DirectCloses
  <2>3. rt' \in Track /\ rt'.com = rt.com
    <3>1. rt' = rt \/ rt' = [rt EXCEPT !.st = "DirectReplay"]
      BY <1>9 DEF DirectSignalled, DirectAuthenticated, DirectCloses
    <3>2. QED
      BY <1>rt, <3>1 DEF Track
  <2>4. dt' \in Direct /\ dt'.pos = dt.pos
    <3>1. \E st \in {"hello", "authed", "closing"} : dt' = [dt EXCEPT !.st = st]
      BY <1>9 DEF DirectSignalled, DirectAuthenticated, DirectCloses
    <3>2. QED
      BY <1>0, <3>1 DEF Direct
  <2>5. StreamInv'
    BY <1>kept, <2>1, <2>3, <2>4
  <2>6. TypeOK'
    BY <2>1, <2>2, <2>3, <2>4 DEF TypeOK
  <2>7. QED
    BY <2>5, <2>6
<1>10. CASE DirectOut
  <2>1. UNCHANGED <<log, got, app, prefer, attempted, replayDone, typed, view, isDriver, recover>>
    BY <1>10 DEF DirectOut, host, flags
  <2>2. PICK p \in (dt.pos + 1)..Len(log) :
           /\ MaybeActivateDirect(AcceptOutput(rt, "direct", SeqAt(p)), [dt EXCEPT !.pos = p])
           /\ shown' = Given(SeqAt(dt.pos) + 1, SeqAt(p))
    BY <1>10 DEF DirectOut
  <2>3. p \in 0..Len(log) /\ p \in Nat /\ p <= Len(log)
    BY <1>0, <2>2
  <2>4. SeqAt(p) \in 0..MaxSeq
    BY <2>3, SeqAtTyped
  <2> DEFINE r == AcceptOutput(rt, "direct", SeqAt(p))
  <2>5. r \in Track /\ r.com = IF SeqAt(p) > rt.com THEN SeqAt(p) ELSE rt.com
    BY <1>0, <2>4, TrackTyped
  <2> DEFINE d == [dt EXCEPT !.pos = p]
  <2>8. d \in Direct /\ d.pos = p
    BY <1>0, <2>3 DEF Direct
  <2>6. MaybeActivateDirect(r, d)
    BY <2>2
  <2> HIDE DEF r, d
  <2>7. /\ rt' \in Track /\ rt'.com = r.com
        /\ dt' \in Direct /\ dt'.pos = p /\ faults' \in 0..MaxFaults
        /\ cur' \in Socks \cup {0} /\ timer' \in BOOLEAN /\ socks' \in [Socks -> Sock]
        /\ \A i \in Socks : socks'[i].pos \in {0, socks[i].pos}
        /\ up' \in [Chans -> Seq(0..MaxInput)] /\ claim' \in BOOLEAN /\ pend' \in Seq(1..MaxInput)
    BY <2>5, <2>6, <2>8, ActivateFacts
  <2>9. StreamInv' /\ shown' \in Seq(Runs)
    <3>1. SeqAt(dt.pos) \in Nat
      BY <1>0, SeqAtTyped
    <3>2. SeqAt(dt.pos) + 1 \in 1..(SeqAt(dt.pos) + 1)
      BY <3>1
    <3>3. QED
      BY <1>0, <2>1, <2>2, <2>3, <2>5, <2>7, <3>2, StreamShows
  <2>10. \A i \in Socks : socks'[i].pos <= Len(log)
    BY <1>pos, <2>7
  <2>11. TypeOK'
    BY <2>1, <2>3, <2>7, <2>9, <2>10 DEF TypeOK
  <2>12. QED
    BY <2>9, <2>11
<1>11. CASE DirectReady
  <2>1. UNCHANGED <<log, got, app, prefer, attempted, replayDone, typed, view, isDriver, recover, shown>>
    BY <1>11 DEF DirectReady, host, flags
  <2>2. PICK p \in dt.pos..Len(log) :
           /\ SeqAt(p) = SeqAt(dt.pos)
           /\ MaybeActivateDirect(NoteDirectReady(rt, SeqAt(p)), [dt EXCEPT !.pos = p, !.ph = "snap"])
    BY <1>11 DEF DirectReady
  <2>3. p \in 0..Len(log) /\ p \in Nat /\ p <= Len(log)
    BY <1>0, <2>2
  <2>4. SeqAt(p) \in 0..MaxSeq
    BY <2>3, SeqAtTyped
  <2> DEFINE r == NoteDirectReady(rt, SeqAt(p))
  <2>5. r \in Track /\ r.com = rt.com
    BY <1>0, <2>4, TrackTyped
  <2> DEFINE d == [dt EXCEPT !.pos = p, !.ph = "snap"]
  <2>8. d \in Direct /\ d.pos = p
    BY <1>0, <2>3 DEF Direct
  <2>6. MaybeActivateDirect(r, d)
    BY <2>2
  <2> HIDE DEF r, d
  <2>7. /\ rt' \in Track /\ rt'.com = r.com
        /\ dt' \in Direct /\ dt'.pos = p /\ faults' \in 0..MaxFaults
        /\ cur' \in Socks \cup {0} /\ timer' \in BOOLEAN /\ socks' \in [Socks -> Sock]
        /\ \A i \in Socks : socks'[i].pos \in {0, socks[i].pos}
        /\ up' \in [Chans -> Seq(0..MaxInput)] /\ claim' \in BOOLEAN /\ pend' \in Seq(1..MaxInput)
    BY <2>5, <2>6, <2>8, ActivateFacts
  <2>9. \A i \in Socks : SeqAt(socks'[i].pos) <= rt.com /\ socks'[i].pos <= Len(log)
    BY <1>pos, <2>7
  <2>10. SeqAt(dt'.pos) <= rt.com
    BY <1>0, <2>2, <2>7
  <2>11. StreamInv'
    BY <2>1, <2>5, <2>7, <2>9, <2>10, StreamKept
  <2>12. TypeOK'
    BY <2>1, <2>3, <2>7, <2>9 DEF TypeOK
  <2>13. QED
    BY <2>11, <2>12
<1>12. CASE DirectMeta
  <2>1. UNCHANGED <<log, got, up, app, prefer, attempted, replayDone, rt, cur, socks, timer, pend,
                    typed, recover, claim, shown, faults>>
    BY <1>12 DEF DirectMeta, host, flags, link, input
  <2>2. dt' \in Direct /\ SeqAt(dt'.pos) = SeqAt(dt.pos) /\ dt'.pos \in 0..Len(log)
    <3>1. CASE dt' = [dt EXCEPT !.ph = "live"]
      <4>1. dt' \in Direct /\ dt'.pos = dt.pos
        BY <1>0, <3>1 DEF Direct
      <4>2. QED
        BY <1>0, <4>1
    <3>2. CASE dt.pos < Len(log) /\ ~IsOut(dt.pos + 1) /\ dt' = [dt EXCEPT !.pos = @ + 1]
      <4>1. dt.pos + 1 \in Nat /\ dt.pos + 1 \in 0..Len(log) /\ (dt.pos + 1) - 1 = dt.pos
        BY <1>pos, <3>2
      <4>2. dt' \in Direct /\ dt'.pos = dt.pos + 1
        BY <1>0, <3>2, <4>1 DEF Direct
      <4>3. SeqAt(dt.pos + 1) = SeqAt(dt.pos)
        BY <3>2, <4>1 DEF IsOut
      <4>4. QED
        BY <4>1, <4>2, <4>3
    <3>3. QED
      BY <1>12, <3>1, <3>2 DEF DirectMeta
  <2>3. view' \in Drivers /\ isDriver' \in BOOLEAN
    <3>1. DriverAt(dt'.pos) \in Drivers /\ isDriver \in BOOLEAN
      BY <2>2, SeqAtTyped DEF TypeOK
    <3>2. QED
      BY <1>12, <3>1 DEF DirectMeta, AdoptDriver
  <2>4. dt'.pos <= Len(log) /\ SeqAt(dt'.pos) <= rt.com
    BY <1>0, <2>2
  <2>5. StreamInv'
    BY <1>0, <2>1, <2>4, StreamKept
  <2>6. TypeOK'
    BY <2>1, <2>2, <2>3, <2>4 DEF TypeOK
  <2>7. QED
    BY <2>5, <2>6
<1>13. CASE DirectFails
  <2>1. UNCHANGED <<log, got, app, prefer, attempted, replayDone, pend, typed, view, isDriver,
                    recover, claim, shown>> /\ dt' = NoDirect /\ up' = Without(DirectChan)
    BY <1>13 DEF DirectFails, host, flags, input, driver
  <2> DEFINE spent == IF dt.st = "closing" THEN 0 ELSE 1
  <2>2. spent \in 0..1 /\ faults + spent <= MaxFaults /\ faults + spent \in 0..MaxFaults
    BY <1>0, <1>13, RouteAssumption DEF DirectFails
  <2>3. /\ rt.st = "DirectActive" => rt' = DirectLost(rt) /\ OpenWS(DirectLost(rt), TRUE, spent)
        /\ rt.st # "DirectActive" => /\ rt' = AbortDirect(rt) /\ faults' = faults + spent
                                     /\ UNCHANGED <<cur, socks, timer>>
    BY <1>13 DEF DirectFails, link
  <2> HIDE DEF spent
  <2>4. rt' \in Track /\ rt'.com = rt.com /\ DirectLost(rt) \in Track
    <3>1. /\ AbortDirect(rt) \in Track /\ AbortDirect(rt).com = rt.com
          /\ DirectLost(rt) \in Track /\ DirectLost(rt).com = rt.com
      BY <1>rt, RouteTyped
    <3>2. QED
      BY <2>3, <3>1
  <2>5. /\ cur' \in Socks \cup {0} /\ timer' \in BOOLEAN /\ socks' \in [Socks -> Sock]
        /\ faults' \in 0..MaxFaults
        /\ \A i \in Socks : socks'[i].pos \in {0, socks[i].pos}
    <3>1. CASE rt.st = "DirectActive"
      <4>1. OpenWS(DirectLost(rt), TRUE, spent) /\ TRUE \in BOOLEAN
        BY <2>3, <3>1
      <4>2. QED
        BY <2>2, <2>4, <4>1, OpenFacts
    <3>2. CASE rt.st # "DirectActive"
      <4>1. cur \in Socks \cup {0} /\ timer \in BOOLEAN
        BY DEF TypeOK
      <4>2. QED
        BY <1>0, <2>2, <2>3, <3>2, <4>1
    <3>3. QED
      BY <3>1, <3>2
  <2>6. dt' \in Direct /\ dt'.pos = 0
    BY <2>1, RecordsTyped
  <2>7. StreamInv' /\ dt'.pos <= Len(log') /\ \A j \in Socks : socks'[j].pos <= Len(log')
    BY <1>kept, <2>1, <2>4, <2>5, <2>6
  <2>8. up' \in [Chans -> Seq(0..MaxInput)]
    BY <1>without, <2>1
  <2>9. TypeOK'
    BY <2>1, <2>4, <2>5, <2>6, <2>7, <2>8 DEF TypeOK
  <2>10. QED
    BY <2>7, <2>9
<1>14. ASSUME NEW on \in BOOLEAN, SetPreferDirect(on) PROVE TypeOK' /\ StreamInv'
  <2>1. UNCHANGED <<log, got, app, replayDone, pend, typed, view, isDriver, recover, claim, shown>>
        /\ prefer' = on /\ faults < MaxFaults
    BY <1>14 DEF SetPreferDirect, host, input, driver
  <2>2. faults + 1 \in 0..MaxFaults /\ 1 \in 0..1 /\ faults + 1 <= MaxFaults
    BY <1>0, <2>1, RouteAssumption
  <2>3. CASE on
    <3>1. faults' = faults + 1 /\ UNCHANGED <<cur, socks, timer, up>>
      BY <1>14, <2>3 DEF SetPreferDirect, link
    <3>2. MaybeStartDirect(rt, TRUE, FALSE) \/ (attempted' = FALSE /\ UNCHANGED <<rt, dt>>)
      BY <1>14, <2>3 DEF SetPreferDirect
    <3>3. /\ attempted' \in BOOLEAN /\ rt' \in Track /\ rt'.com = rt.com
          /\ dt' \in Direct /\ dt'.pos <= Len(log) /\ SeqAt(dt'.pos) <= rt.com
      <4>1. CASE MaybeStartDirect(rt, TRUE, FALSE)
        <5>1. TRUE \in BOOLEAN /\ FALSE \in BOOLEAN
          OBVIOUS
        <5>2. QED
          BY <4>1, <5>1, StartDirectFacts
      <4>2. CASE attempted' = FALSE /\ UNCHANGED <<rt, dt>>
        BY <1>0, <4>2 DEF TypeOK
      <4>3. QED
        BY <3>2, <4>1, <4>2
    <3>4. StreamInv'
      BY <1>0, <2>1, <3>1, <3>3, StreamKept
    <3>5. TypeOK'
      BY <2>1, <2>2, <3>1, <3>3 DEF TypeOK
    <3>6. QED
      BY <3>4, <3>5
  <2>4. CASE ~on
    <3>1. /\ dt' = NoDirect /\ up' = Without(DirectChan) /\ UNCHANGED attempted
          /\ \/ rt' = AbortDirect(rt) /\ faults' = faults + 1 /\ UNCHANGED <<cur, socks, timer>>
             \/ rt' = DirectLost(rt) /\ OpenWS(DirectLost(rt), app = "on", 1)
             \/ faults' = faults + 1 /\ UNCHANGED <<rt, cur, socks, timer>>
      BY <1>14, <2>4 DEF SetPreferDirect, link
    <3>2. rt' \in Track /\ rt'.com = rt.com /\ DirectLost(rt) \in Track
      <4>1. /\ AbortDirect(rt) \in Track /\ AbortDirect(rt).com = rt.com
            /\ DirectLost(rt) \in Track /\ DirectLost(rt).com = rt.com
        BY <1>rt, RouteTyped
      <4>2. QED
        BY <1>rt, <3>1, <4>1
    <3>3. /\ cur' \in Socks \cup {0} /\ timer' \in BOOLEAN /\ socks' \in [Socks -> Sock]
          /\ faults' \in 0..MaxFaults
          /\ \A i \in Socks : socks'[i].pos \in {0, socks[i].pos}
      <4>1. CASE OpenWS(DirectLost(rt), app = "on", 1)
        <5>1. (app = "on") \in BOOLEAN
          OBVIOUS
        <5>2. QED
          BY <2>2, <3>2, <4>1, <5>1, OpenFacts
      <4>2. CASE faults' = faults + 1 /\ UNCHANGED <<cur, socks, timer>>
        BY <1>0, <2>2, <4>2 DEF TypeOK
      <4>3. QED
        BY <3>1, <4>1, <4>2
    <3>4. dt' \in Direct /\ dt'.pos = 0
      BY <3>1, RecordsTyped
    <3>5. StreamInv' /\ dt'.pos <= Len(log') /\ \A j \in Socks : socks'[j].pos <= Len(log')
      BY <1>kept, <2>1, <3>2, <3>3, <3>4
    <3>6. up' \in [Chans -> Seq(0..MaxInput)]
      BY <1>without, <3>1
    <3>7. TypeOK'
      BY <2>1, <3>1, <3>2, <3>3, <3>4, <3>5, <3>6 DEF TypeOK
    <3>8. QED
      BY <3>5, <3>7
  <2>5. QED
    BY <2>3, <2>4
<1>15. CASE Suspend
  <2>1. UNCHANGED <<log, got, prefer, attempted, replayDone, rt, pend, typed, view, isDriver, recover, shown>>
        /\ app' = "suspended" /\ dt' = NoDirect /\ up' = Without(DirectChan) /\ claim' = FALSE
        /\ socks' = Dropped /\ cur' = 0 /\ timer' = FALSE
    BY <1>15 DEF Suspend, host, flags, input
  <2>2. faults' \in 0..MaxFaults
    BY <1>0, <1>15, RouteAssumption DEF Suspend
  <2>3. socks' \in [Socks -> Sock] /\ \A i \in Socks : socks'[i].pos \in {0, socks[i].pos}
    BY <2>1, DroppedTyped, RecordsTyped
  <2>4. dt' \in Direct /\ dt'.pos = 0
    BY <2>1, RecordsTyped
  <2>5. StreamInv' /\ dt'.pos <= Len(log') /\ \A j \in Socks : socks'[j].pos <= Len(log')
    BY <1>kept, <2>1, <2>3, <2>4
  <2>6. up' \in [Chans -> Seq(0..MaxInput)]
    BY <1>without, <2>1
  <2>7. TypeOK'
    BY <2>1, <2>2, <2>3, <2>4, <2>5, <2>6 DEF TypeOK
  <2>8. QED
    BY <2>5, <2>7
<1>16. CASE Attach
  <2>1. UNCHANGED <<log, got, up, prefer, dt, pend, typed, view, isDriver, recover, claim, shown>>
        /\ app' = "on" /\ rt' = Tracker(rt.com) /\ attempted' = FALSE /\ replayDone' = FALSE
    BY <1>16 DEF Attach, host, input, driver
  <2>2. Tracker(rt.com) \in Track /\ Tracker(rt.com).com = rt.com
    BY <1>0, TrackTyped
  <2>3. OpenWS(Tracker(rt.com), TRUE, 0) /\ TRUE \in BOOLEAN /\ 0 \in 0..1 /\ faults + 0 <= MaxFaults
    <3>1. OpenWS(Tracker(rt.com), TRUE, 0)
      BY <1>16 DEF Attach
    <3>2. 0 \in 0..1 /\ faults + 0 <= MaxFaults
      BY <1>fault
    <3>3. QED
      BY <3>1, <3>2
  <2>4. /\ cur' \in Socks \cup {0} /\ timer' \in BOOLEAN /\ socks' \in [Socks -> Sock]
        /\ faults' \in 0..MaxFaults
        /\ \A i \in Socks : socks'[i].pos \in {0, socks[i].pos}
    BY <2>2, <2>3, OpenFacts
  <2>5. StreamInv' /\ \A j \in Socks : socks'[j].pos <= Len(log')
    BY <1>kept, <2>1, <2>2, <2>4
  <2>6. TypeOK'
    BY <2>1, <2>2, <2>4, <2>5 DEF TypeOK
  <2>7. QED
    BY <2>5, <2>6
<1>grow. ASSUME NEW e \in Frames, log' = Append(log, e), e.seq \in {Produced, Produced + 1},
                UNCHANGED <<rt, socks, dt, shown, app, prefer, attempted, replayDone, cur, timer, pend,
                            typed, view, isDriver, recover, claim, faults>>,
                got' \in Seq(1..MaxInput), up' \in [Chans -> Seq(0..MaxInput)]
         PROVE  TypeOK' /\ StreamInv'
  <2>1. StreamInv' /\ log' \in Seq(Frames)
        /\ dt.pos <= Len(log') /\ \A i \in Socks : socks[i].pos <= Len(log')
    BY <1>grow, StreamGrows
  <2>2. TypeOK'
    BY <1>grow, <2>1 DEF TypeOK
  <2>3. QED
    BY <2>1, <2>2
<1>meta. \A d \in Drivers : Meta(d) \in Frames /\ Meta(d).seq = Produced
  BY SeqAtTyped DEF Meta, Frames
<1>17. CASE Produce
  <2> DEFINE e == [seq |-> Produced + 1, driver |-> DriverAt(Len(log))]
  <2>1. Produced + 1 \in 0..MaxSeq
    BY <1>17, SeqAtTyped, RouteAssumption DEF Produce
  <2>2. DriverAt(Len(log)) \in Drivers
    <3>1. Len(log) \in 0..Len(log)
      BY <1>0
    <3>2. QED
      BY <3>1, SeqAtTyped
  <2>3. e \in Frames /\ e.seq = Produced + 1
    BY <2>1, <2>2 DEF Frames
  <2>4. log' = Append(log, e)
    BY <1>17 DEF Produce
  <2> HIDE DEF e
  <2>5. /\ UNCHANGED <<rt, socks, dt, shown, app, prefer, attempted, replayDone, cur, timer, pend,
                       typed, view, isDriver, recover, claim, faults>>
        /\ got' \in Seq(1..MaxInput) /\ up' \in [Chans -> Seq(0..MaxInput)]
    BY <1>0, <1>17 DEF Produce, flags, link, input, driver, TypeOK
  <2>6. QED
    BY <1>grow, <2>3, <2>4, <2>5
<1>18. ASSUME NEW d \in Drivers, DriverChanges(d) PROVE TypeOK' /\ StreamInv'
  <2>1. /\ UNCHANGED <<rt, socks, dt, shown, app, prefer, attempted, replayDone, cur, timer, pend,
                       typed, view, isDriver, recover, claim, faults>>
        /\ got' \in Seq(1..MaxInput) /\ up' \in [Chans -> Seq(0..MaxInput)]
    BY <1>0, <1>18 DEF DriverChanges, flags, link, input, driver, TypeOK
  <2>2. log' = Append(log, Meta(d))
    BY <1>18 DEF DriverChanges
  <2>3. QED
    BY <1>grow, <1>meta, <2>1, <2>2
<1>19. ASSUME NEW ch \in Chans, HostTakes(ch) PROVE TypeOK' /\ StreamInv'
  <2>1. UNCHANGED <<rt, socks, dt, shown, app, prefer, attempted, replayDone, cur, timer, pend,
                    typed, view, isDriver, recover, claim, faults>>
        /\ up[ch] # << >> /\ up' = [up EXCEPT ![ch] = Tail(@)]
    BY <1>19 DEF HostTakes, flags, link, input, driver
  <2>2. up[ch] \in Seq(0..MaxInput)
    BY <1>0
  <2>3. Tail(up[ch]) \in Seq(0..MaxInput) /\ Head(up[ch]) \in 0..MaxInput
    BY <2>1, <2>2, HeadTailProperties
  <2>4. up' \in [Chans -> Seq(0..MaxInput)]
    BY <1>0, <2>1, <2>3
  <2>5. got' \in Seq(1..MaxInput)
    <3>1. got \in Seq(1..MaxInput)
      BY DEF TypeOK
    <3>2. CASE Head(up[ch]) = 0
      BY <1>19, <3>1, <3>2 DEF HostTakes
    <3>3. CASE Head(up[ch]) # 0
      <4>1. Head(up[ch]) \in 1..MaxInput
        BY <2>3, <3>3, RouteAssumption
      <4>2. got' = Append(got, Head(up[ch]))
        BY <1>19, <3>3 DEF HostTakes
      <4>3. QED
        BY <3>1, <4>1, <4>2, AppendProperties
    <3>4. QED
      BY <3>2, <3>3
  <2>6. CASE log' = log
    <3>1. StreamInv'
      BY <1>kept, <2>1, <2>6
    <3>2. TypeOK'
      BY <2>1, <2>4, <2>5, <2>6 DEF TypeOK
    <3>3. QED
      BY <3>1, <3>2
  <2>7. CASE log' = Append(log, Meta("me"))
    <3>1. "me" \in Drivers
      BY DEF Drivers
    <3>2. QED
      BY <1>grow, <1>meta, <2>1, <2>4, <2>5, <2>7, <3>1
  <2>8. QED
    BY <1>19, <2>6, <2>7 DEF HostTakes
<1>20. CASE UNCHANGED vars
  <2>1. UNCHANGED <<log, got, up, app, prefer, attempted, replayDone, rt, cur, socks, timer, dt, pend,
                    typed, view, isDriver, recover, claim, shown, faults>>
    BY <1>20 DEF vars, host, flags, link, input, driver
  <2>2. StreamInv'
    BY <1>kept, <2>1
  <2>3. TypeOK'
    BY <2>1 DEF TypeOK
  <2>4. QED
    BY <2>2, <2>3
<1>21. QED
  BY <1>1, <1>2, <1>3, <1>4, <1>5, <1>6, <1>7, <1>8, <1>9, <1>10, <1>11, <1>12, <1>13, <1>14,
     <1>15, <1>16, <1>17, <1>18, <1>19, <1>20 DEF Next

-----------------------------------------------------------------------------
(* Sockets, routes and what may be sent *)

\* A socket that lives is this.ws; a reconnect waits only where there is none;
\* while the application is away, or the direct route carries the session, there
\* is none.  The direct transport and the tracker agree on how far they are, and
\* nothing waits in the queue of a route that would take it.
RouteInv ==
  /\ NoForgottenSocket
  /\ timer => cur = 0 /\ app = "on"
  /\ app = "suspended" => cur = 0 /\ dt.st = "none"
  /\ rt.st = "DirectActive" => cur = 0
  /\ dt.st \in {"signal", "hello"} => rt.st = "DirectConnecting"
  /\ dt.st \in {"authed", "closing"} => rt.st \in {"DirectReplay", "DirectActive"}
  /\ rt.st = "DirectActive" /\ dt.st = "authed" => pend = << >>
  /\ rt.st \in {"RelayAttached", "DirectConnecting", "DirectReplay"} /\ WSOpen => pend = << >>

\* Which route takes input.
LEMMA InputRouteFacts ==
  ASSUME NEW r \in Track
  PROVE  /\ InputRoute(r) = "relay" <=> r.st \in {"RelayAttached", "DirectConnecting", "DirectReplay"}
         /\ InputRoute(r) = "direct" <=> r.st = "DirectActive"
         /\ InputRoute(r) = "none" <=> r.st = "RelayReattaching"
<1>1. r.st \in {"RelayAttached", "DirectConnecting", "DirectReplay", "DirectActive", "RelayReattaching"}
  BY DEF Track
<1>2. QED
  BY <1>1 DEF InputRoute

\* The first socket is the one in use.
LEMMA InitRoute == Init => RouteInv
<1> SUFFICES ASSUME Init PROVE RouteInv
  OBVIOUS
<1>1. \A i \in Socks : i # 1 => socks[i].st = "none"
  BY RecordsTyped DEF Init
<1>2. dt.st = "none" /\ rt.st = "RelayAttached" /\ timer = FALSE /\ app = "on" /\ pend = << >> /\ cur = 1
  BY RecordsTyped DEF Init, Tracker
<1>3. QED
  BY <1>1, <1>2 DEF RouteInv, NoForgottenSocket

\* No step forgets a socket, opens a second one, or leaves input behind on a
\* route that has become able to take it.
LEMMA NextRoute == TypeOK /\ StreamInv /\ RouteInv /\ [Next]_vars => RouteInv'
<1> SUFFICES ASSUME TypeOK, StreamInv, RouteInv, [Next]_vars PROVE RouteInv'
  OBVIOUS
<1>0. /\ rt \in Track /\ dt \in Direct /\ socks \in [Socks -> Sock] /\ cur \in Socks \cup {0}
      /\ 0 \notin Socks /\ app \in {"on", "suspended"} /\ timer \in BOOLEAN
      /\ rt.st \in {"RelayAttached", "DirectConnecting", "DirectReplay", "DirectActive", "RelayReattaching"}
      /\ dt.st \in {"none", "signal", "hello", "authed", "closing"}
      /\ Socks \subseteq Chans /\ DirectChan \in Chans
  <2>1. 0 \notin Socks
    BY RouteAssumption DEF Socks
  <2>2. QED
    BY <2>1 DEF TypeOK, Track, Direct, Chans
<1>fault. faults \in Nat /\ faults <= MaxFaults
  BY RouteAssumption DEF TypeOK
<1>kept. ASSUME rt'.st = rt.st, dt'.st = dt.st, UNCHANGED <<cur, timer, app>>,
                pend' = pend \/ pend' = << >>, \A i \in Socks : socks'[i].st = socks[i].st
         PROVE  RouteInv'
  BY <1>0, <1>kept DEF RouteInv, NoForgottenSocket, WSOpen
<1>1. CASE SendInput
  <2>1. UNCHANGED <<rt, dt, cur, timer, app, socks>>
    BY <1>1 DEF SendInput, link
  <2>2. \/ pend' = pend
        \/ rt.st = "DirectActive" /\ dt.st # "authed"
        \/ rt.st = "RelayReattaching"
        \/ rt.st # "DirectActive" /\ (cur = 0 \/ socks[cur].st = "connecting")
    BY <1>0, <1>1, InputRouteFacts DEF SendInput
  <2>3. QED
    BY <1>0, <2>1, <2>2 DEF RouteInv, NoForgottenSocket, WSOpen
<1>2. CASE ClaimDriver
  BY <1>2, <1>kept DEF ClaimDriver, link, input
<1>3. ASSUME NEW i \in Socks, SocketOpens(i) PROVE RouteInv'
  <2>1. UNCHANGED <<rt, dt, cur, timer, app>> /\ cur = i /\ socks[i].st = "connecting"
    BY <1>3 DEF SocketOpens
  <2>2. CASE AcceptsRoute(rt, socks[i].gen, "relay")
    <3>1. /\ rt.st # "DirectActive"
          /\ socks'[i].st = "open" /\ \A j \in Socks : j # i => socks'[j] = socks[j]
      BY <1>0, <1>3, <2>2 DEF SocketOpens, AcceptsRoute, Sock
    <3>2. CASE InputRoute(rt) = "relay"
      <4>1. pend' = << >>
        BY <1>3, <2>2, <3>2 DEF SocketOpens, Flush
      <4>2. QED
        BY <1>0, <2>1, <3>1, <4>1 DEF RouteInv, NoForgottenSocket
    <3>3. CASE InputRoute(rt) # "relay"
      <4>1. pend' = pend /\ rt.st = "RelayReattaching"
        BY <1>0, <1>3, <2>2, <3>1, <3>3, InputRouteFacts DEF SocketOpens
      <4>2. QED
        BY <1>0, <2>1, <3>1, <4>1 DEF RouteInv, NoForgottenSocket
    <3>4. QED
      BY <3>2, <3>3
  <2>3. CASE ~AcceptsRoute(rt, socks[i].gen, "relay")
    <3>1. socks'[i].st = "closing" /\ pend' = pend /\ \A j \in Socks : j # i => socks'[j] = socks[j]
      BY <1>0, <1>3, <2>3, RecordsTyped DEF SocketOpens
    <3>2. QED
      BY <1>0, <2>1, <3>1 DEF RouteInv, NoForgottenSocket, WSOpen
  <2>4. QED
    BY <2>2, <2>3
<1>4. ASSUME NEW i \in Socks, SocketClosed(i) PROVE RouteInv'
  <2>1. UNCHANGED <<rt, dt, app, pend>>
        /\ IF cur = i THEN cur' = 0 /\ timer' = (app = "on") ELSE UNCHANGED <<cur, timer>>
    BY <1>4 DEF SocketClosed, input
  <2>2. socks'[i].st = "none" /\ \A j \in Socks : j # i => socks'[j] = socks[j]
    BY <1>0, <1>4, RecordsTyped DEF SocketClosed
  <2>3. QED
    BY <1>0, <2>1, <2>2 DEF RouteInv, NoForgottenSocket, WSOpen
<1>5. ASSUME NEW i \in Socks, RelayOut(i) PROVE RouteInv'
  <2>1. PICK p \in (socks[i].pos + 1)..Len(log) :
           socks' = [socks EXCEPT ![i].pos = p] /\ rt' = AcceptOutput(rt, "relay", SeqAt(p))
    BY <1>5 DEF RelayOut
  <2>2. rt'.st = rt.st
    BY <1>0, <2>1 DEF AcceptOutput, Track
  <2>3. \A j \in Socks : socks'[j].st = socks[j].st
    BY <1>0, <2>1 DEF Sock
  <2>4. QED
    BY <1>5, <1>kept, <2>2, <2>3 DEF RelayOut, input
<1>6. ASSUME NEW i \in Socks, RelayEnd(i) PROVE RouteInv'
  <2>1. UNCHANGED <<cur, timer, app>>
    BY <1>6 DEF RelayEnd
  <2>2. \A j \in Socks : socks'[j].st = socks[j].st
    BY <1>0, <1>6 DEF RelayEnd, Sock
  <2>3. CASE rt.st = "RelayReattaching"
    <3>1. rt' = [rt EXCEPT !.st = "RelayAttached"] /\ UNCHANGED dt /\ pend' = << >>
      BY <1>6, <2>3 DEF RelayEnd, Flush
    <3>2. rt'.st = "RelayAttached"
      BY <1>0, <3>1 DEF Track
    <3>3. QED
      BY <1>0, <2>1, <2>2, <2>3, <3>1, <3>2 DEF RouteInv, NoForgottenSocket
  <2>4. CASE rt.st # "RelayReattaching"
    <3>1. MaybeStartDirect(rt, prefer, attempted) /\ UNCHANGED pend
      BY <1>6, <2>4 DEF RelayEnd
    <3>2. prefer \in BOOLEAN /\ attempted \in BOOLEAN
      BY DEF TypeOK
    <3>3. \/ rt' = rt /\ dt' = dt
          \/ /\ rt.st = "RelayAttached" /\ app = "on"
             /\ rt'.st = "DirectConnecting" /\ dt'.st = "signal"
      BY <3>1, <3>2, StartDirectFacts
    <3>4. CASE rt' = rt /\ dt' = dt
      BY <1>kept, <2>1, <2>2, <3>1, <3>4
    <3>5. CASE rt.st = "RelayAttached" /\ app = "on" /\ rt'.st = "DirectConnecting" /\ dt'.st = "signal"
      BY <1>0, <2>1, <2>2, <3>1, <3>5 DEF RouteInv, NoForgottenSocket, WSOpen
    <3>6. QED
      BY <3>3, <3>4, <3>5
  <2>5. QED
    BY <2>3, <2>4
<1>7. ASSUME NEW i \in Socks, RelayMeta(i) PROVE RouteInv'
  <2>1. \A j \in Socks : socks'[j].st = socks[j].st
    BY <1>0, <1>7 DEF RelayMeta, Sock
  <2>2. QED
    BY <1>7, <1>kept, <2>1 DEF RelayMeta, input
<1>open. ASSUME NEW r \in Track, NEW on \in BOOLEAN, NEW spent \in 0..1, faults + spent <= MaxFaults,
                OpenWS(r, on, spent), rt'.st = r.st, r.st # "DirectActive", cur = 0,
                on = (app' = "on"), app' \in {"on", "suspended"}, dt'.st = "none", pend' = pend
         PROVE  RouteInv'
  <2>1. \/ (~on \/ r.st = "DirectActive") /\ timer' = FALSE /\ UNCHANGED <<cur, socks>>
        \/ /\ on /\ r.st # "DirectActive" /\ timer' = FALSE
           /\ cur' \in Socks /\ socks'[cur'].st = "connecting"
           /\ \A i \in Socks : i # cur' => socks'[i] = socks[i]
        \/ /\ on /\ r.st # "DirectActive" /\ timer' = TRUE /\ cur' = 0 /\ socks' = socks
    BY <1>open, OpenFacts
  <2>2. \A i \in Socks : socks[i].st \notin {"connecting", "open"}
    BY <1>0, <1>open DEF RouteInv, NoForgottenSocket
  <2>3. QED
    BY <1>0, <1>open, <2>1, <2>2 DEF RouteInv, NoForgottenSocket, WSOpen
<1>8. CASE TimerFires
  <2>1. UNCHANGED <<rt, dt, app, pend>> /\ timer
    BY <1>8 DEF TimerFires, input
  <2>2. OpenWS(rt, TRUE, 0)
    BY <1>8 DEF TimerFires
  <2>3. 0 \in 0..1 /\ faults + 0 <= MaxFaults
    BY <1>fault
  <2>4. cur = 0 /\ app = "on"
    BY <2>1 DEF RouteInv
  <2>5. /\ \/ rt.st = "DirectActive" /\ timer' = FALSE /\ UNCHANGED <<cur, socks>>
           \/ /\ rt.st # "DirectActive" /\ timer' = FALSE
              /\ cur' \in Socks /\ socks'[cur'].st = "connecting"
              /\ \A i \in Socks : i # cur' => socks'[i] = socks[i]
           \/ /\ rt.st # "DirectActive" /\ timer' = TRUE /\ cur' = 0 /\ socks' = socks
    BY <1>0, <2>2, <2>3, OpenFacts
  <2>6. \A i \in Socks : socks[i].st \notin {"connecting", "open"}
    BY <1>0, <2>4 DEF RouteInv, NoForgottenSocket
  <2>7. QED
    BY <1>0, <2>1, <2>4, <2>5, <2>6 DEF RouteInv, NoForgottenSocket, WSOpen
<1>9. CASE DirectSignalled
  <2>1. dt.st = "signal" /\ dt'.st = "hello" /\ UNCHANGED <<rt, cur, socks, timer, app, pend>>
    BY <1>0, <1>9 DEF DirectSignalled, link, input, Direct
  <2>2. QED
    BY <1>0, <2>1 DEF RouteInv, NoForgottenSocket, WSOpen
<1>10. CASE DirectAuthenticated
  <2>1. dt.st = "hello" /\ dt'.st = "authed" /\ UNCHANGED <<cur, socks, timer, app, pend>>
    BY <1>0, <1>10 DEF DirectAuthenticated, link, input, Direct
  <2>2. rt'.st = "DirectReplay"
    BY <1>0, <1>10 DEF DirectAuthenticated, Track
  <2>3. QED
    BY <1>0, <2>1, <2>2 DEF RouteInv, NoForgottenSocket, WSOpen
<1>11. CASE DirectCloses
  <2>1. dt.st = "authed" /\ dt'.st = "closing" /\ UNCHANGED <<rt, cur, socks, timer, app, pend>>
    BY <1>0, <1>11 DEF DirectCloses, link, input, Direct
  <2>2. QED
    BY <1>0, <2>1 DEF RouteInv, NoForgottenSocket, WSOpen
<1>activate. ASSUME NEW r \in Track, r.st = rt.st, NEW d \in Direct, d.st = dt.st,
                    MaybeActivateDirect(r, d), app' = app, dt.st = "authed"
             PROVE  RouteInv'
  <2>1. \/ rt' = r /\ dt' = d /\ UNCHANGED <<cur, socks, timer, up, claim, pend>>
        \/ /\ rt'.st = "DirectActive"
           /\ cur' = 0 /\ timer' = FALSE /\ socks' = Dropped
           /\ (dt' = d /\ pend' = << >>) \/ dt'.st = "closing"
    BY <1>activate, ActivateFacts
  <2>2. \A i \in Socks : Dropped[i] = IF i = cur THEN Closing ELSE socks[i]
    BY DroppedTyped
  <2>3. Closing.st = "closing"
    BY RecordsTyped
  <2>4. CASE rt' = r /\ dt' = d /\ UNCHANGED <<cur, socks, timer, up, claim, pend>>
    BY <1>activate, <1>kept, <2>4
  <2>5. CASE /\ rt'.st = "DirectActive"
             /\ cur' = 0 /\ timer' = FALSE /\ socks' = Dropped
             /\ (dt' = d /\ pend' = << >>) \/ dt'.st = "closing"
    <3>1. \A i \in Socks : socks'[i].st \notin {"connecting", "open"}
      BY <1>0, <2>2, <2>3, <2>5 DEF RouteInv, NoForgottenSocket
    <3>2. QED
      BY <1>0, <1>activate, <2>5, <3>1 DEF RouteInv, NoForgottenSocket, WSOpen
  <2>6. QED
    BY <2>1, <2>4, <2>5
<1>12. CASE DirectOut
  <2>1. PICK p \in (dt.pos + 1)..Len(log) :
           MaybeActivateDirect(AcceptOutput(rt, "direct", SeqAt(p)), [dt EXCEPT !.pos = p])
    BY <1>12 DEF DirectOut
  <2>2. SeqAt(p) \in 0..MaxSeq
    <3>1. dt.pos \in Nat /\ Len(log) \in Nat
      BY SeqAtTyped DEF TypeOK, Direct
    <3>2. p \in 0..Len(log)
      BY <2>1, <3>1
    <3>3. QED
      BY <3>2, SeqAtTyped
  <2>3. AcceptOutput(rt, "direct", SeqAt(p)) \in Track /\ AcceptOutput(rt, "direct", SeqAt(p)).st = rt.st
    BY <1>0, <2>2, TrackTyped
  <2>4. /\ [dt EXCEPT !.pos = p] \in Direct /\ [dt EXCEPT !.pos = p].st = dt.st
        /\ dt.st = "authed" /\ app' = app
    <3>1. dt \in Direct /\ p \in Nat
      BY <2>1, SeqAtTyped DEF TypeOK, Direct
    <3>2. QED
      BY <1>12, <3>1 DEF DirectOut, Direct
  <2>5. QED
    BY <1>activate, <2>1, <2>3, <2>4
<1>13. CASE DirectReady
  <2>1. PICK p \in dt.pos..Len(log) :
           MaybeActivateDirect(NoteDirectReady(rt, SeqAt(p)), [dt EXCEPT !.pos = p, !.ph = "snap"])
    BY <1>13 DEF DirectReady
  <2>2. SeqAt(p) \in 0..MaxSeq
    <3>1. dt.pos \in Nat /\ Len(log) \in Nat
      BY SeqAtTyped DEF TypeOK, Direct
    <3>2. p \in 0..Len(log)
      BY <2>1, <3>1
    <3>3. QED
      BY <3>2, SeqAtTyped
  <2>3. NoteDirectReady(rt, SeqAt(p)) \in Track /\ NoteDirectReady(rt, SeqAt(p)).st = rt.st
    BY <1>0, <2>2, TrackTyped
  <2> DEFINE d == [dt EXCEPT !.pos = p, !.ph = "snap"]
  <2>4. d \in Direct /\ d.st = dt.st /\ dt.st = "authed" /\ app' = app
    <3>1. dt \in Direct /\ p \in Nat
      BY <2>1, SeqAtTyped DEF TypeOK, Direct
    <3>2. QED
      BY <1>13, <3>1 DEF DirectReady, Direct
  <2>5. QED
    BY <1>activate, <2>1, <2>3, <2>4
<1>14. CASE DirectMeta
  <2>1. dt'.st = dt.st
    BY <1>0, <1>14 DEF DirectMeta, Direct
  <2>2. QED
    BY <1>14, <1>kept, <2>1 DEF DirectMeta, link, input
<1>nodirect. NoDirect.st = "none"
  BY RecordsTyped
<1>15. CASE DirectFails
  <2>1. UNCHANGED <<app, pend>> /\ dt' = NoDirect /\ dt.st # "none"
    BY <1>15 DEF DirectFails, input
  <2>2. app = "on"
    BY <1>0, <2>1 DEF RouteInv
  <2>3. CASE rt.st = "DirectActive"
    <3> DEFINE spent == IF dt.st = "closing" THEN 0 ELSE 1
    <3>1. rt' = DirectLost(rt) /\ OpenWS(DirectLost(rt), TRUE, spent)
      BY <1>15, <2>3 DEF DirectFails
    <3>2. spent \in 0..1 /\ faults + spent <= MaxFaults
      BY <1>fault, <1>15, RouteAssumption DEF DirectFails
    <3> HIDE DEF spent
    <3>3. DirectLost(rt) \in Track /\ DirectLost(rt).st = "RelayReattaching"
      BY <1>0, RouteTyped
    <3>4. cur = 0
      BY <2>3 DEF RouteInv
    <3>5. TRUE \in BOOLEAN /\ TRUE = (app' = "on") /\ app' \in {"on", "suspended"} /\ dt'.st = "none"
      BY <1>nodirect, <2>1, <2>2
    <3>6. rt'.st = DirectLost(rt).st /\ DirectLost(rt).st # "DirectActive" /\ pend' = pend
      BY <2>1, <3>1, <3>3
    <3>7. QED
      BY <1>open, <3>1, <3>2, <3>3, <3>4, <3>5, <3>6
  <2>4. CASE rt.st # "DirectActive"
    <3>1. rt' = AbortDirect(rt) /\ UNCHANGED <<cur, socks, timer>>
      BY <1>15, <2>4 DEF DirectFails, link
    <3>2. rt'.st = "RelayAttached"
      BY <1>0, <3>1, RouteTyped
    <3>3. rt.st \in {"DirectConnecting", "DirectReplay"}
      BY <1>0, <2>1, <2>4 DEF RouteInv
    <3>4. QED
      BY <1>0, <1>nodirect, <2>1, <2>2, <3>1, <3>2, <3>3 DEF RouteInv, NoForgottenSocket, WSOpen
  <2>5. QED
    BY <2>3, <2>4
<1>16. ASSUME NEW on \in BOOLEAN, SetPreferDirect(on) PROVE RouteInv'
  <2>1. UNCHANGED <<app, pend>> /\ faults < MaxFaults
    BY <1>16 DEF SetPreferDirect, input
  <2>2. CASE on
    <3>1. UNCHANGED <<cur, socks, timer>>
      BY <1>16, <2>2 DEF SetPreferDirect, link
    <3>2. MaybeStartDirect(rt, TRUE, FALSE) \/ UNCHANGED <<rt, dt>>
      BY <1>16, <2>2 DEF SetPreferDirect
    <3>3. TRUE \in BOOLEAN /\ FALSE \in BOOLEAN
      OBVIOUS
    <3>4. \/ rt' = rt /\ dt' = dt
          \/ /\ rt.st = "RelayAttached" /\ app = "on"
             /\ rt'.st = "DirectConnecting" /\ dt'.st = "signal"
      BY <3>2, <3>3, StartDirectFacts
    <3>5. CASE rt' = rt /\ dt' = dt
      BY <1>kept, <2>1, <3>1, <3>5
    <3>6. CASE rt.st = "RelayAttached" /\ app = "on" /\ rt'.st = "DirectConnecting" /\ dt'.st = "signal"
      BY <1>0, <2>1, <3>1, <3>6 DEF RouteInv, NoForgottenSocket, WSOpen
    <3>7. QED
      BY <3>4, <3>5, <3>6
  <2>3. CASE ~on
    <3>1. /\ dt' = NoDirect
          /\ \/ /\ rt.st \in {"DirectConnecting", "DirectReplay"}
                /\ rt' = AbortDirect(rt) /\ UNCHANGED <<cur, socks, timer>>
             \/ /\ rt.st = "DirectActive"
                /\ rt' = DirectLost(rt) /\ OpenWS(DirectLost(rt), app = "on", 1)
             \/ rt.st \in {"RelayAttached", "RelayReattaching"} /\ UNCHANGED <<rt, cur, socks, timer>>
      BY <1>16, <2>3 DEF SetPreferDirect, link
    <3>2. /\ AbortDirect(rt).st = "RelayAttached"
          /\ DirectLost(rt) \in Track /\ DirectLost(rt).st = "RelayReattaching"
      BY <1>0, RouteTyped
    <3>3. CASE /\ rt.st \in {"DirectConnecting", "DirectReplay"}
               /\ rt' = AbortDirect(rt) /\ UNCHANGED <<cur, socks, timer>>
      BY <1>0, <1>nodirect, <2>1, <3>1, <3>2, <3>3 DEF RouteInv, NoForgottenSocket, WSOpen
    <3>4. CASE rt.st = "DirectActive" /\ rt' = DirectLost(rt) /\ OpenWS(DirectLost(rt), app = "on", 1)
      <4>1. 1 \in 0..1 /\ faults + 1 <= MaxFaults
        BY <1>fault, <2>1, RouteAssumption
      <4>2. (app = "on") \in BOOLEAN /\ (app = "on") = (app' = "on") /\ app' \in {"on", "suspended"}
        BY <1>0, <2>1
      <4>3. cur = 0 /\ dt'.st = "none" /\ rt'.st = DirectLost(rt).st
            /\ DirectLost(rt).st # "DirectActive" /\ pend' = pend
        BY <1>nodirect, <2>1, <3>1, <3>2, <3>4 DEF RouteInv
      <4>4. QED
        BY <1>open, <3>2, <3>4, <4>1, <4>2, <4>3
    <3>5. CASE rt.st \in {"RelayAttached", "RelayReattaching"} /\ UNCHANGED <<rt, cur, socks, timer>>
      BY <1>0, <1>nodirect, <2>1, <3>1, <3>5 DEF RouteInv, NoForgottenSocket, WSOpen
    <3>6. QED
      BY <3>1, <3>3, <3>4, <3>5
  <2>4. QED
    BY <2>2, <2>3
<1>17. CASE Suspend
  <2>1. /\ UNCHANGED <<rt, pend>> /\ app' = "suspended" /\ dt' = NoDirect
        /\ socks' = Dropped /\ cur' = 0 /\ timer' = FALSE
    BY <1>17 DEF Suspend, input
  <2>2. \A i \in Socks : Dropped[i] = IF i = cur THEN Closing ELSE socks[i]
    BY DroppedTyped
  <2>3. Closing.st = "closing"
    BY RecordsTyped
  <2>4. \A i \in Socks : socks'[i].st \notin {"connecting", "open"}
    BY <1>0, <2>1, <2>2, <2>3 DEF RouteInv, NoForgottenSocket
  <2>5. QED
    BY <1>0, <1>nodirect, <2>1, <2>4 DEF RouteInv, NoForgottenSocket, WSOpen
<1>18. CASE Attach
  <2>1. /\ UNCHANGED <<dt, pend>> /\ app = "suspended" /\ app' = "on" /\ rt' = Tracker(rt.com)
        /\ OpenWS(Tracker(rt.com), TRUE, 0)
    BY <1>18 DEF Attach, input
  <2>2. rt.com \in 0..MaxSeq
    BY DEF TypeOK, Track
  <2>3. Tracker(rt.com) \in Track /\ Tracker(rt.com).st = "RelayAttached"
    BY <1>0, <2>2, TrackTyped
  <2>4. 0 \in 0..1 /\ faults + 0 <= MaxFaults
    BY <1>fault
  <2>5. cur = 0 /\ dt'.st = "none"
    BY <2>1 DEF RouteInv
  <2>6. TRUE \in BOOLEAN /\ TRUE = (app' = "on") /\ app' \in {"on", "suspended"}
    BY <2>1
  <2>7. rt'.st = Tracker(rt.com).st /\ Tracker(rt.com).st # "DirectActive" /\ pend' = pend
    BY <2>1, <2>3
  <2>8. QED
    BY <1>open, <2>1, <2>3, <2>4, <2>5, <2>6, <2>7
<1>19. ASSUME Produce \/ (\E d \in Drivers : DriverChanges(d)) \/ (\E ch \in Chans : HostTakes(ch))
              \/ UNCHANGED vars
       PROVE  RouteInv'
  BY <1>19, <1>kept DEF Produce, DriverChanges, HostTakes, link, input, vars
<1>20. QED
  BY <1>1, <1>2, <1>3, <1>4, <1>5, <1>6, <1>7, <1>8, <1>9, <1>10, <1>11, <1>12, <1>13, <1>14,
     <1>15, <1>16, <1>17, <1>18, <1>19 DEF Next

-----------------------------------------------------------------------------
(* What is typed *)

\* With U on its way, P queued, T typed and G taken: the queue holds inputs in the
\* order typed and younger than everything sent or taken; what was sent and not taken is
\* in one channel once, and was not taken before.  A claim (0) is no input.
Ordered(U, P, T, G) ==
  /\ \A i \in DOMAIN P : P[i] <= T
  /\ \A i, j \in DOMAIN P : i < j => P[i] < P[j]
  /\ \A k \in Chans : \A i \in DOMAIN U[k] : U[k][i] <= T
  /\ \A k, l \in Chans : \A i \in DOMAIN U[k], j \in DOMAIN U[l] :
        U[k][i] = U[l][j] /\ U[k][i] # 0 => k = l /\ i = j
  /\ \A k \in Chans : \A i \in DOMAIN U[k], j \in DOMAIN G : U[k][i] # G[j]
  /\ \A j \in DOMAIN G : G[j] <= T
  /\ \A n \in DOMAIN P : /\ \A k \in Chans : \A j \in DOMAIN U[k] : U[k][j] < P[n]
                         /\ \A j \in DOMAIN G : G[j] < P[n]

InputInv == Ordered(up, pend, typed, got)

\* Positions and elements of a sequence of inputs or claims.
LEMMA InputsAreNumbers ==
  ASSUME NEW a \in {0, 1}, NEW s \in Seq(a..MaxInput)
  PROVE  \A n \in DOMAIN s : n \in Nat /\ n # Len(s) + 1 /\ s[n] \in Nat /\ s[n] >= a
<1>1. Len(s) \in Nat /\ DOMAIN s = 1..Len(s)
  BY LenProperties
<1>2. \A n \in 1..Len(s) : s[n] \in a..MaxInput
  BY ElementOfSeq
<1>3. \A x \in a..MaxInput : x \in Nat /\ x >= a
  BY RouteAssumption
<1>4. QED
  BY <1>1, <1>2, <1>3

\* Losing what channels carry disturbs no order.
LEMMA LosingKeepsOrder ==
  ASSUME NEW U, NEW W, NEW P, NEW T, NEW G, Ordered(U, P, T, G),
         \A k \in Chans : W[k] \in {<< >>, U[k]}
  PROVE  Ordered(W, P, T, G)
<1>1. \A k \in Chans : \A i \in DOMAIN W[k] : i \in DOMAIN U[k] /\ W[k][i] = U[k][i]
  OBVIOUS
<1>2. QED
  BY <1>1 DEF Ordered

\* Claims go anywhere.
LEMMA ClaimsKeepOrder ==
  ASSUME NEW U \in [Chans -> Seq(0..MaxInput)], NEW P \in Seq(1..MaxInput), NEW T \in Nat,
         NEW G \in Seq(1..MaxInput), Ordered(U, P, T, G),
         NEW ch \in Chans, NEW z \in Seq({0})
  PROVE  Ordered([U EXCEPT ![ch] = @ \o z], P, T, G)
<1> DEFINE W == [U EXCEPT ![ch] = @ \o z]
<1>1. U[ch] \in Seq(0..MaxInput) /\ W[ch] = U[ch] \o z /\ \A k \in Chans : k # ch => W[k] = U[k]
  OBVIOUS
<1> HIDE DEF W
<1>2. ASSUME NEW k \in Chans, NEW i \in DOMAIN W[k]
      PROVE  W[k][i] = 0 \/ (i \in DOMAIN U[k] /\ W[k][i] = U[k][i])
  <2>1. CASE k # ch
    BY <1>1, <2>1
  <2>2. CASE k = ch
    <3>1. Len(U[ch]) \in Nat /\ Len(z) \in Nat /\ DOMAIN U[ch] = 1..Len(U[ch])
      BY <1>1, LenProperties
    <3>2. i \in 1..(Len(U[ch]) + Len(z))
      BY <1>1, <2>2, ConcatProperties
    <3>3. CASE i <= Len(U[ch])
      BY <1>1, <2>2, <3>1, <3>2, <3>3, ConcatProperties
    <3>4. CASE i > Len(U[ch])
      <4>1. W[k][i] = z[i - Len(U[ch])] /\ i - Len(U[ch]) \in 1..Len(z)
        BY <1>1, <2>2, <3>1, <3>2, <3>4, ConcatProperties
      <4>2. QED
        BY <4>1, ElementOfSeq
    <3>5. QED
      BY <3>1, <3>2, <3>3, <3>4
  <2>3. QED
    BY <2>1, <2>2
<1>3. \A n \in DOMAIN P : P[n] \in Nat /\ P[n] >= 1
  BY InputsAreNumbers
<1>4. \A n \in DOMAIN G : G[n] \in Nat /\ G[n] >= 1
  BY InputsAreNumbers
<1>5. \A k \in Chans : \A i \in DOMAIN W[k] :
         /\ W[k][i] <= T /\ (\A j \in DOMAIN G : W[k][i] # G[j]) /\ \A j \in DOMAIN P : W[k][i] < P[j]
  <2> SUFFICES ASSUME NEW k \in Chans, NEW i \in DOMAIN W[k]
               PROVE  /\ W[k][i] <= T /\ (\A j \in DOMAIN G : W[k][i] # G[j])
                      /\ \A j \in DOMAIN P : W[k][i] < P[j]
    OBVIOUS
  <2>1. CASE W[k][i] = 0
    BY <1>3, <1>4, <2>1
  <2>2. CASE i \in DOMAIN U[k] /\ W[k][i] = U[k][i]
    BY <2>2 DEF Ordered
  <2>3. QED
    BY <1>2, <2>1, <2>2
<1>6. \A k, l \in Chans : \A i \in DOMAIN W[k], j \in DOMAIN W[l] :
         W[k][i] = W[l][j] /\ W[k][i] # 0 => k = l /\ i = j
  BY <1>2 DEF Ordered
<1>7. Ordered(W, P, T, G)
  BY <1>5, <1>6 DEF Ordered
<1>8. QED
  BY <1>7 DEF W

\* The queue flushed behind what its channel carries.
LEMMA FlushKeepsOrder ==
  ASSUME NEW U \in [Chans -> Seq(0..MaxInput)], NEW P \in Seq(1..MaxInput), NEW T \in Nat,
         NEW G \in Seq(1..MaxInput), Ordered(U, P, T, G), NEW ch \in Chans
  PROVE  /\ Ordered([U EXCEPT ![ch] = @ \o P], << >>, T, G)
         /\ \A k \in Chans : \A i \in DOMAIN [U EXCEPT ![ch] = @ \o P][k] :
              \/ \E j \in DOMAIN U[k] : [U EXCEPT ![ch] = @ \o P][k][i] = U[k][j]
              \/ \E j \in DOMAIN P : [U EXCEPT ![ch] = @ \o P][k][i] = P[j]
<1> DEFINE W == [U EXCEPT ![ch] = @ \o P]
<1>1. U[ch] \in Seq(0..MaxInput) /\ W[ch] = U[ch] \o P /\ \A k \in Chans : k # ch => W[k] = U[k]
  OBVIOUS
<1> HIDE DEF W
<1>2. Len(U[ch]) \in Nat /\ Len(P) \in Nat /\ DOMAIN U[ch] = 1..Len(U[ch]) /\ DOMAIN P = 1..Len(P)
  BY <1>1, LenProperties
<1>3. ASSUME NEW k \in Chans, NEW i \in DOMAIN W[k]
      PROVE  \/ i \in DOMAIN U[k] /\ W[k][i] = U[k][i]
             \/ k = ch /\ i \in Nat /\ i - Len(U[ch]) \in DOMAIN P /\ W[k][i] = P[i - Len(U[ch])]
  <2>1. CASE k # ch
    BY <1>1, <2>1
  <2>2. CASE k = ch
    <3>1. i \in 1..(Len(U[ch]) + Len(P))
      BY <1>1, <2>2, ConcatProperties
    <3>2. CASE i <= Len(U[ch])
      BY <1>1, <1>2, <2>2, <3>1, <3>2, ConcatProperties
    <3>3. CASE i > Len(U[ch])
      BY <1>1, <1>2, <2>2, <3>1, <3>3, ConcatProperties
    <3>4. QED
      BY <1>2, <3>1, <3>2, <3>3
  <2>3. QED
    BY <2>1, <2>2
<1>4. /\ \A n \in DOMAIN P : P[n] \in Nat
      /\ \A k \in Chans : \A i \in DOMAIN U[k] : U[k][i] \in Nat
      /\ \A n \in DOMAIN G : G[n] \in Nat
  BY InputsAreNumbers
<1>5. /\ \A k \in Chans : \A i \in DOMAIN U[k], j \in DOMAIN P : U[k][i] # P[j]
      /\ \A i \in DOMAIN G, j \in DOMAIN P : G[i] # P[j]
  BY <1>4 DEF Ordered
<1>6. \A k \in Chans : \A i \in DOMAIN W[k] : W[k][i] <= T /\ \A j \in DOMAIN G : W[k][i] # G[j]
  <2> SUFFICES ASSUME NEW k \in Chans, NEW i \in DOMAIN W[k]
               PROVE  W[k][i] <= T /\ \A j \in DOMAIN G : W[k][i] # G[j]
    OBVIOUS
  <2>1. CASE i \in DOMAIN U[k] /\ W[k][i] = U[k][i]
    BY <2>1 DEF Ordered
  <2>2. CASE i - Len(U[ch]) \in DOMAIN P /\ W[k][i] = P[i - Len(U[ch])]
    <3> DEFINE m == i - Len(U[ch])
    <3>1. m \in DOMAIN P /\ W[k][i] = P[m]
      BY <2>2
    <3> HIDE DEF m
    <3>2. QED
      BY <1>5, <3>1 DEF Ordered
  <2>3. QED
    BY <1>3, <2>1, <2>2
<1>7. ASSUME NEW k \in Chans, NEW l \in Chans, NEW i \in DOMAIN W[k], NEW j \in DOMAIN W[l],
             W[k][i] = W[l][j], W[k][i] # 0
      PROVE  k = l /\ i = j
  <2>1. CASE i \in DOMAIN U[k] /\ W[k][i] = U[k][i]
    <3>1. j \in DOMAIN U[l] /\ W[l][j] = U[l][j]
      <4>1. \A m \in DOMAIN P : U[k][i] # P[m]
        BY <1>5, <2>1
      <4>2. W[l][j] = U[k][i]
        BY <1>7, <2>1
      <4>3. \/ j \in DOMAIN U[l] /\ W[l][j] = U[l][j]
            \/ j - Len(U[ch]) \in DOMAIN P /\ W[l][j] = P[j - Len(U[ch])]
        BY <1>3
      <4>4. QED
        BY <4>1, <4>2, <4>3
    <3>2. U[k][i] = U[l][j] /\ U[k][i] # 0 /\ i \in DOMAIN U[k]
      BY <1>7, <2>1, <3>1
    <3>3. QED
      BY <3>1, <3>2 DEF Ordered
  <2>2. CASE k = ch /\ i \in Nat /\ i - Len(U[ch]) \in DOMAIN P /\ W[k][i] = P[i - Len(U[ch])]
    <3>1. l = ch /\ j \in Nat /\ j - Len(U[ch]) \in DOMAIN P /\ W[l][j] = P[j - Len(U[ch])]
      <4>1. \A x \in DOMAIN U[l] : U[l][x] # P[i - Len(U[ch])]
        BY <1>5, <2>2
      <4>2. W[l][j] = P[i - Len(U[ch])]
        BY <1>7, <2>2
      <4>3. \/ j \in DOMAIN U[l] /\ W[l][j] = U[l][j]
            \/ l = ch /\ j \in Nat /\ j - Len(U[ch]) \in DOMAIN P /\ W[l][j] = P[j - Len(U[ch])]
        BY <1>3
      <4>4. QED
        BY <4>1, <4>2, <4>3
    <3>2. i - Len(U[ch]) = j - Len(U[ch])
      <4>1. P[i - Len(U[ch])] = P[j - Len(U[ch])]
        BY <1>7, <2>2, <3>1
      <4>2. \A x, y \in DOMAIN P : P[x] = P[y] => x = y
        <5>1. \A x, y \in DOMAIN P : x < y => P[x] < P[y]
          BY DEF Ordered
        <5>2. \A x, y \in DOMAIN P : x < y \/ y < x \/ x = y
          BY <1>2
        <5>3. \A x, y \in DOMAIN P : P[x] < P[y] => P[x] # P[y]
          BY <1>4
        <5>4. QED
          BY <5>1, <5>2, <5>3
      <4>3. QED
        BY <2>2, <3>1, <4>1, <4>2
    <3>3. QED
      BY <1>2, <2>2, <3>1, <3>2
  <2>3. QED
    BY <1>3, <2>1, <2>2
<1>8. Ordered(W, << >>, T, G)
  <2>1. \A i \in DOMAIN G : G[i] <= T
    BY DEF Ordered
  <2>2. DOMAIN << >> = {}
    OBVIOUS
  <2>3. QED
    BY <1>6, <1>7, <2>1, <2>2 DEF Ordered
<1>9. \A k \in Chans : \A i \in DOMAIN W[k] : \/ \E j \in DOMAIN U[k] : W[k][i] = U[k][j]
                                             \/ \E j \in DOMAIN P : W[k][i] = P[j]
  BY <1>3
<1>10. QED
  BY <1>8, <1>9 DEF W

\* The first n of the queue flushed, the rest kept.
LEMMA PartKeepsOrder ==
  ASSUME NEW U \in [Chans -> Seq(0..MaxInput)], NEW P \in Seq(1..MaxInput), NEW T \in Nat,
         NEW G \in Seq(1..MaxInput), Ordered(U, P, T, G), NEW ch \in Chans, NEW n \in 0..(Len(P) - 1)
  PROVE  Ordered([U EXCEPT ![ch] = @ \o SubSeq(P, 1, n)], SubSeq(P, n + 1, Len(P)), T, G)
<1> DEFINE A == SubSeq(P, 1, n)
           B == SubSeq(P, n + 1, Len(P))
           W == [U EXCEPT ![ch] = @ \o A]
<1>L. PICK L \in Nat : L = Len(P) /\ DOMAIN P = 1..L /\ n \in Nat /\ n < L
  BY LenProperties
<1>P. \A k \in 1..L : P[k] \in 1..MaxInput
  BY <1>L, ElementOfSeq
<1>0. n \in Int /\ n + 1 \in Int /\ 1 \in Int /\ L \in Int
  BY <1>L
<1>1. A \in Seq(1..MaxInput) /\ Len(A) = n /\ \A i \in 1..n : A[i] = P[i]
  <2>1. \A i \in 1..n : P[i] \in 1..MaxInput
    <3>1. \A i \in 1..n : i \in 1..L
      BY <1>L
    <3>2. QED
      BY <1>P, <3>1
  <2>2. A \in Seq(1..MaxInput) /\ Len(A) = (IF 1 <= n THEN n - 1 + 1 ELSE 0)
        /\ \A i \in 1..(n - 1 + 1) : A[i] = P[1 + i - 1]
    BY <1>0, <2>1, SubSeqProperties
  <2>3. QED
    BY <1>L, <2>2
<1>2. B \in Seq(1..MaxInput) /\ Len(B) = L - n /\ \A i \in 1..(L - n) : B[i] = P[i + n]
  <2>1. \A i \in (n + 1)..L : P[i] \in 1..MaxInput
    <3>1. \A i \in (n + 1)..L : i \in 1..L
      BY <1>L
    <3>2. QED
      BY <1>P, <3>1
  <2>2. B \in Seq(1..MaxInput) /\ Len(B) = (IF n + 1 <= L THEN L - (n + 1) + 1 ELSE 0)
        /\ \A i \in 1..(L - (n + 1) + 1) : B[i] = P[(n + 1) + i - 1]
    BY <1>0, <1>L, <2>1, SubSeqProperties
  <2> HIDE DEF B
  <2>3. /\ (IF n + 1 <= L THEN L - (n + 1) + 1 ELSE 0) = L - n /\ L - (n + 1) + 1 = L - n
        /\ \A i \in 1..(L - n) : (n + 1) + i - 1 = i + n
    BY <1>L
  <2>4. QED
    BY <2>2, <2>3
<1>3. DOMAIN A = 1..n /\ DOMAIN B = 1..(L - n)
  BY <1>1, <1>2, LenProperties
<1> HIDE DEF A, B, W
<1>4. \A i \in DOMAIN A : i \in DOMAIN P /\ A[i] = P[i] /\ i <= n
  BY <1>L, <1>1, <1>3
<1>5. \A i \in DOMAIN B : i + n \in DOMAIN P /\ B[i] = P[i + n] /\ n < i + n
  BY <1>L, <1>2, <1>3
<1>6. Ordered(U, A, T, G)
  BY <1>4 DEF Ordered
<1>7. /\ Ordered(W, << >>, T, G)
      /\ \A k \in Chans : \A i \in DOMAIN W[k] : \/ \E j \in DOMAIN U[k] : W[k][i] = U[k][j]
                                              \/ \E j \in DOMAIN A : W[k][i] = A[j]
  BY <1>1, <1>6, FlushKeepsOrder DEF W
<1>8. \A i \in DOMAIN B : /\ B[i] <= T
                          /\ \A k \in Chans : \A j \in DOMAIN U[k] : U[k][j] < B[i]
                          /\ \A j \in DOMAIN G : G[j] < B[i]
  BY <1>5 DEF Ordered
<1>9. \A i, j \in DOMAIN B : i < j => B[i] < B[j]
  <2>1. \A i, j \in DOMAIN B : i < j => i + n < j + n
    BY <1>L, <1>3
  <2>2. \A i, j \in DOMAIN P : i < j => P[i] < P[j]
    BY DEF Ordered
  <2>3. QED
    BY <1>5, <2>1, <2>2
<1>10. \A i \in DOMAIN A, j \in DOMAIN B : A[i] < B[j]
  <2>1. \A i \in DOMAIN A, j \in DOMAIN B : i < j + n
    BY <1>L, <1>3
  <2>2. \A i, j \in DOMAIN P : i < j => P[i] < P[j]
    BY DEF Ordered
  <2>3. QED
    BY <1>4, <1>5, <2>1, <2>2
<1>11. ASSUME NEW m \in DOMAIN B, NEW k \in Chans, NEW i \in DOMAIN W[k] PROVE W[k][i] < B[m]
  BY <1>7, <1>8, <1>10
<1>12. Ordered(W, B, T, G)
  BY <1>7, <1>8, <1>9, <1>11 DEF Ordered
<1>13. QED
  BY <1>12, <1>L DEF W, A, B

\* A new input goes behind an empty queue, to the queue's end, or nowhere.
LEMMA TypingKeepsOrder ==
  ASSUME NEW U \in [Chans -> Seq(0..MaxInput)], NEW P \in Seq(1..MaxInput), NEW T \in Nat,
         NEW G \in Seq(1..MaxInput), Ordered(U, P, T, G)
  PROVE  /\ Ordered(U, P, T + 1, G)
         /\ Ordered(U, Append(P, T + 1), T + 1, G)
         /\ P = << >> => \A ch \in Chans : Ordered([U EXCEPT ![ch] = Append(@, T + 1)], P, T + 1, G)
<1>0. /\ \A n \in DOMAIN P : n \in Nat /\ n # Len(P) + 1 /\ P[n] \in Nat /\ P[n] <= T
      /\ \A k \in Chans : \A n \in DOMAIN U[k] : n # Len(U[k]) + 1 /\ U[k][n] \in Nat /\ U[k][n] <= T
      /\ \A n \in DOMAIN G : G[n] \in Nat /\ G[n] <= T
  BY InputsAreNumbers DEF Ordered
<1>1. Ordered(U, P, T + 1, G)
  BY <1>0 DEF Ordered
<1>2. Ordered(U, Append(P, T + 1), T + 1, G)
  <2> DEFINE Q == Append(P, T + 1)
  <2>1. \A n \in DOMAIN Q : \/ n \in DOMAIN P /\ Q[n] = P[n]
                            \/ n = Len(P) + 1 /\ Q[n] = T + 1
    BY AppendProperties, LenProperties
  <2> HIDE DEF Q
  <2>2. \A n \in DOMAIN Q : Q[n] <= T + 1
    BY <1>0, <2>1
  <2>3. \A i, j \in DOMAIN Q : i < j => Q[i] < Q[j]
    <3>1. \A i \in DOMAIN P : i < Len(P) + 1
      BY LenProperties
    <3>2. \A i \in DOMAIN P : ~(Len(P) + 1 < i)
      BY LenProperties
    <3>3. ~(Len(P) + 1 < Len(P) + 1) /\ \A i \in DOMAIN P : P[i] < T + 1
      BY <1>0, LenProperties
    <3>4. QED
      BY <2>1, <3>2, <3>3 DEF Ordered
  <2>4. \A n \in DOMAIN Q : /\ \A k \in Chans : \A j \in DOMAIN U[k] : U[k][j] < Q[n]
                            /\ \A j \in DOMAIN G : G[j] < Q[n]
    BY <1>0, <2>1 DEF Ordered
  <2>5. Ordered(U, Q, T + 1, G)
    BY <1>0, <1>1, <2>2, <2>3, <2>4 DEF Ordered
  <2>6. QED
    BY <2>5 DEF Q
<1>3. ASSUME P = << >>, NEW ch \in Chans PROVE Ordered([U EXCEPT ![ch] = Append(@, T + 1)], P, T + 1, G)
  <2> DEFINE W == [U EXCEPT ![ch] = Append(@, T + 1)]
  <2>1. U[ch] \in Seq(0..MaxInput) /\ W[ch] = Append(U[ch], T + 1) /\ \A k \in Chans : k # ch => W[k] = U[k]
    OBVIOUS
  <2> HIDE DEF W
  <2>2. ASSUME NEW k \in Chans, NEW n \in DOMAIN W[k]
        PROVE  \/ n \in DOMAIN U[k] /\ W[k][n] = U[k][n]
               \/ k = ch /\ n = Len(U[ch]) + 1 /\ W[k][n] = T + 1
    <3>1. CASE k # ch
      BY <2>1, <3>1
    <3>2. CASE k = ch
      <4>1. U[ch] \in Seq(Nat) /\ T + 1 \in Nat
        <5>1. 0..MaxInput \subseteq Nat
          OBVIOUS
        <5>2. U[ch] \in Seq(Nat)
          BY <2>1, <5>1, SeqMonotonic
        <5>3. QED
          BY <5>2
      <4>2. /\ DOMAIN Append(U[ch], T + 1) = 1..(Len(U[ch]) + 1) /\ DOMAIN U[ch] = 1..Len(U[ch])
            /\ Append(U[ch], T + 1)[Len(U[ch]) + 1] = T + 1 /\ Len(U[ch]) \in Nat
            /\ \A m \in 1..Len(U[ch]) : Append(U[ch], T + 1)[m] = U[ch][m]
        BY <4>1, AppendProperties, LenProperties
      <4>3. n \in 1..(Len(U[ch]) + 1)
        BY <2>1, <3>2, <4>2
      <4>4. n \in 1..Len(U[ch]) \/ n = Len(U[ch]) + 1
        BY <4>2, <4>3
      <4>5. QED
        BY <2>1, <3>2, <4>2, <4>4
    <3>3. QED
      BY <3>1, <3>2
  <2>3. \A k \in Chans : \A i \in DOMAIN W[k] : W[k][i] <= T + 1 /\ \A j \in DOMAIN G : W[k][i] # G[j]
    <3> SUFFICES ASSUME NEW k \in Chans, NEW i \in DOMAIN W[k]
                 PROVE  W[k][i] <= T + 1 /\ \A j \in DOMAIN G : W[k][i] # G[j]
      OBVIOUS
    <3>1. CASE i \in DOMAIN U[k] /\ W[k][i] = U[k][i]
      BY <1>0, <3>1 DEF Ordered
    <3>2. CASE W[k][i] = T + 1
      BY <1>0, <3>2
    <3>3. QED
      BY <2>2, <3>1, <3>2
  <2>4. \A k, l \in Chans : \A i \in DOMAIN W[k], j \in DOMAIN W[l] :
           W[k][i] = W[l][j] /\ W[k][i] # 0 => k = l /\ i = j
    <3> SUFFICES ASSUME NEW k \in Chans, NEW l \in Chans, NEW i \in DOMAIN W[k], NEW j \in DOMAIN W[l],
                        W[k][i] = W[l][j], W[k][i] # 0
                 PROVE  k = l /\ i = j
      OBVIOUS
    <3>1. \/ i \in DOMAIN U[k] /\ W[k][i] = U[k][i]
          \/ k = ch /\ i = Len(U[ch]) + 1 /\ W[k][i] = T + 1
      BY <2>2
    <3>2. \/ j \in DOMAIN U[l] /\ W[l][j] = U[l][j]
          \/ l = ch /\ j = Len(U[ch]) + 1 /\ W[l][j] = T + 1
      BY <2>2
    <3>3. \A m \in Chans : \A n \in DOMAIN U[m] : U[m][n] # T + 1
      BY <1>0
    <3>4. CASE i \in DOMAIN U[k] /\ W[k][i] = U[k][i]
      <4>1. j \in DOMAIN U[l] /\ W[l][j] = U[l][j]
        BY <3>2, <3>3, <3>4
      <4>2. U[k][i] = U[l][j] /\ U[k][i] # 0
        BY <3>4, <4>1
      <4>3. QED
        BY <3>4, <4>1, <4>2 DEF Ordered
    <3>5. CASE k = ch /\ i = Len(U[ch]) + 1 /\ W[k][i] = T + 1
      BY <3>2, <3>3, <3>5
    <3>6. QED
      BY <3>1, <3>4, <3>5
  <2>5. DOMAIN P = {} /\ \A j \in DOMAIN G : G[j] <= T + 1
    BY <1>0, <1>3
  <2>6. Ordered(W, P, T + 1, G)
    BY <2>3, <2>4, <2>5 DEF Ordered
  <2>7. QED
    BY <2>6 DEF W
<1>4. QED
  BY <1>1, <1>2, <1>3

\* The host takes the head of a channel: an input it has not taken before.
LEMMA TakingKeepsOrder ==
  ASSUME NEW U \in [Chans -> Seq(0..MaxInput)], NEW P \in Seq(1..MaxInput), NEW T \in Nat,
         NEW G \in Seq(1..MaxInput), Ordered(U, P, T, G), NEW ch \in Chans, U[ch] # << >>
  PROVE  /\ Head(U[ch]) = 0 => Ordered([U EXCEPT ![ch] = Tail(@)], P, T, G)
         /\ Head(U[ch]) # 0 => /\ Ordered([U EXCEPT ![ch] = Tail(@)], P, T, Append(G, Head(U[ch])))
                               /\ Head(U[ch]) \in 1..T
                               /\ \A j \in DOMAIN G : G[j] # Head(U[ch])
<1> DEFINE W == [U EXCEPT ![ch] = Tail(@)]
<1>1. /\ U[ch] \in Seq(0..MaxInput) /\ W[ch] = Tail(U[ch])
      /\ \A k \in Chans : k # ch => W[k] = U[k]
  OBVIOUS
<1>2. /\ Len(U[ch]) \in Nat \ {0} /\ Head(U[ch]) = U[ch][1] /\ 1 \in DOMAIN U[ch]
      /\ \A n \in DOMAIN Tail(U[ch]) : n \in Nat /\ n + 1 \in DOMAIN U[ch] /\ n + 1 # 1
                                       /\ Tail(U[ch])[n] = U[ch][n + 1]
  BY <1>1, HeadTailProperties
<1> HIDE DEF W
<1>3. ASSUME NEW k \in Chans, NEW n \in DOMAIN W[k]
      PROVE  \E m \in DOMAIN U[k] : /\ W[k][n] = U[k][m]
                                    /\ (k = ch => m = n + 1 /\ n \in Nat /\ m # 1)
                                    /\ (k # ch => m = n)
  <2>1. CASE k = ch
    <3>1. n \in DOMAIN Tail(U[ch]) /\ W[k][n] = Tail(U[ch])[n]
      BY <1>1, <2>1
    <3>2. n \in Nat /\ n + 1 \in DOMAIN U[ch] /\ n + 1 # 1 /\ W[k][n] = U[ch][n + 1]
      BY <1>2, <3>1
    <3>3. QED
      BY <2>1, <3>2
  <2>2. CASE k # ch
    BY <1>1, <2>2
  <2>3. QED
    BY <2>1, <2>2
<1>4. \A k \in Chans : \A i \in DOMAIN W[k] :
         /\ W[k][i] <= T /\ (\A j \in DOMAIN G : W[k][i] # G[j]) /\ \A j \in DOMAIN P : W[k][i] < P[j]
  BY <1>3 DEF Ordered
<1>5. ASSUME NEW k \in Chans, NEW l \in Chans, NEW i \in DOMAIN W[k], NEW j \in DOMAIN W[l],
             W[k][i] = W[l][j], W[k][i] # 0
      PROVE  k = l /\ i = j
  <2>1. PICK x \in DOMAIN U[k] : /\ W[k][i] = U[k][x] /\ (k = ch => x = i + 1 /\ i \in Nat)
                                 /\ (k # ch => x = i)
    BY <1>3
  <2>2. PICK y \in DOMAIN U[l] : /\ W[l][j] = U[l][y] /\ (l = ch => y = j + 1 /\ j \in Nat)
                                 /\ (l # ch => y = j)
    BY <1>3
  <2>3. U[k][x] = U[l][y] /\ U[k][x] # 0
    BY <1>5, <2>1, <2>2
  <2>4. k = l /\ x = y
    BY <2>1, <2>2, <2>3 DEF Ordered
  <2>5. QED
    BY <2>1, <2>2, <2>4
<1>6. Ordered(W, P, T, G)
  BY <1>4, <1>5 DEF Ordered
<1>7. ASSUME U[ch][1] # 0
      PROVE  /\ Ordered(W, P, T, Append(G, U[ch][1])) /\ U[ch][1] \in 1..T
             /\ \A j \in DOMAIN G : G[j] # U[ch][1]
  <2>1. /\ U[ch][1] <= T /\ (\A j \in DOMAIN G : G[j] # U[ch][1])
        /\ \A j \in DOMAIN P : U[ch][1] < P[j]
    BY <1>2 DEF Ordered
  <2>2. U[ch][1] \in Nat
    BY <1>1, <1>2, InputsAreNumbers
  <2>3. U[ch][1] \in 1..T
    BY <1>7, <2>1, <2>2
  <2> DEFINE H == Append(G, U[ch][1])
  <2>4. \A n \in DOMAIN H : (n \in DOMAIN G /\ H[n] = G[n]) \/ H[n] = U[ch][1]
    <3>1. U[ch][1] \in Nat /\ G \in Seq(Nat)
      <4>1. 1..MaxInput \subseteq Nat
        OBVIOUS
      <4>2. QED
        BY <2>2, <4>1, SeqMonotonic
    <3>2. QED
      BY <3>1, AppendProperties, LenProperties
  <2> HIDE DEF H
  <2>5. \A k \in Chans : \A i \in DOMAIN W[k] : W[k][i] # U[ch][1]
    <3>1. ASSUME NEW k \in Chans, NEW i \in DOMAIN W[k] PROVE W[k][i] # U[ch][1]
      <4>1. PICK m \in DOMAIN U[k] : W[k][i] = U[k][m] /\ (k = ch => m # 1)
        BY <1>3
      <4>2. QED
        BY <1>2, <1>7, <4>1 DEF Ordered
    <3>2. QED
      BY <3>1
  <2>6. /\ \A k \in Chans : \A i \in DOMAIN W[k], j \in DOMAIN H : W[k][i] # H[j]
        /\ \A j \in DOMAIN H : H[j] <= T
        /\ \A n \in DOMAIN P : \A j \in DOMAIN H : H[j] < P[n]
    <3>1. \A j \in DOMAIN G : G[j] <= T /\ \A n \in DOMAIN P : G[j] < P[n]
      BY DEF Ordered
    <3>2. QED
      BY <1>4, <2>1, <2>4, <2>5, <3>1
  <2>7. Ordered(W, P, T, H)
    BY <1>6, <2>6 DEF Ordered
  <2>8. QED
    BY <2>1, <2>3, <2>7 DEF H
<1>8. QED
  BY <1>2, <1>6, <1>7 DEF W

\* Nothing is typed yet.
LEMMA InitInput == Init => InputInv
<1> SUFFICES ASSUME Init PROVE InputInv
  OBVIOUS
<1>1. pend = << >> /\ typed = 0 /\ got = << >>
  BY DEF Init
<1>2. DOMAIN pend = {} /\ DOMAIN got = {}
  BY <1>1
<1>3. \A k \in Chans : DOMAIN up[k] = {}
  <2>1. \A k \in Chans : up[k] = << >>
    BY DEF Init
  <2>2. DOMAIN << >> = {}
    OBVIOUS
  <2>3. QED
    BY <2>1, <2>2
<1>4. QED
  BY <1>2, <1>3 DEF InputInv, Ordered

\* A claim and the queue sent on one channel.
LEMMA FlushingKeepsOrder ==
  ASSUME TypeOK, InputInv, NEW ch \in Chans, NEW z \in Seq({0}),
         up' = [up EXCEPT ![ch] = (@ \o z) \o pend], pend' = << >>, UNCHANGED <<typed, got>>
  PROVE  InputInv'
<1>0. /\ up \in [Chans -> Seq(0..MaxInput)] /\ pend \in Seq(1..MaxInput) /\ typed \in Nat
      /\ got \in Seq(1..MaxInput)
  BY RouteAssumption DEF TypeOK
<1> DEFINE W == [up EXCEPT ![ch] = @ \o z]
<1>1. Ordered(W, pend, typed, got)
  BY <1>0, ClaimsKeepOrder DEF InputInv
<1>2. W \in [Chans -> Seq(0..MaxInput)]
  <2>1. up[ch] \in Seq(0..MaxInput) /\ z \in Seq(0..MaxInput)
    <3>1. {0} \subseteq 0..MaxInput
      BY RouteAssumption
    <3>2. QED
      BY <1>0, <3>1, SeqMonotonic
  <2>2. up[ch] \o z \in Seq(0..MaxInput)
    BY <2>1, ConcatProperties
  <2>3. QED
    BY <1>0, <2>2
<1>3. up' = [W EXCEPT ![ch] = @ \o pend]
  BY <1>0
<1> HIDE DEF W
<1>4. Ordered([W EXCEPT ![ch] = @ \o pend], << >>, typed, got)
  BY <1>0, <1>1, <1>2, FlushKeepsOrder
<1>5. QED
  BY <1>3, <1>4 DEF InputInv

\* Claims and part of the queue sent on one channel.
LEMMA RefusingKeepsOrder ==
  ASSUME TypeOK, InputInv, NEW ch \in Chans, Refused(ch), UNCHANGED <<typed, got>>
  PROVE  InputInv'
<1>0. /\ up \in [Chans -> Seq(0..MaxInput)] /\ pend \in Seq(1..MaxInput) /\ typed \in Nat
      /\ got \in Seq(1..MaxInput)
  BY RouteAssumption DEF TypeOK
<1>1. ASSUME NEW z \in Seq({0})
      PROVE  /\ Ordered([up EXCEPT ![ch] = @ \o z], pend, typed, got)
             /\ [up EXCEPT ![ch] = @ \o z] \in [Chans -> Seq(0..MaxInput)]
  <2>1. up[ch] \in Seq(0..MaxInput) /\ z \in Seq(0..MaxInput)
    <3>1. {0} \subseteq 0..MaxInput
      BY RouteAssumption
    <3>2. QED
      BY <1>0, <3>1, SeqMonotonic
  <2>2. up[ch] \o z \in Seq(0..MaxInput)
    BY <2>1, ConcatProperties
  <2>3. Ordered([up EXCEPT ![ch] = @ \o z], pend, typed, got)
    BY <1>0, ClaimsKeepOrder DEF InputInv
  <2>4. QED
    BY <1>0, <2>2, <2>3
<1>2. CASE pend' = pend /\ \E z \in Seq({0}) : up' = [up EXCEPT ![ch] = @ \o z]
  BY <1>1, <1>2 DEF InputInv
<1>3. ASSUME NEW n \in 0..(Len(pend) - 1), NEW z \in Seq({0}),
             up' = [up EXCEPT ![ch] = (@ \o z) \o SubSeq(pend, 1, n)],
             pend' = SubSeq(pend, n + 1, Len(pend))
      PROVE  InputInv'
  <2> DEFINE W == [up EXCEPT ![ch] = @ \o z]
  <2>1. Ordered(W, pend, typed, got) /\ W \in [Chans -> Seq(0..MaxInput)]
    BY <1>1
  <2>2. up' = [W EXCEPT ![ch] = @ \o SubSeq(pend, 1, n)]
    BY <1>0, <1>3
  <2> HIDE DEF W
  <2>3. Ordered([W EXCEPT ![ch] = @ \o SubSeq(pend, 1, n)], SubSeq(pend, n + 1, Len(pend)), typed, got)
    BY <1>0, <2>1, PartKeepsOrder
  <2>4. QED
    BY <1>3, <2>2, <2>3 DEF InputInv
<1>4. QED
  BY <1>2, <1>3 DEF Refused

\* One step of the connection, of the channels or of the host.
LEMMA NextInput == TypeOK /\ StreamInv /\ RouteInv /\ InputInv /\ [Next]_vars => InputInv'
<1> SUFFICES ASSUME TypeOK, StreamInv, RouteInv, InputInv, [Next]_vars PROVE InputInv'
  OBVIOUS
<1>0. /\ up \in [Chans -> Seq(0..MaxInput)] /\ pend \in Seq(1..MaxInput) /\ typed \in Nat
      /\ got \in Seq(1..MaxInput)
  BY RouteAssumption DEF TypeOK
<1>rt. /\ rt \in Track /\ cur \in Socks \cup {0} /\ Socks \subseteq Chans /\ DirectChan \in Chans
       /\ 0 \in {DirectChan}
  BY DEF TypeOK, Chans, DirectChan
<1>seqs. << >> \in Seq({0}) /\ <<0>> \in Seq({0})
  <2>1. << >> \in Seq({0})
    OBVIOUS
  <2>2. <<0>> \in Seq({0})
    OBVIOUS
  <2>3. QED
    BY <2>1, <2>2
<1>kept. ASSUME UNCHANGED <<up, pend, typed, got>> PROVE InputInv'
  BY <1>kept DEF InputInv
<1>without. ASSUME NEW ch \in Chans, up' = Without(ch), UNCHANGED <<pend, typed, got>> PROVE InputInv'
  <2>1. \A k \in Chans : up'[k] \in {<< >>, up[k]}
    BY <1>0, <1>without DEF Without
  <2>2. Ordered(up', pend, typed, got)
    BY <2>1, LosingKeepsOrder DEF InputInv
  <2>3. QED
    BY <1>without, <2>2 DEF InputInv
<1>claim. ASSUME NEW ch \in Chans, Send(ch, 0), UNCHANGED <<pend, typed, got>> PROVE InputInv'
  <2>1. up' = [up EXCEPT ![ch] = @ \o <<0>>]
    <3>1. Append(up[ch], 0) = up[ch] \o <<0>>
      <4>1. up[ch] \in Seq(0..MaxInput) /\ 0 \in 0..MaxInput
        BY <1>0, RouteAssumption
      <4>2. QED
        BY <4>1, AppendIsConcat
    <3>2. QED
      BY <1>claim, <3>1 DEF Send
  <2>2. Ordered([up EXCEPT ![ch] = @ \o <<0>>], pend, typed, got)
    BY <1>0, <1>seqs, ClaimsKeepOrder DEF InputInv
  <2>3. QED
    BY <1>claim, <2>1, <2>2 DEF InputInv
<1>flush. ASSUME NEW ch \in Chans, NEW before \in Seq({0}), Flush(ch, before), UNCHANGED <<typed, got>>
          PROVE  InputInv'
  <2>1. pend' = << >> /\ \E z \in Seq({0}) : up' = [up EXCEPT ![ch] = (@ \o z) \o pend]
    BY <1>flush, FlushFacts
  <2>2. QED
    BY <1>flush, <2>1, FlushingKeepsOrder
<1>1. CASE SendInput
  <2>1. typed' = typed + 1 /\ got' = got
    BY <1>1 DEF SendInput, host
  <2>2. /\ Ordered(up, pend, typed + 1, got)
        /\ Ordered(up, Append(pend, typed + 1), typed + 1, got)
        /\ pend = << >> =>
              \A ch \in Chans : Ordered([up EXCEPT ![ch] = Append(@, typed + 1)], pend, typed + 1, got)
    BY <1>0, TypingKeepsOrder DEF InputInv
  <2>3. \/ UNCHANGED <<up, pend>>
        \/ up' = up /\ pend' = Append(pend, typed + 1)
        \/ InputRoute(rt) = "direct" /\ dt.st = "authed" /\ Send(DirectChan, typed + 1) /\ pend' = pend
        \/ InputRoute(rt) = "relay" /\ WSOpen /\ Send(cur, typed + 1) /\ pend' = pend
    BY <1>1 DEF SendInput
  <2>4. CASE UNCHANGED <<up, pend>>
    BY <2>1, <2>2, <2>4 DEF InputInv
  <2>5. CASE up' = up /\ pend' = Append(pend, typed + 1)
    BY <2>1, <2>2, <2>5 DEF InputInv
  <2>6. CASE InputRoute(rt) = "direct" /\ dt.st = "authed" /\ Send(DirectChan, typed + 1) /\ pend' = pend
    <3>1. pend = << >>
      BY <1>rt, <2>6, InputRouteFacts DEF RouteInv
    <3>2. QED
      BY <1>rt, <2>1, <2>2, <2>6, <3>1 DEF InputInv, Send
  <2>7. CASE InputRoute(rt) = "relay" /\ WSOpen /\ Send(cur, typed + 1) /\ pend' = pend
    <3>1. pend = << >>
      BY <1>rt, <2>7, InputRouteFacts DEF RouteInv
    <3>2. cur \in Chans
      BY <1>rt, <2>7 DEF WSOpen
    <3>3. QED
      BY <2>1, <2>2, <2>7, <3>1, <3>2 DEF InputInv, Send
  <2>8. QED
    BY <2>3, <2>4, <2>5, <2>6, <2>7
<1>2. CASE ClaimDriver
  <2>1. UNCHANGED <<pend, typed, got>>
    BY <1>2 DEF ClaimDriver, host, input
  <2>2. up' = up \/ Send(DirectChan, 0) \/ (WSOpen /\ Send(cur, 0))
    BY <1>2 DEF ClaimDriver
  <2>3. WSOpen => cur \in Chans
    BY <1>rt DEF WSOpen
  <2>4. QED
    BY <1>rt, <1>kept, <1>claim, <2>1, <2>2, <2>3
<1>3. ASSUME NEW i \in Socks, SocketOpens(i) PROVE InputInv'
  <2>1. UNCHANGED <<typed, got>> /\ i \in Chans
    BY <1>3, <1>rt DEF SocketOpens, host
  <2>2. Flush(i, << >>) \/ UNCHANGED <<up, pend>>
    BY <1>3 DEF SocketOpens
  <2>3. QED
    BY <1>seqs, <1>kept, <1>flush, <2>1, <2>2
<1>4. ASSUME NEW i \in Socks, SocketClosed(i) PROVE InputInv'
  BY <1>4, <1>rt, <1>without DEF SocketClosed, host, input
<1>5. ASSUME NEW i \in Socks, RelayOut(i) PROVE InputInv'
  BY <1>5, <1>kept DEF RelayOut, host, input
<1>6. ASSUME NEW i \in Socks, RelayEnd(i) PROVE InputInv'
  <2>1. UNCHANGED <<typed, got>> /\ i \in Chans
    BY <1>6, <1>rt DEF RelayEnd, host
  <2>2. \/ Flush(i, IF ~claim /\ recover = "vacant" THEN <<0>> ELSE << >>)
        \/ UNCHANGED <<up, pend>>
    BY <1>6 DEF RelayEnd
  <2>3. (IF ~claim /\ recover = "vacant" THEN <<0>> ELSE << >>) \in Seq({0})
    BY <1>seqs
  <2>4. QED
    BY <1>kept, <1>flush, <2>1, <2>2, <2>3
<1>7. ASSUME NEW i \in Socks, RelayMeta(i) PROVE InputInv'
  <2>1. UNCHANGED <<pend, typed, got>> /\ i \in Chans
    BY <1>7, <1>rt DEF RelayMeta, host, input
  <2>2. Send(i, 0) \/ up' = up
    BY <1>7 DEF RelayMeta
  <2>3. QED
    BY <1>kept, <1>claim, <2>1, <2>2
<1>8. CASE TimerFires
  BY <1>8, <1>kept DEF TimerFires, host, input
<1>9. CASE DirectSignalled \/ DirectAuthenticated \/ DirectMeta \/ DirectCloses
  BY <1>9, <1>kept DEF DirectSignalled, DirectAuthenticated, DirectMeta, DirectCloses, host, input
<1>activate. ASSUME NEW r \in Track, NEW d \in Direct, MaybeActivateDirect(r, d), UNCHANGED <<typed, got>>
             PROVE  InputInv'
  <2>1. \/ UNCHANGED <<up, pend>>
        \/ pend' = << >> /\ \E z \in Seq({0}) : up' = [up EXCEPT ![DirectChan] = (@ \o z) \o pend]
        \/ Refused(DirectChan)
    BY <1>activate, ActivateFacts
  <2>2. CASE Refused(DirectChan)
    BY <1>activate, <1>rt, <2>2, RefusingKeepsOrder
  <2>3. QED
    BY <1>activate, <1>kept, <1>rt, <2>1, <2>2, FlushingKeepsOrder
<1>10. CASE DirectOut
  <2>1. PICK p \in (dt.pos + 1)..Len(log) :
           MaybeActivateDirect(AcceptOutput(rt, "direct", SeqAt(p)), [dt EXCEPT !.pos = p])
    BY <1>10 DEF DirectOut
  <2>2. SeqAt(p) \in 0..MaxSeq
    <3>1. dt.pos \in Nat /\ Len(log) \in Nat
      BY SeqAtTyped DEF TypeOK, Direct
    <3>2. p \in 0..Len(log)
      BY <2>1, <3>1
    <3>3. QED
      BY <3>2, SeqAtTyped
  <2>3. AcceptOutput(rt, "direct", SeqAt(p)) \in Track
    BY <1>rt, <2>2, TrackTyped
  <2>4. UNCHANGED <<typed, got>>
    BY <1>10 DEF DirectOut, host
  <2>5. [dt EXCEPT !.pos = p] \in Direct
    <3>1. dt \in Direct /\ p \in Nat
      BY <2>1, SeqAtTyped DEF TypeOK, Direct
    <3>2. QED
      BY <3>1 DEF Direct
  <2>6. QED
    BY <1>activate, <2>1, <2>3, <2>4, <2>5
<1>11. CASE DirectReady
  <2>1. PICK p \in dt.pos..Len(log) :
           MaybeActivateDirect(NoteDirectReady(rt, SeqAt(p)), [dt EXCEPT !.pos = p, !.ph = "snap"])
    BY <1>11 DEF DirectReady
  <2>2. SeqAt(p) \in 0..MaxSeq
    <3>1. dt.pos \in Nat /\ Len(log) \in Nat
      BY SeqAtTyped DEF TypeOK, Direct
    <3>2. p \in 0..Len(log)
      BY <2>1, <3>1
    <3>3. QED
      BY <3>2, SeqAtTyped
  <2>3. NoteDirectReady(rt, SeqAt(p)) \in Track
    BY <1>rt, <2>2, TrackTyped
  <2>4. UNCHANGED <<typed, got>>
    BY <1>11 DEF DirectReady, host
  <2>5. [dt EXCEPT !.pos = p, !.ph = "snap"] \in Direct
    <3>1. dt \in Direct /\ p \in Nat
      BY <2>1, SeqAtTyped DEF TypeOK, Direct
    <3>2. QED
      BY <3>1 DEF Direct
  <2>6. QED
    BY <1>activate, <2>1, <2>3, <2>4, <2>5
<1>12. CASE DirectFails
  BY <1>12, <1>rt, <1>without DEF DirectFails, host, input
<1>13. ASSUME NEW on \in BOOLEAN, SetPreferDirect(on) PROVE InputInv'
  <2>1. UNCHANGED <<pend, typed, got>>
    BY <1>13 DEF SetPreferDirect, host, input
  <2>2. up' = up \/ up' = Without(DirectChan)
    BY <1>13 DEF SetPreferDirect
  <2>3. QED
    BY <1>rt, <1>kept, <1>without, <2>1, <2>2
<1>14. CASE Suspend
  BY <1>14, <1>rt, <1>without DEF Suspend, host, input
<1>15. CASE Attach
  BY <1>15, <1>kept DEF Attach, host, input
<1>16. CASE Produce \/ (\E d \in Drivers : DriverChanges(d)) \/ UNCHANGED vars
  BY <1>16, <1>kept DEF Produce, DriverChanges, vars, host, input
<1>17. ASSUME NEW ch \in Chans, HostTakes(ch) PROVE InputInv'
  <2>1. up[ch] # << >> /\ up' = [up EXCEPT ![ch] = Tail(@)] /\ UNCHANGED <<pend, typed>>
    BY <1>17 DEF HostTakes, input
  <2>2. IF Head(up[ch]) = 0 THEN got' = got ELSE got' = Append(got, Head(up[ch]))
    BY <1>17 DEF HostTakes
  <2>3. /\ Head(up[ch]) = 0 => Ordered([up EXCEPT ![ch] = Tail(@)], pend, typed, got)
        /\ Head(up[ch]) # 0 => Ordered([up EXCEPT ![ch] = Tail(@)], pend, typed, Append(got, Head(up[ch])))
    BY <1>0, <2>1, TakingKeepsOrder DEF InputInv
  <2>4. QED
    BY <2>1, <2>2, <2>3 DEF InputInv
<1>18. QED
  BY <1>1, <1>2, <1>3, <1>4, <1>5, <1>6, <1>7, <1>8, <1>9, <1>10, <1>11, <1>12, <1>13, <1>14,
     <1>15, <1>16, <1>17 DEF Next

-----------------------------------------------------------------------------
(* The theorems *)

Inv == TypeOK /\ StreamInv /\ RouteInv /\ InputInv

\* The strengthened invariant holds throughout, faults and route changes included.
THEOREM Invariance == Spec => []Inv
<1>1. Init => Inv
  BY InitCore, InitRoute, InitInput DEF Inv
<1>2. Inv /\ [Next]_vars => Inv'
  BY NextCore, NextRoute, NextInput DEF Inv
<1>3. QED
  BY <1>1, <1>2, PTL DEF Spec

\* The connection's state stays well formed whatever order sockets, the direct
\* channel, timers and the user come in.
THEOREM TypeCorrect == Spec => []TypeOK
<1>1. Inv => TypeOK
  BY DEF Inv
<1>2. QED
  BY <1>1, Invariance, PTL

\* The terminal has been given all output up to the cursor, in runs that skip
\* nothing, whichever route brought it and however it was merged (acceptOutput
\* and since_seq).
THEOREM NoGap == Spec => []NothingSkipped
<1>1. Inv => NothingSkipped
  BY DEF Inv, StreamInv
<1>2. QED
  BY <1>1, Invariance, PTL

\* No socket that is opening or open is forgotten by the connection, and none is
\* left while the application is suspended (openWS, onclose, suspend).
THEOREM SocketsHeld == Spec => []NoForgottenSocket
<1>1. Inv => NoForgottenSocket
  BY DEF Inv, RouteInv
<1>2. QED
  BY <1>1, Invariance, PTL

\* What waits in pendingInputs is younger than everything sent or taken, so a
\* flush never overtakes (flushPendingRelayWrites, flushPendingDirectWrites).
THEOREM InputKeepsOrder == Spec => []QueueIsYoungest
<1>1. Inv => QueueIsYoungest
  BY DEF Inv, InputInv, Ordered, QueueIsYoungest
<1>2. QED
  BY <1>1, Invariance, PTL

-----------------------------------------------------------------------------
(* What every terminal connection promises *)

\* A step that leaves the session's stream as long as it was.
LEMMA ProducedKept == log' = log => Produced' = Produced
  BY DEF Produced, SeqAt

\* Every step shows one run, types or takes one input, produces one frame, or
\* does nothing a terminal can tell.
LEMMA StepRefines == Inv /\ Inv' /\ [Next]_vars => [V!Next]_(V!vars)
<1> SUFFICES ASSUME Inv, Inv', [Next]_vars PROVE [V!Next]_(V!vars)
  OBVIOUS
<1>same. ASSUME Produced' = Produced, UNCHANGED <<shown, typed, got>> PROVE [V!Next]_(V!vars)
  BY <1>same DEF V!vars
<1>show. ASSUME log' = log, UNCHANGED <<typed, got>>,
                \/ shown' = shown
                \/ \E run \in [from : 1..Produced, to : 1..Produced] :
                      V!Continues(V!Newest(shown), run) /\ shown' = Append(shown, run)
         PROVE  [V!Next]_(V!vars)
  BY <1>show, ProducedKept, Zenon DEF V!Next, V!Show, V!vars
<1>1. CASE SendInput
  BY <1>1, ProducedKept DEF SendInput, host, V!Next, V!Type
<1>2. ASSUME NEW i \in Socks, SocketOpens(i) \/ SocketClosed(i) \/ RelayEnd(i) \/ RelayMeta(i)
      PROVE  [V!Next]_(V!vars)
  BY <1>2, <1>same, ProducedKept DEF SocketOpens, SocketClosed, RelayEnd, RelayMeta, host, input
<1>3. ASSUME NEW i \in Socks, RelayOut(i) PROVE [V!Next]_(V!vars)
  <2>1. PICK p \in (socks[i].pos + 1)..Len(log), from \in 1..(SeqAt(socks[i].pos) + 1) :
           /\ socks' = [socks EXCEPT ![i].pos = p]
           /\ rt' = AcceptOutput(rt, "relay", SeqAt(p))
           /\ shown' = Given(from, SeqAt(p))
    BY <1>3 DEF RelayOut
  <2>2. UNCHANGED <<log, dt, typed, got>>
    BY <1>3 DEF RelayOut, host, input
  <2>3. /\ socks \in [Socks -> Sock] /\ socks[i].pos \in 0..Len(log) /\ Len(log) \in Nat
        /\ rt \in Track
    BY SeqAtTyped DEF Inv, TypeOK, Sock
  <2>4. p \in 0..Len(log)
    BY <2>1, <2>3
  <2>5. SeqAt(p) \in 0..MaxSeq
    BY <2>4, SeqAtTyped DEF Inv
  <2>6. rt'.com = IF SeqAt(p) > rt.com THEN SeqAt(p) ELSE rt.com
    BY <2>1, <2>3, <2>5, TrackTyped
  <2>7. \A j \in Socks : socks'[j].pos \in {0, p, socks[j].pos}
    BY <2>1, <2>3 DEF Sock
  <2>8. SeqAt(socks[i].pos) <= rt.com /\ TypeOK /\ StreamInv
    BY DEF Inv, StreamInv
  <2>9. dt'.pos \in {p, dt.pos}
    BY <2>2
  <2>10. \/ shown' = shown
         \/ \E run \in [from : 1..Produced, to : 1..Produced] :
               V!Continues(V!Newest(shown), run) /\ shown' = Append(shown, run)
    BY <2>1, <2>2, <2>3, <2>4, <2>6, <2>7, <2>8, <2>9, StreamShows
  <2>11. QED
    BY <1>show, <2>2, <2>10
<1>4. CASE DirectOut
  <2>1. PICK p \in (dt.pos + 1)..Len(log) :
           /\ MaybeActivateDirect(AcceptOutput(rt, "direct", SeqAt(p)), [dt EXCEPT !.pos = p])
           /\ shown' = Given(SeqAt(dt.pos) + 1, SeqAt(p))
    BY <1>4 DEF DirectOut
  <2>2. UNCHANGED <<log, typed, got>>
    BY <1>4 DEF DirectOut, host
  <2>3. /\ dt \in Direct /\ dt.pos \in 0..Len(log) /\ Len(log) \in Nat /\ rt \in Track
    BY SeqAtTyped DEF Inv, TypeOK, Direct
  <2>4. p \in 0..Len(log)
    BY <2>1, <2>3
  <2>5. SeqAt(p) \in 0..MaxSeq
    BY <2>4, SeqAtTyped DEF Inv
  <2> DEFINE r == AcceptOutput(rt, "direct", SeqAt(p))
  <2>6. r \in Track /\ r.com = IF SeqAt(p) > rt.com THEN SeqAt(p) ELSE rt.com
    BY <2>3, <2>5, TrackTyped
  <2> DEFINE d == [dt EXCEPT !.pos = p]
  <2>d. d \in Direct /\ d.pos = p
    BY <2>3, <2>4 DEF Direct
  <2>7. MaybeActivateDirect(r, d)
    BY <2>1
  <2> HIDE DEF r, d
  <2>8. rt'.com = r.com /\ dt'.pos = p /\ \A i \in Socks : socks'[i].pos \in {0, socks[i].pos}
    BY <2>6, <2>7, <2>d, ActivateFacts DEF Inv
  <2>9. SeqAt(dt.pos) <= rt.com /\ TypeOK /\ StreamInv
    BY DEF Inv, StreamInv
  <2>10. dt'.pos \in {p, dt.pos}
    BY <2>8
  <2>11. rt'.com = IF SeqAt(p) > rt.com THEN SeqAt(p) ELSE rt.com
    BY <2>6, <2>8
  <2>12. \A i \in Socks : socks'[i].pos \in {0, p, socks[i].pos}
    BY <2>8
  <2>13. \/ shown' = shown
         \/ \E run \in [from : 1..Produced, to : 1..Produced] :
               V!Continues(V!Newest(shown), run) /\ shown' = Append(shown, run)
    <3>1. SeqAt(dt.pos) \in Nat
      BY <2>3, <2>9, SeqAtTyped
    <3>2. SeqAt(dt.pos) + 1 \in 1..(SeqAt(dt.pos) + 1)
      BY <3>1
    <3>3. QED
      BY <2>1, <2>2, <2>3, <2>4, <2>9, <2>10, <2>11, <2>12, <3>2, StreamShows
  <2>14. QED
    BY <1>show, <2>2, <2>13
<1>5. CASE \/ DirectSignalled \/ DirectAuthenticated \/ DirectReady \/ DirectMeta \/ DirectCloses
           \/ DirectFails \/ TimerFires
  BY <1>5, <1>same, ProducedKept
     DEF DirectSignalled, DirectAuthenticated, DirectReady, DirectMeta, DirectCloses, DirectFails,
         TimerFires, host, input
<1>6. CASE ClaimDriver \/ (\E on \in BOOLEAN : SetPreferDirect(on)) \/ Suspend \/ Attach \/ UNCHANGED vars
  BY <1>6, <1>same, ProducedKept DEF ClaimDriver, SetPreferDirect, Suspend, Attach, vars, host, input
<1>grows. ASSUME NEW e \in Frames, log' = Append(log, e), e.seq \in {Produced, Produced + 1},
                 UNCHANGED <<rt, socks, dt, shown>>
          PROVE  Produced' = e.seq
  BY <1>grows, StreamGrows DEF Inv
<1>typed. ASSUME NEW d \in Drivers PROVE Meta(d) \in Frames /\ Meta(d).seq = Produced
  <2>1. Produced \in 0..MaxSeq
    BY SeqAtTyped DEF Inv, Produced
  <2>2. QED
    BY <2>1 DEF Meta, Frames
<1>7. CASE Produce
  <2> DEFINE e == [seq |-> Produced + 1, driver |-> DriverAt(Len(log))]
  <2>1. log' = Append(log, e) /\ UNCHANGED <<rt, socks, dt, shown, typed, got>> /\ Produced < MaxSeq
    BY <1>7 DEF Produce, link, input
  <2>2. e \in Frames /\ e.seq = Produced + 1
    <3>1. Produced + 1 \in 0..MaxSeq
      BY <2>1, SeqAtTyped, RouteAssumption DEF Inv, Produced
    <3>2. DriverAt(Len(log)) \in Drivers
      BY SeqAtTyped DEF Inv
    <3>3. QED
      BY <3>1, <3>2 DEF Frames
  <2> HIDE DEF e
  <2>3. Produced' = Produced + 1
    BY <1>grows, <2>1, <2>2
  <2>4. QED
    BY <2>1, <2>3 DEF V!Next, V!Produce
<1>8. ASSUME NEW d \in Drivers, DriverChanges(d) PROVE [V!Next]_(V!vars)
  <2>1. log' = Append(log, Meta(d)) /\ UNCHANGED <<rt, socks, dt, shown, typed, got>>
    BY <1>8 DEF DriverChanges, link, input
  <2>2. Produced' = Produced
    BY <1>grows, <1>typed, <2>1
  <2>3. QED
    BY <1>same, <2>1, <2>2
<1>9. ASSUME NEW ch \in Chans, HostTakes(ch) PROVE [V!Next]_(V!vars)
  <2>1. UNCHANGED <<rt, socks, dt, shown, typed>> /\ up[ch] # << >>
    BY <1>9 DEF HostTakes, link, input
  <2>2. CASE Head(up[ch]) = 0
    <3>1. got' = got /\ (log' = log \/ log' = Append(log, Meta("me")))
      BY <1>9, <2>2 DEF HostTakes
    <3>2. "me" \in Drivers
      BY DEF Drivers
    <3>3. Produced' = Produced
      BY <1>grows, <1>typed, <2>1, <3>1, <3>2, ProducedKept
    <3>4. QED
      BY <1>same, <2>1, <3>1, <3>3
  <2>3. CASE Head(up[ch]) # 0
    <3>1. got' = Append(got, Head(up[ch])) /\ log' = log
      BY <1>9, <2>3 DEF HostTakes
    <3>2. /\ up \in [Chans -> Seq(0..MaxInput)] /\ pend \in Seq(1..MaxInput) /\ typed \in Nat
          /\ got \in Seq(1..MaxInput) /\ Ordered(up, pend, typed, got)
      BY RouteAssumption DEF Inv, TypeOK, InputInv
    <3>3. Head(up[ch]) \in 1..typed /\ \A j \in DOMAIN got : got[j] # Head(up[ch])
      BY <2>1, <2>3, <3>2, TakingKeepsOrder
    <3>4. V!Take
      BY <2>1, <3>1, <3>3, ProducedKept DEF V!Take
    <3>5. QED
      BY <3>4 DEF V!Next
  <2>4. QED
    BY <2>2, <2>3
<1>10. QED
  BY <1>1, <1>2, <1>3, <1>4, <1>5, <1>6, <1>7, <1>8, <1>9 DEF Next

\* The relay viewer implements what every terminal connection promises: whatever
\* mixture of routes carries it, output is shown without a gap and every input is
\* taken at most once.
THEOREM ViewerRefined == Spec => ImplementsViewer
<1>1. Init => V!Init
  <2> SUFFICES ASSUME Init PROVE V!Init
    OBVIOUS
  <2>1. log = << >> /\ shown = << >> /\ typed = 0 /\ got = << >>
    BY DEF Init
  <2>2. Len(log) = 0
    BY <2>1
  <2>3. Produced = 0
    BY <2>2 DEF Produced, SeqAt
  <2>4. QED
    BY <2>1, <2>2, <2>3 DEF V!Init
<1>2. QED
  BY <1>1, StepRefines, Invariance, PTL DEF Spec, ImplementsViewer, V!Spec
=============================================================================
