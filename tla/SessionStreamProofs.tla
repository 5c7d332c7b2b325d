------------------------ MODULE SessionStreamProofs ------------------------
(***************************************************************************)
(* Theorems about SessionStream, for any number of clients and any sizes of *)
(* ring, replay, batch and queue.                                           *)
(***************************************************************************)
EXTENDS SessionStream, SequenceTheorems, TLAPS

-----------------------------------------------------------------------------
(* The inductive invariant *)

\* Consecutive seqs that end with hi.
Run(s, hi) == s = [i \in 1..Len(s) |-> hi - Len(s) + i]

\* A chunk is evicted only when the ring is full.
RingInv == Len(ring) = IF last > RingCap THEN RingCap ELSE last

IsOut(f)   == f.kind = "out"
IsReset(f) == f.kind = "reset"

\* An OUT frame's bytes are a run that ends with its label; First is where it starts.
Honest(f) == f.data # << >> /\ Run(f.data, f.seq)
First(f)  == f.seq - Len(f.data) + 1

\* When position i of queue q is delivered, the terminal is blank.
Fresh(q, blank, i) ==
  /\ blank \/ \E j \in DOMAIN q : j < i /\ IsReset(q[j])
  /\ \A k \in DOMAIN q : k < i /\ IsOut(q[k]) => \E j \in DOMAIN q : k < j /\ j < i /\ IsReset(q[j])

\* Frame f at position i of q follows what was shown by then: it starts at or
\* below the next chunk unless that was evicted, and repeats nothing unless it is
\* one chunk, which the cursor drops.
Linked(q, cur, old, f, i) ==
  /\ \/ First(f) <= old \/ First(f) <= cur + 1
     \/ \E k \in DOMAIN q : k < i /\ IsOut(q[k]) /\ First(f) <= q[k].seq + 1
  /\ \/ Len(f.data) = 1
     \/ First(f) > cur /\ \A k \in DOMAIN q : k < i /\ IsOut(q[k]) => First(f) > q[k].seq

QueueOK(q, cur, blank, old, hi) ==
  /\ \A i \in DOMAIN q : IsOut(q[i]) =>
        /\ Honest(q[i]) /\ cur <= q[i].seq /\ q[i].seq <= hi
        /\ Fresh(q, blank, i) \/ Linked(q, cur, old, q[i], i)
  /\ \A i, j \in DOMAIN q : i < j /\ IsOut(q[i]) /\ IsOut(q[j]) => q[i].seq <= q[j].seq

ScreenOK(scr, cur, ded, old) ==
  /\ scr # << >> => scr[Len(scr)] = cur
  /\ \A i \in 1..(Len(scr) - 1) : scr[i + 1] <= scr[i] + 1 \/ scr[i + 1] <= old
  /\ ded => \A i \in 1..(Len(scr) - 1) : scr[i] < scr[i + 1]

Oldest == OldestSeq(ring)

ClientInv(c) ==
  /\ cursor[c] <= last
  /\ QueueOK(out[c], cursor[c], screen[c] = << >>, Oldest, last)
  /\ ScreenOK(screen[c], cursor[c], dedup[c], Oldest)

Reader == th["reader"]
Resyncing == {"full", "drained", "tail", "label", "marked"}

\* The uplink reader is the only goroutine that fans out; what it fans out is the
\* newest chunk, to subscribers, and the tail it resyncs with ends there too.
ReaderInv ==
  /\ \A c \in Clients : th[c] = Idle
  /\ Reader.pend \subseteq subs
  /\ Reader.pc \in {"idle", "fanout", "remove"} => Reader.pend = {}
  /\ IsOut(Reader.frame) => Reader.frame = Out(last, <<last>>)
  /\ ~IsReset(Reader.frame)
  /\ Reader.pc \in Resyncing => Reader.sub \in Reader.pend
  /\ Reader.pc \in {"tail", "label", "marked"} => Run(Reader.tail, last) /\ (last > 0 => Reader.tail # << >>)
  /\ Reader.pc \in {"label", "marked"} => Reader.label = last
  /\ Reader.pc = "marked" => Reader.tail # << >>

\* Nothing but control frames, and few of them.
Cleared(c, n) == /\ \A i \in DOMAIN out[c] : ~IsOut(out[c][i])
                 /\ Len(out[c]) <= IF att[c].pc = "joined" THEN n ELSE n + 1

\* Between the drain and the tail of a resync there is room for both of its frames.
ResyncInv(c) == Reader.sub = c =>
  /\ Reader.pc \in {"drained", "tail", "label"} => Cleared(c, 0)
  /\ Reader.pc = "marked" => /\ Cleared(c, 1)
                             /\ screen[c] = << >> \/ \E j \in DOMAIN out[c] : IsReset(out[c][j])

\* Chunk n is on its way to the client, or there.
Reaches(q, cur, n) == cur >= n \/ \E i \in DOMAIN q : IsOut(q[i]) /\ q[i].seq >= n

\* The newest chunk has still to be sent to c: alone, behind the one before it, or
\* in the tail of a resync.
OwedFrame(c)  == (Reader.pc = "fanout" \/ c \in Reader.pend) /\ IsOut(Reader.frame)
OwedResync(c) == Reader.pc \in Resyncing /\ Reader.sub = c

AttachInv(c) ==
  /\ c \in subs <=> att[c].pc \in {"joined", "live"}
  /\ att[c].pc \in {"off", "snapshot"} => out[c] = << >>
  /\ att[c].pc = "snapshot" =>
        LET s == att[c].chunks IN
        /\ att[c].lastSeq = cursor[c]
        /\ s = << >> => ~att[c].capped
        /\ s # << >> => /\ Run(s, s[Len(s)]) /\ s[Len(s)] <= last /\ s[1] > cursor[c]
                        /\ att[c].capped \/ s[1] <= cursor[c] + 1 \/ s[1] <= Oldest
  /\ att[c].pc = "catchup" =>
        /\ cursor[c] <= att[c].lastSeq /\ att[c].lastSeq <= last
        /\ \A i \in DOMAIN out[c] : IsOut(out[c][i]) => out[c][i].seq <= att[c].lastSeq
        /\ Reaches(out[c], cursor[c], att[c].lastSeq)
  /\ c \in subs => \/ Reaches(out[c], cursor[c], last)
                   \/ OwedFrame(c) /\ Reaches(out[c], cursor[c], last - 1)
                   \/ OwedResync(c)

\* A terminal that writes every OUT will end with chunk n.
Shows(q, cur, scr, n) ==
  \/ n = 0
  \/ cur >= n /\ scr # << >> /\ \A i \in DOMAIN q : ~IsReset(q[i])
  \/ \E i \in DOMAIN q : IsOut(q[i]) /\ q[i].seq >= n /\ \A j \in DOMAIN q : j > i => ~IsReset(q[j])

WebInv(c) == drops = 0 /\ ~dedup[c] =>
  /\ c \in subs => Shows(out[c], cursor[c], screen[c], last) \/ OwedFrame(c) \/ OwedResync(c)
  /\ att[c].pc = "snapshot" /\ att[c].chunks = << >> => cursor[c] = 0 \/ screen[c] # << >>
  /\ att[c].pc = "catchup" => Shows(out[c], cursor[c], screen[c], att[c].lastSeq)
  /\ att[c].pc \in {"off", "snapshot", "catchup", "dropped"} =>
        /\ screen[c] = << >> => cursor[c] = 0 \/ cursor[c] < last
        /\ \A i \in DOMAIN out[c] : IsReset(out[c][i]) =>
              cursor[c] < last /\ \A j \in DOMAIN out[c] : j < i => ~IsOut(out[c][j])

PerClient(c) == ClientInv(c) /\ AttachInv(c) /\ ResyncInv(c) /\ WebInv(c)

StreamInv == OneFanout => ReaderInv /\ \A c \in Clients : PerClient(c)

-----------------------------------------------------------------------------
(* Runs of chunks *)

\* The constants as numbers.
LEMMA Numbers ==
  /\ RingCap \in Nat \ {0} /\ ReplayCap \in Nat \ {0} /\ CoalesceTarget \in Nat \ {0}
  /\ ResyncTail \in Nat \ {0} /\ QueueDepth \in Nat /\ QueueDepth > 2
  /\ MaxSeq \in Nat /\ MaxMeta \in Nat /\ MaxClaims \in Nat /\ MaxDrops \in Nat
  /\ 0 \in Seqs /\ \A x \in Seqs : x \in Nat /\ x <= MaxSeq
<1>1. MaxSeq \in Nat /\ MaxMeta \in Nat /\ MaxClaims \in Nat /\ MaxDrops \in Nat
  BY StreamAssumption
<1>2. /\ RingCap \in Nat \ {0} /\ ReplayCap \in Nat \ {0} /\ CoalesceTarget \in Nat \ {0}
      /\ ResyncTail \in Nat \ {0} /\ QueueDepth \in Nat /\ QueueDepth > 2
  BY StreamAssumption
<1>3. QED
  BY <1>1, <1>2 DEF Seqs

\* A run by its elements.
LEMMA RunElements ==
  ASSUME NEW s \in Seq(Seqs), NEW hi
  PROVE  Run(s, hi) <=> \A i \in 1..Len(s) : s[i] = hi - Len(s) + i
<1>1. s \in [1..Len(s) -> Seqs]
  BY LenProperties
<1>2. ASSUME Run(s, hi) PROVE \A i \in 1..Len(s) : s[i] = hi - Len(s) + i
  BY <1>2 DEF Run
<1>3. ASSUME \A i \in 1..Len(s) : s[i] = hi - Len(s) + i PROVE Run(s, hi)
  BY <1>1, <1>3, Zenon DEF Run
<1>4. QED
  BY <1>2, <1>3

\* The newest n elements.
LEMMA NewestFacts ==
  ASSUME NEW s \in Seq(Seqs), NEW n \in Nat \ {0}
  PROVE  /\ Newest(s, n) \in Seq(Seqs) /\ Len(Newest(s, n)) = IF Len(s) > n THEN n ELSE Len(s)
         /\ \A i \in 1..Len(Newest(s, n)) : Newest(s, n)[i] = s[Len(s) - Len(Newest(s, n)) + i]
<1>1. Len(s) \in Nat
  BY LenProperties
<1>2. CASE Len(s) > n
  <2> DEFINE m == Len(s) - n + 1
  <2>1. m \in Int /\ m <= Len(s) /\ \A i \in m..Len(s) : i \in 1..Len(s)
    BY <1>1, <1>2
  <2>2. \A i \in m..Len(s) : s[i] \in Seqs
    BY <2>1, ElementOfSeq
  <2>3. Newest(s, n) = SubSeq(s, m, Len(s))
    BY <1>2 DEF Newest
  <2> HIDE DEF m
  <2>4. /\ SubSeq(s, m, Len(s)) \in Seq(Seqs)
        /\ Len(SubSeq(s, m, Len(s))) = Len(s) - m + 1
        /\ \A i \in 1..(Len(s) - m + 1) : SubSeq(s, m, Len(s))[i] = s[m + i - 1]
    BY <1>1, <2>1, <2>2, SubSeqProperties
  <2>5. Len(s) - m + 1 = n /\ \A i \in 1..n : m + i - 1 = Len(s) - n + i
    BY <1>1 DEF m
  <2>6. QED
    BY <1>2, <2>3, <2>4, <2>5
<1>3. CASE ~(Len(s) > n)
  <2>1. Newest(s, n) = s
    BY <1>3 DEF Newest
  <2>2. \A i \in 1..Len(s) : Len(s) - Len(s) + i = i
    BY <1>1
  <2>3. QED
    BY <1>3, <2>1, <2>2
<1>4. QED
  BY <1>2, <1>3

\* The newest of a run are a run to the same end.
LEMMA NewestRun ==
  ASSUME NEW s \in Seq(Seqs), NEW n \in Nat \ {0}, NEW hi \in Int, Run(s, hi)
  PROVE  Run(Newest(s, n), hi)
<1> DEFINE t == Newest(s, n)
<1>1. /\ t \in Seq(Seqs) /\ Len(t) <= Len(s) /\ Len(s) \in Nat /\ Len(t) \in Nat
      /\ \A i \in 1..Len(t) : t[i] = s[Len(s) - Len(t) + i]
  BY NewestFacts, LenProperties
<1> HIDE DEF t
<1>2. \A i \in 1..Len(s) : s[i] = hi - Len(s) + i
  BY RunElements
<1>3. ASSUME NEW i \in 1..Len(t) PROVE t[i] = hi - Len(t) + i
  <2>1. Len(s) - Len(t) + i \in 1..Len(s)
    BY <1>1
  <2>2. t[i] = hi - Len(s) + (Len(s) - Len(t) + i)
    BY <1>1, <1>2, <2>1
  <2>3. QED
    BY <1>1, <2>2
<1>4. Run(t, hi)
  BY <1>1, <1>3, RunElements
<1>5. QED
  BY <1>4 DEF t

\* What Buffer.Since returns of a run: the part above since, to the same end.
LEMMA SinceFacts ==
  ASSUME NEW s \in Seq(Seqs), NEW hi \in Int, Run(s, hi), NEW since \in Int
  PROVE  /\ Since(s, since) \in Seq(Seqs) /\ Run(Since(s, since), hi)
         /\ Since(s, since) = << >> => s = << >> \/ hi <= since
         /\ Since(s, since) # << >> =>
               /\ Since(s, since)[1] > since
               /\ Since(s, since)[1] = since + 1 \/ Since(s, since)[1] = s[1]
               /\ Since(s, since)[Len(Since(s, since))] = hi /\ s # << >>
<1>1. Len(s) \in Nat /\ DOMAIN s = 1..Len(s)
  BY LenProperties
<1>2. \A i \in 1..Len(s) : s[i] = hi - Len(s) + i
  BY RunElements
<1> DEFINE above == {i \in DOMAIN s : s[i] > since}
<1>3. CASE above = {}
  <2>1. Since(s, since) = << >>
    BY <1>3 DEF Since
  <2>2. Run(<< >>, hi)
    <3>1. << >> \in Seq(Seqs) /\ Len(<< >>) = 0
      BY EmptySeq
    <3>2. \A i \in 1..Len(<< >>) : << >>[i] = hi - Len(<< >>) + i
      BY <3>1
    <3>3. QED
      BY <3>1, <3>2, RunElements
  <2>3. ASSUME s # << >> PROVE hi <= since
    <3>1. Len(s) \in 1..Len(s)
      BY <1>1, <2>3, EmptySeq
    <3>2. s[Len(s)] = hi /\ ~(s[Len(s)] > since)
      BY <1>1, <1>2, <1>3, <3>1
    <3>3. QED
      BY <3>2
  <2>4. << >> \in Seq(Seqs)
    OBVIOUS
  <2>5. QED
    BY <2>1, <2>2, <2>3, <2>4
<1>4. CASE above # {}
  <2>1. above = {i \in 1..Len(s) : hi - Len(s) + i > since}
    BY <1>1, <1>2
  <2> DEFINE low == IF hi - Len(s) + 1 > since THEN 1 ELSE since - hi + Len(s) + 1
  <2>2. low \in above /\ \A j \in above : low <= j
    <3>1. PICK k \in 1..Len(s) : hi - Len(s) + k > since
      BY <1>4, <2>1
    <3>2. low \in 1..Len(s) /\ hi - Len(s) + low > since
      BY <1>1, <3>1
    <3>3. \A j \in 1..Len(s) : hi - Len(s) + j > since => low <= j
      BY <1>1
    <3>4. QED
      BY <2>1, <3>2, <3>3
  <2> DEFINE m == CHOOSE i \in above : \A j \in above : i <= j
  <2>3. m \in above /\ \A j \in above : m <= j
    BY <2>2, Zenon
  <2>4. Since(s, since) = SubSeq(s, m, Len(s))
    BY <1>4, Zenon DEF Since
  <2> HIDE DEF m
  <2>5. m \in 1..Len(s) /\ hi - Len(s) + m > since /\ m <= low /\ low <= m
    BY <2>1, <2>2, <2>3
  <2>6. low \in Int /\ (low = 1 \/ hi - Len(s) + low = since + 1)
    BY <1>1
  <2> HIDE DEF low, above
  <2>7. m = low
    BY <2>5, <2>6
  <2> DEFINE t == SubSeq(s, m, Len(s))
  <2>8. \A i \in m..Len(s) : s[i] \in Seqs
    BY <1>1, <2>5, ElementOfSeq
  <2>9. /\ t \in Seq(Seqs) /\ Len(t) = Len(s) - m + 1
        /\ \A i \in 1..(Len(s) - m + 1) : t[i] = s[m + i - 1]
    BY <1>1, <2>5, <2>8, SubSeqProperties
  <2> HIDE DEF t
  <2>10. ASSUME NEW i \in 1..Len(t) PROVE t[i] = hi - Len(t) + i
    <3>1. t[i] = s[m + i - 1] /\ m + i - 1 \in 1..Len(s)
      BY <1>1, <2>5, <2>9
    <3>2. t[i] = hi - Len(s) + (m + i - 1)
      BY <1>2, <3>1
    <3>3. QED
      BY <1>1, <2>5, <2>9, <3>2
  <2>11. Run(t, hi)
    BY <2>9, <2>10, RunElements
  <2>12. Len(t) \in Nat \ {0}
    BY <1>1, <2>5, <2>9
  <2>13. t[1] = hi - Len(s) + m /\ t[Len(t)] = hi
    BY <1>1, <2>5, <2>9, <2>10, <2>12
  <2>14. t # << >> /\ s # << >>
    <3>1. Len(<< >>) = 0
      OBVIOUS
    <3>2. QED
      BY <1>1, <2>5, <2>12, <3>1
  <2>15. t[1] > since /\ (t[1] = since + 1 \/ t[1] = s[1])
    <3>1. 1 \in 1..Len(s)
      BY <1>1, <2>5
    <3>2. s[1] = hi - Len(s) + 1
      BY <1>2, <3>1
    <3>3. QED
      BY <2>5, <2>6, <2>7, <2>13, <3>2
  <2>16. Since(s, since) = t
    BY <2>4 DEF t
  <2>17. QED
    BY <2>9, <2>11, <2>13, <2>14, <2>15, <2>16
<1>5. QED
  BY <1>3, <1>4

-----------------------------------------------------------------------------
(* Batches of a replay *)

\* How many batches of b cover n chunks, and where batch i ends and starts.
Batches(n, b)  == (n + b - 1) \div b
EndOf(n, b, i) == IF i * b < n THEN i * b ELSE n
StartOf(b, i)  == (i - 1) * b + 1

\* The batches cover the chunks one after the other.
LEMMA BatchFacts ==
  ASSUME NEW n \in Nat, NEW b \in Nat \ {0}
  PROVE  /\ Batches(n, b) \in Nat /\ (n = 0 => Batches(n, b) = 0) /\ (n > 0 => Batches(n, b) > 0)
         /\ n > 0 => EndOf(n, b, Batches(n, b)) = n
         /\ \A i \in 1..Batches(n, b) :
               /\ EndOf(n, b, i) \in 1..n /\ StartOf(b, i) \in 1..n /\ StartOf(b, i) <= EndOf(n, b, i)
               /\ (i = 1 => StartOf(b, i) = 1)
               /\ (i > 1 => StartOf(b, i) = EndOf(n, b, i - 1) + 1)
         /\ \A i, j \in 1..Batches(n, b) : i < j => EndOf(n, b, i) < StartOf(b, j)
<1> DEFINE k == Batches(n, b)
<1>1. k \in Nat /\ b * k <= n + b - 1 /\ n + b - 1 < b * k + b
  <2>1. n + b - 1 \in Nat
    OBVIOUS
  <2> DEFINE a == n + b - 1
  <2> HIDE DEF a
  <2>2. a \in Nat
    BY <2>1 DEF a
  <2>3. (a \div b) \in Nat /\ b * (a \div b) <= a /\ a < b * (a \div b) + b
    BY <2>2
  <2>4. QED
    BY <2>3 DEF a, Batches
<1> HIDE DEF k
<1>2. \A i, j \in Nat : i <= j => i * b <= j * b
  OBVIOUS
<1>3. \A i \in Nat : i * b \in Nat /\ (i + 1) * b = i * b + b
  OBVIOUS
<1>4. k * b = b * k
  BY <1>1
<1>5. k > 0 => (k - 1) * b + b = k * b
  BY <1>1, <1>3
<1>6. n = 0 => k = 0
  <2>1. k > 0 => b * k >= b
    BY <1>1
  <2>2. QED
    BY <1>1, <2>1
<1>7. n > 0 => k > 0
  <2>1. k = 0 => b * k = 0
    BY <1>1
  <2>2. QED
    BY <1>1, <2>1
<1>8. n > 0 => EndOf(n, b, k) = n
  BY <1>1, <1>4 DEF EndOf
<1>9. ASSUME NEW i \in 1..k
      PROVE  /\ i \in Nat /\ i - 1 \in Nat /\ i * b = (i - 1) * b + b /\ (i - 1) * b < n
             /\ (i - 1) * b \in Nat /\ i * b \in Nat
  <2>1. i \in Nat /\ i - 1 \in Nat /\ i <= k
    BY <1>1
  <2>2. i * b = (i - 1) * b + b
    BY <1>3, <2>1
  <2>3. i * b <= k * b
    BY <1>1, <1>2, <2>1
  <2>4. (i - 1) * b \in Nat /\ i * b \in Nat
    BY <1>3, <2>1
  <2>5. (i - 1) * b < n
    BY <1>1, <1>4, <2>2, <2>3, <2>4
  <2>6. QED
    BY <2>1, <2>2, <2>4, <2>5
<1>10. ASSUME NEW i \in 1..k
       PROVE  /\ EndOf(n, b, i) \in 1..n /\ StartOf(b, i) \in 1..n /\ StartOf(b, i) <= EndOf(n, b, i)
              /\ (i = 1 => StartOf(b, i) = 1)
              /\ (i > 1 => StartOf(b, i) = EndOf(n, b, i - 1) + 1)
  <2>1. StartOf(b, i) \in 1..n
    BY <1>9 DEF StartOf
  <2>2. EndOf(n, b, i) \in 1..n /\ StartOf(b, i) <= EndOf(n, b, i)
    BY <1>9 DEF EndOf, StartOf
  <2>3. i = 1 => StartOf(b, i) = 1
    BY <1>3 DEF StartOf
  <2>4. i > 1 => StartOf(b, i) = EndOf(n, b, i - 1) + 1
    BY <1>9 DEF EndOf, StartOf
  <2>5. QED
    BY <2>1, <2>2, <2>3, <2>4
<1>11. ASSUME NEW i \in 1..k, NEW j \in 1..k, i < j PROVE EndOf(n, b, i) < StartOf(b, j)
  <2>1. i * b <= (j - 1) * b
    <3>1. i \in Nat /\ j - 1 \in Nat /\ i <= j - 1
      BY <1>1, <1>11
    <3>2. QED
      BY <1>2, <3>1
  <2>2. i * b < n
    BY <1>9, <2>1
  <2>3. QED
    BY <1>9, <2>1, <2>2 DEF EndOf, StartOf
<1>12. QED
  BY <1>1, <1>6, <1>7, <1>8, <1>10, <1>11 DEF k

\* enqueueReplayChunks as frames: batch i, labelled with its last chunk.
LEMMA ReplayFramesTyped ==
  ASSUME NEW chunks \in Seq(Seqs)
  PROVE  LET n == Len(chunks)
             k == Batches(n, CoalesceTarget)
             R == ReplayFrames(chunks)
         IN  /\ R \in Seq(Frame) /\ Len(R) = k
             /\ \A i \in 1..k :
                   /\ R[i].kind = "out" /\ R[i].seq = chunks[EndOf(n, CoalesceTarget, i)]
                   /\ R[i].data = SubSeq(chunks, StartOf(CoalesceTarget, i), EndOf(n, CoalesceTarget, i))
                   /\ R[i].data \in Seq(Seqs)
                   /\ Len(R[i].data) = EndOf(n, CoalesceTarget, i) - StartOf(CoalesceTarget, i) + 1
                   /\ \A m \in 1..Len(R[i].data) :
                         R[i].data[m] = chunks[StartOf(CoalesceTarget, i) + m - 1]
<1> DEFINE n == Len(chunks)
           b == CoalesceTarget
           k == Batches(n, b)
           R == ReplayFrames(chunks)
           D(i) == SubSeq(chunks, StartOf(b, i), EndOf(n, b, i))
<1>1. n \in Nat /\ b \in Nat \ {0}
  BY Numbers, LenProperties
<1>2. R = [i \in 1..k |-> [kind |-> "out", seq |-> chunks[EndOf(n, b, i)], data |-> D(i)]]
  BY Zenon DEF ReplayFrames, Batches, EndOf, StartOf, Out
<1>3. k \in Nat
  BY <1>1, BatchFacts
<1> HIDE DEF R, k
<1>4. ASSUME NEW i \in 1..k
      PROVE  /\ chunks[EndOf(n, b, i)] \in Seqs /\ D(i) \in Seq(Seqs)
             /\ Len(D(i)) = EndOf(n, b, i) - StartOf(b, i) + 1
             /\ \A m \in 1..Len(D(i)) : D(i)[m] = chunks[StartOf(b, i) + m - 1]
  <2> DEFINE e == EndOf(n, b, i)
             s == StartOf(b, i)
  <2>1. e \in 1..n /\ s \in 1..n /\ s <= e
    BY <1>1, <1>4, BatchFacts DEF k
  <2> HIDE DEF e, s
  <2>2. chunks[e] \in Seqs /\ \A m \in s..e : chunks[m] \in Seqs
    <3>1. \A m \in s..e : m \in 1..Len(chunks)
      BY <1>1, <2>1
    <3>2. QED
      BY <2>1, <3>1, ElementOfSeq
  <2>3. /\ SubSeq(chunks, s, e) \in Seq(Seqs) /\ Len(SubSeq(chunks, s, e)) = e - s + 1
        /\ \A m \in 1..(e - s + 1) : SubSeq(chunks, s, e)[m] = chunks[s + m - 1]
    BY <2>1, <2>2, SubSeqProperties
  <2>4. QED
    BY <2>2, <2>3 DEF e, s
<1>5. \A i \in 1..k : [kind |-> "out", seq |-> chunks[EndOf(n, b, i)], data |-> D(i)] \in Frame
  BY <1>4, Zenon DEF Frame
<1>6. R \in Seq(Frame) /\ Len(R) = k /\ DOMAIN R = 1..k
  <2>1. R \in [1..k -> Frame]
    BY <1>2, <1>5, Zenon
  <2>2. R \in Seq(Frame)
    BY <1>3, <2>1
  <2>3. QED
    BY <1>3, <2>1, <2>2
<1>7. \A i \in 1..k : R[i] = [kind |-> "out", seq |-> chunks[EndOf(n, b, i)], data |-> D(i)]
  BY <1>2, Zenon
<1>8. ASSUME NEW i \in 1..k
      PROVE  R[i].kind = "out" /\ R[i].seq = chunks[EndOf(n, b, i)] /\ R[i].data = D(i)
  <2> DEFINE x == chunks[EndOf(n, b, i)]
             d == D(i)
  <2>1. R[i] = [kind |-> "out", seq |-> x, data |-> d]
    BY <1>7
  <2> HIDE DEF x, d
  <2>2. R[i].kind = "out" /\ R[i].seq = x /\ R[i].data = d
    BY <2>1
  <2>3. QED
    BY <2>2 DEF x, d
<1>9. QED
  BY <1>4, <1>6, <1>8, Zenon DEF R, k

\* The batches of a run are honest and follow each other.
LEMMA ReplayFramesFacts ==
  ASSUME NEW chunks \in Seq(Seqs), NEW hi \in Int, Run(chunks, hi)
  PROVE  LET R == ReplayFrames(chunks)
         IN  /\ R \in Seq(Frame)
             /\ chunks = << >> => R = << >>
             /\ chunks # << >> => Len(R) > 0 /\ R[Len(R)].seq = hi
             /\ \A i \in 1..Len(R) :
                   /\ IsOut(R[i]) /\ Honest(R[i]) /\ R[i].seq \in Nat /\ R[i].seq <= hi
                   /\ Len(R[i].data) \in Nat \ {0}
                   /\ (i = 1 => First(R[i]) = chunks[1])
                   /\ First(R[i]) >= chunks[1] /\ R[i].seq >= chunks[1]
                   /\ (i > 1 => First(R[i]) = R[i - 1].seq + 1)
             /\ \A i, j \in 1..Len(R) : i < j => R[i].seq < First(R[j]) /\ R[i].seq <= R[j].seq
<1> DEFINE n == Len(chunks)
           b == CoalesceTarget
           k == Batches(n, b)
           R == ReplayFrames(chunks)
<1>1. n \in Nat /\ b \in Nat \ {0}
  BY Numbers, LenProperties
<1>2. \A i \in 1..n : chunks[i] = hi - n + i /\ chunks[i] \in Nat
  BY RunElements, ElementOfSeq, Numbers
<1>3. k \in Nat /\ (n = 0 => k = 0) /\ (n > 0 => k > 0 /\ EndOf(n, b, k) = n)
  BY <1>1, BatchFacts
<1>4. /\ R \in Seq(Frame) /\ Len(R) = k
      /\ \A i \in 1..k :
            /\ R[i].kind = "out" /\ R[i].seq = chunks[EndOf(n, b, i)]
            /\ R[i].data \in Seq(Seqs)
            /\ Len(R[i].data) = EndOf(n, b, i) - StartOf(b, i) + 1
            /\ \A m \in 1..Len(R[i].data) : R[i].data[m] = chunks[StartOf(b, i) + m - 1]
  BY ReplayFramesTyped, Zenon
<1>5. /\ \A i \in 1..k : /\ EndOf(n, b, i) \in 1..n /\ StartOf(b, i) \in 1..n
                         /\ StartOf(b, i) <= EndOf(n, b, i)
                         /\ (i = 1 => StartOf(b, i) = 1)
                         /\ (i > 1 => StartOf(b, i) = EndOf(n, b, i - 1) + 1)
      /\ \A i, j \in 1..k : i < j => EndOf(n, b, i) < StartOf(b, j)
  <2>1. ASSUME NEW i \in 1..k
        PROVE  /\ EndOf(n, b, i) \in 1..n /\ StartOf(b, i) \in 1..n
               /\ StartOf(b, i) <= EndOf(n, b, i)
               /\ (i = 1 => StartOf(b, i) = 1)
               /\ (i > 1 => StartOf(b, i) = EndOf(n, b, i - 1) + 1)
    BY <1>1, BatchFacts
  <2>2. ASSUME NEW i \in 1..k, NEW j \in 1..k, i < j PROVE EndOf(n, b, i) < StartOf(b, j)
    BY <1>1, <2>2, BatchFacts
  <2>3. QED
    BY <2>1, <2>2
<1> HIDE DEF R, k, n, b
<1>6. ASSUME NEW i \in 1..k
      PROVE  /\ R[i].seq = hi - n + EndOf(n, b, i) /\ R[i].seq \in Nat
             /\ First(R[i]) = hi - n + StartOf(b, i)
             /\ Len(R[i].data) \in Nat \ {0}
             /\ Honest(R[i])
  <2>1. /\ EndOf(n, b, i) \in 1..n /\ StartOf(b, i) \in 1..n /\ StartOf(b, i) <= EndOf(n, b, i)
    BY <1>5
  <2>2. R[i].seq = hi - n + EndOf(n, b, i) /\ R[i].seq \in Nat
    BY <1>2, <1>4, <2>1
  <2>3. Len(R[i].data) = EndOf(n, b, i) - StartOf(b, i) + 1
    BY <1>4
  <2>4. Len(R[i].data) \in Nat \ {0}
    BY <1>1, <2>1, <2>3
  <2>5. First(R[i]) = hi - n + StartOf(b, i)
    BY <1>1, <2>1, <2>2, <2>3 DEF First
  <2>6. ASSUME NEW m \in 1..Len(R[i].data) PROVE R[i].data[m] = R[i].seq - Len(R[i].data) + m
    <3>1. R[i].data[m] = chunks[StartOf(b, i) + m - 1]
      BY <1>4, <2>6
    <3>2. StartOf(b, i) + m - 1 \in 1..n
      BY <1>1, <2>1, <2>3
    <3>3. R[i].data[m] = hi - n + (StartOf(b, i) + m - 1)
      BY <1>2, <3>1, <3>2
    <3>4. QED
      BY <1>1, <2>1, <2>2, <2>3, <3>3
  <2>7. R[i].data \in Seq(Seqs)
    BY <1>4
  <2>8. Run(R[i].data, R[i].seq)
    BY <2>6, <2>7, RunElements
  <2>9. R[i].data # << >>
    <3>1. Len(<< >>) = 0
      OBVIOUS
    <3>2. QED
      BY <2>4, <3>1
  <2>10. QED
    BY <2>2, <2>4, <2>5, <2>8, <2>9 DEF Honest
<1>7. chunks = << >> => R = << >>
  <2>1. chunks = << >> => n = 0
    BY DEF n
  <2>2. QED
    BY <1>3, <1>4, <2>1, EmptySeq
<1>8. chunks # << >> => Len(R) > 0 /\ R[Len(R)].seq = hi
  <2>1. chunks # << >> => n > 0
    BY EmptySeq DEF n
  <2>2. n > 0 => k \in 1..k
    BY <1>3
  <2>3. QED
    BY <1>1, <1>3, <1>4, <1>6, <2>1, <2>2
<1>9. ASSUME NEW i \in 1..k
      PROVE  /\ R[i].seq <= hi
             /\ (i = 1 => First(R[i]) = chunks[1])
             /\ First(R[i]) >= chunks[1] /\ R[i].seq >= chunks[1]
  <2>1. /\ EndOf(n, b, i) \in 1..n /\ StartOf(b, i) \in 1..n /\ StartOf(b, i) <= EndOf(n, b, i)
        /\ (i = 1 => StartOf(b, i) = 1)
    BY <1>5
  <2>2. 1 \in 1..n
    BY <1>1, <2>1
  <2>3. chunks[1] = hi - n + 1
    BY <1>2, <2>2
  <2>4. QED
    BY <1>1, <1>6, <2>1, <2>3
<1>10. ASSUME NEW i \in 1..k, i > 1 PROVE First(R[i]) = R[i - 1].seq + 1
  <2>1. i - 1 \in 1..k
    BY <1>3, <1>10
  <2>2. StartOf(b, i) = EndOf(n, b, i - 1) + 1 /\ EndOf(n, b, i - 1) \in 1..n
    BY <1>5, <1>10, <2>1
  <2>3. First(R[i]) = hi - n + StartOf(b, i) /\ R[i - 1].seq = hi - n + EndOf(n, b, i - 1)
    BY <1>6, <2>1
  <2>4. QED
    BY <1>1, <2>2, <2>3
<1>11. ASSUME NEW i \in 1..k, NEW j \in 1..k, i < j
       PROVE  R[i].seq < First(R[j]) /\ R[i].seq <= R[j].seq
  <2>1. /\ EndOf(n, b, i) \in 1..n /\ StartOf(b, j) \in 1..n /\ EndOf(n, b, j) \in 1..n
        /\ EndOf(n, b, i) < StartOf(b, j) /\ StartOf(b, j) <= EndOf(n, b, j)
    BY <1>5, <1>11
  <2>2. /\ R[i].seq = hi - n + EndOf(n, b, i) /\ First(R[j]) = hi - n + StartOf(b, j)
        /\ R[j].seq = hi - n + EndOf(n, b, j)
    BY <1>6
  <2>3. QED
    BY <1>1, <2>1, <2>2
<1>12. \A i \in 1..k : IsOut(R[i])
  BY <1>4 DEF IsOut
<1>13. QED
  BY <1>4, <1>6, <1>7, <1>8, <1>9, <1>10, <1>11, <1>12, Zenon DEF R

-----------------------------------------------------------------------------
(* Types *)

\* Frames, and the records of a goroutine that starts, ends or goes on.
LEMMA RecordsTyped ==
  /\ \A k \in {"none", "reset", "meta", "progress", "close"} : Control(k) \in Frame /\ ~IsOut(Control(k))
  /\ \A n \in Seqs : \A d \in Seq(Seqs) : Out(n, d) \in Frame /\ IsOut(Out(n, d))
                                          /\ Out(n, d).seq = n /\ Out(n, d).data = d
  /\ Idle \in Fanout /\ Detached \in Attachment
<1>0. 0 \in Seqs
  BY Numbers
<1>00. << >> \in Seq(Seqs)
  OBVIOUS
<1>1. \A k \in {"none", "reset", "meta", "progress", "close"} : Control(k) \in Frame
  BY <1>0, <1>00, Zenon DEF Control, Frame
<1>2. \A k \in {"none", "reset", "meta", "progress", "close"} : ~IsOut(Control(k))
  BY DEF Control, IsOut
<1>3. \A n \in Seqs : \A d \in Seq(Seqs) : Out(n, d) \in Frame
  BY Zenon DEF Out, Frame
<1>4. \A n \in Seqs : \A d \in Seq(Seqs) : IsOut(Out(n, d)) /\ Out(n, d).seq = n /\ Out(n, d).data = d
  BY DEF Out, IsOut
<1>5. Idle \in Fanout
  <2>1. Control("none") \in Frame
    BY <1>1
  <2>2. {} \in SUBSET Clients
    OBVIOUS
  <2>3. QED
    BY <1>0, <1>00, <2>1, <2>2, Zenon DEF Idle, Fanout
<1>6. Detached \in Attachment
  BY <1>0, <1>00, Zenon DEF Detached, Attachment
<1>7. QED
  BY <1>1, <1>2, <1>3, <1>4, <1>5, <1>6

\* After a fan-out, and after one subscriber of it.
LEMMA ServedTyped ==
  ASSUME NEW r \in Fanout, NEW c
  PROVE  AfterFanout(r.frame) \in Fanout /\ Served(r, c) \in Fanout
<1>1. Idle \in Fanout
  BY RecordsTyped
<1>2. [Idle EXCEPT !.pc = "remove"] \in Fanout
  BY <1>1 DEF Fanout
<1>3. AfterFanout(r.frame) \in Fanout
  BY <1>1, <1>2 DEF AfterFanout
<1>4. r.pend \ {c} \in SUBSET Clients
  BY DEF Fanout
<1>5. << >> \in Seq(Seqs)
  OBVIOUS
<1>6. 0 \in Seqs
  BY Numbers
<1>7. [r EXCEPT !.pc = "send", !.pend = @ \ {c}, !.sub = "none", !.tail = << >>, !.label = 0] \in Fanout
  BY <1>4, <1>5, <1>6, Zenon DEF Fanout
<1>8. QED
  BY <1>3, <1>7 DEF Served

\* The queues.
LEMMA QueueTyped ==
  ASSUME NEW q \in Seq(Frame), Len(q) <= QueueDepth, NEW f \in Frame, NEW fs \in Seq(Frame)
  PROVE  /\ Fits(q) => Append(q, f) \in Seq(Frame) /\ Len(Append(q, f)) <= QueueDepth
         /\ TrySend(q, f) \in Seq(Frame) /\ Len(TrySend(q, f)) <= QueueDepth
         /\ EnqueueAll(q, fs) \in Seq(Frame) /\ Len(EnqueueAll(q, fs)) <= QueueDepth
         /\ q # << >> => Tail(q) \in Seq(Frame) /\ Len(Tail(q)) <= QueueDepth
<1>0. Len(q) \in Nat /\ Len(fs) \in Nat /\ QueueDepth \in Nat
  BY LenProperties, Numbers
<1>1. Fits(q) => Append(q, f) \in Seq(Frame) /\ Len(Append(q, f)) <= QueueDepth
  BY <1>0, AppendProperties DEF Fits
<1>2. TrySend(q, f) \in Seq(Frame) /\ Len(TrySend(q, f)) <= QueueDepth
  BY <1>1 DEF TrySend
<1>3. q \o fs \in Seq(Frame) /\ Len(q \o fs) = Len(q) + Len(fs)
  BY ConcatProperties
<1>4. CASE AllFit(q, fs)
  <2>1. EnqueueAll(q, fs) = q \o fs
    BY <1>4 DEF EnqueueAll
  <2>2. Len(q) + Len(fs) <= QueueDepth
    BY <1>4 DEF AllFit
  <2>3. QED
    BY <1>0, <1>1, <1>2, <1>3, <2>1, <2>2, HeadTailProperties
<1>5. CASE ~AllFit(q, fs)
  <2> DEFINE t == q \o fs
  <2>1. EnqueueAll(q, fs) = SubSeq(t, 1, QueueDepth)
    BY <1>5 DEF EnqueueAll
  <2>2. QueueDepth < Len(t)
    BY <1>0, <1>3, <1>5 DEF AllFit
  <2>3. t \in Seq(Frame) /\ Len(t) \in Nat
    BY <1>3, LenProperties
  <2> HIDE DEF t
  <2>4. \A i \in 1..QueueDepth : t[i] \in Frame
    <3>1. \A i \in 1..QueueDepth : i \in 1..Len(t)
      BY <1>0, <2>2, <2>3
    <3>2. QED
      BY <2>3, <3>1, ElementOfSeq
  <2>5. SubSeq(t, 1, QueueDepth) \in Seq(Frame) /\ Len(SubSeq(t, 1, QueueDepth)) = QueueDepth
    BY <1>0, <2>4, Numbers, SubSeqProperties
  <2>6. QED
    BY <1>0, <1>1, <1>2, <2>1, <2>5, HeadTailProperties
<1>6. QED
  BY <1>4, <1>5

\* The ring after a push is the run that ends with the new chunk.
LEMMA PushFacts ==
  ASSUME TypeOK, RingInv, last < MaxSeq
  PROVE  LET new == Push(ring, last + 1)
         IN  /\ new \in Seq(Seqs) /\ Len(new) <= RingCap /\ Run(new, last + 1)
             /\ Len(new) = IF last + 1 > RingCap THEN RingCap ELSE last + 1
<1>0. /\ ring \in Seq(Seqs) /\ last \in Nat /\ last + 1 \in Seqs /\ RingCap \in Nat \ {0}
      /\ Len(ring) \in Nat
  BY Numbers, LenProperties DEF TypeOK, Seqs
<1>1. Run(ring, last)
  BY DEF TypeOK, RingIsSuffix, Run
<1> DEFINE t == Append(ring, last + 1)
<1>2. /\ t \in Seq(Seqs) /\ Len(t) = Len(ring) + 1 /\ t[Len(ring) + 1] = last + 1
      /\ \A i \in 1..Len(ring) : t[i] = ring[i]
  BY <1>0, AppendProperties
<1> HIDE DEF t
<1>3. ASSUME NEW i \in 1..Len(t) PROVE t[i] = last + 1 - Len(t) + i
  <2>1. CASE i = Len(ring) + 1
    BY <1>0, <1>2, <2>1
  <2>2. CASE i \in 1..Len(ring)
    <3>1. t[i] = last - Len(ring) + i
      BY <1>0, <1>1, <1>2, <2>2, RunElements
    <3>2. QED
      BY <1>0, <1>2, <3>1
  <2>3. QED
    BY <1>0, <1>2, <2>1, <2>2
<1>4. Run(t, last + 1)
  <2> DEFINE hi == last + 1
  <2>1. \A i \in 1..Len(t) : t[i] = hi - Len(t) + i
    BY <1>0, <1>2, <1>3
  <2> HIDE DEF hi
  <2>2. Run(t, hi)
    BY <1>2, <2>1, RunElements
  <2>3. QED
    BY <2>2 DEF hi
<1>5. /\ Newest(t, RingCap) \in Seq(Seqs) /\ Run(Newest(t, RingCap), last + 1)
      /\ Len(Newest(t, RingCap)) = IF Len(t) > RingCap THEN RingCap ELSE Len(t)
  BY <1>0, <1>2, <1>4, NewestFacts, NewestRun
<1>6. Push(ring, last + 1) = Newest(t, RingCap)
  BY DEF Push, t
<1>7. Len(Newest(t, RingCap)) = (IF last + 1 > RingCap THEN RingCap ELSE last + 1)
      /\ Len(Newest(t, RingCap)) <= RingCap
  BY <1>0, <1>2, <1>5 DEF RingInv
<1>8. QED
  BY <1>5, <1>6, <1>7

Core == TypeOK /\ RingInv

\* An empty ring, no subscriber, idle goroutines.
LEMMA InitCore == Init => Core
<1> SUFFICES ASSUME Init PROVE Core
  OBVIOUS
<1>1. << >> \in Seq(Seqs) /\ << >> \in Seq(Frame) /\ Len(<< >>) = 0
  BY EmptySeq
<1>2. RingIsSuffix
  <2>1. ring = << >> /\ last = 0
    BY DEF Init
  <2>2. Run(<< >>, 0)
    <3>1. \A i \in 1..Len(<< >>) : << >>[i] = 0 - Len(<< >>) + i
      BY <1>1
    <3>2. QED
      BY <1>1, <3>1, RunElements
  <2>3. QED
    BY <2>1, <2>2 DEF RingIsSuffix, Run
<1>3. ring \in Seq(Seqs) /\ Len(ring) = 0 /\ last = 0
  BY <1>1 DEF Init
<1>4. RingInv /\ Len(ring) <= RingCap /\ last \in Seqs
  BY <1>3, Numbers DEF RingInv
<1>5. att \in [Clients -> Attachment] /\ th \in [Threads -> Fanout]
  BY RecordsTyped DEF Init
<1>6. out \in [Clients -> Seq(Frame)] /\ screen \in [Clients -> Seq(Seqs)] /\ cursor \in [Clients -> Seqs]
  <2>1. 0 \in Seqs
    BY Numbers
  <2>2. QED
    BY <1>1, <2>1 DEF Init
<1>7. \A c \in Clients : Len(out[c]) <= QueueDepth
  BY <1>1, Numbers DEF Init
<1>8. subs \subseteq Clients /\ closed \in BOOLEAN /\ told \in [Clients -> BOOLEAN] /\ dedup \in [Clients -> BOOLEAN]
  BY DEF Init
<1>9. metas \in 0..MaxMeta /\ claims \in 0..MaxClaims /\ drops \in 0..MaxDrops
  BY Numbers DEF Init
<1>10. QED
  BY <1>2, <1>3, <1>4, <1>5, <1>6, <1>7, <1>8, <1>9 DEF Core, TypeOK

\* Every step of a goroutine, a connection or a client.
LEMMA NextCore == Core /\ [Next]_vars => Core'
<1> SUFFICES ASSUME Core, [Next]_vars PROVE Core'
  OBVIOUS
<1>ty. TypeOK /\ RingInv
  BY DEF Core
<1>ring. ASSUME UNCHANGED <<ring, last>>
         PROVE  ring' \in Seq(Seqs) /\ Len(ring') <= RingCap /\ RingIsSuffix' /\ last' \in Seqs /\ RingInv'
  BY <1>ty, <1>ring DEF TypeOK, RingIsSuffix, RingInv
<1>rest. ASSUME ring' \in Seq(Seqs), Len(ring') <= RingCap, RingIsSuffix', last' \in Seqs, RingInv',
                UNCHANGED dedup, closed' \in BOOLEAN, subs' \in SUBSET Clients,
                out' \in [Clients -> Seq(Frame)], \A c \in Clients : Len(out'[c]) <= QueueDepth,
                att' \in [Clients -> Attachment], th' \in [Threads -> Fanout],
                screen' \in [Clients -> Seq(Seqs)], cursor' \in [Clients -> Seqs],
                told' \in [Clients -> BOOLEAN],
                metas' \in 0..MaxMeta, claims' \in 0..MaxClaims, drops' \in 0..MaxDrops
         PROVE  Core'
  BY <1>ty, <1>rest DEF TypeOK, Core
<1>0. /\ closed \in BOOLEAN /\ subs \in SUBSET Clients
      /\ out \in [Clients -> Seq(Frame)] /\ \A c \in Clients : Len(out[c]) <= QueueDepth
  BY <1>ty DEF TypeOK
<1>00. att \in [Clients -> Attachment] /\ th \in [Threads -> Fanout]
  BY <1>ty DEF TypeOK
<1>000. /\ screen \in [Clients -> Seq(Seqs)] /\ cursor \in [Clients -> Seqs]
        /\ told \in [Clients -> BOOLEAN]
        /\ metas \in 0..MaxMeta /\ claims \in 0..MaxClaims /\ drops \in 0..MaxDrops
  BY <1>ty DEF TypeOK
<1>reader. "reader" \in Threads /\ Clients \subseteq Threads
  BY DEF Threads
<1>thread. ASSUME th' \in [Threads -> Fanout],
                  UNCHANGED <<ring, last, subs, closed, out, att, screen, cursor, told, dedup, drops>>,
                  metas' \in 0..MaxMeta, claims' \in 0..MaxClaims
           PROVE  Core'
  BY <1>0, <1>00, <1>000, <1>ring, <1>rest, <1>thread
<1>queue. ASSUME th' \in [Threads -> Fanout],
                 out' \in [Clients -> Seq(Frame)], \A c \in Clients : Len(out'[c]) <= QueueDepth,
                 UNCHANGED <<ring, last, subs, closed, att, screen, cursor, told, dedup, metas, claims, drops>>
          PROVE  Core'
  BY <1>0, <1>00, <1>000, <1>ring, <1>rest, <1>queue
<1>sub. ASSUME att' \in [Clients -> Attachment], subs' \in SUBSET Clients,
               out' \in [Clients -> Seq(Frame)], \A c \in Clients : Len(out'[c]) <= QueueDepth,
               UNCHANGED <<ring, last, closed, th, screen, cursor, told, dedup, metas, claims, drops>>
        PROVE  Core'
  BY <1>0, <1>00, <1>000, <1>ring, <1>rest, <1>sub
<1>start. ASSUME NEW t \in Threads, NEW f \in Frame, StartFanout(t, f) PROVE th' \in [Threads -> Fanout]
  <2>1. Idle \in Fanout
    BY RecordsTyped
  <2>2. [Idle EXCEPT !.pc = "fanout", !.frame = f] \in Fanout
    BY <2>1 DEF Fanout
  <2>3. QED
    BY <1>00, <1>start, <2>2 DEF StartFanout
<1>control. \A k \in {"none", "reset", "meta", "progress", "close"} : Control(k) \in Frame
  BY RecordsTyped
<1>1. CASE PushOut
  <2>1. last < MaxSeq /\ last' = last + 1 /\ ring' = Push(ring, last + 1)
    BY <1>1 DEF PushOut
  <2>2. /\ ring' \in Seq(Seqs) /\ Len(ring') <= RingCap /\ Run(ring', last')
        /\ Len(ring') = IF last' > RingCap THEN RingCap ELSE last'
    BY <1>ty, <2>1, PushFacts
  <2>3. RingIsSuffix' /\ RingInv'
    BY <2>2 DEF RingIsSuffix, RingInv, Run
  <2>4. last' \in Seqs
    BY <1>ty, <2>1, Numbers DEF TypeOK, Seqs
  <2>5. <<last'>> \in Seq(Seqs)
    BY <2>4
  <2>6. Out(last', <<last'>>) \in Frame
    BY <2>4, <2>5, RecordsTyped
  <2>7. th' \in [Threads -> Fanout]
    BY <1>reader, <1>1, <1>start, <2>1, <2>6 DEF PushOut
  <2>8. UNCHANGED <<subs, closed, out, att, screen, cursor, told, dedup, metas, claims, drops>>
    BY <1>1 DEF PushOut, client, bounds
  <2>9. QED
    BY <1>0, <1>00, <1>000, <1>rest, <2>2, <2>3, <2>4, <2>7, <2>8
<1>2. CASE BroadcastMeta
  <2>1. th' \in [Threads -> Fanout]
    BY <1>reader, <1>control, <1>start, <1>2 DEF BroadcastMeta
  <2>2. metas' \in 0..MaxMeta /\ UNCHANGED <<claims, drops>>
    BY <1>000, <1>2, Numbers DEF BroadcastMeta
  <2>3. QED
    BY <1>000, <1>thread, <1>2, <2>1, <2>2 DEF BroadcastMeta, client
<1>3. CASE EndOfSession
  <2>1. th' \in [Threads -> Fanout]
    BY <1>reader, <1>control, <1>start, <1>3 DEF EndOfSession
  <2>2. QED
    BY <1>000, <1>thread, <1>3, <2>1 DEF EndOfSession, client, bounds
<1>4. CASE CloseSession
  <2>1. th' \in [Threads -> Fanout]
    BY <1>00, <1>4, RecordsTyped DEF CloseSession
  <2>2. \A c \in Clients : [att[c] EXCEPT !.pc = "cut"] \in Attachment
    BY <1>00 DEF Attachment
  <2>3. att' \in [Clients -> Attachment]
    BY <1>00, <1>4, <2>2 DEF CloseSession
  <2>4. UNCHANGED <<ring, last, out, screen, cursor, told, dedup, metas, claims, drops>>
    BY <1>4 DEF CloseSession, client, bounds
  <2>5. closed' \in BOOLEAN /\ subs' \in SUBSET Clients
    BY <1>4 DEF CloseSession
  <2>6. QED
    BY <1>0, <1>000, <1>ring, <1>rest, <2>1, <2>3, <2>4, <2>5
<1>5. ASSUME NEW c \in Clients, ClaimDriver(c) PROVE Core'
  <2>1. th' \in [Threads -> Fanout]
    BY <1>reader, <1>control, <1>start, <1>5 DEF ClaimDriver
  <2>2. claims' \in 0..MaxClaims /\ UNCHANGED <<metas, drops>>
    BY <1>000, <1>5, Numbers DEF ClaimDriver
  <2>3. QED
    BY <1>000, <1>thread, <1>5, <2>1, <2>2 DEF ClaimDriver, client
<1>6. ASSUME NEW t \in Threads, Snapshot(t) PROVE Core'
  <2>1. th[t] \in Fanout
    BY <1>00
  <2>2. AfterFanout(th[t].frame) \in Fanout
    BY <2>1, ServedTyped
  <2>3. [th[t] EXCEPT !.pc = "send", !.pend = subs] \in Fanout
    BY <1>0, <2>1 DEF Fanout
  <2>4. th' \in [Threads -> Fanout]
    BY <1>00, <1>6, <2>2, <2>3 DEF Snapshot
  <2>5. QED
    BY <1>000, <1>thread, <1>6, <2>4 DEF Snapshot, client, bounds
<1>7. ASSUME NEW t \in Threads, NEW c \in Clients, Send(t, c) PROVE Core'
  <2>1. th[t] \in Fanout /\ th[t].frame \in Frame /\ out[c] \in Seq(Frame) /\ Len(out[c]) <= QueueDepth
    BY <1>0, <1>00 DEF Fanout
  <2>2. Served(th[t], c) \in Fanout
    BY <2>1, ServedTyped
  <2>3. [th[t] EXCEPT !.pc = "full", !.sub = c] \in Fanout
    BY <2>1 DEF Fanout
  <2>4. th' \in [Threads -> Fanout]
    BY <1>00, <1>7, <2>2, <2>3 DEF Send
  <2>5. Fits(out[c]) => Append(out[c], th[t].frame) \in Seq(Frame) /\ Len(Append(out[c], th[t].frame)) <= QueueDepth
    BY <2>1, QueueTyped
  <2>6. out' \in [Clients -> Seq(Frame)] /\ \A d \in Clients : Len(out'[d]) <= QueueDepth
    BY <1>0, <1>7, <2>5 DEF Send
  <2>7. QED
    BY <1>queue, <1>7, <2>4, <2>6 DEF Send, client, bounds
<1>resync. ASSUME NEW t \in Threads, NEW q \in Seq(Frame), Len(q) <= QueueDepth,
                  out' = out \/ out' = [out EXCEPT ![th[t].sub] = q]
           PROVE  out' \in [Clients -> Seq(Frame)] /\ \A d \in Clients : Len(out'[d]) <= QueueDepth
  BY <1>0, <1>resync
<1>8. ASSUME NEW t \in Threads, ResyncDrain(t) PROVE Core'
  <2>1. << >> \in Seq(Frame) /\ Len(<< >>) <= QueueDepth
    BY Numbers, EmptySeq
  <2>2. out' \in [Clients -> Seq(Frame)] /\ \A d \in Clients : Len(out'[d]) <= QueueDepth
    BY <1>resync, <1>8, <2>1 DEF ResyncDrain
  <2>3. [th[t] EXCEPT !.pc = "drained"] \in Fanout
    BY <1>00 DEF Fanout
  <2>4. th' \in [Threads -> Fanout]
    BY <1>00, <1>8, <2>3 DEF ResyncDrain
  <2>5. QED
    BY <1>queue, <1>8, <2>2, <2>4 DEF ResyncDrain, client, bounds
<1>9. ASSUME NEW t \in Threads, ResyncTailBytes(t) PROVE Core'
  <2>1. TailBytes(ring) \in Seq(Seqs)
    BY <1>ty, NewestFacts, Numbers DEF TailBytes, TypeOK
  <2>2. [th[t] EXCEPT !.pc = "tail", !.tail = TailBytes(ring)] \in Fanout
    BY <1>00, <2>1 DEF Fanout
  <2>3. th' \in [Threads -> Fanout]
    BY <1>00, <1>9, <2>2 DEF ResyncTailBytes
  <2>4. QED
    BY <1>000, <1>thread, <1>9, <2>3 DEF ResyncTailBytes, client, bounds
<1>10. ASSUME NEW t \in Threads, ResyncLatestSeq(t) PROVE Core'
  <2>1. LatestSeq(ring) \in Seqs
    BY <1>ty, Numbers, EmptySeq, ElementOfSeq DEF LatestSeq, TypeOK
  <2>2. [th[t] EXCEPT !.pc = "label", !.label = LatestSeq(ring)] \in Fanout
    BY <1>00, <2>1 DEF Fanout
  <2>3. th' \in [Threads -> Fanout]
    BY <1>00, <1>10, <2>2 DEF ResyncLatestSeq
  <2>4. QED
    BY <1>000, <1>thread, <1>10, <2>3 DEF ResyncLatestSeq, client, bounds
<1>send. ASSUME NEW t \in Threads, NEW f \in Frame, out' = [out EXCEPT ![th[t].sub] = TrySend(@, f)]
         PROVE  out' \in [Clients -> Seq(Frame)] /\ \A d \in Clients : Len(out'[d]) <= QueueDepth
  <2>1. CASE th[t].sub \in Clients
    <3>1. TrySend(out[th[t].sub], f) \in Seq(Frame) /\ Len(TrySend(out[th[t].sub], f)) <= QueueDepth
      <4>1. out[th[t].sub] \in Seq(Frame) /\ Len(out[th[t].sub]) <= QueueDepth
        BY <1>0, <2>1
      <4>2. << >> \in Seq(Frame)
        OBVIOUS
      <4>3. QED
        BY <4>1, <4>2, QueueTyped
    <3>2. QED
      BY <1>0, <1>send, <2>1, <3>1
  <2>2. CASE th[t].sub \notin Clients
    BY <1>0, <1>send, <2>2
  <2>3. QED
    BY <2>1, <2>2
<1>11. ASSUME NEW t \in Threads, ResyncMarker(t) PROVE Core'
  <2>1. out' \in [Clients -> Seq(Frame)] /\ \A d \in Clients : Len(out'[d]) <= QueueDepth
    BY <1>send, <1>11, <1>control DEF ResyncMarker, ResetMarker
  <2>2. [th[t] EXCEPT !.pc = "marked"] \in Fanout
    BY <1>00 DEF Fanout
  <2>3. th' \in [Threads -> Fanout]
    BY <1>00, <1>11, <2>2, ServedTyped DEF ResyncMarker
  <2>4. QED
    BY <1>queue, <1>11, <2>1, <2>3 DEF ResyncMarker, client, bounds
<1>12. ASSUME NEW t \in Threads, ResyncSendTail(t) PROVE Core'
  <2>1. Out(th[t].label, th[t].tail) \in Frame
    BY <1>00, RecordsTyped DEF Fanout
  <2>2. out' \in [Clients -> Seq(Frame)] /\ \A d \in Clients : Len(out'[d]) <= QueueDepth
    BY <1>send, <1>12, <2>1 DEF ResyncSendTail
  <2>3. th' \in [Threads -> Fanout]
    BY <1>00, <1>12, ServedTyped DEF ResyncSendTail
  <2>4. QED
    BY <1>queue, <1>12, <2>2, <2>3 DEF ResyncSendTail, client, bounds
<1>13. ASSUME NEW c \in Clients, Attach(c) PROVE Core'
  <2> DEFINE chunks == Since(ring, cursor[c])
  <2>1. chunks \in Seq(Seqs) /\ CapReplayTail(chunks) \in Seq(Seqs) /\ CappedTail(chunks) \in BOOLEAN
    <3>1. ring \in Seq(Seqs) /\ Run(ring, last) /\ last \in Int /\ cursor[c] \in Int /\ cursor[c] \in Seqs
      BY <1>ty, Numbers DEF TypeOK, RingIsSuffix, Run
    <3>2. chunks \in Seq(Seqs)
      BY <3>1, SinceFacts
    <3>3. CapReplayTail(chunks) \in Seq(Seqs)
      BY <3>2, NewestFacts, Numbers DEF CapReplayTail
    <3>4. QED
      BY <3>2, <3>3 DEF CappedTail
  <2> HIDE DEF chunks
  <2>2. [pc |-> "snapshot", chunks |-> CapReplayTail(chunks),
         capped |-> CappedTail(chunks), lastSeq |-> cursor[c]] \in Attachment
    BY <1>000, <2>1, Zenon DEF Attachment
  <2>3. att' \in [Clients -> Attachment]
    BY <1>00, <1>13, <2>2, Zenon DEF Attach, chunks
  <2>4. QED
    BY <1>0, <1>sub, <1>13, <2>3 DEF Attach, client, bounds
<1>replay. ASSUME NEW c \in Clients, NEW fs \in Seq(Frame), NEW next \in {"catchup"}, NEW n \in Seqs,
                  Replay(c, fs, next, n),
                  UNCHANGED <<ring, last, subs, closed, th, screen, cursor, told, dedup, metas, claims, drops>>
           PROVE  Core'
  <2>1. out[c] \in Seq(Frame) /\ Len(out[c]) <= QueueDepth
    BY <1>0
  <2>2. EnqueueAll(out[c], fs) \in Seq(Frame) /\ Len(EnqueueAll(out[c], fs)) <= QueueDepth
    BY <2>1, <1>control, QueueTyped
  <2>3. out' \in [Clients -> Seq(Frame)] /\ \A d \in Clients : Len(out'[d]) <= QueueDepth
    BY <1>0, <1>replay, <2>2 DEF Replay
  <2>4. \A p \in {"catchup", "dropped"} : [Detached EXCEPT !.pc = p, !.lastSeq = n] \in Attachment
    BY RecordsTyped DEF Attachment
  <2>5. att' \in [Clients -> Attachment]
    BY <1>00, <1>replay, <2>4 DEF Replay
  <2>6. QED
    BY <1>0, <1>sub, <1>replay, <2>3, <2>5
<1>latest. ASSUME NEW s \in Seq(Seqs) PROVE LatestSeq(s) \in Seqs
  BY Numbers, EmptySeq, ElementOfSeq DEF LatestSeq
<1>14. ASSUME NEW c \in Clients, ReplaySnapshot(c) PROVE Core'
  <2>1. att[c] \in Attachment /\ att[c].chunks \in Seq(Seqs) /\ att[c].lastSeq \in Seqs
    BY <1>00 DEF Attachment
  <2> DEFINE torn   == att[c].capped \/ ReplayIsTruncated(OldestSeq(ring), att[c].lastSeq, Len(att[c].chunks))
             marker == IF torn THEN <<ResetMarker>> ELSE << >>
             fs == <<Control("progress")>> \o marker \o ReplayFrames(att[c].chunks)
             n == IF att[c].chunks = << >> THEN att[c].lastSeq ELSE LatestSeq(att[c].chunks)
  <2>2. Replay(c, fs, "catchup", n)
    BY <1>14 DEF ReplaySnapshot
  <2>3. n \in Seqs
    BY <1>latest, <2>1
  <2>4. fs \in Seq(Frame)
    <3>1. ReplayFrames(att[c].chunks) \in Seq(Frame)
      BY <2>1, ReplayFramesTyped, Zenon
    <3>2. Control("progress") \in Frame /\ ResetMarker \in Frame
      BY <1>control DEF ResetMarker
    <3>3. <<Control("progress")>> \in Seq(Frame) /\ <<ResetMarker>> \in Seq(Frame)
      BY <3>2
    <3>4. << >> \in Seq(Frame)
      OBVIOUS
    <3>5. marker \in Seq(Frame)
      BY <3>3, <3>4
    <3> HIDE DEF marker
    <3>6. <<Control("progress")>> \o marker \in Seq(Frame)
      BY <3>3, <3>5, ConcatProperties
    <3>7. QED
      BY <3>1, <3>6, ConcatProperties
  <2> HIDE DEF fs, n
  <2>5. UNCHANGED <<ring, last, subs, closed, th, screen, cursor, told, dedup, metas, claims, drops>>
    BY <1>14 DEF ReplaySnapshot, client, bounds
  <2>6. QED
    BY <1>replay, <2>2, <2>3, <2>4, <2>5
<1>15. ASSUME NEW c \in Clients, CatchUp(c) PROVE Core'
  <2> DEFINE more == Since(ring, att[c].lastSeq)
  <2>1. more \in Seq(Seqs)
    <3>1. ring \in Seq(Seqs) /\ Run(ring, last) /\ last \in Int /\ att[c].lastSeq \in Int
      BY <1>ty, Numbers DEF TypeOK, RingIsSuffix, Run, Attachment
    <3>2. QED
      BY <3>1, SinceFacts
  <2>2. Replay(c, ReplayFrames(more), "catchup", LatestSeq(more))
    BY <1>15 DEF CatchUp
  <2> HIDE DEF more
  <2>3. ReplayFrames(more) \in Seq(Frame)
    BY <2>1, ReplayFramesTyped, Zenon
  <2>4. UNCHANGED <<ring, last, subs, closed, th, screen, cursor, told, dedup, metas, claims, drops>>
    BY <1>15 DEF CatchUp, client, bounds
  <2>5. QED
    BY <1>replay, <1>latest, <2>1, <2>2, <2>3, <2>4
<1>pc. ASSUME NEW c \in Clients, NEW p \in {"joined", "dropped", "live"} PROVE [att[c] EXCEPT !.pc = p] \in Attachment
  BY <1>00 DEF Attachment
<1>16. ASSUME NEW c \in Clients, Join(c) PROVE Core'
  <2> DEFINE joins == ~closed /\ Fits(out[c])
  <2>1. Fits(out[c]) => /\ Append(out[c], Control("progress")) \in Seq(Frame)
                        /\ Len(Append(out[c], Control("progress"))) <= QueueDepth
    BY <1>0, <1>control, QueueTyped
  <2>2. /\ att' = [att EXCEPT ![c].pc = IF joins THEN "joined" ELSE "dropped"]
        /\ out' = [out EXCEPT ![c] = IF joins THEN Append(@, Control("progress")) ELSE @]
        /\ subs' = IF joins THEN subs \cup {c} ELSE subs
    BY <1>16 DEF Join
  <2>3. out' \in [Clients -> Seq(Frame)] /\ \A d \in Clients : Len(out'[d]) <= QueueDepth
    BY <1>0, <2>1, <2>2
  <2>4. att' \in [Clients -> Attachment]
    BY <1>00, <1>pc, <2>2
  <2>5. subs' \in SUBSET Clients
    BY <1>0, <2>2
  <2>6. QED
    BY <1>sub, <1>16, <2>3, <2>4, <2>5 DEF Join, client, bounds
<1>17. ASSUME NEW c \in Clients, SendSnapshotMeta(c) PROVE Core'
  <2>1. TrySend(out[c], Control("meta")) \in Seq(Frame) /\ Len(TrySend(out[c], Control("meta"))) <= QueueDepth
    BY <1>0, <1>control, QueueTyped
  <2>2. out' \in [Clients -> Seq(Frame)] /\ \A d \in Clients : Len(out'[d]) <= QueueDepth
    BY <1>0, <1>17, <2>1 DEF SendSnapshotMeta
  <2>3. att' \in [Clients -> Attachment]
    BY <1>00, <1>pc, <1>17 DEF SendSnapshotMeta
  <2>4. QED
    BY <1>0, <1>sub, <1>17, <2>2, <2>3 DEF SendSnapshotMeta, client, bounds
<1>18. ASSUME NEW c \in Clients, Deliver(c) PROVE Core'
  <2> DEFINE f == Head(out[c])
  <2>1. out[c] \in Seq(Frame) /\ Len(out[c]) <= QueueDepth /\ out[c] # << >>
    BY <1>0, <1>18 DEF Deliver
  <2>2. f \in Frame /\ Tail(out[c]) \in Seq(Frame) /\ Len(Tail(out[c])) <= QueueDepth
    <3>1. << >> \in Seq(Frame)
      OBVIOUS
    <3>2. QED
      BY <1>control, <2>1, <3>1, HeadTailProperties, QueueTyped
  <2>3. /\ screen' = [screen EXCEPT ![c] = IF f.kind = "reset" THEN << >>
                                           ELSE IF Commits(c, f) THEN @ \o f.data ELSE @]
        /\ cursor' = [cursor EXCEPT ![c] = IF f.kind = "out" /\ f.seq > @ THEN f.seq ELSE @]
        /\ told' = [told EXCEPT ![c] = @ \/ f.kind = "close"]
        /\ out' = [out EXCEPT ![c] = Tail(@)]
    BY <1>18 DEF Deliver
  <2> HIDE DEF f
  <2>4. f.seq \in Seqs /\ f.data \in Seq(Seqs)
    BY <2>2 DEF Frame
  <2>5. screen[c] \o f.data \in Seq(Seqs) /\ << >> \in Seq(Seqs) /\ screen[c] \in Seq(Seqs)
    BY <1>000, <2>4, ConcatProperties, EmptySeq
  <2>6. screen' \in [Clients -> Seq(Seqs)]
    BY <1>000, <2>3, <2>5
  <2>7. cursor' \in [Clients -> Seqs] /\ told' \in [Clients -> BOOLEAN]
    BY <1>000, <2>3, <2>4
  <2>8. out' \in [Clients -> Seq(Frame)] /\ \A d \in Clients : Len(out'[d]) <= QueueDepth
    BY <1>0, <2>2, <2>3
  <2>9. UNCHANGED <<ring, last, subs, closed, att, th, dedup, metas, claims, drops>>
    BY <1>18 DEF Deliver, bounds
  <2>10. QED
    BY <1>0, <1>00, <1>000, <1>ring, <1>rest, <2>6, <2>7, <2>8, <2>9
<1>forget. ASSUME NEW c \in Clients, Forget(c) PROVE th' \in [Threads -> Fanout]
  <2>1. ASSUME NEW t \in Threads
        PROVE  th[t] \in Fanout /\ Served(th[t], c) \in Fanout /\ [th[t] EXCEPT !.pend = @ \ {c}] \in Fanout
    <3>1. th[t] \in Fanout
      BY <1>00
    <3>2. [th[t] EXCEPT !.pend = @ \ {c}] \in Fanout
      BY <3>1 DEF Fanout
    <3>3. QED
      BY <3>1, <3>2, ServedTyped
  <2>2. QED
    BY <1>forget, <2>1 DEF Forget
<1>gone. ASSUME NEW c \in Clients, out' = [out EXCEPT ![c] = << >>]
         PROVE  out' \in [Clients -> Seq(Frame)] /\ \A d \in Clients : Len(out'[d]) <= QueueDepth
  <2>1. << >> \in Seq(Frame) /\ Len(<< >>) <= QueueDepth
    BY Numbers, EmptySeq
  <2>2. QED
    BY <1>0, <1>gone, <2>1
<1>19. ASSUME NEW c \in Clients, Hangup(c) PROVE Core'
  <2>1. \A p \in {"ended", "off"} : [Detached EXCEPT !.pc = p] \in Attachment
    BY RecordsTyped DEF Attachment
  <2>2. att' \in [Clients -> Attachment]
    BY <1>00, <1>19, <2>1 DEF Hangup
  <2>3. th' \in [Threads -> Fanout] /\ out' \in [Clients -> Seq(Frame)]
        /\ \A d \in Clients : Len(out'[d]) <= QueueDepth
    BY <1>forget, <1>gone, <1>19 DEF Hangup
  <2>4. UNCHANGED <<ring, last, subs, closed, screen, cursor, told, dedup, metas, claims, drops>>
    BY <1>19 DEF Hangup, client, bounds
  <2>5. QED
    BY <1>0, <1>000, <1>ring, <1>rest, <2>2, <2>3, <2>4
<1>20. ASSUME NEW c \in Clients, Disconnect(c) PROVE Core'
  <2>1. att' \in [Clients -> Attachment]
    BY <1>00, <1>20, RecordsTyped DEF Disconnect
  <2>2. th' \in [Threads -> Fanout] /\ out' \in [Clients -> Seq(Frame)]
        /\ \A d \in Clients : Len(out'[d]) <= QueueDepth
    BY <1>forget, <1>gone, <1>20 DEF Disconnect
  <2>3. UNCHANGED <<ring, last, closed, screen, cursor, told, dedup, metas, claims>> /\ subs' \in SUBSET Clients
    BY <1>0, <1>20 DEF Disconnect, client
  <2>4. drops' \in 0..MaxDrops
    BY <1>000, <1>20, Numbers DEF Disconnect
  <2>5. QED
    BY <1>0, <1>000, <1>ring, <1>rest, <2>1, <2>2, <2>3, <2>4
<1>21. CASE UNCHANGED vars
  BY <1>00, <1>000, <1>thread, <1>21 DEF vars
<1>22. QED
  BY <1>1, <1>2, <1>3, <1>4, <1>5, <1>6, <1>7, <1>8, <1>9, <1>10, <1>11, <1>12, <1>13, <1>14, <1>15,
     <1>16, <1>17, <1>18, <1>19, <1>20, <1>21
     DEF Next, ReaderNext, ThreadNext, Resync, SubscribeNext

-----------------------------------------------------------------------------
(* Queues and terminals *)

\* The numbers of a queue.
LEMMA QueueNumbers ==
  ASSUME NEW q \in Seq(Frame)
  PROVE  /\ Len(q) \in Nat /\ DOMAIN q = 1..Len(q)
         /\ \A i \in 1..Len(q) : /\ q[i] \in Frame /\ q[i].seq \in Nat /\ q[i].seq \in Seqs
                                 /\ q[i].data \in Seq(Seqs) /\ Len(q[i].data) \in Nat
                                 /\ First(q[i]) \in Int
<1>1. Len(q) \in Nat /\ DOMAIN q = 1..Len(q)
  BY LenProperties
<1>2. ASSUME NEW i \in 1..Len(q)
      PROVE  /\ q[i] \in Frame /\ q[i].seq \in Nat /\ q[i].seq \in Seqs
             /\ q[i].data \in Seq(Seqs) /\ Len(q[i].data) \in Nat /\ First(q[i]) \in Int
  <2>1. q[i] \in Frame
    BY ElementOfSeq
  <2>2. q[i].seq \in Seqs /\ q[i].data \in Seq(Seqs)
    BY <2>1 DEF Frame
  <2>3. q[i].seq \in Nat /\ Len(q[i].data) \in Nat
    BY <2>2, Numbers, LenProperties
  <2>4. QED
    BY <2>1, <2>2, <2>3 DEF First
<1>3. QED
  BY <1>1, <1>2

\* An honest frame's chunks, one by one.
LEMMA HonestFacts ==
  ASSUME NEW f \in Frame, Honest(f)
  PROVE  /\ Len(f.data) \in Nat \ {0} /\ f.data \in Seq(Seqs) /\ f.seq \in Nat
         /\ \A i \in 1..Len(f.data) : f.data[i] = f.seq - Len(f.data) + i
         /\ f.data[1] = First(f) /\ f.data[Len(f.data)] = f.seq
<1>1. f.data \in Seq(Seqs) /\ f.seq \in Seqs /\ f.data # << >>
  BY DEF Frame, Honest
<1>2. Len(f.data) \in Nat \ {0} /\ f.seq \in Nat
  BY <1>1, EmptySeq, Numbers
<1>3. \A i \in 1..Len(f.data) : f.data[i] = f.seq - Len(f.data) + i
  BY <1>1, RunElements DEF Honest
<1>4. QED
  BY <1>1, <1>2, <1>3 DEF First

\* A longer stream and an older ring disturb nothing.
LEMMA OlderQueue ==
  ASSUME NEW q \in Seq(Frame), NEW cur \in Nat, NEW blank, NEW old \in Nat, NEW older \in Nat, old <= older,
         NEW hi \in Nat, NEW higher \in Nat, hi <= higher, QueueOK(q, cur, blank, old, hi)
  PROVE  QueueOK(q, cur, blank, older, higher)
<1>0. \A i \in DOMAIN q : q[i].seq \in Nat /\ First(q[i]) \in Int
  BY QueueNumbers
<1>1. \A i \in DOMAIN q : IsOut(q[i]) =>
         /\ Honest(q[i]) /\ cur <= q[i].seq /\ q[i].seq <= hi
         /\ Fresh(q, blank, i) \/ Linked(q, cur, old, q[i], i)
  BY DEF QueueOK
<1>2. \A i \in DOMAIN q : Linked(q, cur, old, q[i], i) => Linked(q, cur, older, q[i], i)
  BY <1>0 DEF Linked
<1>3. \A i \in DOMAIN q : IsOut(q[i]) => q[i].seq <= higher
  BY <1>0, <1>1
<1>4. QED
  BY <1>1, <1>2, <1>3 DEF QueueOK

\* Holes on a screen stay excused when the ring has evicted more.
LEMMA OlderScreen ==
  ASSUME NEW scr \in Seq(Seqs), NEW cur, NEW ded, NEW old \in Nat, NEW older \in Nat, old <= older,
         ScreenOK(scr, cur, ded, old)
  PROVE  ScreenOK(scr, cur, ded, older)
<1>1. Len(scr) \in Nat
  BY LenProperties
<1>2. \A i \in 1..(Len(scr) - 1) : i + 1 \in 1..Len(scr)
  BY <1>1
<1>3. \A i \in 1..(Len(scr) - 1) : scr[i + 1] \in Nat
  BY <1>2, ElementOfSeq, Numbers
<1>4. QED
  BY <1>3 DEF ScreenOK

\* A queue that shares its beginning with another.
LEMMA SharedBeginning ==
  ASSUME NEW q \in Seq(Frame), NEW r \in Seq(Frame), NEW n \in Nat, n <= Len(q), n <= Len(r),
         \A i \in 1..n : r[i] = q[i], NEW cur, NEW blank, NEW old, NEW i \in 1..n
  PROVE  /\ Fresh(q, blank, i) => Fresh(r, blank, i)
         /\ Linked(q, cur, old, q[i], i) => Linked(r, cur, old, r[i], i)
<1>1. Len(q) \in Nat /\ Len(r) \in Nat /\ DOMAIN q = 1..Len(q) /\ DOMAIN r = 1..Len(r)
  BY LenProperties
<1>2. \A k \in DOMAIN q : k < i => k \in DOMAIN r /\ r[k] = q[k]
  BY <1>1
<1>3. \A k \in DOMAIN r : k < i => k \in DOMAIN q /\ r[k] = q[k]
  BY <1>1
<1>4. r[i] = q[i]
  OBVIOUS
<1>5. \A j, k \in Int : j < i /\ k < j => k < i
  OBVIOUS
<1>6. Fresh(q, blank, i) => Fresh(r, blank, i)
  BY <1>2, <1>3 DEF Fresh
<1>7. Linked(q, cur, old, q[i], i) => Linked(r, cur, old, r[i], i)
  BY <1>2, <1>3, <1>4 DEF Linked
<1>8. QED
  BY <1>6, <1>7

\* The beginning of a queue is as good as the queue.
LEMMA PrefixOK ==
  ASSUME NEW q \in Seq(Frame), NEW r \in Seq(Frame), Len(r) <= Len(q), \A i \in 1..Len(r) : r[i] = q[i],
         NEW cur, NEW blank, NEW old, NEW hi, QueueOK(q, cur, blank, old, hi)
  PROVE  QueueOK(r, cur, blank, old, hi)
<1>1. Len(q) \in Nat /\ Len(r) \in Nat /\ DOMAIN q = 1..Len(q) /\ DOMAIN r = 1..Len(r)
  BY LenProperties
<1>2. \A i \in DOMAIN r : i \in DOMAIN q /\ r[i] = q[i]
  BY <1>1
<1>3. \A i \in DOMAIN r : /\ Fresh(q, blank, i) => Fresh(r, blank, i)
                          /\ Linked(q, cur, old, q[i], i) => Linked(r, cur, old, r[i], i)
  <2>1. Len(r) <= Len(r)
    BY <1>1
  <2>2. QED
    BY <1>1, <2>1, SharedBeginning
<1>4. QED
  BY <1>2, <1>3 DEF QueueOK

\* A queue made longer by frames that are each in their place.
LEMMA ExtendedOK ==
  ASSUME NEW q \in Seq(Frame), NEW r \in Seq(Frame), Len(q) <= Len(r), \A i \in 1..Len(q) : r[i] = q[i],
         NEW cur, NEW blank, NEW old, NEW hi, QueueOK(q, cur, blank, old, hi),
         \A j \in (Len(q) + 1)..Len(r) : IsOut(r[j]) =>
            /\ Honest(r[j]) /\ cur <= r[j].seq /\ r[j].seq <= hi
            /\ Fresh(r, blank, j) \/ Linked(r, cur, old, r[j], j)
            /\ \A i \in 1..Len(r) : i < j /\ IsOut(r[i]) => r[i].seq <= r[j].seq
  PROVE  QueueOK(r, cur, blank, old, hi)
<1>1. Len(q) \in Nat /\ Len(r) \in Nat /\ DOMAIN q = 1..Len(q) /\ DOMAIN r = 1..Len(r)
  BY LenProperties
<1>2. \A j \in 1..Len(r) : j \in 1..Len(q) \/ j \in (Len(q) + 1)..Len(r)
  BY <1>1
<1>3. \A j \in 1..Len(q) : /\ Fresh(q, blank, j) => Fresh(r, blank, j)
                           /\ Linked(q, cur, old, q[j], j) => Linked(r, cur, old, r[j], j)
  <2>1. Len(q) <= Len(q)
    BY <1>1
  <2>2. QED
    BY <1>1, <2>1, SharedBeginning
<1>4. ASSUME NEW j \in 1..Len(r), IsOut(r[j])
      PROVE  /\ Honest(r[j]) /\ cur <= r[j].seq /\ r[j].seq <= hi
             /\ Fresh(r, blank, j) \/ Linked(r, cur, old, r[j], j)
             /\ \A i \in 1..Len(r) : i < j /\ IsOut(r[i]) => r[i].seq <= r[j].seq
  <2>1. CASE j \in 1..Len(q)
    <3>1. r[j] = q[j] /\ \A i \in 1..Len(r) : i < j => i \in 1..Len(q) /\ r[i] = q[i]
      BY <1>1, <2>1
    <3>2. QED
      BY <1>1, <1>3, <1>4, <2>1, <3>1 DEF QueueOK
  <2>2. CASE j \in (Len(q) + 1)..Len(r)
    BY <1>4, <2>2
  <2>3. QED
    BY <1>2, <2>1, <2>2
<1>5. QED
  BY <1>1, <1>4 DEF QueueOK

\* One frame more.
LEMMA AppendOK ==
  ASSUME NEW q \in Seq(Frame), NEW f \in Frame, NEW cur \in Nat, NEW blank, NEW old \in Nat, NEW hi \in Nat,
         QueueOK(q, cur, blank, old, hi),
         IsOut(f) => /\ Honest(f) /\ cur <= f.seq /\ f.seq = hi
                     /\ \/ /\ blank \/ \E j \in DOMAIN q : IsReset(q[j])
                           /\ \A k \in DOMAIN q : ~IsOut(q[k])
                        \/ Len(f.data) = 1 /\ Reaches(q, cur, hi - 1)
  PROVE  QueueOK(Append(q, f), cur, blank, old, hi)
<1> DEFINE r == Append(q, f)
<1>1. /\ r \in Seq(Frame) /\ Len(r) = Len(q) + 1 /\ r[Len(q) + 1] = f
      /\ \A i \in 1..Len(q) : r[i] = q[i]
  BY AppendProperties
<1> HIDE DEF r
<1>2. Len(q) \in Nat /\ DOMAIN q = 1..Len(q) /\ DOMAIN r = 1..Len(r) /\ Len(q) <= Len(r)
  BY <1>1, LenProperties
<1>3. \A k \in DOMAIN r : k < Len(q) + 1 => k \in DOMAIN q /\ r[k] = q[k]
  BY <1>1, <1>2
<1>4. \A k \in DOMAIN q : k < Len(q) + 1 /\ k \in DOMAIN r /\ r[k] = q[k]
  BY <1>1, <1>2
<1>5. ASSUME IsOut(f)
      PROVE  /\ Honest(f) /\ cur <= f.seq /\ f.seq <= hi
             /\ Fresh(r, blank, Len(q) + 1) \/ Linked(r, cur, old, f, Len(q) + 1)
             /\ \A i \in 1..Len(r) : i < Len(q) + 1 /\ IsOut(r[i]) => r[i].seq <= f.seq
  <2>1. \A i \in 1..Len(r) : i < Len(q) + 1 /\ IsOut(r[i]) => r[i].seq <= f.seq
    BY <1>2, <1>3, <1>5 DEF QueueOK
  <2>2. CASE /\ blank \/ \E j \in DOMAIN q : IsReset(q[j])
             /\ \A k \in DOMAIN q : ~IsOut(q[k])
    BY <1>3, <1>4, <1>5, <2>1, <2>2 DEF Fresh
  <2>3. CASE Len(f.data) = 1 /\ Reaches(q, cur, hi - 1)
    <3>1. f.seq \in Nat /\ First(f) = hi
      BY <1>5, <2>3 DEF First
    <3>2. \/ First(f) <= cur + 1
          \/ \E k \in DOMAIN q : IsOut(q[k]) /\ First(f) <= q[k].seq + 1
      BY <1>2, <2>3, <3>1, QueueNumbers DEF Reaches
    <3>3. Linked(r, cur, old, f, Len(q) + 1)
      BY <1>4, <2>3, <3>2 DEF Linked
    <3>4. QED
      BY <1>5, <2>1, <3>1, <3>3
  <2>4. QED
    BY <1>5, <2>2, <2>3
<1>6. \A j \in (Len(q) + 1)..Len(r) : j = Len(q) + 1 /\ r[j] = f
  BY <1>1, <1>2
<1>7. QueueOK(r, cur, blank, old, hi)
  BY <1>1, <1>2, <1>5, <1>6, ExtendedOK
<1>8. QED
  BY <1>7 DEF r

\* The terminal after the frame at the head of q, and the cursor.
ShownAt(q, cur, scr, ded) ==
  IF IsReset(Head(q)) THEN << >>
  ELSE IF IsOut(Head(q)) /\ (ded => Head(q).seq > cur) THEN scr \o Head(q).data
  ELSE scr

NowAt(q, cur) == IF IsOut(Head(q)) /\ Head(q).seq > cur THEN Head(q).seq ELSE cur

\* The frame at the head is delivered.
LEMMA DeliverOK ==
  ASSUME NEW q \in Seq(Frame), q # << >>, NEW cur \in Nat, NEW scr \in Seq(Seqs), NEW ded \in BOOLEAN,
         NEW old \in Nat, NEW hi \in Nat, cur <= hi,
         QueueOK(q, cur, scr = << >>, old, hi), ScreenOK(scr, cur, ded, old),
         NEW now, now = NowAt(q, cur), NEW shown, shown = ShownAt(q, cur, scr, ded)
  PROVE  /\ cur <= now /\ now <= hi
         /\ QueueOK(Tail(q), now, shown = << >>, old, hi) /\ ScreenOK(shown, now, ded, old)
<1> USE DEF NowAt, ShownAt
<1> DEFINE f == Head(q)
           t == Tail(q)
<1>1. /\ t \in Seq(Frame) /\ Len(q) \in Nat /\ Len(t) = Len(q) - 1 /\ 1 \in 1..Len(q) /\ f = q[1]
      /\ \A i \in 1..Len(t) : t[i] = q[i + 1]
  <2>1. Len(q) \in Nat /\ Len(q) # 0
    BY EmptySeq
  <2>2. QED
    BY <2>1, HeadTailProperties
<1>2. DOMAIN q = 1..Len(q) /\ DOMAIN t = 1..Len(t)
  BY <1>1, LenProperties
<1>3. \A i \in 1..Len(q) : q[i] \in Frame /\ q[i].seq \in Nat /\ Len(q[i].data) \in Nat /\ First(q[i]) \in Int
  BY QueueNumbers
<1>4. \A i \in 1..Len(q) : IsOut(q[i]) =>
         /\ Honest(q[i]) /\ cur <= q[i].seq /\ q[i].seq <= hi
         /\ Fresh(q, scr = << >>, i) \/ Linked(q, cur, old, q[i], i)
  BY <1>2 DEF QueueOK
<1>5. \A i, j \in 1..Len(q) : i < j /\ IsOut(q[i]) /\ IsOut(q[j]) => q[i].seq <= q[j].seq
  BY <1>2 DEF QueueOK
<1>6. now = IF IsOut(f) THEN f.seq ELSE cur
  BY <1>1, <1>3, <1>4
<1>7. now \in Nat /\ cur <= now /\ now <= hi
  BY <1>1, <1>3, <1>4, <1>6
<1>8. f \in Frame /\ IsOut(f) => ~IsReset(f)
  BY <1>1, <1>3 DEF IsOut, IsReset
<1> HIDE DEF f, t
<1>9. ASSUME IsOut(f), scr # << >>
      PROVE  /\ First(f) <= old \/ First(f) <= cur + 1
             /\ Len(f.data) = 1 \/ First(f) > cur
  <2>1. ~Fresh(q, scr = << >>, 1)
    <3>1. \A j \in DOMAIN q : ~(j < 1)
      BY <1>1, <1>2
    <3>2. QED
      BY <1>9, <3>1 DEF Fresh
  <2>2. Linked(q, cur, old, q[1], 1)
    BY <1>1, <1>4, <1>9, <2>1
  <2>3. \A k \in DOMAIN q : ~(k < 1)
    BY <1>1, <1>2
  <2>4. QED
    BY <1>1, <2>2, <2>3 DEF Linked
<1>10. ScreenOK(shown, now, ded, old)
  <2>1. CASE IsReset(f)
    <3>1. shown = << >> /\ Len(<< >>) = 0
      BY <2>1 DEF f
    <3>2. \A i \in 1..(Len(<< >>) - 1) : FALSE
      BY <3>1
    <3>3. QED
      BY <3>1, <3>2 DEF ScreenOK
  <2>2. CASE IsOut(f) /\ (ded => f.seq > cur)
    <3> DEFINE d == f.data
    <3>1. shown = scr \o d
      BY <1>8, <2>2 DEF f
    <3>2. f \in Frame /\ Honest(f)
      BY <1>1, <1>3, <1>4, <2>2
    <3>3. /\ d \in Seq(Seqs) /\ Len(d) \in Nat \ {0} /\ f.seq \in Nat
          /\ \A i \in 1..Len(d) : d[i] = f.seq - Len(d) + i
          /\ d[1] = First(f) /\ d[Len(d)] = f.seq
      BY <3>2, HonestFacts
    <3> HIDE DEF d
    <3>4. Len(scr) \in Nat /\ (scr # << >> => Len(scr) > 0)
      BY EmptySeq, LenProperties
    <3>5. /\ shown \in Seq(Seqs) /\ Len(shown) = Len(scr) + Len(d)
          /\ \A i \in 1..Len(scr) : shown[i] = scr[i]
          /\ \A i \in 1..Len(d) : shown[Len(scr) + i] = d[i]
      <4>1. /\ scr \o d \in Seq(Seqs) /\ Len(scr \o d) = Len(scr) + Len(d)
            /\ \A i \in 1..(Len(scr) + Len(d)) :
                  (scr \o d)[i] = IF i <= Len(scr) THEN scr[i] ELSE d[i - Len(scr)]
        BY <3>3, ConcatProperties
      <4>2. \A i \in 1..Len(scr) : i \in 1..(Len(scr) + Len(d)) /\ i <= Len(scr)
        BY <3>3, <3>4
      <4>3. \A i \in 1..Len(d) : /\ Len(scr) + i \in 1..(Len(scr) + Len(d)) /\ ~(Len(scr) + i <= Len(scr))
                                 /\ Len(scr) + i - Len(scr) = i
        BY <3>3, <3>4
      <4> HIDE <3>1
      <4>4. \A i \in 1..Len(d) : (scr \o d)[Len(scr) + i] = d[i]
        BY <4>1, <4>3
      <4>5. QED
        BY <3>1, <4>1, <4>2, <4>4
    <3>6. shown[Len(shown)] = now
      <4>1. Len(d) \in 1..Len(d)
        BY <3>3
      <4>2. QED
        BY <1>6, <2>2, <3>3, <3>5, <4>1
    <3>7. ASSUME NEW i \in 1..(Len(shown) - 1)
          PROVE  /\ shown[i + 1] <= shown[i] + 1 \/ shown[i + 1] <= old
                 /\ ded => shown[i] < shown[i + 1]
      <4>1. CASE i < Len(scr)
        <5>1. i \in 1..(Len(scr) - 1) /\ shown[i] = scr[i] /\ shown[i + 1] = scr[i + 1]
          BY <3>4, <3>5, <4>1
        <5>2. QED
          BY <5>1 DEF ScreenOK
      <4>2. CASE i = Len(scr)
        <5>1. scr # << >> /\ shown[i] = scr[Len(scr)] /\ shown[i + 1] = d[1]
          <6>1. Len(<< >>) = 0
            OBVIOUS
          <6>2. 1 \in 1..Len(d) /\ i \in 1..Len(scr)
            BY <3>3, <4>2
          <6>3. QED
            BY <3>5, <4>2, <6>1, <6>2
        <5>2. shown[i] = cur /\ shown[i + 1] = First(f)
          BY <3>3, <5>1 DEF ScreenOK
        <5>3. Len(d) = 1 => First(f) = f.seq
          BY <3>3 DEF First, d
        <5>4. /\ First(f) <= old \/ First(f) <= cur + 1
              /\ Len(d) = 1 \/ First(f) > cur
          BY <1>9, <2>2, <5>1 DEF d
        <5>5. QED
          BY <2>2, <5>2, <5>3, <5>4
      <4>3. CASE i > Len(scr)
        <5> DEFINE L == Len(scr)
                   M == Len(d)
                   x == i - L
        <5>0. i \in Nat /\ L \in Nat /\ M \in Nat /\ i <= L + M - 1 /\ i > L
          BY <3>3, <3>4, <3>5, <4>3
        <5> HIDE DEF L, M
        <5>1. x \in 1..M /\ x + 1 \in 1..M /\ L + x = i /\ L + (x + 1) = i + 1
          BY <5>0
        <5> HIDE DEF x
        <5>2. shown[L + x] = d[x] /\ shown[L + (x + 1)] = d[x + 1]
          BY <3>5, <5>1 DEF L, M
        <5>3. d[x] = f.seq - M + x /\ d[x + 1] = f.seq - M + (x + 1)
          BY <3>3, <5>1 DEF M
        <5>4. f.seq \in Nat /\ x \in Int /\ M \in Nat
          BY <3>3, <5>0, <5>1
        <5>x. shown[i] = f.seq - M + x /\ shown[i + 1] = f.seq - M + (x + 1)
          BY <5>1, <5>2, <5>3, Zenon
        <5>y. (f.seq - M + (x + 1)) = (f.seq - M + x) + 1 /\ (f.seq - M + x) \in Int
          BY <5>4
        <5>5. shown[i + 1] = shown[i] + 1 /\ shown[i] \in Int
          BY <5>x, <5>y, Zenon
        <5>w. \A a \in Int : a < a + 1 /\ a + 1 <= a + 1
          OBVIOUS
        <5>z. shown[i] < shown[i + 1] /\ shown[i + 1] <= shown[i] + 1
          BY <5>5, <5>w, Zenon
        <5>6. QED
          BY <5>z
      <4>4. QED
        BY <3>4, <4>1, <4>2, <4>3
    <3>8. QED
      BY <3>6, <3>7 DEF ScreenOK
  <2>3. CASE ~IsReset(f) /\ ~(IsOut(f) /\ (ded => f.seq > cur))
    <3>1. shown = scr
      BY <2>3 DEF f
    <3>2. now = cur
      BY <1>1, <1>3, <1>4, <1>6, <2>3
    <3>3. QED
      BY <3>1, <3>2
  <2>4. QED
    BY <2>1, <2>2, <2>3
<1>11. ASSUME scr = << >>, ~IsOut(f) PROVE shown = << >>
  BY <1>11 DEF f
<1>12. IsReset(f) => shown = << >>
  BY DEF f
<1>13. ASSUME NEW i \in 1..Len(t), Fresh(q, scr = << >>, i + 1) PROVE Fresh(t, shown = << >>, i)
  <2>0. i + 1 \in 1..Len(q) /\ i \in Nat
    BY <1>1
  <2>00. ASSUME NEW j \in DOMAIN q, j < i + 1, j # 1 PROVE j - 1 \in DOMAIN t /\ j - 1 < i /\ t[j - 1] = q[j]
    <3>1. j - 1 \in 1..Len(t) /\ j - 1 < i /\ (j - 1) + 1 = j
      BY <1>1, <1>2, <2>0, <2>00
    <3>2. QED
      BY <1>1, <1>2, <3>1
  <2>1. shown = << >> \/ \E j \in DOMAIN t : j < i /\ IsReset(t[j])
    <3>1. CASE \E j \in DOMAIN q : j < i + 1 /\ IsReset(q[j])
      <4>1. PICK j \in DOMAIN q : j < i + 1 /\ IsReset(q[j])
        BY <3>1
      <4>2. CASE j = 1
        BY <1>1, <1>12, <4>1, <4>2
      <4>3. CASE j # 1
        BY <2>00, <4>1, <4>3
      <4>4. QED
        BY <4>2, <4>3
    <3>2. CASE scr = << >> /\ IsOut(f)
      <4>1. 1 \in DOMAIN q /\ 1 < i + 1 /\ IsOut(q[1])
        BY <1>1, <1>2, <2>0, <3>2
      <4>2. PICK j \in DOMAIN q : 1 < j /\ j < i + 1 /\ IsReset(q[j])
        BY <1>13, <4>1 DEF Fresh
      <4>3. QED
        BY <2>00, <4>2
    <3>3. CASE scr = << >> /\ ~IsOut(f)
      BY <1>11, <3>3
    <3>4. QED
      BY <1>13, <3>1, <3>2, <3>3 DEF Fresh
  <2>2. ASSUME NEW k \in DOMAIN t, k < i, IsOut(t[k]) PROVE \E j \in DOMAIN t : k < j /\ j < i /\ IsReset(t[j])
    <3>a. k \in 1..Len(t) /\ t[k] = q[k + 1]
      BY <1>1, <1>2, Zenon
    <3>b. PICK n \in Nat, m \in Nat : n = Len(q) /\ m = Len(t) /\ m = n - 1
      BY <1>1
    <3>c. k \in 1..m /\ i \in 1..m
      BY <3>a, <3>b, Zenon
    <3>d. k \in Nat /\ k + 1 \in 1..n /\ k + 1 < i + 1
      BY <2>2, <3>b, <3>c
    <3>0. k + 1 \in DOMAIN q /\ k + 1 < i + 1 /\ k \in Nat /\ t[k] = q[k + 1]
      BY <1>2, <3>a, <3>b, <3>d, Zenon
    <3>1. k + 1 \in DOMAIN q /\ k + 1 < i + 1 /\ IsOut(q[k + 1]) /\ k \in Nat
      BY <2>2, <3>0
    <3>2. PICK j \in DOMAIN q : k + 1 < j /\ j < i + 1 /\ IsReset(q[j])
      BY <1>13, <3>1 DEF Fresh
    <3>3. j # 1 /\ k < j - 1
      BY <1>1, <1>2, <3>1, <3>2
    <3>4. QED
      BY <2>00, <3>2, <3>3
  <2>3. QED
    BY <2>1, <2>2 DEF Fresh
<1>14. ASSUME NEW i \in 1..Len(t), Linked(q, cur, old, q[i + 1], i + 1) PROVE Linked(t, now, old, t[i], i)
  <2>0. i + 1 \in 1..Len(q) /\ i \in Nat /\ t[i] = q[i + 1] /\ First(t[i]) \in Int
    BY <1>1, <1>3
  <2>00. ASSUME NEW j \in DOMAIN q, j < i + 1, j # 1 PROVE j - 1 \in DOMAIN t /\ j - 1 < i /\ t[j - 1] = q[j]
    <3>1. j - 1 \in 1..Len(t) /\ j - 1 < i /\ (j - 1) + 1 = j
      BY <1>1, <1>2, <2>0, <2>00
    <3>2. QED
      BY <1>1, <1>2, <3>1
  <2>1. \/ First(t[i]) <= old \/ First(t[i]) <= now + 1
        \/ \E k \in DOMAIN t : k < i /\ IsOut(t[k]) /\ First(t[i]) <= t[k].seq + 1
    <3>1. CASE First(t[i]) <= old
      BY <3>1
    <3>2. CASE First(t[i]) <= cur + 1
      BY <1>7, <2>0, <3>2
    <3>3. CASE \E k \in DOMAIN q : k < i + 1 /\ IsOut(q[k]) /\ First(t[i]) <= q[k].seq + 1
      <4>1. PICK k \in DOMAIN q : k < i + 1 /\ IsOut(q[k]) /\ First(t[i]) <= q[k].seq + 1
        BY <3>3
      <4>2. CASE k = 1
        BY <1>1, <1>6, <4>1, <4>2
      <4>3. CASE k # 1
        BY <2>00, <4>1, <4>3
      <4>4. QED
        BY <4>2, <4>3
    <3>4. QED
      BY <1>14, <2>0, <3>1, <3>2, <3>3 DEF Linked
  <2>2. \/ Len(t[i].data) = 1
        \/ First(t[i]) > now /\ \A k \in DOMAIN t : k < i /\ IsOut(t[k]) => First(t[i]) > t[k].seq
    <3>1. CASE Len(q[i + 1].data) = 1
      BY <2>0, <3>1
    <3>2. CASE /\ First(q[i + 1]) > cur
               /\ \A k \in DOMAIN q : k < i + 1 /\ IsOut(q[k]) => First(q[i + 1]) > q[k].seq
      <4>1. First(t[i]) > now
        <5>1. 1 \in DOMAIN q /\ 1 < i + 1
          BY <1>1, <1>2, <2>0
        <5>2. QED
          BY <1>1, <1>6, <2>0, <3>2, <5>1
      <4>2. ASSUME NEW k \in DOMAIN t, k < i, IsOut(t[k]) PROVE First(t[i]) > t[k].seq
        <5>1. k + 1 \in DOMAIN q /\ k + 1 < i + 1 /\ q[k + 1] = t[k]
          BY <1>1, <1>2, <2>0, <4>2
        <5>2. QED
          BY <2>0, <3>2, <4>2, <5>1
      <4>3. QED
        BY <4>1, <4>2
    <3>3. QED
      BY <1>14, <3>1, <3>2 DEF Linked
  <2>3. QED
    BY <2>1, <2>2 DEF Linked
<1>15. QueueOK(t, now, shown = << >>, old, hi)
  <2>1. ASSUME NEW i \in DOMAIN t, IsOut(t[i])
        PROVE  /\ Honest(t[i]) /\ now <= t[i].seq /\ t[i].seq <= hi
               /\ Fresh(t, shown = << >>, i) \/ Linked(t, now, old, t[i], i)
    <3>1. i \in 1..Len(t) /\ i + 1 \in 1..Len(q) /\ t[i] = q[i + 1] /\ 1 < i + 1
      BY <1>1, <1>2
    <3>2. now <= t[i].seq
      BY <1>1, <1>3, <1>4, <1>5, <1>6, <2>1, <3>1
    <3>3. QED
      BY <1>4, <1>13, <1>14, <2>1, <3>1, <3>2
  <2>2. ASSUME NEW i \in DOMAIN t, NEW j \in DOMAIN t, i < j, IsOut(t[i]), IsOut(t[j]) PROVE t[i].seq <= t[j].seq
    <3>1. i + 1 \in 1..Len(q) /\ j + 1 \in 1..Len(q) /\ i + 1 < j + 1 /\ t[i] = q[i + 1] /\ t[j] = q[j + 1]
      BY <1>1, <1>2, <2>2
    <3>2. QED
      BY <1>5, <2>2, <3>1
  <2>3. QED
    BY <2>1, <2>2 DEF QueueOK
<1>16. QED
  BY <1>7, <1>10, <1>15 DEF t

\* Frames R of a replay that starts with chunk start and ends with chunk e.
Batched(R, start, e) ==
  /\ Len(R) > 0 /\ R[Len(R)].seq = e
  /\ \A i \in 1..Len(R) :
        /\ IsOut(R[i]) /\ Honest(R[i]) /\ R[i].seq <= e
        /\ (i = 1 => First(R[i]) = start)
        /\ First(R[i]) >= start /\ R[i].seq >= start
        /\ (i > 1 => First(R[i]) = R[i - 1].seq + 1)
  /\ \A i, j \in 1..Len(R) : i < j => R[i].seq < First(R[j]) /\ R[i].seq <= R[j].seq

\* Queue r is R behind q.
Behind(r, q, R) ==
  /\ Len(r) = Len(q) + Len(R) /\ \A k \in 1..Len(q) : r[k] = q[k]
  /\ \A k \in 1..Len(R) : r[Len(q) + k] = R[k]

\* All of q is at or below b, and chunk start is above b and comes to a blank terminal
\* or where the stream goes on.
GoesOn(q, cur, blank, old, b, start) ==
  /\ cur <= b /\ b < start /\ \A k \in DOMAIN q : IsOut(q[k]) => q[k].seq <= b
  /\ \/ (blank \/ \E j \in DOMAIN q : IsReset(q[j])) /\ \A k \in DOMAIN q : ~IsOut(q[k])
     \/ start <= old \/ start <= cur + 1
     \/ \E k \in DOMAIN q : IsOut(q[k]) /\ start <= q[k].seq + 1

\* Queue r is q with OUT frames behind it, the last of them chunk e.
EndsWith(r, q, e) ==
  /\ \A k \in DOMAIN r : IsOut(r[k]) => r[k].seq <= e
  /\ Len(q) < Len(r) /\ IsOut(r[Len(r)]) /\ r[Len(r)].seq = e
  /\ \A k \in 1..Len(q) : r[k] = q[k]
  /\ \A k \in (Len(q) + 1)..Len(r) : IsOut(r[k])

\* A replay batch queued behind what a client has continues its queue.
LEMMA BehindOK ==
  ASSUME NEW q \in Seq(Frame), NEW R \in Seq(Frame), NEW r \in Seq(Frame), Behind(r, q, R),
         NEW e \in Nat, NEW start \in Nat, NEW cur \in Nat, NEW blank, NEW old \in Nat, NEW hi \in Nat,
         NEW b \in Nat, QueueOK(q, cur, blank, old, hi), e <= hi,
         Batched(R, start, e), GoesOn(q, cur, blank, old, b, start)
  PROVE  QueueOK(r, cur, blank, old, hi) /\ EndsWith(r, q, e)
<1> DEFINE m == Len(q)
<1>1. /\ Len(R) > 0 /\ R[Len(R)].seq = e
      /\ \A i \in 1..Len(R) :
            /\ IsOut(R[i]) /\ Honest(R[i]) /\ R[i].seq <= e /\ R[i].seq \in Nat
            /\ (i = 1 => First(R[i]) = start)
            /\ First(R[i]) >= start /\ R[i].seq >= start
            /\ (i > 1 => First(R[i]) = R[i - 1].seq + 1)
      /\ \A i, j \in 1..Len(R) : i < j => R[i].seq < First(R[j]) /\ R[i].seq <= R[j].seq
  BY QueueNumbers DEF Batched
<1>go. /\ cur <= b /\ b < start /\ \A k \in DOMAIN q : IsOut(q[k]) => q[k].seq <= b
       /\ \/ (blank \/ \E j \in DOMAIN q : IsReset(q[j])) /\ \A k \in DOMAIN q : ~IsOut(q[k])
          \/ start <= old \/ start <= cur + 1
          \/ \E k \in DOMAIN q : IsOut(q[k]) /\ start <= q[k].seq + 1
  BY DEF GoesOn
<1>2. start \in Nat /\ cur < start
  BY <1>go
<1>3. m \in Nat /\ Len(R) \in Nat /\ DOMAIN q = 1..m /\ \A i \in 1..Len(R) : First(R[i]) \in Int
  BY QueueNumbers
<1>4. r \in Seq(Frame) /\ Len(r) = m + Len(R)
  BY DEF Behind
<1>5. \A k \in 1..m : r[k] = q[k]
  BY DEF Behind
<1>x. \A k \in 1..Len(R) : r[m + k] = R[k]
  BY DEF Behind
<1> HIDE DEF m
<1>6. ASSUME NEW j \in (m + 1)..Len(r) PROVE j - m \in 1..Len(R) /\ r[j] = R[j - m] /\ j \in Nat
  <2>1. j - m \in 1..Len(R) /\ j \in Nat /\ m + (j - m) = j
    BY <1>3, <1>4
  <2>2. QED
    BY <1>x, <2>1
<1>7. DOMAIN r = 1..Len(r) /\ \A k \in 1..Len(r) : k \in 1..m \/ k \in (m + 1)..Len(r)
  BY <1>3, <1>4, LenProperties
<1>8. ASSUME NEW j \in (m + 1)..Len(r)
      PROVE  /\ Honest(r[j]) /\ cur <= r[j].seq /\ r[j].seq <= hi /\ r[j].seq <= e /\ IsOut(r[j])
             /\ \A i \in 1..Len(r) : i < j /\ IsOut(r[i]) => r[i].seq <= r[j].seq
             /\ Fresh(r, blank, j) \/ Linked(r, cur, old, r[j], j)
  <2> DEFINE n == j - m
  <2>0. n \in 1..Len(R) /\ r[j] = R[n] /\ j \in Nat
    BY <1>6
  <2>1. n \in 1..Len(R) /\ r[j] = R[n] /\ j \in Nat /\ j = m + n
    BY <1>3, <2>0
  <2>2. /\ IsOut(r[j]) /\ Honest(r[j]) /\ r[j].seq \in Nat /\ r[j].seq <= e /\ r[j].seq >= start
        /\ First(r[j]) \in Int /\ First(r[j]) >= start
    BY <1>1, <1>3, <2>1
  <2>3. cur <= r[j].seq /\ r[j].seq <= hi
    BY <1>2, <2>2
  <2> HIDE DEF n
  <2>4. ASSUME NEW i \in 1..Len(r), i < j, IsOut(r[i])
        PROVE  r[i].seq <= r[j].seq /\ r[i].seq < First(r[j])
    <3>1. CASE i \in 1..m
      <4>1. r[i] = q[i] /\ q[i].seq <= b /\ q[i].seq \in Nat
        BY <1>3, <1>5, <1>go, <2>4, <3>1, QueueNumbers DEF m
      <4>2. r[i].seq \in Nat /\ r[i].seq <= b
        BY <4>1, Zenon
      <4>3. QED
        BY <1>2, <1>go, <2>2, <4>2
    <3>2. CASE i \in (m + 1)..Len(r)
      <4>1. i - m \in 1..Len(R) /\ r[i] = R[i - m] /\ i - m < n
        BY <1>3, <1>6, <2>1, <2>4, <3>2
      <4>2. QED
        BY <1>1, <2>1, <4>1
    <3>3. QED
      BY <1>7, <3>1, <3>2
  <2>5. First(r[j]) > cur /\ \A k \in DOMAIN r : k < j /\ IsOut(r[k]) => First(r[j]) > r[k].seq
    <3>1. First(r[j]) > cur
      BY <1>2, <2>2
    <3>2. ASSUME NEW k \in DOMAIN r, k < j, IsOut(r[k]) PROVE First(r[j]) > r[k].seq
      <4>1. r[k].seq < First(r[j]) /\ r[k].seq \in Int
        BY <1>4, <1>7, <2>4, <3>2, QueueNumbers
      <4>2. QED
        BY <2>2, <4>1
    <3>3. QED
      BY <3>1, <3>2
  <2>6. CASE n = 1
    <3>0. First(r[j]) = start /\ j = m + 1
      BY <1>1, <1>3, <2>1, <2>6
    <3>00. ASSUME NEW k \in DOMAIN q PROVE k \in DOMAIN r /\ k < j /\ r[k] = q[k]
      BY <1>3, <1>4, <1>5, <1>7, <3>0
    <3>000. ASSUME NEW k \in DOMAIN r, k < j PROVE k \in DOMAIN q /\ r[k] = q[k]
      BY <1>3, <1>4, <1>5, <1>7, <3>0, <3>000
    <3>1. CASE (blank \/ \E i \in DOMAIN q : IsReset(q[i])) /\ \A k \in DOMAIN q : ~IsOut(q[k])
      <4>1. Fresh(r, blank, j)
        BY <3>00, <3>000, <3>1 DEF Fresh
      <4>2. QED
        BY <2>2, <2>3, <2>4, <4>1
    <3>2. CASE \/ start <= old \/ start <= cur + 1
               \/ \E k \in DOMAIN q : IsOut(q[k]) /\ start <= q[k].seq + 1
      <4>1. \/ First(r[j]) <= old \/ First(r[j]) <= cur + 1
            \/ \E k \in DOMAIN r : k < j /\ IsOut(r[k]) /\ First(r[j]) <= r[k].seq + 1
        BY <3>0, <3>00, <3>2
      <4>2. Linked(r, cur, old, r[j], j)
        BY <2>5, <4>1 DEF Linked
      <4>3. QED
        BY <2>2, <2>3, <2>4, <4>2
    <3>3. QED
      BY <1>go, <3>1, <3>2
  <2>7. CASE n # 1
    <3>0. n \in Nat /\ n > 1 /\ j \in Nat /\ j <= Len(r) /\ Len(r) \in Nat
      BY <1>3, <1>4, <2>1, <2>7
    <3>1. /\ j - 1 \in (m + 1)..Len(r) /\ (j - 1) - m = n - 1 /\ j - 1 \in DOMAIN r /\ j - 1 < j
          /\ n > 1
      BY <1>3, <1>7, <2>1, <3>0
    <3>2. r[j - 1] = R[n - 1] /\ n - 1 \in 1..Len(R)
      BY <1>6, <3>1
    <3>3. First(r[j]) = r[j - 1].seq + 1 /\ IsOut(r[j - 1]) /\ r[j - 1].seq \in Nat
      BY <1>1, <2>1, <3>1, <3>2
    <3>x. First(r[j]) <= r[j - 1].seq + 1
      BY <3>3
    <3>4. \E k \in DOMAIN r : k < j /\ IsOut(r[k]) /\ First(r[j]) <= r[k].seq + 1
      BY <3>1, <3>3, <3>x, Zenon
    <3>5. Linked(r, cur, old, r[j], j)
      BY <2>5, <3>4 DEF Linked
    <3>6. QED
      BY <2>2, <2>3, <2>4, <3>5
  <2>8. QED
    BY <2>6, <2>7
<1>9. Len(q) <= Len(r) /\ Len(q) < Len(r)
  BY <1>1, <1>3, <1>4 DEF m
<1>10. QueueOK(r, cur, blank, old, hi)
  BY <1>4, <1>5, <1>8, <1>9, ExtendedOK DEF m
<1>11. \A k \in DOMAIN r : IsOut(r[k]) => r[k].seq <= e
  <2>1. ASSUME NEW k \in 1..m, IsOut(r[k]) PROVE r[k].seq <= e
    <3>1. r[k] = q[k] /\ q[k].seq <= b /\ q[k].seq \in Nat
      BY <1>3, <1>5, <1>go, <2>1, QueueNumbers DEF m
    <3>2. start <= e
      <4>1. 1 \in 1..Len(R)
        BY <1>1, <1>3
      <4>2. QED
        BY <1>1, <1>2, <4>1
    <3>3. QED
      BY <1>2, <1>go, <3>1, <3>2
  <2>2. QED
    BY <1>7, <1>8, <2>1
<1>12. IsOut(r[Len(r)]) /\ r[Len(r)].seq = e
  <2>1. Len(r) \in (m + 1)..Len(r) /\ Len(r) - m = Len(R)
    BY <1>1, <1>3, <1>4
  <2>2. QED
    BY <1>1, <1>6, <1>8, <2>1
<1>13. QED
  BY <1>5, <1>8, <1>9, <1>10, <1>11, <1>12 DEF m, EndsWith

\* A run of chunks, replayed behind q.
LEMMA ReplayOK ==
  ASSUME NEW q \in Seq(Frame), NEW chunks \in Seq(Seqs), chunks # << >>, NEW e \in Nat, Run(chunks, e),
         NEW cur \in Nat, NEW blank, NEW old \in Nat, NEW hi \in Nat, NEW b \in Nat,
         QueueOK(q, cur, blank, old, hi), e <= hi, GoesOn(q, cur, blank, old, b, chunks[1])
  PROVE  LET r == q \o ReplayFrames(chunks)
         IN  r \in Seq(Frame) /\ QueueOK(r, cur, blank, old, hi) /\ EndsWith(r, q, e)
<1> DEFINE R == ReplayFrames(chunks)
           r == q \o R
<1>0. e \in Int
  OBVIOUS
<1>1. R \in Seq(Frame) /\ Batched(R, chunks[1], e)
  BY <1>0, ReplayFramesFacts, Zenon DEF Batched
<1>2. chunks[1] \in Nat
  <2>1. 1 \in 1..Len(chunks)
    BY EmptySeq
  <2>2. QED
    BY <2>1, ElementOfSeq, Numbers
<1> HIDE DEF R
<1>3. Len(q) \in Nat /\ Len(R) \in Nat
  BY <1>1, LenProperties
<1>4. /\ r \in Seq(Frame) /\ Len(r) = Len(q) + Len(R)
      /\ \A k \in 1..(Len(q) + Len(R)) : r[k] = IF k <= Len(q) THEN q[k] ELSE R[k - Len(q)]
  BY <1>1, ConcatProperties
<1> HIDE DEF r
<1>5. \A k \in 1..Len(q) : r[k] = q[k]
  <2>1. \A k \in 1..Len(q) : k \in 1..(Len(q) + Len(R)) /\ k <= Len(q)
    BY <1>3
  <2>2. QED
    BY <1>4, <2>1
<1>6. \A k \in 1..Len(R) : r[Len(q) + k] = R[k]
  <2>1. \A k \in 1..Len(R) : /\ Len(q) + k \in 1..(Len(q) + Len(R)) /\ ~(Len(q) + k <= Len(q))
                              /\ (Len(q) + k) - Len(q) = k
    BY <1>3
  <2>2. QED
    BY <1>4, <2>1, Zenon
<1>7. Behind(r, q, R)
  BY <1>4, <1>5, <1>6 DEF Behind
<1>8. QueueOK(r, cur, blank, old, hi) /\ EndsWith(r, q, e)
  BY <1>1, <1>2, <1>4, <1>7, BehindOK
<1>9. QED
  BY <1>4, <1>8, Zenon DEF r, R

\* Enqueued frames are the frames, or the beginning of them.
LEMMA EnqueueFacts ==
  ASSUME NEW q \in Seq(Frame), NEW fs \in Seq(Frame)
  PROVE  LET t == EnqueueAll(q, fs)
         IN  /\ AllFit(q, fs) => t = q \o fs
             /\ t \in Seq(Frame) /\ Len(t) <= Len(q \o fs) /\ \A i \in 1..Len(t) : t[i] = (q \o fs)[i]
<1> DEFINE u == q \o fs
           t == EnqueueAll(q, fs)
<1>0. Len(q) \in Nat /\ Len(fs) \in Nat /\ QueueDepth \in Nat
  BY LenProperties, Numbers
<1>1. u \in Seq(Frame) /\ Len(u) = Len(q) + Len(fs)
  BY ConcatProperties
<1>2. CASE AllFit(q, fs)
  <2>1. t = u
    BY <1>2 DEF EnqueueAll
  <2>2. QED
    BY <1>0, <1>1, <2>1
<1>3. CASE ~AllFit(q, fs)
  <2>1. t = SubSeq(u, 1, QueueDepth)
    BY <1>3 DEF EnqueueAll
  <2>2. QueueDepth < Len(u)
    BY <1>0, <1>1, <1>3 DEF AllFit
  <2> HIDE DEF u
  <2>3. \A i \in 1..QueueDepth : u[i] \in Frame
    <3>1. \A i \in 1..QueueDepth : i \in 1..Len(u)
      BY <1>0, <1>1, <2>2
    <3>2. QED
      BY <1>1, <3>1, ElementOfSeq
  <2>4. /\ SubSeq(u, 1, QueueDepth) \in Seq(Frame) /\ Len(SubSeq(u, 1, QueueDepth)) = QueueDepth
        /\ \A i \in 1..QueueDepth : SubSeq(u, 1, QueueDepth)[i] = u[1 + i - 1]
    BY <1>0, <2>3, Numbers, SubSeqProperties
  <2>5. \A i \in 1..QueueDepth : 1 + i - 1 = i
    BY <1>0
  <2>6. Len(t) = QueueDepth /\ Len(t) <= Len(u) /\ t \in Seq(Frame)
    BY <1>0, <1>1, <2>1, <2>2, <2>4
  <2>7. \A i \in 1..Len(t) : t[i] = u[i]
    BY <2>1, <2>4, <2>5
  <2>8. QED
    BY <1>1, <1>3, <2>6, <2>7 DEF u
<1>4. QED
  BY <1>2, <1>3

\* Reaching and showing a chunk survive what is queued and what is delivered.
LEMMA ReachesFacts ==
  ASSUME NEW q \in Seq(Frame), NEW cur \in Nat, NEW n \in Int
  PROVE  /\ \A f \in Frame : Reaches(q, cur, n) => Reaches(Append(q, f), cur, n)
         /\ \A f \in Frame : IsOut(f) /\ f.seq >= n => Reaches(Append(q, f), cur, n)
         /\ \A k \in Int : k <= n /\ Reaches(q, cur, n) => Reaches(q, cur, k)
<1>1. Len(q) \in Nat /\ DOMAIN q = 1..Len(q) /\ \A i \in 1..Len(q) : q[i].seq \in Nat
  BY QueueNumbers
<1>2. ASSUME NEW f \in Frame
      PROVE  /\ DOMAIN Append(q, f) = 1..(Len(q) + 1) /\ Append(q, f)[Len(q) + 1] = f
             /\ \A i \in 1..Len(q) : Append(q, f)[i] = q[i] /\ i \in 1..(Len(q) + 1)
             /\ Len(q) + 1 \in 1..(Len(q) + 1)
  BY <1>1, AppendProperties, LenProperties
<1>3. ASSUME NEW f \in Frame, Reaches(q, cur, n) PROVE Reaches(Append(q, f), cur, n)
  BY <1>1, <1>2, <1>3 DEF Reaches
<1>4. ASSUME NEW f \in Frame, IsOut(f), f.seq >= n PROVE Reaches(Append(q, f), cur, n)
  BY <1>2, <1>4 DEF Reaches
<1>5. ASSUME NEW k \in Int, k <= n, Reaches(q, cur, n) PROVE Reaches(q, cur, k)
  BY <1>1, <1>5 DEF Reaches
<1>6. QED
  BY <1>3, <1>4, <1>5

\* Frames queued behind a chunk that will be shown do not hide it.
LEMMA ShowsFacts ==
  ASSUME NEW q \in Seq(Frame), NEW cur \in Nat, NEW scr, NEW n \in Int
  PROVE  /\ \A f \in Frame : ~IsReset(f) /\ Shows(q, cur, scr, n) => Shows(Append(q, f), cur, scr, n)
         /\ \A f \in Frame : IsOut(f) /\ f.seq >= n => Shows(Append(q, f), cur, scr, n)
<1>1. Len(q) \in Nat /\ DOMAIN q = 1..Len(q)
  BY QueueNumbers
<1>2. ASSUME NEW f \in Frame
      PROVE  /\ DOMAIN Append(q, f) = 1..(Len(q) + 1) /\ Append(q, f)[Len(q) + 1] = f
             /\ \A i \in 1..Len(q) : Append(q, f)[i] = q[i] /\ i \in 1..(Len(q) + 1)
             /\ Len(q) + 1 \in 1..(Len(q) + 1)
             /\ \A i \in 1..(Len(q) + 1) : i = Len(q) + 1 \/ i \in 1..Len(q)
             /\ \A i \in 1..(Len(q) + 1) : ~(i > Len(q) + 1)
  BY <1>1, AppendProperties, LenProperties
<1>3. ASSUME NEW f \in Frame, ~IsReset(f), Shows(q, cur, scr, n) PROVE Shows(Append(q, f), cur, scr, n)
  <2>1. CASE n = 0
    BY <2>1 DEF Shows
  <2>2. CASE cur >= n /\ scr # << >> /\ \A i \in DOMAIN q : ~IsReset(q[i])
    <3>1. \A i \in DOMAIN Append(q, f) : ~IsReset(Append(q, f)[i])
      BY <1>1, <1>2, <1>3, <2>2
    <3>2. QED
      BY <2>2, <3>1 DEF Shows
  <2>3. CASE \E i \in DOMAIN q : IsOut(q[i]) /\ q[i].seq >= n /\ \A j \in DOMAIN q : j > i => ~IsReset(q[j])
    <3>1. PICK i \in DOMAIN q : IsOut(q[i]) /\ q[i].seq >= n /\ \A j \in DOMAIN q : j > i => ~IsReset(q[j])
      BY <2>3
    <3>2. i \in DOMAIN Append(q, f) /\ Append(q, f)[i] = q[i]
      BY <1>1, <1>2
    <3>3. ASSUME NEW j \in DOMAIN Append(q, f), j > i PROVE ~IsReset(Append(q, f)[j])
      BY <1>1, <1>2, <1>3, <3>1, <3>3
    <3>4. QED
      BY <3>1, <3>2, <3>3 DEF Shows
  <2>4. QED
    BY <1>3, <2>1, <2>2, <2>3 DEF Shows
<1>4. ASSUME NEW f \in Frame, IsOut(f), f.seq >= n PROVE Shows(Append(q, f), cur, scr, n)
  BY <1>2, <1>4 DEF Shows
<1>5. QED
  BY <1>3, <1>4

\* The same across a delivery.
LEMMA DeliverReaches ==
  ASSUME NEW q \in Seq(Frame), q # << >>, NEW cur \in Nat, NEW n \in Int, NEW blank, NEW old, NEW hi,
         QueueOK(q, cur, blank, old, hi), Reaches(q, cur, n),
         NEW now, now = IF IsOut(Head(q)) /\ Head(q).seq > cur THEN Head(q).seq ELSE cur
  PROVE  Reaches(Tail(q), now, n)
<1>1. /\ Len(q) \in Nat /\ Len(Tail(q)) = Len(q) - 1 /\ Head(q) = q[1] /\ 1 \in 1..Len(q)
      /\ Tail(q) \in Seq(Frame) /\ \A i \in 1..Len(Tail(q)) : Tail(q)[i] = q[i + 1]
  BY EmptySeq, HeadTailProperties
<1>2. DOMAIN q = 1..Len(q) /\ DOMAIN Tail(q) = 1..Len(Tail(q)) /\ \A i \in 1..Len(q) : q[i].seq \in Nat
  BY <1>1, QueueNumbers
<1>3. cur <= now /\ now \in Nat
  BY <1>1, <1>2
<1>4. CASE cur >= n
  BY <1>3, <1>4 DEF Reaches
<1>5. CASE \E i \in DOMAIN q : IsOut(q[i]) /\ q[i].seq >= n
  <2>1. PICK i \in DOMAIN q : IsOut(q[i]) /\ q[i].seq >= n
    BY <1>5
  <2>2. CASE i = 1
    <3>1. now >= n
      BY <1>1, <1>2, <2>1, <2>2
    <3>2. QED
      BY <3>1 DEF Reaches
  <2>3. CASE i # 1
    <3>1. i - 1 \in 1..Len(Tail(q)) /\ (i - 1) + 1 = i
      BY <1>1, <1>2, <2>3
    <3>2. Tail(q)[i - 1] = q[i]
      BY <1>1, <3>1
    <3>3. QED
      BY <1>2, <2>1, <3>1, <3>2 DEF Reaches
  <2>4. QED
    BY <2>2, <2>3
<1>6. QED
  BY <1>4, <1>5 DEF Reaches

\* Delivering the head of a queue keeps a chunk that will be shown.
LEMMA DeliverShows ==
  ASSUME NEW q \in Seq(Frame), q # << >>, NEW cur \in Nat, NEW n \in Int, NEW old, NEW hi,
         NEW scr \in Seq(Seqs), QueueOK(q, cur, scr = << >>, old, hi), Shows(q, cur, scr, n),
         NEW now, now = IF IsOut(Head(q)) /\ Head(q).seq > cur THEN Head(q).seq ELSE cur,
         NEW shown, shown = IF IsReset(Head(q)) THEN << >>
                            ELSE IF IsOut(Head(q)) THEN scr \o Head(q).data ELSE scr
  PROVE  Shows(Tail(q), now, shown, n)
<1>1. /\ Len(q) \in Nat /\ Len(Tail(q)) = Len(q) - 1 /\ Head(q) = q[1] /\ 1 \in 1..Len(q)
      /\ Tail(q) \in Seq(Frame) /\ \A i \in 1..Len(Tail(q)) : Tail(q)[i] = q[i + 1]
  BY EmptySeq, HeadTailProperties
<1>2. DOMAIN q = 1..Len(q) /\ DOMAIN Tail(q) = 1..Len(Tail(q)) /\ \A i \in 1..Len(q) : q[i].seq \in Nat
  BY <1>1, QueueNumbers
<1>3. cur <= now /\ now \in Nat
  BY <1>1, <1>2
<1>4. ASSUME NEW j \in DOMAIN Tail(q) PROVE j + 1 \in DOMAIN q /\ Tail(q)[j] = q[j + 1] /\ j + 1 > 1
  BY <1>1, <1>2
<1>5. ASSUME ~IsReset(q[1]), scr # << >> \/ IsOut(q[1]) PROVE shown # << >>
  <2>1. CASE IsOut(q[1])
    <3>1. shown = scr \o q[1].data
      BY <1>1, <1>5, <2>1
    <3>2. q[1] \in Frame /\ Honest(q[1])
      BY <1>1, <1>2, <2>1, QueueNumbers DEF QueueOK
    <3>3. Len(q[1].data) \in Nat \ {0} /\ q[1].data \in Seq(Seqs)
      BY <3>2, HonestFacts
    <3>4. Len(scr) \in Nat /\ Len(shown) = Len(scr) + Len(q[1].data)
      BY <3>1, <3>3, ConcatProperties, LenProperties
    <3>5. Len(<< >>) = 0
      OBVIOUS
    <3>6. QED
      BY <3>3, <3>4, <3>5
  <2>2. CASE ~IsOut(q[1])
    BY <1>1, <1>5, <2>2
  <2>3. QED
    BY <2>1, <2>2
<1>6. CASE n = 0
  BY <1>6 DEF Shows
<1>7. CASE cur >= n /\ scr # << >> /\ \A i \in DOMAIN q : ~IsReset(q[i])
  <2>1. now >= n
    BY <1>3, <1>7
  <2>2. shown # << >>
    BY <1>1, <1>2, <1>5, <1>7
  <2>3. \A i \in DOMAIN Tail(q) : ~IsReset(Tail(q)[i])
    BY <1>4, <1>7
  <2>4. QED
    BY <2>1, <2>2, <2>3 DEF Shows
<1>8. CASE \E i \in DOMAIN q : IsOut(q[i]) /\ q[i].seq >= n /\ \A j \in DOMAIN q : j > i => ~IsReset(q[j])
  <2>1. PICK i \in DOMAIN q : IsOut(q[i]) /\ q[i].seq >= n /\ \A j \in DOMAIN q : j > i => ~IsReset(q[j])
    BY <1>8
  <2>2. CASE i = 1
    <3>1. now >= n
      BY <1>1, <1>2, <2>1, <2>2
    <3>2. ~IsReset(q[1])
      BY <2>1, <2>2 DEF IsOut, IsReset
    <3>3. shown # << >>
      BY <1>5, <2>1, <2>2, <3>2
    <3>4. \A j \in DOMAIN Tail(q) : ~IsReset(Tail(q)[j])
      BY <1>4, <2>1, <2>2
    <3>5. QED
      BY <3>1, <3>3, <3>4 DEF Shows
  <2>3. CASE i # 1
    <3>1. i - 1 \in 1..Len(Tail(q)) /\ (i - 1) + 1 = i
      BY <1>1, <1>2, <2>3
    <3>2. Tail(q)[i - 1] = q[i] /\ i - 1 \in DOMAIN Tail(q)
      BY <1>1, <1>2, <3>1
    <3>3. ASSUME NEW j \in DOMAIN Tail(q), j > i - 1 PROVE ~IsReset(Tail(q)[j])
      <4>1. j + 1 > i
        BY <1>1, <1>2, <3>1, <3>3
      <4>2. QED
        BY <1>4, <2>1, <4>1
    <3>4. QED
      BY <2>1, <3>2, <3>3 DEF Shows
  <2>4. QED
    BY <2>2, <2>3
<1>9. QED
  BY <1>6, <1>7, <1>8 DEF Shows

\* The ring's two ends.
LEMMA RingFacts ==
  ASSUME Core
  PROVE  /\ last \in Nat /\ last \in Seqs /\ ring \in Seq(Seqs) /\ Run(ring, last) /\ Oldest \in Nat
         /\ (ring = << >> <=> last = 0) /\ LatestSeq(ring) = last
         /\ (ring # << >> => ring[1] = Oldest)
         /\ Oldest = IF last = 0 THEN 0 ELSE IF last > RingCap THEN last - RingCap + 1 ELSE 1
<1>1. last \in Nat /\ last \in Seqs /\ ring \in Seq(Seqs) /\ Run(ring, last) /\ Len(ring) \in Nat
  BY Numbers, LenProperties DEF Core, TypeOK, RingIsSuffix, Run
<1>2. Len(ring) = IF last > RingCap THEN RingCap ELSE last
  BY DEF Core, RingInv
<1>3. \A i \in 1..Len(ring) : ring[i] = last - Len(ring) + i
  BY <1>1, RunElements
<1>4. RingCap \in Nat \ {0}
  BY Numbers
<1>5. ring = << >> <=> last = 0
  <2>1. ring = << >> <=> Len(ring) = 0
    BY <1>1, EmptySeq
  <2>2. QED
    BY <1>1, <1>2, <1>4, <2>1
<1>6. ring # << >> => 1 \in 1..Len(ring) /\ Len(ring) \in 1..Len(ring)
  BY <1>1, EmptySeq
<1>7. LatestSeq(ring) = last
  BY <1>1, <1>3, <1>5, <1>6 DEF LatestSeq
<1>8. ring # << >> => ring[1] = Oldest
  BY DEF Oldest, OldestSeq
<1>9. Oldest = IF last = 0 THEN 0 ELSE IF last > RingCap THEN last - RingCap + 1 ELSE 1
  <2>1. CASE last = 0
    BY <1>5, <2>1 DEF Oldest, OldestSeq
  <2>2. CASE last # 0
    <3>1. ring[1] = last - Len(ring) + 1
      BY <1>3, <1>5, <1>6, <2>2
    <3>2. QED
      BY <1>1, <1>2, <1>4, <1>5, <1>8, <2>2, <3>1
  <2>3. QED
    BY <2>1, <2>2
<1>10. Oldest \in Nat
  BY <1>1, <1>4, <1>9
<1>11. QED
  BY <1>1, <1>5, <1>7, <1>8, <1>9, <1>10

-----------------------------------------------------------------------------
(* Steps that leave a client alone *)

Same(d) == /\ out'[d] = out[d] /\ cursor'[d] = cursor[d] /\ screen'[d] = screen[d]
           /\ dedup'[d] = dedup[d] /\ att'[d] = att[d] /\ (d \in subs' <=> d \in subs)

\* The reader owes the client what it owed it.
SameDebt(d) == /\ d \in subs /\ OwedFrame(d) => OwedFrame(d)'
               /\ OwedResync(d) => OwedResync(d)'
               /\ OwedResync(d)' => /\ OwedResync(d)
                                   /\ \/ Reader'.pc = Reader.pc
                                      \/ {Reader.pc, Reader'.pc} \subseteq {"drained", "tail", "label"}

\* A step that leaves a client's own state alone keeps what is said of it.
LEMMA OtherClient ==
  ASSUME NEW d \in Clients, PerClient(d), Same(d), SameDebt(d), UNCHANGED <<ring, last>>,
         drops' = 0 => drops = 0
  PROVE  PerClient(d)'
<1>1. Oldest' = Oldest /\ last' = last
  BY DEF Oldest
<1>2. ClientInv(d)'
  BY <1>1 DEF ClientInv, Same, PerClient
<1>3. AttachInv(d)'
  <2>1. /\ d \in subs => \/ Reaches(out[d], cursor[d], last)
                         \/ OwedFrame(d) /\ Reaches(out[d], cursor[d], last - 1)
                         \/ OwedResync(d)
    BY DEF AttachInv, PerClient
  <2>2. /\ d \in subs' => \/ Reaches(out[d], cursor[d], last)
                          \/ OwedFrame(d)' /\ Reaches(out[d], cursor[d], last - 1)
                          \/ OwedResync(d)'
    BY <2>1 DEF Same, SameDebt
  <2>3. QED
    BY <1>1, <2>2 DEF AttachInv, Same, PerClient
<1>4. ResyncInv(d)'
  <2>1. ASSUME Reader'.sub = d, Reader'.pc \in {"drained", "tail", "label", "marked"}
        PROVE  /\ Reader.sub = d
               /\ \/ Reader'.pc = Reader.pc
                  \/ {Reader.pc, Reader'.pc} \subseteq {"drained", "tail", "label"}
    BY <2>1 DEF SameDebt, OwedResync, Resyncing
  <2>2. QED
    BY <2>1 DEF ResyncInv, PerClient, Same, Cleared
<1>5. WebInv(d)'
  <2>1. ASSUME drops' = 0, ~dedup'[d]
        PROVE  d \in subs' => Shows(out[d], cursor[d], screen[d], last) \/ OwedFrame(d)' \/ OwedResync(d)'
    BY <2>1 DEF WebInv, PerClient, Same, SameDebt
  <2>2. QED
    BY <1>1, <2>1 DEF WebInv, PerClient, Same
<1>6. QED
  BY <1>2, <1>3, <1>4, <1>5 DEF PerClient

\* The reader is where it was, and nobody left.
LEMMA SameReader ==
  ASSUME ReaderInv, UNCHANGED <<th, last>>, subs \subseteq subs'
  PROVE  ReaderInv' /\ \A d \in Clients : SameDebt(d)
<1>1. Reader' = Reader
  BY DEF Reader
<1>2. ReaderInv'
  BY <1>1 DEF ReaderInv
<1>3. QED
  BY <1>1, <1>2 DEF SameDebt, OwedFrame, OwedResync

\* The reader is finished with subscriber c.
LEMMA ServedFacts ==
  ASSUME NEW r \in Fanout, NEW c \in r.pend
  PROVE  /\ Served(r, c).pend = r.pend \ {c}
         /\ Served(r, c).pc \in {"idle", "remove", "send"}
         /\ Served(r, c).pc \in {"idle", "remove"} => Served(r, c).pend = {}
         /\ IsOut(Served(r, c).frame) \/ IsReset(Served(r, c).frame) => Served(r, c).frame = r.frame
         /\ r.pend \ {c} # {} => Served(r, c).frame = r.frame
<1>1. r.pend \ {c} = {} <=> r.pend = {c}
  OBVIOUS
<1>2. CASE r.pend = {c}
  <2>1. Served(r, c) = AfterFanout(r.frame)
    BY <1>2 DEF Served
  <2>2. /\ AfterFanout(r.frame).pend = {} /\ AfterFanout(r.frame).pc \in {"idle", "remove"}
        /\ ~IsOut(AfterFanout(r.frame).frame) /\ ~IsReset(AfterFanout(r.frame).frame)
    BY DEF AfterFanout, Idle, Control, IsOut, IsReset
  <2>3. QED
    BY <1>1, <1>2, <2>1, <2>2
<1>3. CASE r.pend # {c}
  <2>1. Served(r, c) = [r EXCEPT !.pc = "send", !.pend = @ \ {c}, !.sub = "none", !.tail = << >>, !.label = 0]
    BY <1>3 DEF Served
  <2>2. Served(r, c).pend = r.pend \ {c} /\ Served(r, c).pc = "send" /\ Served(r, c).frame = r.frame
    BY <2>1 DEF Fanout
  <2>3. QED
    BY <2>2
<1>4. QED
  BY <1>2, <1>3

\* An empty queue.
LEMMA EmptyOK == \A cur, blank, old, hi : QueueOK(<< >>, cur, blank, old, hi)
<1>1. DOMAIN << >> = {}
  <2>1. << >> \in Seq(Frame) /\ Len(<< >>) = 0
    OBVIOUS
  <2>2. DOMAIN << >> = 1..0
    BY <2>1, LenProperties
  <2>3. QED
    BY <2>2
<1>2. QED
  BY <1>1 DEF QueueOK

-----------------------------------------------------------------------------
(* The reader's steps *)

Good == Core /\ OneFanout /\ ReaderInv /\ \A c \in Clients : PerClient(c)

\* What the state's types give a proof about client c.
LEMMA ClientTypes ==
  ASSUME Core, NEW c \in Clients
  PROVE  /\ out[c] \in Seq(Frame) /\ Len(out[c]) \in Nat /\ Len(out[c]) <= QueueDepth
         /\ DOMAIN out[c] = 1..Len(out[c])
         /\ cursor[c] \in Nat /\ cursor[c] \in Seqs /\ screen[c] \in Seq(Seqs) /\ dedup[c] \in BOOLEAN
         /\ att[c] \in Attachment /\ att[c].chunks \in Seq(Seqs) /\ att[c].lastSeq \in Nat
         /\ att[c].lastSeq \in Seqs /\ att[c].capped \in BOOLEAN
<1>1. out[c] \in Seq(Frame) /\ Len(out[c]) <= QueueDepth /\ cursor[c] \in Seqs /\ screen[c] \in Seq(Seqs)
  BY DEF Core, TypeOK
<1>2. dedup[c] \in BOOLEAN
  BY DEF Core, TypeOK
<1>3. att[c] \in Attachment
  BY DEF Core, TypeOK
<1>4. att[c].chunks \in Seq(Seqs) /\ att[c].lastSeq \in Seqs /\ att[c].capped \in BOOLEAN
  BY <1>3 DEF Attachment
<1>5. QED
  BY <1>1, <1>2, <1>3, <1>4, Numbers, LenProperties

\* The types of the reader's fan-out.
LEMMA ReaderTypes ==
  ASSUME Core
  PROVE  /\ Reader \in Fanout /\ Reader.frame \in Frame /\ Reader.pend \in SUBSET Clients
         /\ Reader.tail \in Seq(Seqs) /\ Reader.label \in Seqs
         /\ th \in [Threads -> Fanout] /\ "reader" \in Threads /\ "reader" \notin Clients
         /\ Clients \subseteq Threads
<1>1. th \in [Threads -> Fanout] /\ "reader" \in Threads /\ Clients \subseteq Threads
  BY DEF Core, TypeOK, Threads
<1>2. Reader \in Fanout
  BY <1>1 DEF Reader
<1>3. "reader" \notin Clients
  BY StreamAssumption
<1>4. QED
  BY <1>1, <1>2, <1>3 DEF Fanout

\* Only the reader acts as a goroutine that fans out.
LEMMA OnlyReader ==
  ASSUME Good, NEW t \in Threads, ThreadNext(t)
  PROVE  t = "reader"
<1>1. t \in Clients => th[t].pc = "idle"
  BY DEF Good, ReaderInv, Idle
<1>2. th[t].pc # "idle"
  BY DEF ThreadNext, Snapshot, Send, Resync, ResyncDrain, ResyncTailBytes, ResyncLatestSeq, ResyncMarker,
         ResyncSendTail
<1>3. QED
  BY <1>1, <1>2 DEF Threads

\* The reader has moved on to a record r.
LEMMA MovedReader ==
  ASSUME Good, NEW r, th' = [th EXCEPT !["reader"] = r]
  PROVE  Reader' = r /\ \A c \in Clients : th'[c] = Idle
<1>1. Reader' = r
  BY ReaderTypes DEF Reader, Good
<1>2. \A c \in Clients : th'[c] = Idle
  BY ReaderTypes DEF Good, ReaderInv
<1>3. QED
  BY <1>1, <1>2

\* A fan-out begins.
LEMMA StartedReader ==
  ASSUME Good, NEW f \in Frame, StartFanout("reader", f), Reader.pc = "idle",
         IsOut(f) => f = Out(last', <<last'>>), ~IsReset(f)
  PROVE  /\ ReaderInv' /\ Reader'.pc = "fanout" /\ Reader'.frame = f
         /\ \A d \in Clients : ~OwedFrame(d) /\ ~OwedResync(d) /\ ~OwedResync(d)'
<1>1. /\ Reader' = [Idle EXCEPT !.pc = "fanout", !.frame = f] /\ \A c \in Clients : th'[c] = Idle
  BY MovedReader DEF StartFanout
<1>2. Reader'.pc = "fanout" /\ Reader'.frame = f /\ Reader'.pend = {}
  BY <1>1 DEF Idle
<1>3. ReaderInv'
  BY <1>1, <1>2 DEF ReaderInv, Resyncing
<1>4. Reader.pend = {}
  BY DEF Good, ReaderInv
<1>5. QED
  BY <1>2, <1>3, <1>4 DEF OwedFrame, OwedResync, Resyncing

\* A control frame is fanned out.
LEMMA StartControl ==
  ASSUME Good, NEW f \in Frame, ~IsOut(f), ~IsReset(f), StartFanout("reader", f), Reader.pc = "idle",
         UNCHANGED <<ring, last, subs, out, att, screen, cursor, dedup, drops>>
  PROVE  ReaderInv' /\ \A c \in Clients : PerClient(c)'
<1>1. ReaderInv' /\ \A d \in Clients : SameDebt(d)
  BY StartedReader DEF SameDebt
<1>2. ASSUME NEW d \in Clients PROVE PerClient(d)'
  BY <1>1, OtherClient DEF Same, Good
<1>3. QED
  BY <1>1, <1>2

\* The reader pushes a chunk: every subscriber is owed it.
LEMMA PushOutStep ==
  ASSUME Good, Core', PushOut
  PROVE  ReaderInv' /\ \A c \in Clients : PerClient(c)'
<1>1. /\ last' = last + 1 /\ StartFanout("reader", Out(last + 1, <<last + 1>>)) /\ Reader.pc = "idle"
      /\ UNCHANGED <<subs, closed, out, att, screen, cursor, told, dedup, metas, claims, drops>>
  BY DEF PushOut, client, bounds, Reader
<1>core. Core
  BY DEF Good
<1>2. /\ last \in Nat /\ Oldest \in Nat /\ last' \in Nat /\ Oldest' \in Nat /\ last' \in Seqs
      /\ last < last' /\ last <= last' /\ Oldest <= Oldest' /\ last' - 1 = last
  <2>1. last \in Nat /\ Oldest \in Nat
        /\ Oldest = IF last = 0 THEN 0 ELSE IF last > RingCap THEN last - RingCap + 1 ELSE 1
    BY <1>core, RingFacts
  <2>2. (Core => /\ last \in Nat /\ last \in Seqs /\ Oldest \in Nat
                 /\ Oldest = IF last = 0 THEN 0 ELSE IF last > RingCap THEN last - RingCap + 1 ELSE 1)'
    BY RingFacts, PTL
  <2>3. last' \in Nat /\ last' \in Seqs /\ Oldest' \in Nat
        /\ Oldest' = IF last' = 0 THEN 0 ELSE IF last' > RingCap THEN last' - RingCap + 1 ELSE 1
    BY <2>2
  <2>4. RingCap \in Nat \ {0}
    BY Numbers
  <2>5. QED
    BY <1>1, <2>1, <2>3, <2>4
<1>3. Out(last', <<last'>>) \in Frame /\ IsOut(Out(last', <<last'>>))
  <2>1. <<last'>> \in Seq(Seqs)
    BY <1>2
  <2>2. QED
    BY <1>2, <2>1, RecordsTyped
<1>4. /\ ReaderInv' /\ Reader'.pc = "fanout" /\ Reader'.frame = Out(last', <<last'>>)
      /\ \A d \in Clients : ~OwedFrame(d) /\ ~OwedResync(d)
  <2>1. ~IsReset(Out(last', <<last'>>))
    BY DEF Out, IsReset
  <2>2. QED
    BY <1>1, <1>3, <2>1, StartedReader
<1>5. ASSUME NEW d \in Clients PROVE PerClient(d)'
  <2>0. PerClient(d)
    BY DEF Good
  <2>1. OwedFrame(d)'
    BY <1>3, <1>4 DEF OwedFrame
  <2>2. ClientInv(d)'
    <3>1. /\ QueueOK(out[d], cursor[d], screen[d] = << >>, Oldest, last)
          /\ ScreenOK(screen[d], cursor[d], dedup[d], Oldest) /\ cursor[d] <= last
      BY <2>0 DEF PerClient, ClientInv
    <3>2. out[d] \in Seq(Frame) /\ cursor[d] \in Nat /\ screen[d] \in Seq(Seqs)
      BY <1>core, ClientTypes
    <3>3. /\ QueueOK(out[d], cursor[d], screen[d] = << >>, Oldest', last')
          /\ ScreenOK(screen[d], cursor[d], dedup[d], Oldest')
      BY <1>2, <3>1, <3>2, OlderQueue, OlderScreen
    <3>4. cursor[d] <= last'
      BY <1>2, <3>1, <3>2
    <3>5. QED
      BY <1>1, <3>3, <3>4 DEF ClientInv
  <2>3. AttachInv(d)'
    <3>0. AttachInv(d)
      BY <2>0 DEF PerClient
    <3>1. cursor[d] \in Nat /\ att[d].lastSeq \in Nat /\ att[d].chunks \in Seq(Seqs)
      BY <1>core, ClientTypes
    <3>2. ASSUME att[d].pc = "snapshot"
          PROVE  LET s == att[d].chunks IN
                 /\ att[d].lastSeq = cursor[d]
                 /\ s = << >> => ~att[d].capped
                 /\ s # << >> => /\ Run(s, s[Len(s)]) /\ s[Len(s)] <= last' /\ s[1] > cursor[d]
                                 /\ att[d].capped \/ s[1] <= cursor[d] + 1 \/ s[1] <= Oldest'
      <4> DEFINE s == att[d].chunks
      <4>1. /\ att[d].lastSeq = cursor[d]
            /\ s = << >> => ~att[d].capped
            /\ s # << >> => /\ Run(s, s[Len(s)]) /\ s[Len(s)] <= last /\ s[1] > cursor[d]
                            /\ att[d].capped \/ s[1] <= cursor[d] + 1 \/ s[1] <= Oldest
        BY <3>0, <3>2 DEF AttachInv
      <4>2. s # << >> => s[Len(s)] \in Nat /\ s[1] \in Nat
        BY <3>1, EmptySeq, ElementOfSeq, Numbers
      <4> HIDE DEF s
      <4>3. s # << >> => /\ s[Len(s)] <= last' /\ (s[1] <= Oldest => s[1] <= Oldest')
        BY <1>2, <4>1, <4>2
      <4>4. QED
        BY <4>1, <4>3 DEF s
    <3>3. att[d].pc = "catchup" => att[d].lastSeq <= last'
      BY <1>2, <3>0, <3>1 DEF AttachInv
    <3>4. d \in subs => Reaches(out[d], cursor[d], last' - 1)
      BY <1>2, <1>4, <3>0 DEF AttachInv
    <3>5. QED
      BY <1>1, <2>1, <3>0, <3>2, <3>3, <3>4 DEF AttachInv
  <2>4. ResyncInv(d)'
    BY <1>4 DEF ResyncInv
  <2>5. WebInv(d)'
    <3>0. WebInv(d) /\ cursor[d] \in Nat
      BY <1>core, <2>0, ClientTypes DEF PerClient
    <3>1. cursor[d] < last => cursor[d] < last'
      BY <1>2, <3>0
    <3>2. QED
      BY <1>1, <2>1, <3>0, <3>1 DEF WebInv
  <2>6. QED
    BY <2>2, <2>3, <2>4, <2>5 DEF PerClient
<1>6. QED
  BY <1>4, <1>5

\* A META or CLOSE fan-out of the reader starts.
LEMMA BroadcastSteps ==
  ASSUME Good, BroadcastMeta \/ EndOfSession
  PROVE  ReaderInv' /\ \A c \in Clients : PerClient(c)'
<1>1. \A k \in {"meta", "close"} : Control(k) \in Frame /\ ~IsOut(Control(k)) /\ ~IsReset(Control(k))
  BY RecordsTyped DEF Control, IsReset
<1>2. CASE BroadcastMeta
  BY <1>1, <1>2, StartControl DEF BroadcastMeta, client, Reader
<1>3. CASE EndOfSession
  BY <1>1, <1>3, StartControl DEF EndOfSession, client, bounds, Reader
<1>4. QED
  BY <1>2, <1>3

\* A fan-out takes its list of subscribers.
LEMMA SnapshotStep ==
  ASSUME Good, Snapshot("reader")
  PROVE  ReaderInv' /\ \A c \in Clients : PerClient(c)'
<1>1. /\ Reader.pc = "fanout"
      /\ th' = [th EXCEPT !["reader"] = IF subs = {} THEN AfterFanout(Reader.frame)
                                        ELSE [Reader EXCEPT !.pc = "send", !.pend = subs]]
      /\ UNCHANGED <<ring, last, subs, closed, out, att, screen, cursor, told, dedup, metas, claims, drops>>
  BY DEF Snapshot, client, bounds, Reader
<1>2. /\ Reader' = IF subs = {} THEN AfterFanout(Reader.frame) ELSE [Reader EXCEPT !.pc = "send", !.pend = subs]
      /\ \A c \in Clients : th'[c] = Idle
  <2> DEFINE r == IF subs = {} THEN AfterFanout(Reader.frame) ELSE [Reader EXCEPT !.pc = "send", !.pend = subs]
  <2>1. th' = [th EXCEPT !["reader"] = r]
    BY <1>1
  <2> HIDE DEF r
  <2>2. Reader' = r /\ \A c \in Clients : th'[c] = Idle
    BY <2>1, MovedReader
  <2>3. QED
    BY <2>2 DEF r
<1>3. CASE subs = {}
  <2>1. Reader' = AfterFanout(Reader.frame)
    BY <1>2, <1>3
  <2>2. Reader'.pc \in {"idle", "remove"} /\ Reader'.pend = {} /\ ~IsOut(Reader'.frame) /\ ~IsReset(Reader'.frame)
    BY <2>1 DEF AfterFanout, Idle, Control, IsOut, IsReset
  <2>3. ReaderInv'
    BY <1>2, <2>2 DEF ReaderInv, Resyncing
  <2>4. \A d \in Clients : SameDebt(d)
    BY <1>1, <1>3, <2>2 DEF SameDebt, OwedResync, Resyncing
  <2>5. ASSUME NEW d \in Clients PROVE PerClient(d)'
    BY <1>1, <2>4, OtherClient DEF Same, Good
  <2>6. QED
    BY <2>3, <2>5
<1>4. CASE subs # {}
  <2>1. Reader' = [Reader EXCEPT !.pc = "send", !.pend = subs]
    BY <1>2, <1>4
  <2>2. Reader'.pc = "send" /\ Reader'.pend = subs /\ Reader'.frame = Reader.frame
    BY <2>1, ReaderTypes DEF Fanout, Good
  <2>3. ReaderInv'
    BY <1>1, <1>2, <2>2 DEF Good, ReaderInv, Resyncing
  <2>4. \A d \in Clients : SameDebt(d)
    BY <1>1, <2>2 DEF SameDebt, OwedFrame, OwedResync, Resyncing
  <2>5. ASSUME NEW d \in Clients PROVE PerClient(d)'
    BY <1>1, <2>4, OtherClient DEF Same, Good
  <2>6. QED
    BY <2>3, <2>5
<1>5. QED
  BY <1>3, <1>4

\* The reader is finished with c and owes the others what it owed them.
LEMMA ServedReader ==
  ASSUME Good, NEW c \in Clients, c \in Reader.pend, Reader.pc = "send" \/ Reader.sub = c,
         th' = [th EXCEPT !["reader"] = Served(Reader, c)], UNCHANGED last,
         subs' = subs \/ subs' = subs \ {c}
  PROVE  /\ ReaderInv' /\ Reader'.pc \notin Resyncing
         /\ \A d \in Clients : d # c => SameDebt(d)
<1>1. Reader' = Served(Reader, c) /\ \A d \in Clients : th'[d] = Idle
  BY MovedReader
<1>2. /\ Reader'.pend = Reader.pend \ {c}
      /\ Reader'.pc \in {"idle", "remove", "send"}
      /\ Reader'.pc \in {"idle", "remove"} => Reader'.pend = {}
      /\ IsOut(Reader'.frame) \/ IsReset(Reader'.frame) => Reader'.frame = Reader.frame
      /\ Reader.pend \ {c} # {} => Reader'.frame = Reader.frame
  BY <1>1, ReaderTypes, ServedFacts DEF Good
<1>3. Reader'.pc \notin Resyncing
  BY <1>2 DEF Resyncing
<1>4. ReaderInv'
  <2>1. /\ Reader.pend \subseteq subs /\ (IsOut(Reader.frame) => Reader.frame = Out(last, <<last>>))
        /\ ~IsReset(Reader.frame)
    BY DEF Good, ReaderInv
  <2>2. (IsOut(Reader'.frame) => Reader'.frame = Out(last', <<last'>>)) /\ ~IsReset(Reader'.frame)
    BY <1>2, <2>1
  <2>3. Reader'.pend \subseteq subs'
    BY <1>2, <2>1
  <2>4. Reader'.pc \in {"idle", "fanout", "remove"} => Reader'.pend = {}
    BY <1>2
  <2>5. Reader'.pc \notin {"tail", "label", "marked"}
    BY <1>2
  <2>6. QED
    BY <1>1, <1>3, <2>2, <2>3, <2>4, <2>5 DEF ReaderInv
<1>5. ASSUME NEW d \in Clients, d # c PROVE SameDebt(d)
  <2>1. ~OwedResync(d)
    BY <1>5 DEF OwedResync, Resyncing
  <2>2. ~OwedResync(d)'
    BY <1>3 DEF OwedResync
  <2>3. Reader.pc # "fanout"
    BY DEF Good, ReaderInv
  <2>4. ASSUME OwedFrame(d) PROVE OwedFrame(d)'
    <3>1. d \in Reader.pend /\ IsOut(Reader.frame)
      BY <2>3, <2>4 DEF OwedFrame
    <3>2. d \in Reader'.pend /\ Reader'.frame = Reader.frame
      BY <1>2, <1>5, <3>1
    <3>3. QED
      BY <3>1, <3>2 DEF OwedFrame
  <2>5. QED
    BY <2>1, <2>2, <2>4 DEF SameDebt
<1>6. QED
  BY <1>3, <1>4, <1>5

\* A subscriber with a new queue that carries the newest chunk, or that is owed it.
LEMMA Requeued ==
  ASSUME Core, NEW c \in Clients, PerClient(c), c \in subs, c \in subs',
         cursor'[c] = cursor[c], screen'[c] = screen[c], dedup'[c] = dedup[c], att'[c] = att[c],
         UNCHANGED <<ring, last, drops>>,
         QueueOK(out'[c], cursor[c], screen[c] = << >>, Oldest, last),
         \/ OwedResync(c)'
         \/ /\ Reaches(out'[c], cursor[c], last)
            /\ drops = 0 /\ ~dedup[c] => Shows(out'[c], cursor[c], screen[c], last),
         ResyncInv(c)'
  PROVE  PerClient(c)'
<1>1. Oldest' = Oldest /\ last' = last
  BY DEF Oldest
<1>2. ClientInv(c)'
  BY <1>1 DEF ClientInv, PerClient
<1>3. att[c].pc \in {"joined", "live"}
  BY DEF PerClient, AttachInv
<1>4. AttachInv(c)'
  BY <1>1, <1>3 DEF AttachInv
<1>5. WebInv(c)'
  BY <1>1, <1>3 DEF WebInv
<1>6. QED
  BY <1>2, <1>4, <1>5 DEF PerClient

\* One non-blocking send, or the start of a resync.
LEMMA SendStep ==
  ASSUME Good, NEW c \in Clients, Send("reader", c)
  PROVE  ReaderInv' /\ \A d \in Clients : PerClient(d)'
<1>1. /\ Reader.pc = "send" /\ c \in Reader.pend
      /\ UNCHANGED <<ring, last, subs, closed, att, screen, cursor, told, dedup, metas, claims, drops>>
  BY DEF Send, client, bounds, Reader
<1>core. Core /\ PerClient(c) /\ ReaderInv
  BY DEF Good
<1>sub. c \in subs /\ c \in subs'
  BY <1>core, <1>1 DEF ReaderInv
<1>2. CASE Fits(out[c])
  <2>1. /\ out' = [out EXCEPT ![c] = Append(@, Reader.frame)]
        /\ th' = [th EXCEPT !["reader"] = Served(Reader, c)]
    BY <1>2 DEF Send, Reader
  <2>2. out'[c] = Append(out[c], Reader.frame) /\ \A d \in Clients : d # c => out'[d] = out[d]
    BY <1>core, <2>1 DEF Core, TypeOK
  <2>3. ReaderInv' /\ Reader'.pc \notin Resyncing /\ \A d \in Clients : d # c => SameDebt(d)
    BY <1>1, <2>1, ServedReader
  <2>4. ASSUME NEW d \in Clients, d # c PROVE PerClient(d)'
    BY <1>1, <2>2, <2>3, <2>4, OtherClient DEF Same, Good
  <2>5. PerClient(c)'
    <3> DEFINE f == Reader.frame
               q == out[c]
               cur == cursor[c]
    <3>1. /\ q \in Seq(Frame) /\ cur \in Nat /\ f \in Frame /\ last \in Nat /\ last - 1 \in Int
          /\ Oldest \in Nat /\ last - 1 <= last /\ last \in Int /\ last \in Seqs
      BY <1>core, ClientTypes, ReaderTypes, RingFacts
    <3>2. QueueOK(q, cur, screen[c] = << >>, Oldest, last) /\ cur <= last
      BY <1>core DEF PerClient, ClientInv
    <3>3. IsOut(f) => f.seq = last /\ f.data = <<last>> /\ Len(f.data) = 1
      <4>1. <<last>> \in Seq(Seqs)
        BY <3>1
      <4>2. Out(last, <<last>>).seq = last /\ Out(last, <<last>>).data = <<last>>
        BY <3>1, <4>1, RecordsTyped
      <4>3. QED
        BY <1>core, <4>2 DEF ReaderInv
    <3>4. IsOut(f) => Honest(f)
      <4>1. <<last>> \in Seq(Seqs) /\ <<last>> # << >> /\ Len(<<last>>) = 1 /\ <<last>>[1] = last
        BY <3>1
      <4>2. \A i \in 1..Len(<<last>>) : <<last>>[i] = last - Len(<<last>>) + i
        BY <3>1, <4>1
      <4>3. Run(<<last>>, last)
        BY <4>1, <4>2, RunElements
      <4>4. QED
        BY <3>3, <4>1, <4>3 DEF Honest
    <3>5. ~OwedResync(c) /\ (OwedFrame(c) <=> IsOut(f))
      BY <1>1 DEF OwedResync, OwedFrame, Resyncing
    <3>x. \/ Reaches(out[c], cursor[c], last)
          \/ OwedFrame(c) /\ Reaches(out[c], cursor[c], last - 1)
          \/ OwedResync(c)
      BY <1>core, <1>sub DEF PerClient, AttachInv
    <3>6. Reaches(q, cur, last) \/ (IsOut(f) /\ Reaches(q, cur, last - 1))
      BY <3>5, <3>x
    <3>7. Reaches(q, cur, last - 1)
      BY <3>1, <3>6, ReachesFacts
    <3> HIDE DEF f, q, cur
    <3>8. QueueOK(Append(q, f), cur, screen[c] = << >>, Oldest, last)
      BY <3>1, <3>2, <3>3, <3>4, <3>7, AppendOK
    <3>9. Reaches(Append(q, f), cur, last)
      <4>1. CASE IsOut(f)
        <5>1. f.seq >= last
          BY <3>1, <3>3, <4>1
        <5>2. QED
          BY <3>1, <4>1, <5>1, ReachesFacts
      <4>2. CASE ~IsOut(f)
        BY <3>1, <3>6, <4>2, ReachesFacts
      <4>3. QED
        BY <4>1, <4>2
    <3>10. ASSUME drops = 0, ~dedup[c] PROVE Shows(Append(q, f), cur, screen[c], last)
      <4>1. CASE IsOut(f)
        <5>1. f.seq >= last
          BY <3>1, <3>3, <4>1
        <5>2. QED
          BY <3>1, <4>1, <5>1, ShowsFacts
      <4>2. CASE ~IsOut(f)
        <5>1. Shows(q, cur, screen[c], last)
          BY <1>core, <1>sub, <3>5, <3>10, <4>2 DEF PerClient, WebInv, q, cur
        <5>2. ~IsReset(f)
          BY <1>core DEF ReaderInv, f
        <5>3. QED
          BY <3>1, <5>1, <5>2, ShowsFacts
      <4>3. QED
        BY <4>1, <4>2
    <3>11. ResyncInv(c)'
      BY <2>3 DEF ResyncInv, Resyncing
    <3>12. out'[c] = Append(q, f)
      BY <2>2 DEF q, f
    <3>13. QED
      BY <1>core, <1>sub, <1>1, <3>8, <3>9, <3>10, <3>11, <3>12, Requeued DEF cur
  <2>6. QED
    BY <2>3, <2>4, <2>5
<1>3. CASE ~Fits(out[c])
  <2>1. out' = out /\ th' = [th EXCEPT !["reader"] = [Reader EXCEPT !.pc = "full", !.sub = c]]
    BY <1>3 DEF Send, Reader
  <2>2. Reader' = [Reader EXCEPT !.pc = "full", !.sub = c] /\ \A d \in Clients : th'[d] = Idle
    BY <2>1, MovedReader
  <2>3. Reader'.pc = "full" /\ Reader'.sub = c /\ Reader'.pend = Reader.pend /\ Reader'.frame = Reader.frame
    BY <2>2, ReaderTypes DEF Fanout, Good
  <2>4. ReaderInv'
    BY <1>core, <1>1, <2>2, <2>3 DEF ReaderInv, Resyncing
  <2>5. \A d \in Clients : d # c => SameDebt(d)
    BY <1>1, <2>3 DEF SameDebt, OwedFrame, OwedResync, Resyncing
  <2>6. ASSUME NEW d \in Clients, d # c PROVE PerClient(d)'
    BY <1>1, <2>1, <2>5, <2>6, OtherClient DEF Same, Good
  <2>7. PerClient(c)'
    <3>1. OwedResync(c)' /\ ResyncInv(c)'
      BY <2>3 DEF OwedResync, Resyncing, ResyncInv
    <3>2. QueueOK(out'[c], cursor[c], screen[c] = << >>, Oldest, last)
      BY <1>core, <2>1 DEF PerClient, ClientInv
    <3>3. QED
      BY <1>core, <1>sub, <1>1, <3>1, <3>2, Requeued
  <2>8. QED
    BY <2>4, <2>6, <2>7
<1>4. QED
  BY <1>2, <1>3

\* What a resync knows of the subscriber it is about.
LEMMA ResyncFacts ==
  ASSUME Good, Reader.pc \in Resyncing
  PROVE  LET c == Reader.sub
         IN  c \in Clients /\ c \in Reader.pend /\ c \in subs /\ PerClient(c)
<1>1. Reader.sub \in Reader.pend /\ Reader.pend \subseteq subs
  BY DEF Good, ReaderInv
<1>2. Reader.pend \in SUBSET Clients
  BY ReaderTypes DEF Good
<1>3. QED
  BY <1>1, <1>2 DEF Good

\* A resync drains the full queue: from here the client is owed the tail.
LEMMA ResyncDrainStep ==
  ASSUME Good, ResyncDrain("reader")
  PROVE  ReaderInv' /\ \A d \in Clients : PerClient(d)'
<1>0. Reader.pc = "full"
  BY DEF ResyncDrain, Reader
<1>sub. PICK c \in Clients : c = Reader.sub /\ c \in subs /\ PerClient(c)
  BY <1>0, ResyncFacts DEF Resyncing
<1>1. /\ Reader.pc = "full" /\ out' = [out EXCEPT ![c] = << >>]
      /\ th' = [th EXCEPT !["reader"] = [Reader EXCEPT !.pc = "drained"]]
      /\ UNCHANGED <<ring, last, subs, closed, att, screen, cursor, told, dedup, metas, claims, drops>>
  BY <1>sub DEF ResyncDrain, client, bounds, Reader
<1>2. c \in Clients /\ c \in subs /\ PerClient(c)
  BY <1>sub
<1>3. out'[c] = << >> /\ \A d \in Clients : d # c => out'[d] = out[d]
  BY <1>1, <1>2 DEF Good, Core, TypeOK
<1>4. Reader' = [Reader EXCEPT !.pc = "drained"] /\ \A d \in Clients : th'[d] = Idle
  BY <1>1, MovedReader
<1>5. /\ Reader'.pc = "drained" /\ Reader'.sub = c /\ Reader'.pend = Reader.pend
      /\ Reader'.frame = Reader.frame
  BY <1>sub, <1>4, ReaderTypes DEF Fanout, Good
<1>6. ReaderInv'
  BY <1>sub, <1>1, <1>4, <1>5 DEF ReaderInv, Resyncing, Good
<1>7. \A d \in Clients : d # c => SameDebt(d)
  BY <1>sub, <1>1, <1>5 DEF SameDebt, OwedFrame, OwedResync, Resyncing
<1>8. ASSUME NEW d \in Clients, d # c PROVE PerClient(d)'
  BY <1>1, <1>3, <1>7, <1>8, OtherClient DEF Same, Good
<1>9. PerClient(c)'
  <2>1. OwedResync(c)'
    BY <1>5 DEF OwedResync, Resyncing
  <2>2. Len(out'[c]) = 0 /\ DOMAIN out'[c] = {}
    <3>1. << >> \in Seq(Frame) /\ Len(<< >>) = 0
      OBVIOUS
    <3>2. DOMAIN << >> = 1..0
      BY <3>1, LenProperties
    <3>3. QED
      BY <1>3, <3>1, <3>2
  <2>3. ResyncInv(c)'
    BY <1>5, <2>2 DEF ResyncInv, Cleared
  <2>4. QueueOK(out'[c], cursor[c], screen[c] = << >>, Oldest, last)
    BY <1>3, EmptyOK
  <2>5. QED
    BY <1>1, <1>2, <2>1, <2>3, <2>4, Requeued DEF Good
<1>10. QED
  BY <1>6, <1>8, <1>9

\* The two reads of the ring that a resync makes.
LEMMA ResyncReadSteps ==
  ASSUME Good, ResyncTailBytes("reader") \/ ResyncLatestSeq("reader")
  PROVE  ReaderInv' /\ \A d \in Clients : PerClient(d)'
<1>1. UNCHANGED <<ring, last, subs, closed, out, att, screen, cursor, told, dedup, metas, claims, drops>>
  BY DEF ResyncTailBytes, ResyncLatestSeq, client, bounds
<1>ring. /\ last \in Nat /\ last \in Int /\ ring \in Seq(Seqs) /\ Run(ring, last)
         /\ (ring = << >> <=> last = 0) /\ LatestSeq(ring) = last
  BY RingFacts DEF Good
<1>2. /\ ReaderInv'
      /\ {Reader.pc, Reader'.pc} \subseteq {"drained", "tail", "label"} /\ Reader'.sub = Reader.sub
      /\ Reader'.pend = Reader.pend /\ Reader'.frame = Reader.frame
  <2>1. CASE ResyncTailBytes("reader")
    <3>1. Reader.pc = "drained" /\ th' = [th EXCEPT !["reader"] = [Reader EXCEPT !.pc = "tail", !.tail = TailBytes(ring)]]
      BY <2>1 DEF ResyncTailBytes, Reader
    <3>2. Reader' = [Reader EXCEPT !.pc = "tail", !.tail = TailBytes(ring)] /\ \A d \in Clients : th'[d] = Idle
      BY <3>1, MovedReader
    <3>3. /\ Reader'.pc = "tail" /\ Reader'.sub = Reader.sub /\ Reader'.pend = Reader.pend
          /\ Reader'.frame = Reader.frame /\ Reader'.tail = TailBytes(ring)
      BY <3>2, ReaderTypes DEF Fanout, Good
    <3>4. Run(TailBytes(ring), last)
      BY <1>ring, NewestRun, Numbers DEF TailBytes
    <3>5. last > 0 => TailBytes(ring) # << >>
      <4>1. ResyncTail \in Nat \ {0} /\ Len(ring) \in Nat
        BY Numbers, <1>ring, LenProperties
      <4>2. Len(TailBytes(ring)) = IF Len(ring) > ResyncTail THEN ResyncTail ELSE Len(ring)
        BY <1>ring, <4>1, NewestFacts DEF TailBytes
      <4>3. last > 0 => Len(ring) # 0
        BY <1>ring, EmptySeq
      <4>4. Len(<< >>) = 0
        OBVIOUS
      <4>5. last > 0 => Len(TailBytes(ring)) # 0
        BY <4>1, <4>2, <4>3
      <4>6. QED
        BY <4>4, <4>5
    <3>6. ReaderInv'
      BY <1>1, <3>1, <3>2, <3>3, <3>4, <3>5 DEF ReaderInv, Resyncing, Good
    <3>7. QED
      BY <3>1, <3>3, <3>6
  <2>2. CASE ResyncLatestSeq("reader")
    <3>1. Reader.pc = "tail" /\ th' = [th EXCEPT !["reader"] = [Reader EXCEPT !.pc = "label", !.label = LatestSeq(ring)]]
      BY <2>2 DEF ResyncLatestSeq, Reader
    <3>2. Reader' = [Reader EXCEPT !.pc = "label", !.label = LatestSeq(ring)] /\ \A d \in Clients : th'[d] = Idle
      BY <3>1, MovedReader
    <3>3. /\ Reader'.pc = "label" /\ Reader'.sub = Reader.sub /\ Reader'.pend = Reader.pend
          /\ Reader'.frame = Reader.frame /\ Reader'.tail = Reader.tail /\ Reader'.label = last
      BY <1>ring, <3>2, ReaderTypes DEF Fanout, Good
    <3>4. ReaderInv'
      BY <1>1, <3>1, <3>2, <3>3 DEF ReaderInv, Resyncing, Good
    <3>5. QED
      BY <3>1, <3>3, <3>4
  <2>3. QED
    BY <2>1, <2>2
<1>3. ASSUME NEW d \in Clients PROVE SameDebt(d)
  <2>1. OwedFrame(d) => OwedFrame(d)'
    BY <1>2 DEF OwedFrame
  <2>2. (OwedResync(d) <=> OwedResync(d)')
    BY <1>2 DEF OwedResync, Resyncing
  <2>3. QED
    BY <1>2, <2>1, <2>2 DEF SameDebt
<1>4. ASSUME NEW d \in Clients PROVE PerClient(d)'
  BY <1>1, <1>3, OtherClient DEF Same, Good
<1>5. QED
  BY <1>2, <1>4

\* The control frames of a queue that was cleared leave room for one more.
LEMMA ClearedFits ==
  ASSUME Core, NEW c \in Clients, NEW n \in {0, 1}, Cleared(c, n), NEW f \in Frame
  PROVE  /\ Fits(out[c]) /\ TrySend(out[c], f) = Append(out[c], f)
         /\ \A i \in DOMAIN Append(out[c], f) :
               \/ i \in DOMAIN out[c] /\ Append(out[c], f)[i] = out[c][i]
               \/ i = Len(out[c]) + 1 /\ Append(out[c], f)[i] = f
         /\ Len(out[c]) + 1 \in DOMAIN Append(out[c], f) /\ Append(out[c], f)[Len(out[c]) + 1] = f
         /\ Len(Append(out[c], f)) = Len(out[c]) + 1 /\ Len(out[c]) \in Nat
<1>1. out[c] \in Seq(Frame) /\ Len(out[c]) \in Nat /\ DOMAIN out[c] = 1..Len(out[c])
  BY ClientTypes
<1>2. Len(out[c]) <= n + 1
  <2>1. Len(out[c]) <= (IF att[c].pc = "joined" THEN n ELSE n + 1)
    BY DEF Cleared
  <2>2. QED
    BY <1>1, <2>1
<1>3. Fits(out[c])
  BY <1>1, <1>2, Numbers DEF Fits
<1>4. TrySend(out[c], f) = Append(out[c], f)
  BY <1>3 DEF TrySend
<1>5. /\ Append(out[c], f) \in Seq(Frame) /\ Len(Append(out[c], f)) = Len(out[c]) + 1
      /\ Append(out[c], f)[Len(out[c]) + 1] = f
      /\ \A i \in 1..Len(out[c]) : Append(out[c], f)[i] = out[c][i]
  BY <1>1, AppendProperties
<1>6. DOMAIN Append(out[c], f) = 1..(Len(out[c]) + 1)
  BY <1>5, LenProperties
<1>7. \A i \in 1..(Len(out[c]) + 1) : i \in 1..Len(out[c]) \/ i = Len(out[c]) + 1
  BY <1>1
<1>8. Len(out[c]) + 1 \in 1..(Len(out[c]) + 1)
  BY <1>1
<1>9. QED
  BY <1>1, <1>3, <1>4, <1>5, <1>6, <1>7, <1>8

\* The marker, to be followed by the tail if there is one.
LEMMA ResyncMarkerStep ==
  ASSUME Good, ResyncMarker("reader")
  PROVE  ReaderInv' /\ \A d \in Clients : PerClient(d)'
<1>0. Reader.pc = "label"
  BY DEF ResyncMarker, Reader
<1>sub. PICK c \in Clients : c = Reader.sub /\ c \in subs /\ PerClient(c) /\ c \in Reader.pend
  BY <1>0, ResyncFacts DEF Resyncing
<1>core. Core /\ ReaderInv
  BY DEF Good
<1>ty. /\ out[c] \in Seq(Frame) /\ cursor[c] \in Nat /\ last \in Nat /\ Oldest \in Nat
       /\ ResetMarker \in Frame /\ ~IsOut(ResetMarker) /\ IsReset(ResetMarker)
  BY <1>core, <1>sub, ClientTypes, RingFacts, RecordsTyped DEF ResetMarker, Control, IsReset
<1>1. Cleared(c, 0)
  BY <1>0, <1>sub DEF PerClient, ResyncInv
<1> DEFINE q == Append(out[c], ResetMarker)
<1>2. /\ Fits(out[c]) /\ TrySend(out[c], ResetMarker) = q
      /\ \A i \in DOMAIN q : \/ i \in DOMAIN out[c] /\ q[i] = out[c][i]
                             \/ i = Len(out[c]) + 1 /\ q[i] = ResetMarker
      /\ Len(out[c]) + 1 \in DOMAIN q /\ q[Len(out[c]) + 1] = ResetMarker
      /\ Len(q) = Len(out[c]) + 1 /\ Len(out[c]) \in Nat
  BY <1>core, <1>sub, <1>ty, <1>1, ClearedFits
<1>3. /\ out' = [out EXCEPT ![c] = TrySend(@, ResetMarker)]
      /\ th' = [th EXCEPT !["reader"] = IF Reader.tail # << >> THEN [Reader EXCEPT !.pc = "marked"]
                                        ELSE Served(Reader, c)]
      /\ UNCHANGED <<ring, last, subs, closed, att, screen, cursor, told, dedup, metas, claims, drops>>
  BY <1>sub, <1>2 DEF ResyncMarker, client, bounds, Reader
<1>4. out'[c] = q /\ \A d \in Clients : d # c => out'[d] = out[d]
  BY <1>core, <1>sub, <1>2, <1>3 DEF Core, TypeOK
<1> HIDE DEF q
<1>5. QueueOK(q, cursor[c], screen[c] = << >>, Oldest, last)
  <2>1. QueueOK(out[c], cursor[c], screen[c] = << >>, Oldest, last)
    BY <1>sub DEF PerClient, ClientInv
  <2>2. QED
    BY <1>ty, <2>1, AppendOK DEF q
<1>6. CASE Reader.tail # << >>
  <2>1. Reader' = [Reader EXCEPT !.pc = "marked"] /\ \A d \in Clients : th'[d] = Idle
    BY <1>3, <1>6, MovedReader
  <2>2. /\ Reader'.pc = "marked" /\ Reader'.sub = c /\ Reader'.pend = Reader.pend
        /\ Reader'.frame = Reader.frame /\ Reader'.tail = Reader.tail /\ Reader'.label = Reader.label
    BY <1>core, <1>sub, <2>1, ReaderTypes DEF Fanout
  <2>3. ReaderInv'
    BY <1>core, <1>0, <1>sub, <1>3, <1>6, <2>1, <2>2 DEF ReaderInv, Resyncing
  <2>4. \A d \in Clients : d # c => SameDebt(d)
    BY <1>0, <1>sub, <2>2 DEF SameDebt, OwedFrame, OwedResync, Resyncing
  <2>5. ASSUME NEW d \in Clients, d # c PROVE PerClient(d)'
    BY <1>3, <1>4, <2>4, <2>5, OtherClient DEF Same, Good
  <2>6. PerClient(c)'
    <3>1. OwedResync(c)'
      BY <2>2 DEF OwedResync, Resyncing
    <3>2. \A i \in DOMAIN q : ~IsOut(q[i])
      BY <1>ty, <1>1, <1>2 DEF Cleared
    <3>3. Len(q) <= IF att[c].pc = "joined" THEN 1 ELSE 1 + 1
      BY <1>1, <1>2 DEF Cleared
    <3>4. \E j \in DOMAIN q : IsReset(q[j])
      BY <1>ty, <1>2
    <3>5. ResyncInv(c)'
      BY <1>3, <1>4, <2>2, <3>2, <3>3, <3>4 DEF ResyncInv, Cleared
    <3>6. QED
      BY <1>core, <1>sub, <1>3, <1>4, <1>5, <3>1, <3>5, Requeued
  <2>7. QED
    BY <2>3, <2>5, <2>6
<1>7. CASE Reader.tail = << >>
  <2>1. th' = [th EXCEPT !["reader"] = Served(Reader, c)]
    BY <1>3, <1>7
  <2>2. ReaderInv' /\ Reader'.pc \notin Resyncing /\ \A d \in Clients : d # c => SameDebt(d)
    BY <1>sub, <1>3, <2>1, ServedReader
  <2>3. ASSUME NEW d \in Clients, d # c PROVE PerClient(d)'
    BY <1>3, <1>4, <2>2, <2>3, OtherClient DEF Same, Good
  <2>4. PerClient(c)'
    <3>1. last = 0
      BY <1>core, <1>0, <1>ty, <1>7 DEF ReaderInv
    <3>2. Reaches(q, cursor[c], last) /\ Shows(q, cursor[c], screen[c], last)
      BY <1>ty, <3>1 DEF Reaches, Shows
    <3>3. ResyncInv(c)'
      BY <2>2 DEF ResyncInv, Resyncing
    <3>4. QED
      BY <1>core, <1>sub, <1>3, <1>4, <1>5, <3>2, <3>3, Requeued
  <2>5. QED
    BY <2>2, <2>3, <2>4
<1>8. QED
  BY <1>6, <1>7

\* The tail, on a terminal the marker clears.
LEMMA ResyncSendTailStep ==
  ASSUME Good, ResyncSendTail("reader")
  PROVE  ReaderInv' /\ \A d \in Clients : PerClient(d)'
<1>0. Reader.pc = "marked"
  BY DEF ResyncSendTail, Reader
<1>sub. PICK c \in Clients : c = Reader.sub /\ c \in subs /\ PerClient(c) /\ c \in Reader.pend
  BY <1>0, ResyncFacts DEF Resyncing
<1>core. Core /\ ReaderInv
  BY DEF Good
<1>f. PICK f \in Frame : f = Out(Reader.label, Reader.tail)
  BY <1>core, ReaderTypes, RecordsTyped
<1>ty. /\ out[c] \in Seq(Frame) /\ cursor[c] \in Nat /\ last \in Nat /\ Oldest \in Nat
       /\ Reader.label = last /\ Run(Reader.tail, last) /\ Reader.tail # << >>
  BY <1>core, <1>0, <1>sub, ClientTypes, RingFacts DEF ReaderInv
<1>out. IsOut(f) /\ f.seq = last /\ f.data = Reader.tail
  BY <1>core, <1>f, <1>ty, ReaderTypes, RecordsTyped
<1>1. /\ Cleared(c, 1)
      /\ screen[c] = << >> \/ \E j \in DOMAIN out[c] : IsReset(out[c][j])
  BY <1>0, <1>sub DEF PerClient, ResyncInv
<1> DEFINE q == Append(out[c], f)
<1>2. TrySend(out[c], f) = q
  BY <1>core, <1>sub, <1>1, ClearedFits
<1>3. /\ out' = [out EXCEPT ![c] = TrySend(@, f)]
      /\ th' = [th EXCEPT !["reader"] = Served(Reader, c)]
      /\ UNCHANGED <<ring, last, subs, closed, att, screen, cursor, told, dedup, metas, claims, drops>>
  BY <1>sub, <1>f DEF ResyncSendTail, client, bounds, Reader
<1>4. out'[c] = q /\ \A d \in Clients : d # c => out'[d] = out[d]
  BY <1>core, <1>sub, <1>2, <1>3 DEF Core, TypeOK
<1> HIDE DEF q
<1>5. QueueOK(q, cursor[c], screen[c] = << >>, Oldest, last)
  <2>1. QueueOK(out[c], cursor[c], screen[c] = << >>, Oldest, last) /\ cursor[c] <= last
    BY <1>sub DEF PerClient, ClientInv
  <2>2. \A k \in DOMAIN out[c] : ~IsOut(out[c][k])
    BY <1>1 DEF Cleared
  <2>3. Honest(f) /\ cursor[c] <= f.seq /\ f.seq = last
    BY <1>ty, <1>out, <2>1 DEF Honest
  <2>4. QED
    BY <1>ty, <1>1, <2>1, <2>2, <2>3, AppendOK DEF q
<1>6. ReaderInv' /\ Reader'.pc \notin Resyncing /\ \A d \in Clients : d # c => SameDebt(d)
  BY <1>sub, <1>3, ServedReader
<1>7. ASSUME NEW d \in Clients, d # c PROVE PerClient(d)'
  BY <1>3, <1>4, <1>6, <1>7, OtherClient DEF Same, Good
<1>8. PerClient(c)'
  <2>1. f.seq >= last /\ last \in Int
    BY <1>ty, <1>out
  <2>2. Reaches(q, cursor[c], last) /\ Shows(q, cursor[c], screen[c], last)
    BY <1>ty, <1>out, <2>1, ReachesFacts, ShowsFacts DEF q
  <2>3. ResyncInv(c)'
    BY <1>6 DEF ResyncInv, Resyncing
  <2>4. QED
    BY <1>core, <1>sub, <1>3, <1>4, <1>5, <2>2, <2>3, Requeued
<1>9. QED
  BY <1>6, <1>7, <1>8

\* Session.Close cuts every subscriber.
LEMMA CloseStep ==
  ASSUME Good, CloseSession
  PROVE  ReaderInv' /\ \A d \in Clients : PerClient(d)'
<1>1. /\ Reader.pc = "remove" /\ subs' = {}
      /\ att' = [c \in Clients |-> IF c \in subs THEN [att[c] EXCEPT !.pc = "cut"] ELSE att[c]]
      /\ th' = [th EXCEPT !["reader"] = Idle]
      /\ UNCHANGED <<ring, last, out, screen, cursor, dedup, drops>>
  BY DEF CloseSession, client, bounds, Reader
<1>2. Reader' = Idle /\ \A d \in Clients : th'[d] = Idle
  BY <1>1, MovedReader
<1>3. Reader'.pc = "idle" /\ Reader'.pend = {} /\ ~IsOut(Reader'.frame) /\ ~IsReset(Reader'.frame)
  BY <1>2 DEF Idle, Control, IsOut, IsReset
<1>4. ReaderInv'
  BY <1>2, <1>3 DEF ReaderInv, Resyncing
<1>5. ASSUME NEW d \in Clients PROVE PerClient(d)'
  <2>0. PerClient(d) /\ Oldest' = Oldest /\ Core
    BY <1>1 DEF Good, Oldest
  <2>1. ClientInv(d)'
    BY <1>1, <2>0 DEF PerClient, ClientInv
  <2>2. ResyncInv(d)'
    BY <1>3 DEF ResyncInv
  <2>3. CASE d \in subs
    <3>1. att'[d].pc = "cut"
      BY <1>1, <2>0, <2>3, ClientTypes DEF Attachment
    <3>2. AttachInv(d)' /\ WebInv(d)'
      BY <1>1, <3>1 DEF AttachInv, WebInv
    <3>3. QED
      BY <2>1, <2>2, <3>2 DEF PerClient
  <2>4. CASE d \notin subs
    <3>1. att'[d] = att[d]
      BY <1>1, <2>4
    <3>2. AttachInv(d)'
      BY <1>1, <2>0, <2>4, <3>1 DEF PerClient, AttachInv
    <3>3. WebInv(d)'
      BY <1>1, <2>0, <2>4, <3>1 DEF PerClient, WebInv
    <3>4. QED
      BY <2>1, <2>2, <3>2, <3>3 DEF PerClient
  <2>5. QED
    BY <2>3, <2>4
<1>6. QED
  BY <1>4, <1>5

-----------------------------------------------------------------------------
(* The steps of Subscribe *)

\* What ATTACH takes from the ring for a client at cursor cur.
LEMMA TakenFacts ==
  ASSUME Core, NEW cur \in Seqs
  PROVE  LET u == Since(ring, cur)
             s == CapReplayTail(u)
         IN  /\ s \in Seq(Seqs)
             /\ s = << >> => ~CappedTail(u) /\ last <= cur
             /\ s # << >> => /\ Run(s, s[Len(s)]) /\ s[Len(s)] <= last /\ s[1] > cur
                             /\ CappedTail(u) \/ s[1] <= cur + 1 \/ s[1] <= Oldest
<1> DEFINE u == Since(ring, cur)
           s == CapReplayTail(u)
<1>1. /\ cur \in Nat /\ cur \in Int /\ last \in Nat /\ last \in Int /\ Oldest \in Nat
      /\ ring \in Seq(Seqs) /\ Run(ring, last) /\ (ring # << >> => ring[1] = Oldest)
      /\ (ring = << >> <=> last = 0) /\ ReplayCap \in Nat \ {0}
  BY RingFacts, Numbers
<1>2. /\ u \in Seq(Seqs) /\ Run(u, last) /\ (u = << >> => ring = << >> \/ last <= cur)
      /\ u # << >> => /\ u[1] > cur /\ ring # << >>
                      /\ u[1] = cur + 1 \/ u[1] = ring[1]
  BY <1>1, SinceFacts
<1> HIDE DEF u
<1>3. /\ s \in Seq(Seqs) /\ Len(s) = (IF Len(u) > ReplayCap THEN ReplayCap ELSE Len(u)) /\ Run(s, last)
      /\ \A i \in 1..Len(s) : s[i] = u[Len(u) - Len(s) + i]
  BY <1>1, <1>2, NewestFacts, NewestRun DEF CapReplayTail
<1> HIDE DEF s
<1>4. Len(u) \in Nat /\ Len(s) \in Nat
  BY <1>2, <1>3, LenProperties
<1>5. s = << >> => ~CappedTail(u) /\ last <= cur
  <2>1. ASSUME s = << >> PROVE ~CappedTail(u) /\ last <= cur
    <3>1. Len(s) = 0
      BY <2>1, <1>3, EmptySeq
    <3>2. Len(u) = 0
      BY <1>1, <1>3, <1>4, <3>1
    <3>3. u = << >>
      BY <1>2, <3>2, EmptySeq
    <3>4. QED
      BY <1>1, <1>2, <1>4, <3>2, <3>3 DEF CappedTail
  <2>2. QED
    BY <2>1
<1>6. ASSUME s # << >>
      PROVE  /\ Run(s, s[Len(s)]) /\ s[Len(s)] <= last /\ s[1] > cur
             /\ CappedTail(u) \/ s[1] <= cur + 1 \/ s[1] <= Oldest
  <2>1. Len(s) # 0
    BY <1>3, <1>6, EmptySeq
  <2>2. 1 \in 1..Len(s) /\ Len(s) \in 1..Len(s)
    BY <1>4, <2>1
  <2>3. \A i \in 1..Len(s) : s[i] = last - Len(s) + i
    BY <1>3, RunElements
  <2>4. s[Len(s)] = last
    BY <1>1, <1>4, <2>2, <2>3
  <2>5. u # << >> /\ Len(s) <= Len(u)
    <3>1. Len(u) # 0 /\ Len(s) <= Len(u)
      BY <1>1, <1>3, <1>4, <2>1
    <3>2. QED
      BY <1>2, <3>1, EmptySeq
  <2>6. 1 \in 1..Len(u) /\ \A i \in 1..Len(u) : u[i] = last - Len(u) + i
    BY <1>2, <1>4, <2>2, <2>5, RunElements
  <2>7. s[1] = last - Len(s) + 1 /\ u[1] = last - Len(u) + 1
    BY <2>2, <2>3, <2>6
  <2>8. s[1] > cur
    BY <1>1, <1>2, <1>4, <2>5, <2>7
  <2>9. CappedTail(u) \/ s[1] <= cur + 1 \/ s[1] <= Oldest
    <3>1. ~CappedTail(u) => Len(s) = Len(u)
      BY <1>3 DEF CappedTail
    <3>2. Len(s) = Len(u) => s[1] = u[1]
      BY <2>7
    <3>3. u[1] <= cur + 1 \/ u[1] <= Oldest
      BY <1>1, <1>2, <2>5
    <3>4. QED
      BY <3>1, <3>2, <3>3
  <2>10. s[Len(s)] <= last
    BY <1>1, <2>4
  <2>11. QED
    BY <1>3, <2>4, <2>8, <2>9, <2>10
<1>7. QED
  BY <1>3, <1>5, <1>6 DEF s, u

\* ATTACH: the part of the ring above the cursor, capped.
LEMMA AttachStep ==
  ASSUME Good, NEW c \in Clients, Attach(c)
  PROVE  ReaderInv' /\ \A d \in Clients : PerClient(d)'
<1>core. Core /\ ReaderInv /\ PerClient(c) /\ cursor[c] \in Seqs /\ cursor[c] \in Nat /\ last \in Nat
  BY ClientTypes, RingFacts DEF Good
<1> DEFINE u == Since(ring, cursor[c])
           s == CapReplayTail(u)
           a == [pc |-> "snapshot", chunks |-> s, capped |-> CappedTail(u), lastSeq |-> cursor[c]]
<1>1. /\ att[c].pc = "off" /\ att' = [att EXCEPT ![c] = a]
      /\ UNCHANGED <<ring, last, subs, out, th, screen, cursor, dedup, drops>>
  BY DEF Attach, client, bounds
<1>2. ReaderInv' /\ \A d \in Clients : SameDebt(d)
  BY <1>core, <1>1, SameReader
<1>3. /\ s \in Seq(Seqs)
      /\ s = << >> => ~CappedTail(u) /\ last <= cursor[c]
      /\ s # << >> => /\ Run(s, s[Len(s)]) /\ s[Len(s)] <= last /\ s[1] > cursor[c]
                      /\ CappedTail(u) \/ s[1] <= cursor[c] + 1 \/ s[1] <= Oldest
  BY <1>core, TakenFacts, Zenon
<1>4. a.pc = "snapshot" /\ a.chunks = s /\ a.capped = CappedTail(u) /\ a.lastSeq = cursor[c]
  OBVIOUS
<1> HIDE DEF a
<1>5. att'[c] = a /\ \A d \in Clients : d # c => att'[d] = att[d]
  BY <1>core, <1>1 DEF Core, TypeOK
<1>6. ASSUME NEW d \in Clients, d # c PROVE PerClient(d)'
  BY <1>1, <1>2, <1>5, <1>6, OtherClient DEF Same, Good
<1> HIDE DEF s, u
<1>7. PerClient(c)'
  <2>0. Oldest' = Oldest
    BY <1>1 DEF Oldest
  <2>1. ClientInv(c)'
    BY <1>core, <1>1, <2>0 DEF PerClient, ClientInv
  <2>2. c \notin subs /\ out[c] = << >>
    BY <1>core, <1>1 DEF PerClient, AttachInv
  <2>3. AttachInv(c)'
    BY <1>1, <1>3, <1>4, <1>5, <2>0, <2>2 DEF AttachInv
  <2>4. ResyncInv(c)'
    <3>1. Reader' = Reader
      BY <1>1 DEF Reader
    <3>2. ~OwedResync(c)
      BY <1>core, <2>2 DEF ReaderInv, OwedResync
    <3>3. QED
      BY <3>1, <3>2 DEF ResyncInv, OwedResync, Resyncing
  <2>5. WebInv(c)'
    <3>1. ASSUME drops = 0, ~dedup[c]
          PROVE  /\ s = << >> => cursor[c] = 0 \/ screen[c] # << >>
                 /\ screen[c] = << >> => cursor[c] = 0 \/ cursor[c] < last
      <4>1. screen[c] = << >> => cursor[c] = 0 \/ cursor[c] < last
        BY <1>core, <1>1, <3>1 DEF PerClient, WebInv
      <4>2. QED
        BY <1>core, <1>3, <4>1
    <3>2. \A i \in DOMAIN << >> : FALSE
      OBVIOUS
    <3>3. QED
      BY <1>1, <1>4, <1>5, <2>2, <3>1, <3>2 DEF WebInv
  <2>6. QED
    BY <2>1, <2>3, <2>4, <2>5 DEF PerClient
<1>8. QED
  BY <1>2, <1>6, <1>7

\* Queue q is p with the frames fs behind it.
Joined(q, p, fs) == q = p \o fs

\* A client that is no subscriber yet, with a longer queue: it catches up, or was
\* dropped in the middle of the replay.
LEMMA Replayed ==
  ASSUME Good, NEW c \in Clients, c \notin subs, NEW fs \in Seq(Frame), NEW n \in Seqs,
         Replay(c, fs, "catchup", n),
         UNCHANGED <<ring, last, subs, th, screen, cursor, dedup, drops>>,
         NEW q \in Seq(Frame), Joined(q, out[c], fs),
         QueueOK(q, cursor[c], screen[c] = << >>, Oldest, last),
         cursor[c] <= n, n <= last, \A i \in DOMAIN q : IsOut(q[i]) => q[i].seq <= n,
         Reaches(q, cursor[c], n),
         drops = 0 /\ ~dedup[c] =>
            /\ Shows(q, cursor[c], screen[c], n)
            /\ screen[c] = << >> => cursor[c] = 0 \/ cursor[c] < last
            /\ \A i \in DOMAIN q : IsReset(q[i]) =>
                  cursor[c] < last /\ \A j \in DOMAIN q : j < i => ~IsOut(q[j])
  PROVE  ReaderInv' /\ \A d \in Clients : PerClient(d)'
<1>core. Core /\ ReaderInv /\ PerClient(c) /\ out[c] \in Seq(Frame)
  BY ClientTypes DEF Good
<1>1. ReaderInv' /\ \A d \in Clients : SameDebt(d)
  BY <1>core, SameReader
<1>2. /\ out' = [out EXCEPT ![c] = EnqueueAll(out[c], fs)]
      /\ att' = [att EXCEPT ![c] = [Detached EXCEPT !.pc = IF AllFit(out[c], fs) THEN "catchup" ELSE "dropped",
                                                    !.lastSeq = n]]
  BY DEF Replay
<1> DEFINE t == EnqueueAll(out[c], fs)
<1>3. (AllFit(out[c], fs) => t = q) /\ t \in Seq(Frame) /\ Len(t) <= Len(q) /\ \A i \in 1..Len(t) : t[i] = q[i]
  <2>1. q = out[c] \o fs
    BY DEF Joined
  <2>2. /\ AllFit(out[c], fs) => t = out[c] \o fs
        /\ t \in Seq(Frame) /\ Len(t) <= Len(out[c] \o fs) /\ \A i \in 1..Len(t) : t[i] = (out[c] \o fs)[i]
    BY <1>core, EnqueueFacts, Zenon
  <2>3. QED
    BY <2>1, <2>2, Zenon
<1>4. out'[c] = t /\ \A d \in Clients : d # c => out'[d] = out[d] /\ att'[d] = att[d]
  BY <1>core, <1>2 DEF Core, TypeOK
<1>5. att'[c].pc = (IF AllFit(out[c], fs) THEN "catchup" ELSE "dropped") /\ att'[c].lastSeq = n
  <2>1. att'[c] = [Detached EXCEPT !.pc = IF AllFit(out[c], fs) THEN "catchup" ELSE "dropped", !.lastSeq = n]
    BY <1>core, <1>2 DEF Core, TypeOK
  <2>2. QED
    BY <2>1 DEF Detached
<1> HIDE DEF t
<1>6. ASSUME NEW d \in Clients, d # c PROVE PerClient(d)'
  BY <1>1, <1>4, <1>6, OtherClient DEF Same, Good
<1>7. PerClient(c)'
  <2>0. Oldest' = Oldest
    BY DEF Oldest
  <2>00. DOMAIN t = 1..Len(t) /\ DOMAIN q = 1..Len(q) /\ Len(t) \in Nat /\ Len(q) \in Nat
    BY <1>3, LenProperties
  <2>000. \A i \in DOMAIN t : i \in DOMAIN q /\ t[i] = q[i]
    BY <1>3, <2>00
  <2>1. ClientInv(c)'
    <3>1. QueueOK(t, cursor[c], screen[c] = << >>, Oldest, last)
      BY <1>3, PrefixOK
    <3>2. QED
      BY <1>core, <1>4, <2>0, <3>1 DEF PerClient, ClientInv
  <2>2. AttachInv(c)'
    <3>1. CASE AllFit(out[c], fs)
      BY <1>3, <1>4, <1>5, <3>1 DEF AttachInv
    <3>2. CASE ~AllFit(out[c], fs)
      BY <1>5, <3>2 DEF AttachInv
    <3>3. QED
      BY <3>1, <3>2
  <2>3. ResyncInv(c)'
    <3>1. Reader' = Reader
      BY DEF Reader
    <3>2. ~OwedResync(c)
      BY <1>core DEF ReaderInv, OwedResync
    <3>3. QED
      BY <3>1, <3>2 DEF ResyncInv, OwedResync, Resyncing
  <2>4. WebInv(c)'
    <3>1. ASSUME drops = 0, ~dedup[c]
          PROVE  \A i \in DOMAIN t : IsReset(t[i]) =>
                    cursor[c] < last /\ \A j \in DOMAIN t : j < i => ~IsOut(t[j])
      BY <2>000, <3>1
    <3>2. ASSUME drops = 0, ~dedup[c], AllFit(out[c], fs) PROVE Shows(t, cursor[c], screen[c], n)
      BY <1>3, <3>2
    <3>3. QED
      BY <1>4, <1>5, <3>1, <3>2 DEF WebInv
  <2>5. QED
    BY <2>1, <2>2, <2>3, <2>4 DEF PerClient
<1>8. QED
  BY <1>1, <1>6, <1>7

\* A queue without output.
LEMMA ControlOK ==
  ASSUME NEW q \in Seq(Frame), \A i \in DOMAIN q : ~IsOut(q[i]), NEW cur, NEW blank, NEW old, NEW hi
  PROVE  QueueOK(q, cur, blank, old, hi)
BY DEF QueueOK

\* A replayed queue reaches and shows the last chunk of the replay.
LEMMA EndsFacts ==
  ASSUME NEW r \in Seq(Frame), NEW q \in Seq(Frame), NEW e \in Nat, EndsWith(r, q, e), NEW cur, NEW scr
  PROVE  /\ Reaches(r, cur, e) /\ Shows(r, cur, scr, e)
         /\ \A i \in DOMAIN r : IsReset(r[i]) => i \in DOMAIN q /\ \A j \in DOMAIN r : j <= i => j \in DOMAIN q /\ r[j] = q[j]
<1>1. Len(r) \in Nat /\ Len(q) \in Nat /\ DOMAIN r = 1..Len(r) /\ DOMAIN q = 1..Len(q) /\ Len(q) < Len(r)
  BY LenProperties DEF EndsWith
<1>2. Len(r) \in DOMAIN r /\ IsOut(r[Len(r)]) /\ r[Len(r)].seq = e /\ e >= e
  BY <1>1 DEF EndsWith
<1>3. \A j \in DOMAIN r : ~(j > Len(r))
  BY <1>1
<1>4. Reaches(r, cur, e)
  BY <1>2 DEF Reaches
<1>5. Shows(r, cur, scr, e)
  BY <1>2, <1>3 DEF Shows
<1>6. ASSUME NEW i \in DOMAIN r, IsReset(r[i]) PROVE i \in DOMAIN q
  <2>1. ~IsOut(r[i])
    BY <1>6 DEF IsReset, IsOut
  <2>2. i \notin (Len(q) + 1)..Len(r)
    BY <2>1 DEF EndsWith
  <2>3. QED
    BY <1>1, <2>2
<1>7. ASSUME NEW i \in DOMAIN q, NEW j \in DOMAIN r, j <= i PROVE j \in DOMAIN q /\ r[j] = q[j]
  <2>1. j \in 1..Len(q)
    BY <1>1, <1>7
  <2>2. QED
    BY <1>1, <2>1 DEF EndsWith
<1>8. QED
  BY <1>4, <1>5, <1>6, <1>7

\* The frames before the first chunk of a replay.
LEMMA PreludeFacts ==
  ASSUME NEW torn \in BOOLEAN, NEW p, p = <<Control("progress")>> \o (IF torn THEN <<ResetMarker>> ELSE << >>)
  PROVE  /\ p \in Seq(Frame) /\ \A i \in DOMAIN p : ~IsOut(p[i])
         /\ torn => \E i \in DOMAIN p : IsReset(p[i])
         /\ ~torn => \A i \in DOMAIN p : ~IsReset(p[i])
<1>1. /\ Control("progress") \in Frame /\ ~IsOut(Control("progress")) /\ ~IsReset(Control("progress"))
      /\ ResetMarker \in Frame /\ ~IsOut(ResetMarker) /\ IsReset(ResetMarker)
  BY RecordsTyped DEF ResetMarker, Control, IsReset
<1>2. CASE torn
  <2>1. <<Control("progress")>> \in Seq(Frame) /\ <<ResetMarker>> \in Seq(Frame)
    BY <1>1
  <2> DEFINE a == <<Control("progress")>>
             b == <<ResetMarker>>
  <2>a. /\ Len(a) = 1 /\ Len(b) = 1 /\ a[1] = Control("progress") /\ b[1] = ResetMarker
    OBVIOUS
  <2>b. p = a \o b
    BY <1>2
  <2>c. a \in Seq(Frame) /\ b \in Seq(Frame)
    BY <2>1
  <2> HIDE DEF a, b
  <2>d. a \o b \in Seq(Frame) /\ Len(a \o b) = 2 /\ (a \o b)[1] = a[1] /\ (a \o b)[2] = b[1]
    BY <2>a, <2>c, ConcatProperties
  <2>2. p \in Seq(Frame) /\ DOMAIN p = 1..2 /\ p[1] = Control("progress") /\ p[2] = ResetMarker
    BY <2>a, <2>b, <2>d, LenProperties
  <2>3. \A i \in 1..2 : i = 1 \/ i = 2
    OBVIOUS
  <2>4. QED
    BY <1>1, <1>2, <2>2, <2>3
<1>3. CASE ~torn
  <2>1. <<Control("progress")>> \in Seq(Frame)
    BY <1>1
  <2> DEFINE a == <<Control("progress")>>
  <2>a. Len(a) = 1 /\ a[1] = Control("progress")
    OBVIOUS
  <2>b. p = a \o << >>
    BY <1>3
  <2>c. a \in Seq(Frame)
    BY <2>1
  <2> HIDE DEF a
  <2>d. p = a
    BY <2>b, <2>c, ConcatEmptySeq
  <2>2. p \in Seq(Frame) /\ DOMAIN p = 1..1 /\ p[1] = Control("progress")
    BY <2>a, <2>c, <2>d, LenProperties
  <2>3. \A i \in 1..1 : i = 1
    OBVIOUS
  <2>4. QED
    BY <1>1, <1>3, <2>2, <2>3
<1>4. QED
  BY <1>2, <1>3

\* REPLAY_PROGRESS, the marker of a torn replay, and the chunks.
LEMMA SnapshotReplayStep ==
  ASSUME Good, NEW c \in Clients, ReplaySnapshot(c)
  PROVE  ReaderInv' /\ \A d \in Clients : PerClient(d)'
<1>core. /\ Core /\ PerClient(c) /\ cursor[c] \in Seqs /\ cursor[c] \in Nat /\ last \in Nat /\ Oldest \in Nat
         /\ att[c].chunks \in Seq(Seqs) /\ att[c].capped \in BOOLEAN
  BY ClientTypes, RingFacts DEF Good
<1> DEFINE s == att[c].chunks
           torn == att[c].capped \/ ReplayIsTruncated(OldestSeq(ring), att[c].lastSeq, Len(s))
           p == <<Control("progress")>> \o (IF torn THEN <<ResetMarker>> ELSE << >>)
           fs == p \o ReplayFrames(s)
           n == IF s = << >> THEN att[c].lastSeq ELSE LatestSeq(s)
<1>1. /\ att[c].pc = "snapshot" /\ Replay(c, fs, "catchup", n)
      /\ UNCHANGED <<ring, last, subs, th, screen, cursor, dedup, drops>>
  BY DEF ReplaySnapshot, client, bounds
<1>2. torn \in BOOLEAN
  BY <1>core DEF ReplayIsTruncated
<1>3. s = << >> => ~torn \/ att[c].capped
  <2>1. s = << >> => Len(s) = 0
    BY <1>core, EmptySeq
  <2>2. QED
    BY <2>1 DEF ReplayIsTruncated
<1>4. att[c].capped => torn
  OBVIOUS
<1> HIDE DEF torn
<1>5. /\ p \in Seq(Frame) /\ \A i \in DOMAIN p : ~IsOut(p[i])
      /\ torn => \E i \in DOMAIN p : IsReset(p[i])
      /\ ~torn => \A i \in DOMAIN p : ~IsReset(p[i])
  BY <1>2, PreludeFacts, Zenon
<1> HIDE DEF p
<1>6. ReplayFrames(s) \in Seq(Frame) /\ fs \in Seq(Frame)
  <2>1. ReplayFrames(s) \in Seq(Frame)
    BY <1>core, ReplayFramesTyped, Zenon
  <2>2. QED
    BY <1>5, <2>1, ConcatProperties
<1>7. /\ c \notin subs /\ out[c] = << >> /\ att[c].lastSeq = cursor[c] /\ (s = << >> => ~att[c].capped)
      /\ s # << >> => /\ Run(s, s[Len(s)]) /\ s[Len(s)] <= last /\ s[1] > cursor[c]
                      /\ att[c].capped \/ s[1] <= cursor[c] + 1 \/ s[1] <= Oldest
  BY <1>core, <1>1 DEF PerClient, AttachInv
<1> HIDE DEF s
<1>8. fs \in Seq(Frame) /\ Joined(fs, out[c], fs)
  <2>1. << >> \o fs = fs
    BY <1>6, ConcatEmptySeq
  <2>2. QED
    BY <1>6, <1>7, <2>1 DEF Joined
<1>9. ASSUME drops = 0, ~dedup[c]
      PROVE  /\ screen[c] = << >> => cursor[c] = 0 \/ cursor[c] < last
             /\ s = << >> => cursor[c] = 0 \/ screen[c] # << >>
  BY <1>core, <1>1, <1>9 DEF PerClient, WebInv, s
<1>10. CASE s = << >>
  <2>1. fs = p
    <3>1. ReplayFrames(s) = << >>
      <4>1. Len(s) = 0 /\ Len(ReplayFrames(s)) = Batches(Len(s), CoalesceTarget)
        BY <1>core, <1>10, EmptySeq, ReplayFramesTyped, Zenon DEF s
      <4>2. Len(ReplayFrames(s)) = 0
        BY <4>1, BatchFacts, Numbers
      <4>3. QED
        BY <1>6, <4>2, EmptySeq
    <3>2. p \o << >> = p
      BY <1>5, ConcatEmptySeq
    <3>3. QED
      BY <3>1, <3>2
  <2>2. n = cursor[c] /\ ~torn
    BY <1>3, <1>7, <1>10
  <2> HIDE DEF fs, n
  <2>3. QueueOK(fs, cursor[c], screen[c] = << >>, Oldest, last)
    BY <1>5, <2>1, ControlOK
  <2>4. cursor[c] <= n /\ n <= last /\ n \in Seqs
    BY <1>core, <2>2 DEF PerClient, ClientInv
  <2>5. Reaches(fs, cursor[c], n)
    BY <1>core, <2>2 DEF Reaches
  <2>6. drops = 0 /\ ~dedup[c] => Shows(fs, cursor[c], screen[c], n)
    BY <1>core, <1>5, <1>9, <1>10, <2>1, <2>2 DEF Shows
  <2>7. \A i \in DOMAIN fs : ~IsOut(fs[i]) /\ ~IsReset(fs[i])
    BY <1>5, <2>1, <2>2
  <2>8. QED
    BY <1>1, <1>7, <1>8, <1>9, <2>3, <2>4, <2>5, <2>6, <2>7, Replayed
<1>11. CASE s # << >>
  <2> DEFINE e == s[Len(s)]
  <2>1. n = e
    BY <1>11 DEF LatestSeq
  <2>2. /\ s \in Seq(Seqs) /\ e \in Seqs /\ e \in Nat /\ s[1] \in Nat /\ Run(s, e) /\ e <= last
        /\ s[1] > cursor[c] /\ s[1] <= e
    <3>1. s \in Seq(Seqs)
      BY <1>core DEF s
    <3>2. Len(s) \in Nat \ {0} /\ 1 \in 1..Len(s) /\ Len(s) \in 1..Len(s)
      BY <1>11, <3>1, EmptySeq
    <3>3. e \in Seqs /\ e \in Nat /\ s[1] \in Nat
      BY <3>1, <3>2, ElementOfSeq, Numbers
    <3>4. s[1] = e - Len(s) + 1
      BY <1>7, <1>11, <3>1, <3>2, RunElements
    <3>5. QED
      BY <1>7, <1>11, <3>1, <3>2, <3>3, <3>4
  <2> HIDE DEF e
  <2>3. GoesOn(p, cursor[c], screen[c] = << >>, Oldest, cursor[c], s[1])
    BY <1>core, <1>4, <1>5, <1>7, <1>11, <2>2 DEF GoesOn
  <2>4. QueueOK(p, cursor[c], screen[c] = << >>, Oldest, last)
    BY <1>5, ControlOK
  <2>5. QueueOK(fs, cursor[c], screen[c] = << >>, Oldest, last) /\ EndsWith(fs, p, e)
    BY <1>core, <1>5, <1>11, <2>2, <2>3, <2>4, ReplayOK, Zenon
  <2> HIDE DEF fs, n
  <2>6. Reaches(fs, cursor[c], e) /\ Shows(fs, cursor[c], screen[c], e)
    BY <1>5, <1>6, <2>2, <2>5, EndsFacts
  <2>7. \A i \in DOMAIN fs : IsOut(fs[i]) => fs[i].seq <= e
    BY <2>5 DEF EndsWith
  <2>8. \A i \in DOMAIN fs : IsReset(fs[i]) =>
           cursor[c] < last /\ \A j \in DOMAIN fs : j < i => ~IsOut(fs[j])
    <3>1. cursor[c] < last
      BY <1>core, <2>2
    <3>2. ASSUME NEW i \in DOMAIN fs, IsReset(fs[i]), NEW j \in DOMAIN fs, j < i PROVE ~IsOut(fs[j])
      <4>1. i \in Nat /\ j \in Nat
        BY <1>6, LenProperties
      <4>a. j <= i
        BY <3>2, <4>1
      <4>b. \A k \in DOMAIN fs : IsReset(fs[k]) =>
               k \in DOMAIN p /\ \A l \in DOMAIN fs : l <= k => l \in DOMAIN p /\ fs[l] = p[l]
        BY <1>5, <1>6, <2>2, <2>5, EndsFacts
      <4>2. j \in DOMAIN p /\ fs[j] = p[j]
        BY <3>2, <4>a, <4>b
      <4>3. QED
        BY <1>5, <4>2
    <3>3. QED
      BY <3>1, <3>2
  <2>9. cursor[c] <= n /\ n <= last /\ n \in Seqs
    BY <1>core, <2>1, <2>2
  <2>10. QED
    BY <1>1, <1>7, <1>8, <1>9, <2>1, <2>5, <2>6, <2>7, <2>8, <2>9, Replayed
<1>12. QED
  BY <1>10, <1>11

\* What the ring gained during the replay.
LEMMA CatchUpStep ==
  ASSUME Good, NEW c \in Clients, CatchUp(c)
  PROVE  ReaderInv' /\ \A d \in Clients : PerClient(d)'
<1>core. /\ Core /\ PerClient(c) /\ cursor[c] \in Nat /\ last \in Nat /\ last \in Seqs /\ Oldest \in Nat
         /\ out[c] \in Seq(Frame) /\ att[c].lastSeq \in Nat
  BY ClientTypes, RingFacts DEF Good
<1> DEFINE b == att[c].lastSeq
           s == Since(ring, b)
           fs == ReplayFrames(s)
           q == out[c] \o fs
<1>1. /\ att[c].pc = "catchup" /\ s # << >> /\ Replay(c, fs, "catchup", LatestSeq(s))
      /\ UNCHANGED <<ring, last, subs, th, screen, cursor, dedup, drops>>
  BY DEF CatchUp, client, bounds
<1>2. /\ s \in Seq(Seqs) /\ Run(s, last) /\ LatestSeq(s) = last
      /\ s[1] > b /\ (s[1] = b + 1 \/ s[1] = Oldest) /\ s[1] \in Nat
  <2>1. ring \in Seq(Seqs) /\ Run(ring, last) /\ last \in Int /\ b \in Int /\ (ring # << >> => ring[1] = Oldest)
    BY <1>core, RingFacts
  <2>2. /\ s \in Seq(Seqs) /\ Run(s, last) /\ s[1] > b /\ (s[1] = b + 1 \/ s[1] = Oldest) /\ s[Len(s)] = last
    BY <1>1, <2>1, SinceFacts
  <2>3. LatestSeq(s) = last
    BY <1>1, <2>2 DEF LatestSeq
  <2>4. s[1] \in Nat
    BY <1>core, <2>2
  <2>5. QED
    BY <2>2, <2>3, <2>4
<1> HIDE DEF s
<1>3. /\ c \notin subs /\ cursor[c] <= b /\ b <= last
      /\ \A i \in DOMAIN out[c] : IsOut(out[c][i]) => out[c][i].seq <= b
      /\ Reaches(out[c], cursor[c], b)
  BY <1>core, <1>1 DEF PerClient, AttachInv
<1>4. GoesOn(out[c], cursor[c], screen[c] = << >>, Oldest, b, s[1])
  <2>1. \/ s[1] <= Oldest \/ s[1] <= cursor[c] + 1
        \/ \E k \in DOMAIN out[c] : IsOut(out[c][k]) /\ s[1] <= out[c][k].seq + 1
    <3>1. CASE s[1] = Oldest
      BY <1>core, <3>1
    <3>2. CASE s[1] = b + 1
      <4>1. \A k \in DOMAIN out[c] : out[c][k].seq \in Nat
        BY <1>core, QueueNumbers
      <4>2. QED
        BY <1>core, <1>3, <3>2, <4>1 DEF Reaches
    <3>3. QED
      BY <1>2, <3>1, <3>2
  <2>2. QED
    BY <1>core, <1>2, <1>3, <2>1 DEF GoesOn
<1>5. QueueOK(out[c], cursor[c], screen[c] = << >>, Oldest, last)
  BY <1>core DEF PerClient, ClientInv
<1>6. q \in Seq(Frame) /\ QueueOK(q, cursor[c], screen[c] = << >>, Oldest, last) /\ EndsWith(q, out[c], last)
  <2>1. last <= last
    BY <1>core
  <2>2. QED
    BY <1>core, <1>1, <1>2, <1>4, <1>5, <2>1, ReplayOK, Zenon
<1>7. fs \in Seq(Frame) /\ Joined(q, out[c], fs)
  BY <1>2, ReplayFramesTyped, Zenon DEF Joined
<1> HIDE DEF q, fs
<1>8. /\ Reaches(q, cursor[c], last) /\ Shows(q, cursor[c], screen[c], last)
      /\ \A i \in DOMAIN q : IsReset(q[i]) => /\ i \in DOMAIN out[c]
                                              /\ \A j \in DOMAIN q : j <= i => j \in DOMAIN out[c] /\ q[j] = out[c][j]
  BY <1>core, <1>6, EndsFacts
<1>9. \A i \in DOMAIN q : IsOut(q[i]) => q[i].seq <= last
  BY <1>6 DEF EndsWith
<1>10. ASSUME drops = 0, ~dedup[c]
       PROVE  /\ screen[c] = << >> => cursor[c] = 0 \/ cursor[c] < last
              /\ \A i \in DOMAIN q : IsReset(q[i]) =>
                    cursor[c] < last /\ \A j \in DOMAIN q : j < i => ~IsOut(q[j])
  <2>1. /\ screen[c] = << >> => cursor[c] = 0 \/ cursor[c] < last
        /\ \A i \in DOMAIN out[c] : IsReset(out[c][i]) =>
              cursor[c] < last /\ \A j \in DOMAIN out[c] : j < i => ~IsOut(out[c][j])
    BY <1>core, <1>1, <1>10 DEF PerClient, WebInv
  <2>2. ASSUME NEW i \in DOMAIN q, IsReset(q[i])
        PROVE  cursor[c] < last /\ \A j \in DOMAIN q : j < i => ~IsOut(q[j])
    <3>1. \A j \in DOMAIN q : j \in Int
      BY <1>6, LenProperties
    <3>2. i <= i /\ \A j \in DOMAIN q : j < i => j <= i
      BY <3>1
    <3>3. i \in DOMAIN out[c] /\ q[i] = out[c][i] /\ \A j \in DOMAIN q : j < i => j \in DOMAIN out[c] /\ q[j] = out[c][j]
      BY <1>8, <2>2, <3>2
    <3>4. QED
      BY <2>1, <2>2, <3>3
  <2>3. QED
    BY <2>1, <2>2
<1>11. cursor[c] <= last /\ last <= last
  BY <1>core, <1>3
<1>12. QED
  BY <1>core, <1>1, <1>2, <1>3, <1>6, <1>7, <1>8, <1>9, <1>10, <1>11, Replayed

\* A control frame that is no marker, sent if there is room for it.
LEMMA ControlSent ==
  ASSUME NEW q \in Seq(Frame), NEW f \in Frame, ~IsOut(f), ~IsReset(f),
         NEW t \in {q, Append(q, f)}, NEW cur \in Nat, NEW blank, NEW scr, NEW old \in Nat, NEW hi \in Nat
  PROVE  /\ t \in Seq(Frame) /\ Len(t) \in Nat /\ Len(q) \in Nat /\ Len(t) <= Len(q) + 1
         /\ QueueOK(q, cur, blank, old, hi) => QueueOK(t, cur, blank, old, hi)
         /\ \A n \in Int : Reaches(q, cur, n) => Reaches(t, cur, n)
         /\ \A n \in Int : Shows(q, cur, scr, n) => Shows(t, cur, scr, n)
         /\ (\A i \in DOMAIN q : ~IsOut(q[i])) => (\A i \in DOMAIN t : ~IsOut(t[i]))
         /\ (\E i \in DOMAIN q : IsReset(q[i])) => (\E i \in DOMAIN t : IsReset(t[i]))
<1>1. CASE t = q
  <2>1. Len(q) \in Nat
    BY LenProperties
  <2>2. QED
    BY <1>1, <2>1
<1>2. CASE t = Append(q, f)
  <2>1. /\ t \in Seq(Frame) /\ Len(t) \in Nat /\ Len(q) \in Nat /\ Len(t) = Len(q) + 1
        /\ DOMAIN q = 1..Len(q) /\ DOMAIN t = 1..Len(t)
        /\ \A i \in 1..Len(q) : t[i] = q[i]
        /\ t[Len(q) + 1] = f
    BY <1>2, AppendProperties, LenProperties
  <2>2. \A i \in DOMAIN q : i \in DOMAIN t /\ t[i] = q[i]
    BY <2>1
  <2>3. \A i \in DOMAIN t : (i \in DOMAIN q /\ t[i] = q[i]) \/ t[i] = f
    BY <2>1
  <2>4. QueueOK(q, cur, blank, old, hi) => QueueOK(t, cur, blank, old, hi)
    BY <1>2, AppendOK
  <2>5. ASSUME NEW n \in Int PROVE Reaches(q, cur, n) => Reaches(t, cur, n)
    BY <1>2, ReachesFacts
  <2>5s. ASSUME NEW n \in Int PROVE Shows(q, cur, scr, n) => Shows(t, cur, scr, n)
    BY <1>2, ShowsFacts
  <2>6. (\A i \in DOMAIN q : ~IsOut(q[i])) => (\A i \in DOMAIN t : ~IsOut(t[i]))
    BY <2>3
  <2>7. (\E i \in DOMAIN q : IsReset(q[i])) => (\E i \in DOMAIN t : IsReset(t[i]))
    BY <2>2
  <2>8. Len(t) <= Len(q) + 1
    BY <2>1
  <2>9. \A n \in Int : Reaches(q, cur, n) => Reaches(t, cur, n)
    BY <2>5, Zenon
  <2>10. \A n \in Int : Shows(q, cur, scr, n) => Shows(t, cur, scr, n)
    BY <2>5s, Zenon
  <2>11. QED
    BY <2>1, <2>4, <2>6, <2>7, <2>8, <2>9, <2>10, Zenon
<1>3. QED
  BY <1>1, <1>2

\* Nothing left to catch up on: the client joins, or is dropped.
LEMMA JoinStep ==
  ASSUME Good, NEW c \in Clients, Join(c)
  PROVE  ReaderInv' /\ \A d \in Clients : PerClient(d)'
<1>core. Core /\ ReaderInv /\ PerClient(c)
  BY DEF Good
<1> DEFINE joins == ~closed /\ Fits(out[c])
           f == Control("progress")
<1>ty. /\ cursor[c] \in Nat /\ last \in Nat /\ last \in Int /\ Oldest \in Nat /\ out[c] \in Seq(Frame)
       /\ att[c].lastSeq \in Nat /\ f \in Frame /\ ~IsOut(f) /\ ~IsReset(f)
  BY <1>core, ClientTypes, RingFacts, RecordsTyped DEF Control, IsReset
<1>1. /\ att[c].pc = "catchup" /\ (joins => Since(ring, att[c].lastSeq) = << >>)
      /\ att' = [att EXCEPT ![c].pc = IF joins THEN "joined" ELSE "dropped"]
      /\ out' = [out EXCEPT ![c] = IF joins THEN Append(@, f) ELSE @]
      /\ subs' = (IF joins THEN subs \cup {c} ELSE subs)
      /\ UNCHANGED <<ring, last, th, screen, cursor, dedup, drops>>
  BY DEF Join, client, bounds
<1> HIDE DEF f, joins
<1>2. /\ out'[c] = (IF joins THEN Append(out[c], f) ELSE out[c])
      /\ att'[c].pc = (IF joins THEN "joined" ELSE "dropped")
      /\ \A d \in Clients : d # c => out'[d] = out[d] /\ att'[d] = att[d]
  <2>1. /\ out'[c] = (IF joins THEN Append(out[c], f) ELSE out[c])
        /\ \A d \in Clients : d # c => out'[d] = out[d] /\ att'[d] = att[d]
    BY <1>core, <1>1 DEF Core, TypeOK
  <2>2. att'[c] = [att[c] EXCEPT !.pc = IF joins THEN "joined" ELSE "dropped"]
    BY <1>core, <1>1 DEF Core, TypeOK
  <2>3. att[c] \in Attachment
    BY <1>core, ClientTypes
  <2>4. QED
    BY <2>1, <2>2, <2>3 DEF Attachment
<1>3. subs \subseteq subs' /\ \A d \in Clients : d # c => (d \in subs' <=> d \in subs)
  BY <1>1
<1>4. ReaderInv' /\ \A d \in Clients : SameDebt(d)
  BY <1>core, <1>1, <1>3, SameReader
<1>5. ASSUME NEW d \in Clients, d # c PROVE PerClient(d)'
  BY <1>1, <1>2, <1>3, <1>4, <1>5, OtherClient DEF Same, Good
<1>6. PerClient(c)'
  <2>0. Oldest' = Oldest
    BY <1>1 DEF Oldest
  <2>1. c \notin subs /\ Reaches(out[c], cursor[c], att[c].lastSeq) /\ att[c].lastSeq <= last
    BY <1>core, <1>1 DEF PerClient, AttachInv
  <2>2. /\ cursor[c] <= last /\ QueueOK(out[c], cursor[c], screen[c] = << >>, Oldest, last)
        /\ ScreenOK(screen[c], cursor[c], dedup[c], Oldest)
    BY <1>core DEF PerClient, ClientInv
  <2>3. ResyncInv(c)'
    <3>1. Reader' = Reader
      BY <1>1 DEF Reader
    <3>2. ~OwedResync(c)
      BY <1>core, <2>1 DEF ReaderInv, OwedResync
    <3>3. QED
      BY <3>1, <3>2 DEF ResyncInv, OwedResync, Resyncing
  <2>4. CASE joins
    <3>1. last = att[c].lastSeq
      <4>1. ring \in Seq(Seqs) /\ Run(ring, last) /\ (ring = << >> <=> last = 0)
        BY <1>core, RingFacts
      <4>2. ring = << >> \/ last <= att[c].lastSeq
        BY <1>ty, <1>1, <2>4, <4>1, SinceFacts
      <4>3. QED
        BY <1>ty, <2>1, <4>1, <4>2
    <3>2. out'[c] = Append(out[c], f) /\ att'[c].pc = "joined" /\ c \in subs'
      BY <1>1, <1>2, <2>4
    <3>3. /\ QueueOK(Append(out[c], f), cursor[c], screen[c] = << >>, Oldest, last)
          /\ Reaches(Append(out[c], f), cursor[c], last)
          /\ Shows(out[c], cursor[c], screen[c], last) => Shows(Append(out[c], f), cursor[c], screen[c], last)
      BY <1>ty, <2>1, <2>2, <3>1, ControlSent
    <3>4. drops = 0 /\ ~dedup[c] => Shows(out[c], cursor[c], screen[c], last)
      BY <1>core, <1>1, <3>1 DEF PerClient, WebInv
    <3>5. ClientInv(c)'
      BY <1>1, <2>0, <2>2, <3>2, <3>3 DEF ClientInv
    <3>6. AttachInv(c)'
      BY <1>1, <3>2, <3>3 DEF AttachInv
    <3>7. WebInv(c)'
      BY <1>1, <3>2, <3>3, <3>4 DEF WebInv
    <3>8. QED
      BY <2>3, <3>5, <3>6, <3>7 DEF PerClient
  <2>5. CASE ~joins
    <3>1. out'[c] = out[c] /\ att'[c].pc = "dropped" /\ c \notin subs'
      BY <1>1, <1>2, <2>1, <2>5
    <3>2. ClientInv(c)'
      BY <1>1, <2>0, <2>2, <3>1 DEF ClientInv
    <3>3. AttachInv(c)'
      BY <3>1 DEF AttachInv
    <3>4. WebInv(c)'
      BY <1>core, <1>1, <3>1 DEF PerClient, WebInv
    <3>5. QED
      BY <2>3, <3>2, <3>3, <3>4 DEF PerClient
  <2>6. QED
    BY <2>4, <2>5
<1>7. QED
  BY <1>4, <1>5, <1>6

\* The newcomer's META snapshot.
LEMMA MetaStep ==
  ASSUME Good, NEW c \in Clients, SendSnapshotMeta(c)
  PROVE  ReaderInv' /\ \A d \in Clients : PerClient(d)'
<1>core. Core /\ ReaderInv /\ PerClient(c)
  BY DEF Good
<1> DEFINE f == Control("meta")
           t == TrySend(out[c], f)
<1>ty. /\ cursor[c] \in Nat /\ last \in Nat /\ last \in Int /\ last - 1 \in Int /\ Oldest \in Nat /\ out[c] \in Seq(Frame)
       /\ f \in Frame /\ ~IsOut(f) /\ ~IsReset(f)
  BY <1>core, ClientTypes, RingFacts, RecordsTyped DEF Control, IsReset
<1>1. /\ att[c].pc = "joined" /\ out' = [out EXCEPT ![c] = t]
      /\ att' = [att EXCEPT ![c].pc = "live"]
      /\ UNCHANGED <<ring, last, th, subs, screen, cursor, dedup, drops>>
  BY DEF SendSnapshotMeta, client, bounds
<1>t. t \in {out[c], Append(out[c], f)}
  BY DEF TrySend
<1> HIDE DEF f, t
<1>2. /\ out'[c] = t /\ att'[c].pc = "live"
      /\ \A d \in Clients : d # c => out'[d] = out[d] /\ att'[d] = att[d]
  <2>1. out'[c] = t /\ \A d \in Clients : d # c => out'[d] = out[d] /\ att'[d] = att[d]
    BY <1>core, <1>1 DEF Core, TypeOK
  <2>2. att'[c] = [att[c] EXCEPT !.pc = "live"]
    BY <1>core, <1>1 DEF Core, TypeOK
  <2>3. att[c] \in Attachment
    BY <1>core, ClientTypes
  <2>4. QED
    BY <2>1, <2>2, <2>3 DEF Attachment
<1>4. ReaderInv' /\ \A d \in Clients : SameDebt(d)
  BY <1>core, <1>1, SameReader
<1>5. ASSUME NEW d \in Clients, d # c PROVE PerClient(d)'
  BY <1>1, <1>2, <1>4, <1>5, OtherClient DEF Same, Good
<1>6. PerClient(c)'
  <2>0. Oldest' = Oldest /\ Reader' = Reader /\ (OwedFrame(c)' <=> OwedFrame(c)) /\ (OwedResync(c)' <=> OwedResync(c))
    BY <1>1 DEF Oldest, Reader, OwedFrame, OwedResync
  <2>1. c \in subs /\ c \in subs'
    BY <1>core, <1>1 DEF PerClient, AttachInv
  <2>2. /\ cursor[c] <= last /\ QueueOK(out[c], cursor[c], screen[c] = << >>, Oldest, last)
        /\ ScreenOK(screen[c], cursor[c], dedup[c], Oldest)
    BY <1>core DEF PerClient, ClientInv
  <2>3. /\ Len(t) \in Nat /\ Len(out[c]) \in Nat /\ Len(t) <= Len(out[c]) + 1
        /\ QueueOK(t, cursor[c], screen[c] = << >>, Oldest, last)
        /\ (\A i \in DOMAIN out[c] : ~IsOut(out[c][i])) => (\A i \in DOMAIN t : ~IsOut(t[i]))
        /\ (\E i \in DOMAIN out[c] : IsReset(out[c][i])) => (\E i \in DOMAIN t : IsReset(t[i]))
    BY <1>ty, <1>t, <2>2, ControlSent
  <2>4. /\ Reaches(out[c], cursor[c], last) => Reaches(t, cursor[c], last)
        /\ Reaches(out[c], cursor[c], last - 1) => Reaches(t, cursor[c], last - 1)
        /\ Shows(out[c], cursor[c], screen[c], last) => Shows(t, cursor[c], screen[c], last)
    BY <1>ty, <1>t, ControlSent
  <2>5. ClientInv(c)'
    BY <1>1, <1>2, <2>0, <2>2, <2>3 DEF ClientInv
  <2>6. AttachInv(c)'
    <3>1. \/ Reaches(out[c], cursor[c], last)
          \/ OwedFrame(c) /\ Reaches(out[c], cursor[c], last - 1)
          \/ OwedResync(c)
      BY <1>core, <2>1 DEF PerClient, AttachInv
    <3>2. QED
      BY <1>1, <1>2, <2>0, <2>1, <2>4, <3>1 DEF AttachInv
  <2>7. WebInv(c)'
    <3>1. drops = 0 /\ ~dedup[c] => Shows(out[c], cursor[c], screen[c], last) \/ OwedFrame(c) \/ OwedResync(c)
      BY <1>core, <2>1 DEF PerClient, WebInv
    <3>2. QED
      BY <1>1, <1>2, <2>0, <2>1, <2>4, <3>1 DEF WebInv
  <2>8. ResyncInv(c)'
    <3>1. ASSUME NEW n \in {0, 1}, Cleared(c, n) PROVE Cleared(c, n)'
      <4>1. Len(out[c]) <= n /\ \A i \in DOMAIN out[c] : ~IsOut(out[c][i])
        BY <1>1, <3>1 DEF Cleared
      <4>2. Len(t) <= n + 1 /\ \A i \in DOMAIN t : ~IsOut(t[i])
        BY <2>3, <4>1
      <4>3. QED
        BY <1>2, <4>2 DEF Cleared
    <3>2. QED
      BY <1>core, <1>1, <1>2, <2>0, <2>3, <3>1 DEF PerClient, ResyncInv
  <2>9. QED
    BY <2>5, <2>6, <2>7, <2>8 DEF PerClient
<1>7. QED
  BY <1>4, <1>5, <1>6

\* What a delivery leaves of a queue whose markers all come before its output, and
\* only where there is more output to come.
MarkersFirst(q, cur, scr, hi) ==
  /\ scr = << >> => cur = 0 \/ cur < hi
  /\ \A i \in DOMAIN q : IsReset(q[i]) => cur < hi /\ \A j \in DOMAIN q : j < i => ~IsOut(q[j])

\* Such a queue stays one.
LEMMA DeliverMarkers ==
  ASSUME NEW q \in Seq(Frame), q # << >>, NEW cur \in Nat, NEW old, NEW hi \in Nat,
         NEW scr \in Seq(Seqs), QueueOK(q, cur, scr = << >>, old, hi), MarkersFirst(q, cur, scr, hi),
         NEW now, now = IF IsOut(Head(q)) /\ Head(q).seq > cur THEN Head(q).seq ELSE cur,
         NEW shown, shown = IF IsReset(Head(q)) THEN << >>
                            ELSE IF IsOut(Head(q)) THEN scr \o Head(q).data ELSE scr
  PROVE  MarkersFirst(Tail(q), now, shown, hi)
<1>1. /\ Len(q) \in Nat /\ Len(Tail(q)) = Len(q) - 1 /\ Head(q) = q[1] /\ 1 \in 1..Len(q)
      /\ Tail(q) \in Seq(Frame) /\ \A i \in 1..Len(Tail(q)) : Tail(q)[i] = q[i + 1]
  BY EmptySeq, HeadTailProperties
<1>2. DOMAIN q = 1..Len(q) /\ DOMAIN Tail(q) = 1..Len(Tail(q))
  BY <1>1, QueueNumbers
<1>3. ASSUME NEW j \in DOMAIN Tail(q)
      PROVE  j + 1 \in DOMAIN q /\ Tail(q)[j] = q[j + 1] /\ 1 < j + 1 /\ j \in Nat
  BY <1>1, <1>2
<1>4. CASE IsOut(q[1])
  <2>1. \A i \in DOMAIN Tail(q) : ~IsReset(Tail(q)[i])
    BY <1>1, <1>2, <1>3, <1>4 DEF MarkersFirst
  <2>2. shown # << >>
    <3>0. ~IsReset(q[1])
      BY <1>4 DEF IsOut, IsReset
    <3>1. shown = scr \o q[1].data
      BY <1>1, <1>4, <3>0
    <3>2. q[1] \in Frame /\ Honest(q[1])
      BY <1>1, <1>2, <1>4, QueueNumbers DEF QueueOK
    <3>3. Len(q[1].data) \in Nat \ {0} /\ q[1].data \in Seq(Seqs)
      BY <3>2, HonestFacts
    <3>4. Len(scr) \in Nat /\ Len(shown) = Len(scr) + Len(q[1].data)
      BY <3>1, <3>3, ConcatProperties, LenProperties
    <3>5. Len(<< >>) = 0
      OBVIOUS
    <3>6. QED
      BY <3>3, <3>4, <3>5
  <2>3. QED
    BY <2>1, <2>2 DEF MarkersFirst
<1>5. CASE ~IsOut(q[1])
  <2>1. now = cur
    BY <1>1, <1>5
  <2>2. shown = << >> => cur = 0 \/ cur < hi
    <3>1. IsReset(q[1]) => cur < hi
      BY <1>1, <1>2 DEF MarkersFirst
    <3>2. ~IsReset(q[1]) => shown = scr
      BY <1>1, <1>5
    <3>3. QED
      BY <3>1, <3>2 DEF MarkersFirst
  <2>3. ASSUME NEW i \in DOMAIN Tail(q), IsReset(Tail(q)[i])
        PROVE  cur < hi /\ \A j \in DOMAIN Tail(q) : j < i => ~IsOut(Tail(q)[j])
    <3>1. i + 1 \in DOMAIN q /\ IsReset(q[i + 1]) /\ i \in Nat
      BY <1>3, <2>3
    <3>2. ASSUME NEW j \in DOMAIN Tail(q), j < i PROVE ~IsOut(Tail(q)[j])
      <4>1. j + 1 \in DOMAIN q /\ Tail(q)[j] = q[j + 1] /\ j \in Nat
        BY <1>3
      <4>2. j + 1 < i + 1
        BY <3>1, <3>2, <4>1
      <4>3. QED
        BY <3>1, <4>1, <4>2 DEF MarkersFirst
    <3>3. QED
      BY <3>1, <3>2 DEF MarkersFirst
  <2>4. QED
    BY <2>1, <2>2, <2>3 DEF MarkersFirst
<1>6. QED
  BY <1>4, <1>5

\* The client handles the frame at the head of its queue.
LEMMA DeliverStep ==
  ASSUME Good, NEW c \in Clients, Deliver(c)
  PROVE  ReaderInv' /\ \A d \in Clients : PerClient(d)'
<1>core. Core /\ ReaderInv /\ PerClient(c)
  BY DEF Good
<1> DEFINE q == out[c]
           cur == cursor[c]
           scr == screen[c]
           now == NowAt(q, cur)
           shown == ShownAt(q, cur, scr, dedup[c])
<1>ty. /\ cur \in Nat /\ last \in Nat /\ last \in Int /\ last - 1 \in Int /\ Oldest \in Nat /\ q \in Seq(Frame)
       /\ scr \in Seq(Seqs) /\ dedup[c] \in BOOLEAN
  BY <1>core, ClientTypes, RingFacts
<1>1. /\ att[c].pc \in {"live", "cut", "dropped"} /\ q # << >>
      /\ screen' = [screen EXCEPT ![c] = shown]
      /\ cursor' = [cursor EXCEPT ![c] = now]
      /\ out' = [out EXCEPT ![c] = Tail(q)]
      /\ UNCHANGED <<ring, last, th, subs, att, dedup, drops>>
  BY DEF Deliver, Commits, IsOut, IsReset, bounds, NowAt, ShownAt
<1>now. now = IF IsOut(Head(q)) /\ Head(q).seq > cur THEN Head(q).seq ELSE cur
  BY DEF NowAt
<1>shown. shown = IF IsReset(Head(q)) THEN << >>
                  ELSE IF IsOut(Head(q)) /\ (dedup[c] => Head(q).seq > cur) THEN scr \o Head(q).data
                  ELSE scr
  BY DEF ShownAt
<1> HIDE DEF now, shown
<1>2. /\ out'[c] = Tail(q) /\ screen'[c] = shown /\ cursor'[c] = now
      /\ \A d \in Clients : d # c => out'[d] = out[d] /\ screen'[d] = screen[d] /\ cursor'[d] = cursor[d]
  BY <1>core, <1>1 DEF Core, TypeOK
<1>4. ReaderInv' /\ \A d \in Clients : SameDebt(d)
  BY <1>core, <1>1, SameReader
<1>5. ASSUME NEW d \in Clients, d # c PROVE PerClient(d)'
  BY <1>1, <1>2, <1>4, <1>5, OtherClient DEF Same, Good
<1>6. PerClient(c)'
  <2>0. Oldest' = Oldest /\ Reader' = Reader /\ (OwedFrame(c)' <=> OwedFrame(c)) /\ (OwedResync(c)' <=> OwedResync(c))
    BY <1>1 DEF Oldest, Reader, OwedFrame, OwedResync
  <2>1. cur <= last /\ QueueOK(q, cur, scr = << >>, Oldest, last) /\ ScreenOK(scr, cur, dedup[c], Oldest)
    BY <1>core DEF PerClient, ClientInv
  <2>pc. att[c].pc \notin {"off", "snapshot", "catchup"}
    BY <1>1
  <2>sub. c \in subs <=> att[c].pc \in {"joined", "live"}
    BY <1>core DEF PerClient, AttachInv
  <2>owed. c \in subs => \/ Reaches(q, cur, last)
                         \/ OwedFrame(c) /\ Reaches(q, cur, last - 1)
                         \/ OwedResync(c)
    BY <1>core DEF PerClient, AttachInv
  <2>web. drops = 0 /\ ~dedup[c] =>
             /\ c \in subs => Shows(q, cur, scr, last) \/ OwedFrame(c) \/ OwedResync(c)
             /\ att[c].pc = "dropped" => MarkersFirst(q, cur, scr, last)
    BY <1>core DEF PerClient, WebInv, MarkersFirst
  <2>resync. ResyncInv(c)
    BY <1>core DEF PerClient
  <2> DEFINE p == Tail(q)
  <2>2. p \in Seq(Frame)
    BY <1>ty, <1>1, HeadTailProperties
  <2>q. q = out[c] /\ cur = cursor[c] /\ scr = screen[c]
    OBVIOUS
  <2> HIDE DEF q, cur, scr
  <2>3. cur <= now /\ now <= last /\ QueueOK(p, now, shown = << >>, Oldest, last) /\ ScreenOK(shown, now, dedup[c], Oldest)
    <3>1. now = NowAt(q, cur) /\ shown = ShownAt(q, cur, scr, dedup[c])
      BY DEF now, shown
    <3>2. q # << >>
      BY <1>1
    <3>3. QED
      BY <1>ty, <2>1, <3>1, <3>2, DeliverOK
  <2>4. /\ Reaches(q, cur, last) => Reaches(p, now, last)
        /\ Reaches(q, cur, last - 1) => Reaches(p, now, last - 1)
    BY <1>ty, <1>1, <1>now, <2>1, DeliverReaches
  <2>w. ~dedup[c] => shown = IF IsReset(Head(q)) THEN << >>
                             ELSE IF IsOut(Head(q)) THEN scr \o Head(q).data ELSE scr
    BY <1>shown
  <2>5. ~dedup[c] /\ Shows(q, cur, scr, last) => Shows(p, now, shown, last)
    BY <1>ty, <1>1, <1>now, <2>1, <2>w, DeliverShows
  <2>6. ~dedup[c] /\ MarkersFirst(q, cur, scr, last) => MarkersFirst(p, now, shown, last)
    BY <1>ty, <1>1, <1>now, <2>1, <2>w, DeliverMarkers
  <2> HIDE DEF p
  <2>p. out'[c] = p /\ screen'[c] = shown /\ cursor'[c] = now /\ att'[c] = att[c] /\ dedup'[c] = dedup[c]
        /\ last' = last /\ subs' = subs /\ drops' = drops
    BY <1>1, <1>2 DEF p
  <2>7. ClientInv(c)'
    BY <2>0, <2>3, <2>p DEF ClientInv
  <2>8. AttachInv(c)'
    BY <2>0, <2>pc, <2>sub, <2>owed, <2>4, <2>p DEF AttachInv
  <2>9. WebInv(c)'
    BY <2>0, <2>pc, <2>sub, <2>web, <2>5, <2>6, <2>p DEF WebInv, MarkersFirst
  <2>10. ResyncInv(c)'
    <3>1. /\ Len(q) \in Nat /\ Len(p) = Len(q) - 1 /\ Head(q) = q[1] /\ 1 \in DOMAIN q
          /\ DOMAIN q = 1..Len(q) /\ DOMAIN p = 1..Len(p) /\ \A i \in 1..Len(p) : p[i] = q[i + 1]
      BY <1>ty, <1>1, EmptySeq, HeadTailProperties, LenProperties DEF p
    <3>2. ASSUME NEW n \in {0, 1}, Cleared(c, n) PROVE Cleared(c, n)'
      <4>1. \A i \in DOMAIN q : ~IsOut(q[i])
        BY <2>q, <3>2 DEF Cleared
      <4>2. \A i \in DOMAIN p : i + 1 \in DOMAIN q /\ p[i] = q[i + 1]
        BY <3>1
      <4>3. \A i \in DOMAIN p : ~IsOut(p[i])
        BY <4>1, <4>2
      <4>4. Len(q) <= IF att[c].pc = "joined" THEN n ELSE n + 1
        BY <2>q, <3>2 DEF Cleared
      <4>5. Len(p) <= IF att[c].pc = "joined" THEN n ELSE n + 1
        BY <3>1, <4>4
      <4>6. QED
        BY <2>p, <4>3, <4>5 DEF Cleared
    <3>3. ASSUME Cleared(c, 1), scr = << >> \/ \E j \in DOMAIN q : IsReset(q[j])
          PROVE  shown = << >> \/ \E j \in DOMAIN p : IsReset(p[j])
      <4>1. ~IsOut(Head(q))
        BY <2>q, <3>1, <3>3 DEF Cleared
      <4>2. CASE IsReset(Head(q))
        BY <1>shown, <4>2
      <4>3. CASE ~IsReset(Head(q))
        <5>1. shown = scr
          BY <1>shown, <4>1, <4>3
        <5>2. ASSUME NEW j \in DOMAIN q, IsReset(q[j]) PROVE \E i \in DOMAIN p : IsReset(p[i])
          <6>1. j # 1
            BY <3>1, <4>3, <5>2
          <6>2. j - 1 \in 1..Len(p) /\ (j - 1) + 1 = j
            BY <3>1, <6>1
          <6>3. p[j - 1] = q[j] /\ j - 1 \in DOMAIN p
            BY <3>1, <6>2
          <6>4. QED
            BY <5>2, <6>3
        <5>3. QED
          BY <3>3, <5>1, <5>2
      <4>4. QED
        BY <4>2, <4>3
    <3>4. QED
      BY <2>0, <2>q, <2>p, <2>resync, <3>2, <3>3 DEF ResyncInv
  <2>11. QED
    BY <2>7, <2>8, <2>9, <2>10 DEF PerClient
<1>7. QED
  BY <1>4, <1>5, <1>6

\* What the loss of the subscriber of c does to the goroutines: only the reader can
\* hold it.
LEMMA ForgetFacts ==
  ASSUME Good, NEW c \in Clients, Forget(c)
  PROVE  /\ c \notin Reader.pend => th' = th
         /\ c \in Reader.pend =>
               th' = [th EXCEPT !["reader"] = IF Reader.pc = "send" \/ Reader.sub = c THEN Served(Reader, c)
                                              ELSE [Reader EXCEPT !.pend = @ \ {c}]]
<1>1. th \in [Threads -> Fanout] /\ "reader" \in Threads /\ "reader" \notin Clients
  BY ReaderTypes DEF Good
<1>2. \A t \in Threads : t # "reader" => c \notin th[t].pend
  <2>1. \A d \in Clients : th[d] = Idle
    BY DEF Good, ReaderInv
  <2>2. Idle.pend = {}
    BY DEF Idle
  <2>3. QED
    BY <2>1, <2>2 DEF Threads
<1>3. th' = [t \in Threads |-> IF c \notin th[t].pend THEN th[t]
                               ELSE IF th[t].pc = "send" \/ th[t].sub = c THEN Served(th[t], c)
                               ELSE [th[t] EXCEPT !.pend = @ \ {c}]]
  BY DEF Forget
<1> DEFINE new == IF Reader.pc = "send" \/ Reader.sub = c THEN Served(Reader, c)
                  ELSE [Reader EXCEPT !.pend = @ \ {c}]
<1>4. c \in Reader.pend => th'["reader"] = new
  BY <1>1, <1>3 DEF Reader
<1>5. c \notin Reader.pend => th'["reader"] = th["reader"]
  BY <1>1, <1>3 DEF Reader
<1>6. \A t \in Threads : t # "reader" => th'[t] = th[t]
  BY <1>2, <1>3
<1>7. th' = [t \in Threads |-> th'[t]]
  BY <1>3
<1>8. th = [t \in Threads |-> th[t]]
  BY <1>1
<1> HIDE DEF new
<1>9. c \notin Reader.pend => th' = th
  BY <1>5, <1>6, <1>7, <1>8
<1>10. c \in Reader.pend => th' = [th EXCEPT !["reader"] = new]
  <2>1. [th EXCEPT !["reader"] = new] = [t \in Threads |-> IF t = "reader" THEN new ELSE th[t]]
    BY <1>1
  <2>2. QED
    BY <1>4, <1>6, <1>7, <2>1
<1>11. QED
  BY <1>9, <1>10 DEF new

\* The writer closes the socket of a subscriber that was cut or dropped.
LEMMA HangupStep ==
  ASSUME Good, NEW c \in Clients, Hangup(c)
  PROVE  ReaderInv' /\ \A d \in Clients : PerClient(d)'
<1>core. Core /\ ReaderInv /\ PerClient(c)
  BY DEF Good
<1> DEFINE a == [Detached EXCEPT !.pc = IF att[c].pc = "cut" THEN "ended" ELSE "off"]
<1>1. /\ att[c].pc \in {"cut", "dropped"} /\ att' = [att EXCEPT ![c] = a]
      /\ out' = [out EXCEPT ![c] = << >>] /\ Forget(c)
      /\ UNCHANGED <<ring, last, subs, screen, cursor, dedup, drops>>
  BY DEF Hangup, client, bounds
<1>2. a.pc = IF att[c].pc = "cut" THEN "ended" ELSE "off"
  BY DEF Detached
<1> HIDE DEF a
<1>3. /\ out'[c] = << >> /\ att'[c] = a
      /\ \A d \in Clients : d # c => out'[d] = out[d] /\ att'[d] = att[d]
  BY <1>core, <1>1 DEF Core, TypeOK
<1>4. c \notin subs /\ c \notin Reader.pend
  BY <1>core, <1>1 DEF PerClient, AttachInv, ReaderInv
<1>5. th' = th
  BY <1>1, <1>4, ForgetFacts
<1>6. ReaderInv' /\ \A d \in Clients : SameDebt(d)
  BY <1>core, <1>1, <1>5, SameReader
<1>7. ASSUME NEW d \in Clients, d # c PROVE PerClient(d)'
  BY <1>1, <1>3, <1>6, <1>7, OtherClient DEF Same, Good
<1>8. PerClient(c)'
  <2>0. Oldest' = Oldest /\ Reader' = Reader
    BY <1>1, <1>5 DEF Oldest, Reader
  <2>1. ClientInv(c)'
    BY <1>core, <1>1, <1>3, <2>0, EmptyOK DEF PerClient, ClientInv
  <2>2. att'[c].pc \in {"ended", "off"} /\ (att'[c].pc = "off" => att[c].pc = "dropped") /\ c \notin subs'
    BY <1>1, <1>2, <1>3, <1>4
  <2>3. AttachInv(c)'
    BY <1>3, <2>2 DEF AttachInv
  <2>4. ResyncInv(c)'
    <3>1. ~OwedResync(c)
      BY <1>core, <1>4 DEF ReaderInv, OwedResync
    <3>2. QED
      BY <2>0, <3>1 DEF ResyncInv, OwedResync, Resyncing
  <2>5. WebInv(c)'
    <3>1. att[c].pc = "dropped" /\ drops = 0 /\ ~dedup[c] => (screen[c] = << >> => cursor[c] = 0 \/ cursor[c] < last)
      BY <1>core DEF PerClient, WebInv
    <3>2. \A i \in DOMAIN << >> : FALSE
      OBVIOUS
    <3>3. QED
      BY <1>1, <1>3, <2>2, <3>1, <3>2 DEF WebInv
  <2>6. QED
    BY <2>1, <2>3, <2>4, <2>5 DEF PerClient
<1>9. QED
  BY <1>6, <1>7, <1>8

\* The connection of a live client is lost.
LEMMA DisconnectStep ==
  ASSUME Good, NEW c \in Clients, Disconnect(c)
  PROVE  ReaderInv' /\ \A d \in Clients : PerClient(d)'
<1>core. Core /\ ReaderInv /\ PerClient(c) /\ drops \in Nat
  BY DEF Good, Core, TypeOK
<1>1. /\ att' = [att EXCEPT ![c] = Detached] /\ out' = [out EXCEPT ![c] = << >>] /\ Forget(c)
      /\ drops' = drops + 1 /\ subs' = subs \ {c}
      /\ UNCHANGED <<ring, last, screen, cursor, dedup>>
  BY DEF Disconnect, client
<1>2. drops' # 0
  BY <1>core, <1>1
<1>3. /\ out'[c] = << >> /\ att'[c] = Detached /\ Detached.pc = "off" /\ c \notin subs'
      /\ \A d \in Clients : d # c => out'[d] = out[d] /\ att'[d] = att[d] /\ (d \in subs' <=> d \in subs)
  <2>1. out'[c] = << >> /\ att'[c] = Detached /\ \A d \in Clients : d # c => out'[d] = out[d] /\ att'[d] = att[d]
    BY <1>core, <1>1 DEF Core, TypeOK
  <2>2. QED
    BY <1>1, <2>1 DEF Detached
<1>4. ReaderInv' /\ (\A d \in Clients : d # c => SameDebt(d)) /\ ~OwedResync(c)'
  <2>1. CASE c \notin Reader.pend
    <3>1. th' = th /\ Reader' = Reader
      BY <1>1, <2>1, ForgetFacts DEF Reader
    <3>2. Reader'.pend \subseteq subs'
      BY <1>core, <1>1, <2>1, <3>1 DEF ReaderInv
    <3>3. ReaderInv'
      BY <1>core, <1>1, <3>1, <3>2 DEF ReaderInv
    <3>4. \A d \in Clients : SameDebt(d)
      BY <3>1 DEF SameDebt, OwedFrame, OwedResync
    <3>5. ~OwedResync(c)'
      BY <1>core, <2>1, <3>1 DEF ReaderInv, OwedResync
    <3>6. QED
      BY <3>3, <3>4, <3>5
  <2>2. CASE c \in Reader.pend /\ (Reader.pc = "send" \/ Reader.sub = c)
    <3>1. th' = [th EXCEPT !["reader"] = Served(Reader, c)]
      BY <1>1, <2>2, ForgetFacts
    <3>2. ReaderInv' /\ Reader'.pc \notin Resyncing /\ \A d \in Clients : d # c => SameDebt(d)
      BY <1>1, <2>2, <3>1, ServedReader
    <3>3. QED
      BY <3>2 DEF OwedResync
  <2>3. CASE c \in Reader.pend /\ ~(Reader.pc = "send" \/ Reader.sub = c)
    <3>1. th' = [th EXCEPT !["reader"] = [Reader EXCEPT !.pend = @ \ {c}]]
      BY <1>1, <2>3, ForgetFacts
    <3>2. Reader' = [Reader EXCEPT !.pend = @ \ {c}] /\ \A d \in Clients : th'[d] = Idle
      BY <3>1, MovedReader
    <3>3. /\ Reader'.pc = Reader.pc /\ Reader'.sub = Reader.sub /\ Reader'.pend = Reader.pend \ {c}
          /\ Reader'.frame = Reader.frame /\ Reader'.tail = Reader.tail /\ Reader'.label = Reader.label
      BY <1>core, <3>2, ReaderTypes DEF Fanout
    <3>4. ReaderInv'
      <4>1. Reader'.pend \subseteq subs'
        BY <1>core, <1>1, <3>3 DEF ReaderInv
      <4>2. Reader'.pc \in Resyncing => Reader'.sub \in Reader'.pend
        BY <1>core, <2>3, <3>3 DEF ReaderInv
      <4>3. Reader'.pc \notin {"idle", "fanout", "remove"}
        BY <1>core, <2>3, <3>3 DEF ReaderInv
      <4>4. QED
        BY <1>core, <1>1, <3>2, <3>3, <4>1, <4>2, <4>3 DEF ReaderInv
    <3>5. \A d \in Clients : d # c => SameDebt(d)
      BY <3>3 DEF SameDebt, OwedFrame, OwedResync
    <3>6. ~OwedResync(c)'
      BY <2>3, <3>3 DEF OwedResync
    <3>7. QED
      BY <3>4, <3>5, <3>6
  <2>4. QED
    BY <2>1, <2>2, <2>3
<1>5. ASSUME NEW d \in Clients, d # c PROVE PerClient(d)'
  BY <1>1, <1>2, <1>3, <1>4, <1>5, OtherClient DEF Same, Good
<1>6. PerClient(c)'
  <2>0. Oldest' = Oldest
    BY <1>1 DEF Oldest
  <2>1. ClientInv(c)'
    BY <1>core, <1>1, <1>3, <2>0, EmptyOK DEF PerClient, ClientInv
  <2>2. AttachInv(c)'
    BY <1>3 DEF AttachInv
  <2>3. ResyncInv(c)'
    BY <1>4 DEF ResyncInv, OwedResync, Resyncing
  <2>4. WebInv(c)'
    BY <1>2 DEF WebInv
  <2>5. QED
    BY <2>1, <2>2, <2>3, <2>4 DEF PerClient
<1>7. QED
  BY <1>4, <1>5, <1>6

\* No client has attached and nothing was produced.
LEMMA InitStream == Init => StreamInv
<1> SUFFICES ASSUME Init PROVE StreamInv
  OBVIOUS
<1>1. Core
  BY InitCore
<1>2. th = [t \in Threads |-> Idle] /\ "reader" \in Threads /\ Clients \subseteq Threads
  BY <1>1, ReaderTypes DEF Init
<1>3. Reader = Idle /\ \A c \in Clients : th[c] = Idle
  BY <1>2 DEF Reader
<1>4. Idle.pc = "idle" /\ Idle.pend = {} /\ Idle.frame = Control("none") /\ Idle.sub = "none"
  BY DEF Idle
<1>5. ~IsOut(Control("none")) /\ ~IsReset(Control("none"))
  BY DEF Control, IsOut, IsReset
<1>6. ReaderInv
  BY <1>3, <1>4, <1>5 DEF ReaderInv, Resyncing
<1>7. ASSUME NEW c \in Clients PROVE PerClient(c)
  <2>1. /\ out[c] = << >> /\ att[c] = Detached /\ screen[c] = << >> /\ cursor[c] = 0 /\ last = 0 /\ c \notin subs
        /\ Detached.pc = "off" /\ Len(<< >>) = 0
    BY DEF Init, Detached
  <2>2. ScreenOK(<< >>, 0, dedup[c], Oldest)
    <3>1. \A i \in 1..(Len(<< >>) - 1) : FALSE
      BY <2>1
    <3>2. QED
      BY <3>1 DEF ScreenOK
  <2>3. ClientInv(c)
    BY <2>1, <2>2, EmptyOK DEF ClientInv
  <2>4. AttachInv(c)
    BY <2>1 DEF AttachInv
  <2>5. ResyncInv(c)
    BY <1>3, <1>4 DEF ResyncInv
  <2>6. WebInv(c)
    <3>1. \A i \in DOMAIN << >> : FALSE
      OBVIOUS
    <3>2. QED
      BY <2>1, <3>1 DEF WebInv
  <2>7. QED
    BY <2>3, <2>4, <2>5, <2>6 DEF PerClient
<1>8. QED
  BY <1>6, <1>7 DEF StreamInv

\* Every step keeps the stream's invariant, as long as only the reader fans out.
LEMMA NextStream == Core /\ StreamInv /\ [Next]_vars => StreamInv'
<1> SUFFICES ASSUME Core, StreamInv, [Next]_vars, OneFanout' PROVE ReaderInv' /\ \A c \in Clients : PerClient(c)'
  BY DEF StreamInv
<1>0. Core'
  BY NextCore
<1>1. claims \in Nat /\ claims' = 0
  BY DEF Core, TypeOK, OneFanout
<1>2. ASSUME NEW c \in Clients, ClaimDriver(c) PROVE FALSE
  BY <1>1, <1>2 DEF ClaimDriver
<1>3. claims = 0
  BY <1>1, <1>2 DEF Next, vars, ReaderNext, ThreadNext, SubscribeNext, PushOut, BroadcastMeta, EndOfSession,
       CloseSession, Snapshot, Send, Resync, ResyncDrain, ResyncTailBytes, ResyncLatestSeq, ResyncMarker,
       ResyncSendTail, Attach, ReplaySnapshot, CatchUp, Join, SendSnapshotMeta, Deliver, Hangup, Disconnect, bounds
<1>4. Good
  BY <1>3 DEF Good, StreamInv, OneFanout
<1>5. CASE PushOut
  BY <1>0, <1>4, <1>5, PushOutStep
<1>6. CASE BroadcastMeta \/ EndOfSession
  BY <1>4, <1>6, BroadcastSteps
<1>7. CASE CloseSession
  BY <1>4, <1>7, CloseStep
<1>8. ASSUME NEW t \in Threads, ThreadNext(t) PROVE ReaderInv' /\ \A c \in Clients : PerClient(c)'
  <2>1. ThreadNext("reader")
    BY <1>4, <1>8, OnlyReader
  <2>2. CASE Snapshot("reader")
    BY <1>4, <2>2, SnapshotStep
  <2>3. CASE \E c \in Clients : Send("reader", c)
    BY <1>4, <2>3, SendStep
  <2>4. CASE ResyncDrain("reader")
    BY <1>4, <2>4, ResyncDrainStep
  <2>5. CASE ResyncTailBytes("reader") \/ ResyncLatestSeq("reader")
    BY <1>4, <2>5, ResyncReadSteps
  <2>6. CASE ResyncMarker("reader")
    BY <1>4, <2>6, ResyncMarkerStep
  <2>7. CASE ResyncSendTail("reader")
    BY <1>4, <2>7, ResyncSendTailStep
  <2>8. QED
    BY <2>1, <2>2, <2>3, <2>4, <2>5, <2>6, <2>7 DEF ThreadNext, Resync
<1>9. ASSUME NEW c \in Clients, SubscribeNext(c) \/ Deliver(c) \/ Hangup(c) \/ Disconnect(c)
      PROVE  ReaderInv' /\ \A d \in Clients : PerClient(d)'
  <2>1. CASE Attach(c)
    BY <1>4, <2>1, AttachStep
  <2>2. CASE ReplaySnapshot(c)
    BY <1>4, <2>2, SnapshotReplayStep
  <2>3. CASE CatchUp(c)
    BY <1>4, <2>3, CatchUpStep
  <2>4. CASE Join(c)
    BY <1>4, <2>4, JoinStep
  <2>5. CASE SendSnapshotMeta(c)
    BY <1>4, <2>5, MetaStep
  <2>6. CASE Deliver(c)
    BY <1>4, <2>6, DeliverStep
  <2>7. CASE Hangup(c)
    BY <1>4, <2>7, HangupStep
  <2>8. CASE Disconnect(c)
    BY <1>4, <2>8, DisconnectStep
  <2>9. QED
    BY <1>9, <2>1, <2>2, <2>3, <2>4, <2>5, <2>6, <2>7, <2>8 DEF SubscribeNext
<1>10. CASE UNCHANGED vars
  <2>1. UNCHANGED <<ring, last, subs, out, att, th, screen, cursor, dedup, drops>>
    BY <1>10 DEF vars
  <2>2. ReaderInv' /\ \A d \in Clients : SameDebt(d)
    BY <1>4, <2>1, SameReader DEF Good
  <2>3. QED
    BY <1>4, <2>1, <2>2, OtherClient DEF Same, Good
<1>11. QED
  BY <1>2, <1>5, <1>6, <1>7, <1>8, <1>9, <1>10 DEF Next, ReaderNext

-----------------------------------------------------------------------------
(* The theorems *)

\* What every reachable state of a session satisfies: the types, a ring that is the
\* newest run of chunks, and, while the uplink reader alone fans out, the invariant of
\* the queues, the terminals and the resync in progress.
THEOREM Invariance == Spec => [](Core /\ StreamInv)
<1>1. Init => Core /\ StreamInv
  BY InitCore, InitStream
<1>2. Core /\ StreamInv /\ [Next]_vars => (Core /\ StreamInv)'
  BY NextCore, NextStream
<1>3. QED
  BY <1>1, <1>2, PTL DEF Spec

\* Every variable keeps its type, no queue exceeds subscriberQueueDepth and the ring is
\* the contiguous run of chunks that ends with the newest (Buffer.Push).
THEOREM TypeCorrect == Spec => []TypeOK
<1>1. Core /\ StreamInv => TypeOK
  BY DEF Core
<1>2. QED
  BY <1>1, Invariance, PTL

\* An OUT frame that replay, fan-out or resync has queued carries consecutive chunks
\* that end with the chunk it is labelled with.
THEOREM HonestLabels == Spec => []LabelsHonest
<1>1. ASSUME Core, StreamInv PROVE LabelsHonest
  <2>1. SUFFICES ASSUME OneFanout, NEW c \in Clients, NEW i \in DOMAIN out[c], IsOut(out[c][i])
                 PROVE  LET f == out[c][i]
                        IN  f.data # << >> /\ f.data[Len(f.data)] = f.seq /\ Consecutive(f.data)
    BY DEF LabelsHonest, IsOut
  <2> DEFINE f == out[c][i]
  <2>2. Honest(f)
    BY <1>1, <2>1 DEF StreamInv, PerClient, ClientInv, QueueOK
  <2>3. f \in Frame
    BY <1>1, ClientTypes, QueueNumbers
  <2> HIDE DEF f
  <2>4. /\ Len(f.data) \in Nat \ {0} /\ f.seq \in Nat
        /\ \A k \in 1..Len(f.data) : f.data[k] = f.seq - Len(f.data) + k
        /\ f.data[Len(f.data)] = f.seq /\ f.data # << >>
    BY <2>2, <2>3, HonestFacts DEF Honest
  <2>5. Consecutive(f.data)
    <3> DEFINE n == Len(f.data)
    <3>1. n \in Nat /\ f.seq \in Nat /\ \A k \in 1..n : f.data[k] = f.seq - n + k
      BY <2>4
    <3> HIDE DEF n
    <3>2. ASSUME NEW k \in 1..(n - 1) PROVE f.data[k + 1] = f.data[k] + 1
      <4>1. k \in 1..n /\ k + 1 \in 1..n /\ k \in Int
        BY <3>1
      <4>2. f.data[k] = f.seq - n + k /\ f.data[k + 1] = f.seq - n + (k + 1)
        BY <3>1, <4>1
      <4>3. QED
        BY <3>1, <4>1, <4>2
    <3>3. QED
      BY <3>2 DEF Consecutive, n
  <2>6. QED
    BY <2>4, <2>5 DEF f
<1>2. QED
  BY <1>1, Invariance, PTL

\* Replay, catch-up, fan-out and resync never skip a chunk the scrollback still has: a
\* hole on a terminal is made of evicted chunks only.
THEOREM HolesEvicted == Spec => []HolesWereEvicted
<1>1. ASSUME Core, StreamInv PROVE HolesWereEvicted
  <2>1. SUFFICES ASSUME OneFanout, NEW c \in Clients, NEW i \in 1..(Len(screen[c]) - 1),
                        screen[c][i + 1] > screen[c][i] + 1
                 PROVE  screen[c][i + 1] <= OldestSeq(ring)
    BY DEF HolesWereEvicted
  <2>2. screen[c][i + 1] <= screen[c][i] + 1 \/ screen[c][i + 1] <= Oldest
    BY <1>1, <2>1 DEF StreamInv, PerClient, ClientInv, ScreenOK
  <2>3. screen[c] \in Seq(Seqs) /\ Len(screen[c]) \in Nat
    BY <1>1, ClientTypes, LenProperties
  <2>4. i \in 1..Len(screen[c]) /\ i + 1 \in 1..Len(screen[c])
    BY <2>3
  <2>5. screen[c][i] \in Nat /\ screen[c][i + 1] \in Nat
    BY <2>3, <2>4, ElementOfSeq, Numbers
  <2>6. QED
    BY <2>1, <2>2, <2>5 DEF Oldest
<1>2. QED
  BY <1>1, Invariance, PTL

\* A client that drops OUT at or below its cursor shows every chunk at most once, in
\* order, whatever duplicates the hand-over of Subscribe and a resync queue.
THEOREM ShownOnce == Spec => []NothingShownTwice
<1>1. Core /\ StreamInv => NothingShownTwice
  BY DEF StreamInv, PerClient, ClientInv, ScreenOK, NothingShownTwice
<1>2. QED
  BY <1>1, Invariance, PTL

\* A live client that has drained its queue while nobody fans out has the newest chunk,
\* and a web client whose connection lasted shows it last: no overflow, resync or
\* re-attach loses a chunk.
THEOREM NothingLost == Spec => []DrainedMeansCurrent
<1>1. ASSUME Core, StreamInv PROVE DrainedMeansCurrent
  <2>1. SUFFICES ASSUME OneFanout, NEW c \in Clients, Drained(c)
                 PROVE  cursor[c] = last /\ (drops = 0 /\ last > 0 /\ ~dedup[c] => Current(c))
    BY DEF DrainedMeansCurrent
  <2>2. ReaderInv /\ PerClient(c) /\ cursor[c] \in Nat /\ last \in Nat
    BY <1>1, <2>1, ClientTypes, RingFacts DEF StreamInv
  <2>3. att[c].pc = "live" /\ out[c] = << >> /\ Reader.pc = "idle"
    BY <1>1, <2>1, ReaderTypes DEF Drained, Reader
  <2>4. c \in subs /\ ~OwedFrame(c) /\ ~OwedResync(c)
    BY <2>2, <2>3 DEF PerClient, AttachInv, ReaderInv, OwedFrame, OwedResync, Resyncing
  <2>5. \A i \in DOMAIN << >> : FALSE
    OBVIOUS
  <2>6. cursor[c] = last
    <3>1. Reaches(out[c], cursor[c], last)
      BY <2>2, <2>4 DEF PerClient, AttachInv
    <3>2. cursor[c] >= last
      BY <2>3, <2>5, <3>1 DEF Reaches
    <3>3. cursor[c] <= last
      BY <2>2 DEF PerClient, ClientInv
    <3>4. QED
      BY <2>2, <3>2, <3>3
  <2>7. ASSUME drops = 0, last > 0, ~dedup[c] PROVE Current(c)
    <3>1. Shows(out[c], cursor[c], screen[c], last)
      BY <2>2, <2>4, <2>7 DEF PerClient, WebInv
    <3>2. screen[c] # << >>
      BY <2>2, <2>3, <2>5, <2>7, <3>1 DEF Shows
    <3>3. screen[c][Len(screen[c])] = cursor[c]
      BY <2>2, <3>2 DEF PerClient, ClientInv, ScreenOK
    <3>4. QED
      BY <2>6, <3>2, <3>3 DEF Current
  <2>8. QED
    BY <2>6, <2>7
<1>2. QED
  BY <1>1, Invariance, PTL
=============================================================================
