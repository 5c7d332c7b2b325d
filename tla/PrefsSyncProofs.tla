-------------------------- MODULE PrefsSyncProofs --------------------------
(***************************************************************************)
(* Theorems about PrefsSync, for any number of edits, calls and failures:   *)
(* the shape of its state, and that nothing but its own answer replaces an  *)
(* edit of a desktop, as long as no setter overlapped the loop.             *)
(***************************************************************************)
EXTENDS PrefsSync, SequenceTheorems, TLAPS

-----------------------------------------------------------------------------
(* The inductive invariant *)

\* No edit anywhere has a number above this one: the value is stored before the
\* clock advances with its stamp.
Top == IF setter.step = "stamp" THEN clock + 1 ELSE clock

\* The setter changed the value and has still to stamp it.
Marking == setter.mine /\ setter.step \in {"stamp", "copyMeta", "setMeta"}

StoreOK == store.v.n <= Top /\ server.v.n <= Top /\ (store.dirty => store.at > 0)

\* The setter's copy is the configuration with the setter's own change in it,
\* and its stamp is later than the one it replaces.
SetterOK ==
  /\ setter.step # "copyValue" /\ (setter.step = "stamp" => setter.mine)
  /\ setter.step = "setValue" =>
       /\ setter.copy.at = store.at /\ setter.copy.dirty = store.dirty
       /\ setter.mine => /\ setter.copy.v.by = Here /\ setter.copy.v.n > store.v.n
                         /\ setter.copy.v.n <= clock + 1
       /\ ~setter.mine => setter.copy.v = store.v
  /\ setter.step = "copyMeta" /\ setter.mine => setter.at > store.at
  /\ setter.step = "setMeta" =>
       /\ setter.copy.v = store.v
       /\ setter.mine => setter.copy.at > store.at
       /\ ~setter.mine => setter.copy.at = store.at /\ setter.copy.dirty = store.dirty

\* What the check found is still so when the value is written.
ApplierOK(c) ==
  applier.step # "idle" =>
    /\ setter.step = "idle" /\ c.done /\ applier.step # "stamp"
    /\ applier.step \in {"copyValue", "setValue"} =>
         IF c.kind = "get" THEN ~store.dirty ELSE store.at = c.at
    /\ applier.step = "setValue" =>
         applier.copy.v = c.ans.v /\ applier.copy.at = store.at /\ applier.copy.dirty = store.dirty
    /\ applier.step = "setMeta" => applier.copy.v = store.v /\ ~applier.copy.dirty

\* A PUT whose stamp the key still has carries the value the key still has.
CallOK(c) ==
  /\ c.v.n <= Top /\ c.ans.v.n <= Top
  /\ c.kind = "put" =>
       /\ c.at <= store.at /\ (~c.item => c.at = 0)
       /\ c.item /\ store.at = c.at /\ applier.step \notin {"copyMeta", "setMeta"} /\ ~Marking => store.v = c.v

Apart == StoreOK /\ SetterOK /\ (calls # << >> => CallOK(calls[1]) /\ ApplierOK(calls[1]))

PrefsInv == TypeOK /\ (kind = "desktop" /\ ~raced => Apart)
-----------------------------------------------------------------------------
(* Types *)

\* A list of calls that gets one more, loses one, or has one answered.
LEMMA CallsMove ==
  ASSUME NEW q \in Seq(Call)
  PROVE  /\ Len(q) \in Nat /\ DOMAIN q = 1..Len(q)
         /\ \A i \in DOMAIN q : q[i] \in Call
         /\ q = << >> <=> Len(q) = 0
         /\ \A c \in Call : Append(q, c) \in Seq(Call) /\ Len(Append(q, c)) = Len(q) + 1
         /\ \A i \in DOMAIN q : RemoveAt(q, i) \in Seq(Call) /\ Len(RemoveAt(q, i)) = Len(q) - 1
         /\ \A i \in DOMAIN q, c \in Call : /\ [q EXCEPT ![i] = c] \in Seq(Call)
                                            /\ Len([q EXCEPT ![i] = c]) = Len(q)
                                            /\ [q EXCEPT ![i] = c][i] = c
<1>1. Len(q) \in Nat /\ DOMAIN q = 1..Len(q) /\ \A i \in 1..Len(q) : q[i] \in Call
  BY LenProperties, ElementOfSeq
<1>2. q = << >> <=> Len(q) = 0
  BY EmptySeq
<1>3. ASSUME NEW c \in Call
      PROVE  Append(q, c) \in Seq(Call) /\ Len(Append(q, c)) = Len(q) + 1
  BY AppendProperties
<1>4. ASSUME NEW i \in DOMAIN q
      PROVE  RemoveAt(q, i) \in Seq(Call) /\ Len(RemoveAt(q, i)) = Len(q) - 1
  <2> DEFINE a == SubSeq(q, 1, i - 1)
             b == SubSeq(q, i + 1, Len(q))
  <2>1. i \in 1..Len(q) /\ i \in Nat
    BY <1>1
  <2>2. a \in Seq(Call) /\ Len(a) = i - 1
    BY <1>1, <2>1, SubSeqProperties
  <2>3. b \in Seq(Call) /\ Len(b) = Len(q) - i
    BY <1>1, <2>1, SubSeqProperties
  <2>4. RemoveAt(q, i) = a \o b
    BY DEF RemoveAt
  <2> HIDE DEF a, b
  <2>5. a \o b \in Seq(Call) /\ Len(a \o b) = Len(a) + Len(b)
    BY <2>2, <2>3, ConcatProperties
  <2>6. QED
    BY <1>1, <2>1, <2>2, <2>3, <2>4, <2>5
<1>5. ASSUME NEW i \in DOMAIN q, NEW c \in Call
      PROVE  /\ [q EXCEPT ![i] = c] \in Seq(Call) /\ Len([q EXCEPT ![i] = c]) = Len(q)
             /\ [q EXCEPT ![i] = c][i] = c
  BY <1>1, ExceptSeq
<1>6. QED
  BY <1>1, <1>2, <1>3, <1>4, <1>5

\* Requests, answered requests and what the engines make of them.
LEMMA CallsTyped ==
  ASSUME NEW s \in Entry, NEW k \in Nat
  PROVE  /\ Get \in Call /\ Put(s, k) \in Call /\ Blank \in Values /\ NoEntry \in Entry
         /\ \A c \in Call : /\ Adopted(s, c) \in Entry
                            /\ \A a \in Stamped : [c EXCEPT !.done = TRUE, !.ans = a] \in Call
<1>1. Blank \in Values /\ 0 \in Nat
  BY DEF Blank, Values, Here
<1>2. Get \in Call /\ [v |-> Blank, at |-> 0] \in Stamped
  BY <1>1 DEF Get, Call, Stamped
<1>3. s.v \in Values /\ s.at \in Nat /\ s.dirty \in BOOLEAN
  BY DEF Entry
<1>4. Put(s, k) \in Call
  BY <1>1, <1>2, <1>3, Zenon DEF Put, Call
<1>5. NoEntry \in Entry
  BY <1>1 DEF NoEntry, Entry
<1>6. ASSUME NEW c \in Call
      PROVE  /\ Adopted(s, c) \in Entry
             /\ \A a \in Stamped : [c EXCEPT !.done = TRUE, !.ans = a] \in Call
  <2>1. c.ans \in Stamped
    BY DEF Call
  <2>2. Adopted(s, c) \in Entry
    BY <2>1 DEF Adopted, Entry, Stamped
  <2>3. \A a \in Stamped : [c EXCEPT !.done = TRUE, !.ans = a] \in Call
    BY Zenon DEF Call
  <2>4. QED
    BY <2>2, <2>3
<1>7. QED
  BY <1>1, <1>2, <1>4, <1>5, <1>6

\* The part of TypeOK that is about the device's own store and its writers.
StoreTyped ==
  /\ kind \in {"desktop", "mobile"}
  /\ clock \in Nat /\ others \in Nat /\ fails \in Nat /\ also \in Nat /\ others + fails <= MaxExtra
  /\ store \in Entry /\ ui \in [v : Values, due : BOOLEAN] /\ setter \in Hand /\ applier \in Hand

\* The part that is about calls, the relay and the loop's requests.
CallsAreTyped ==
  /\ server \in Stamped
  /\ calls \in Seq(Call) /\ Len(calls) <= IF kind = "desktop" THEN 1 ELSE MaxCalls
  /\ applier.step # "idle" => kind = "desktop" /\ calls # << >>
  /\ slot \in SUBSET {"pull", "push"} /\ run \in SUBSET {"pull", "push"}
  /\ told \in BOOLEAN /\ reread \in BOOLEAN /\ raced \in BOOLEAN

LEMMA TypeParts == TypeOK <=> StoreTyped /\ CallsAreTyped
  BY Zenon DEF TypeOK, StoreTyped, CallsAreTyped

LEMMA InitTypeOK == Init => TypeOK
<1> SUFFICES ASSUME Init PROVE TypeOK
  OBVIOUS
<1>1. Blank \in Values /\ NoEntry \in Entry /\ 0 \in Nat
  BY DEF Blank, Values, Here, NoEntry, Entry
<1>2. Idle \in Hand
  BY <1>1 DEF Idle, Hand
<1>3. StoreTyped
  BY <1>1, <1>2, PrefsAssumption DEF Init, StoreTyped
<1>4. << >> \in Seq(Call) /\ Len(<< >>) = 0
  BY EmptySeq
<1>5. server \in Stamped
  BY <1>1 DEF Init, Stamped
<1>6. CallsAreTyped
  <2>1. calls \in Seq(Call) /\ Len(calls) <= IF kind = "desktop" THEN 1 ELSE MaxCalls
    BY <1>4, PrefsAssumption DEF Init
  <2>2. applier.step = "idle" /\ slot \in SUBSET {"pull", "push"} /\ run \in SUBSET {"pull", "push"}
    BY DEF Init, Idle
  <2>3. told \in BOOLEAN /\ reread \in BOOLEAN /\ raced \in BOOLEAN
    BY DEF Init
  <2>4. QED
    BY <1>5, <2>1, <2>2, <2>3 DEF CallsAreTyped
<1>7. QED
  BY <1>3, <1>6, TypeParts

\* What the actions of the store and its writers make of their records.
LEMMA HandsTyped ==
  ASSUME NEW s \in Entry, NEW h \in Hand, NEW v \in Values, NEW n \in Nat, NEW b \in BOOLEAN
  PROVE  /\ [s EXCEPT !.v = v] \in Entry /\ [v |-> s.v, at |-> n, dirty |-> b] \in Entry
         /\ [step |-> "setValue", mine |-> b, at |-> 0, copy |-> s] \in Hand
         /\ [Idle EXCEPT !.step = "stamp", !.mine = b] \in Hand
         /\ [Idle EXCEPT !.step = "copyMeta", !.mine = b] \in Hand
         /\ [Idle EXCEPT !.step = "copyMeta"] \in Hand
         /\ [Idle EXCEPT !.step = "copyValue"] \in Hand
         /\ [Idle EXCEPT !.step = "setValue", !.copy = s] \in Hand
         /\ [Idle EXCEPT !.step = "setMeta", !.copy = s] \in Hand
         /\ [h EXCEPT !.step = "copyMeta", !.at = n] \in Hand
         /\ [h EXCEPT !.step = "setMeta", !.at = 0, !.copy = s] \in Hand
         /\ Idle \in Hand /\ h.copy \in Entry /\ h.mine \in BOOLEAN /\ h.at \in Nat
<1>1. Idle \in Hand /\ NoEntry \in Entry
  BY DEF Idle, Hand, NoEntry, Entry, Blank, Values, Here
<1>2. [s EXCEPT !.v = v] \in Entry /\ [v |-> s.v, at |-> n, dirty |-> b] \in Entry
  BY DEF Entry
<1>3. /\ [step |-> "setValue", mine |-> b, at |-> 0, copy |-> s] \in Hand
      /\ [Idle EXCEPT !.step = "stamp", !.mine = b] \in Hand
      /\ [Idle EXCEPT !.step = "copyMeta", !.mine = b] \in Hand
      /\ [Idle EXCEPT !.step = "copyMeta"] \in Hand
      /\ [Idle EXCEPT !.step = "copyValue"] \in Hand
  BY <1>1 DEF Hand
<1>4. /\ [Idle EXCEPT !.step = "setValue", !.copy = s] \in Hand
      /\ [Idle EXCEPT !.step = "setMeta", !.copy = s] \in Hand
      /\ [h EXCEPT !.step = "copyMeta", !.at = n] \in Hand
      /\ [h EXCEPT !.step = "setMeta", !.at = 0, !.copy = s] \in Hand
  BY <1>1 DEF Hand
<1>5. h.copy \in Entry /\ h.mine \in BOOLEAN /\ h.at \in Nat
  BY DEF Hand
<1>6. QED
  BY <1>1, <1>2, <1>3, <1>4, <1>5

\* The setter's and the applier's steps.
LEMMA WritersTypeOK ==
  ASSUME TypeOK,
         Persist \/ OtherEdit \/ SetterSets \/ Stamps \/ SetterCopiesMeta \/ Marks
           \/ CopiesValue \/ SetsValue \/ CopiesMeta
  PROVE  TypeOK'
<1>1. StoreTyped /\ CallsAreTyped
  BY TypeParts
<1>2. /\ store.v \in Values /\ store.at \in Nat /\ store \in Entry /\ clock \in Nat /\ setter \in Hand
      /\ applier \in Hand /\ setter.copy \in Entry /\ applier.copy \in Entry /\ setter.mine \in BOOLEAN
      /\ setter.at \in Nat
  BY <1>1, HandsTyped DEF StoreTyped, Entry
<1>3. Edit \in Values /\ clock + 1 \in Nat /\ store.at + 1 \in Nat
  BY <1>2 DEF Edit, Values, Here
<1>4. applier.step # "idle" => calls[1] \in Call /\ calls[1].ans.v \in Values /\ calls[1].ans.at \in Nat
  <2>1. SUFFICES ASSUME applier.step # "idle" PROVE calls[1] \in Call
    BY DEF Call, Stamped
  <2>2. calls \in Seq(Call) /\ calls # << >>
    BY <1>1, <2>1 DEF CallsAreTyped
  <2>3. QED
    BY <2>2, CallsMove
<1>5. CASE Persist
  <2>1. [store EXCEPT !.v = Edit] \in Entry
    BY <1>2, <1>3, HandsTyped
  <2>2. setter' \in Hand
    <3>1. setter' = [step |-> "setValue", mine |-> TRUE, at |-> 0, copy |-> [store EXCEPT !.v = Edit]]
      BY <1>5 DEF Persist, SetterCopies
    <3>2. QED
      BY <2>1, <3>1, <1>2, <1>3, HandsTyped
  <2>3. ui' \in [v : Values, due : BOOLEAN]
    BY <1>3, <1>5 DEF Persist
  <2>4. StoreTyped'
    BY <1>1, <1>5, <2>2, <2>3 DEF Persist, StoreTyped
  <2>5. CallsAreTyped'
    BY <1>1, <1>5, Zenon DEF Persist, SetterCopies, CallsAreTyped, relay, queue
  <2>6. QED
    BY <2>4, <2>5 DEF TypeOK, StoreTyped, CallsAreTyped
<1>6. CASE OtherEdit
  <2>1. setter' = [step |-> "setValue", mine |-> FALSE, at |-> 0, copy |-> store]
    BY <1>6 DEF OtherEdit, SetterCopies
  <2>2. setter' \in Hand
    BY <1>2, <1>3, <2>1, HandsTyped
  <2>3. others' \in Nat /\ others' + fails' <= MaxExtra
    BY <1>1, <1>6, PrefsAssumption DEF OtherEdit, StoreTyped
  <2>4. StoreTyped'
    BY <1>1, <1>6, <2>2, <2>3 DEF OtherEdit, StoreTyped
  <2>5. CallsAreTyped'
    BY <1>1, <1>6, Zenon DEF OtherEdit, SetterCopies, CallsAreTyped, relay, queue
  <2>6. QED
    BY <2>4, <2>5 DEF TypeOK, StoreTyped, CallsAreTyped
<1>7. CASE SetterSets
  <2>1. setter' \in Hand
    <3>1. setter' = [Idle EXCEPT !.step = IF setter.mine THEN "stamp" ELSE "copyMeta", !.mine = setter.mine]
      BY <1>7 DEF SetterSets
    <3>2. QED
      BY <1>2, <1>3, <3>1, HandsTyped
  <2>2. StoreTyped'
    BY <1>1, <1>2, <1>7, <2>1 DEF SetterSets, StoreTyped
  <2>3. CallsAreTyped'
    BY <1>1, <1>7, Zenon DEF SetterSets, CallsAreTyped, relay, queue
  <2>4. QED
    BY <2>2, <2>3 DEF TypeOK, StoreTyped, CallsAreTyped
<1>8. CASE Stamps
  <2>1. setter' \in Hand
    <3>1. setter' = [setter EXCEPT !.step = "copyMeta",
                                   !.at = IF clock < store.at THEN store.at + 1 ELSE clock + 1]
      BY <1>8 DEF Stamps
    <3>2. QED
      BY <1>2, <1>3, <3>1, HandsTyped
  <2>2. StoreTyped'
    BY <1>1, <1>3, <1>8, <2>1 DEF Stamps, StoreTyped
  <2>3. CallsAreTyped'
    BY <1>1, <1>8, Zenon DEF Stamps, CallsAreTyped, relay, queue
  <2>4. QED
    BY <2>2, <2>3 DEF TypeOK, StoreTyped, CallsAreTyped
<1>9. CASE SetterCopiesMeta
  <2> DEFINE cp == IF setter.mine THEN [v |-> store.v, at |-> setter.at, dirty |-> TRUE] ELSE store
  <2>1. cp \in Entry
    BY <1>2, <1>3, HandsTyped
  <2>2. setter' = [setter EXCEPT !.step = "setMeta", !.at = 0, !.copy = cp]
    BY <1>9 DEF SetterCopiesMeta
  <2> HIDE DEF cp
  <2>3. setter' \in Hand
    BY <1>2, <1>3, <2>1, <2>2, HandsTyped
  <2>4. StoreTyped'
    BY <1>1, <1>9, <2>3 DEF SetterCopiesMeta, StoreTyped
  <2>5. CallsAreTyped'
    BY <1>1, <1>9, Zenon DEF SetterCopiesMeta, CallsAreTyped, relay, queue
  <2>6. QED
    BY <2>4, <2>5 DEF TypeOK, StoreTyped, CallsAreTyped
<1>10. CASE Marks
  <2>1. setter' \in Hand /\ also' \in Nat
    <3>1. Idle \in Hand
      BY <1>2, <1>3, HandsTyped
    <3>2. QED
      BY <1>1, <1>10, <3>1 DEF Marks, StoreTyped
  <2>2. StoreTyped'
    BY <1>1, <1>2, <1>10, <2>1 DEF Marks, StoreTyped
  <2>3. slot' \in SUBSET {"pull", "push"}
    BY <1>1, <1>10 DEF Marks, CallsAreTyped
  <2>4. CallsAreTyped'
    BY <1>1, <1>10, <2>3, Zenon DEF Marks, CallsAreTyped, relay
  <2>5. QED
    BY <2>2, <2>4 DEF TypeOK, StoreTyped, CallsAreTyped
<1>11. CASE CopiesValue
  <2> DEFINE cp == [store EXCEPT !.v = calls[1].ans.v]
  <2>1. cp \in Entry
    BY <1>2, <1>3, <1>4, <1>11, HandsTyped DEF CopiesValue
  <2>2. applier' = [Idle EXCEPT !.step = "setValue", !.copy = cp]
    BY <1>11 DEF CopiesValue
  <2> HIDE DEF cp
  <2>3. applier' \in Hand
    BY <1>2, <1>3, <2>1, <2>2, HandsTyped
  <2>4. StoreTyped'
    BY <1>1, <1>11, <2>3 DEF CopiesValue, StoreTyped
  <2>5. kind = "desktop" /\ calls # << >>
    BY <1>1, <1>11 DEF CopiesValue, CallsAreTyped
  <2>6. CallsAreTyped'
    BY <1>1, <1>11, <2>5, Zenon DEF CopiesValue, CallsAreTyped, relay, queue
  <2>7. QED
    BY <2>4, <2>6 DEF TypeOK, StoreTyped, CallsAreTyped
<1>12. CASE SetsValue
  <2>1. applier' \in Hand
    BY <1>2, <1>3, <1>12, HandsTyped DEF SetsValue
  <2>2. StoreTyped'
    BY <1>1, <1>2, <1>12, <2>1 DEF SetsValue, StoreTyped
  <2>3. kind = "desktop" /\ calls # << >>
    BY <1>1, <1>12 DEF SetsValue, CallsAreTyped
  <2>4. CallsAreTyped'
    BY <1>1, <1>12, <2>3, Zenon DEF SetsValue, CallsAreTyped, relay, queue
  <2>5. QED
    BY <2>2, <2>4 DEF TypeOK, StoreTyped, CallsAreTyped
<1>13. CASE CopiesMeta
  <2> DEFINE cp == [v |-> store.v, at |-> calls[1].ans.at, dirty |-> FALSE]
  <2>1. cp \in Entry
    BY <1>2, <1>3, <1>4, <1>13, HandsTyped DEF CopiesMeta
  <2>2. applier' = [Idle EXCEPT !.step = "setMeta", !.copy = cp]
    BY <1>13 DEF CopiesMeta
  <2> HIDE DEF cp
  <2>3. applier' \in Hand
    BY <1>2, <1>3, <2>1, <2>2, HandsTyped
  <2>4. StoreTyped'
    BY <1>1, <1>13, <2>3 DEF CopiesMeta, StoreTyped
  <2>5. kind = "desktop" /\ calls # << >>
    BY <1>1, <1>13 DEF CopiesMeta, CallsAreTyped
  <2>6. CallsAreTyped'
    BY <1>1, <1>13, <2>5, Zenon DEF CopiesMeta, CallsAreTyped, relay, queue
  <2>7. QED
    BY <2>4, <2>6 DEF TypeOK, StoreTyped, CallsAreTyped
<1>14. QED
  BY <1>5, <1>6, <1>7, <1>8, <1>9, <1>10, <1>11, <1>12, <1>13

\* The screen, the relay, the loop's requests, and the mobile.
LEMMA OthersTypeOK ==
  ASSUME TypeOK,
         \/ Pin \/ Reread \/ PersistMobile \/ OtherEditMobile \/ Elsewhere \/ Told \/ Resume
         \/ LoopTakes \/ LoopCalls \/ Checks \/ SetsMeta
         \/ \E i \in DOMAIN calls : Answer(i) \/ ReturnsMobile(i) \/ Fails(i)
  PROVE  TypeOK'
<1>1. StoreTyped /\ CallsAreTyped
  BY TypeParts
<1>2. /\ store \in Entry /\ store.v \in Values /\ clock \in Nat /\ also \in Nat /\ clock + 1 \in Nat
      /\ also + 1 \in Nat /\ applier \in Hand /\ setter \in Hand /\ applier.copy \in Entry
      /\ kind \in {"desktop", "mobile"} /\ ui \in [v : Values, due : BOOLEAN]
      /\ others \in Nat /\ fails \in Nat /\ MaxExtra \in Nat
  BY <1>1, PrefsAssumption DEF StoreTyped, Entry, Hand
<1>3. /\ server \in Stamped /\ calls \in Seq(Call) /\ slot \in SUBSET {"pull", "push"}
      /\ run \in SUBSET {"pull", "push"} /\ told \in BOOLEAN /\ reread \in BOOLEAN /\ raced \in BOOLEAN
      /\ Len(calls) <= (IF kind = "desktop" THEN 1 ELSE MaxCalls) /\ MaxCalls \in Nat \ {0}
      /\ (applier.step # "idle" => kind = "desktop" /\ calls # << >>)
  BY <1>1, PrefsAssumption DEF CallsAreTyped
<1>4. Edit \in Values /\ Fresh \in Values /\ Idle \in Hand /\ Get \in Call /\ Put(store, also) \in Call
  BY <1>2, CallsTyped, HandsTyped DEF Edit, Fresh, Values, Here
<1>5. /\ Len(calls) \in Nat /\ DOMAIN calls = 1..Len(calls) /\ (calls = << >> <=> Len(calls) = 0)
      /\ \A i \in DOMAIN calls : calls[i] \in Call
  BY <1>3, CallsMove
<1>6. /\ << >> \in Seq(Call) /\ Len(<< >>) = 0 /\ <<Get>> \in Seq(Call) /\ Len(<<Get>>) = 1 /\ <<Get>> # << >>
      /\ <<Put(store, also)>> \in Seq(Call) /\ Len(<<Put(store, also)>>) = 1 /\ <<Put(store, also)>> # << >>
  BY <1>4
\* A mobile's next call.
<1>7. ASSUME kind = "mobile", NEW c \in Call, Calls(c)
      PROVE  calls' \in Seq(Call) /\ Len(calls') <= MaxCalls /\ calls' # << >>
  <2>1. Len(calls) < MaxCalls /\ calls' = Append(calls, c)
    BY <1>7 DEF Calls
  <2>2. calls' \in Seq(Call) /\ Len(calls') = Len(calls) + 1
    BY <1>3, <1>7, <2>1, CallsMove
  <2>3. Len(calls') <= MaxCalls /\ Len(calls') # 0
    BY <1>3, <1>5, <2>1, <2>2
  <2>4. QED
    BY <1>6, <2>2, <2>3
<1>8. ASSUME NEW c \in Call PROVE Sent(c) \in Nat
  BY <1>2 DEF Sent
<1>9. CASE Pin
  <2>1. ui' \in [v : Values, due : BOOLEAN]
    BY <1>4, <1>9 DEF Pin
  <2>2. StoreTyped'
    BY <1>1, <1>9, <2>1 DEF Pin, StoreTyped, hands
  <2>3. CallsAreTyped'
    BY <1>1, <1>9, Zenon DEF Pin, CallsAreTyped, relay, queue, hands
  <2>4. QED
    BY <2>2, <2>3 DEF TypeOK, StoreTyped, CallsAreTyped
<1>10. CASE Reread
  <2>1. ui' \in [v : Values, due : BOOLEAN]
    BY <1>2, <1>10 DEF Reread
  <2>2. StoreTyped'
    BY <1>1, <1>10, <2>1 DEF Reread, StoreTyped, hands
  <2>3. reread' \in BOOLEAN
    BY <1>10 DEF Reread
  <2>4. CallsAreTyped'
    BY <1>1, <1>10, <2>3, Zenon DEF Reread, CallsAreTyped, relay, queue, hands
  <2>5. QED
    BY <2>2, <2>4 DEF TypeOK, StoreTyped, CallsAreTyped
<1>11. CASE PersistMobile
  <2>1. store' \in Entry /\ ui' \in [v : Values, due : BOOLEAN]
    BY <1>2, <1>4, <1>11 DEF PersistMobile, Entry
  <2>2. StoreTyped'
    BY <1>1, <1>2, <1>11, <2>1 DEF PersistMobile, StoreTyped, hands
  <2>3. Put(store', also) \in Call
    BY <1>2, <2>1, CallsTyped
  <2>4. kind = "mobile" /\ Calls(Put(store', also))
    BY <1>11 DEF PersistMobile
  <2>5. calls' \in Seq(Call) /\ Len(calls') <= MaxCalls /\ calls' # << >>
    BY <1>7, <2>3, <2>4
  <2>6. CallsAreTyped'
    <3>1. /\ kind' = "mobile" /\ server' = server /\ slot' = slot /\ run' = run /\ told' = told
          /\ reread' = reread /\ raced' = raced /\ applier' = applier /\ kind = "mobile"
      BY <1>11, <2>4 DEF PersistMobile, relay, queue, hands
    <3>2. Len(calls') <= IF kind' = "desktop" THEN 1 ELSE MaxCalls
      BY <2>5, <3>1
    <3>3. QED
      BY <1>3, <2>5, <3>1, <3>2, Zenon DEF CallsAreTyped
  <2>7. QED
    BY <2>2, <2>6 DEF TypeOK, StoreTyped, CallsAreTyped
<1>12. CASE OtherEditMobile
  <2>1. also' \in Nat /\ others' \in Nat /\ others' + fails' <= MaxExtra
    BY <1>2, <1>12 DEF OtherEditMobile
  <2>2. StoreTyped'
    BY <1>1, <1>12, <2>1 DEF OtherEditMobile, StoreTyped, hands
  <2>3. Put(store, also') \in Call
    BY <1>2, <2>1, CallsTyped
  <2>4. kind = "mobile" /\ Calls(Put(store, also'))
    BY <1>12 DEF OtherEditMobile
  <2>5. calls' \in Seq(Call) /\ Len(calls') <= MaxCalls /\ calls' # << >>
    BY <1>7, <2>3, <2>4
  <2>6. CallsAreTyped'
    <3>1. /\ kind' = "mobile" /\ server' = server /\ slot' = slot /\ run' = run /\ told' = told
          /\ reread' = reread /\ raced' = raced /\ applier' = applier /\ kind = "mobile"
      BY <1>12, <2>4 DEF OtherEditMobile, relay, queue, hands
    <3>2. Len(calls') <= IF kind' = "desktop" THEN 1 ELSE MaxCalls
      BY <2>5, <3>1
    <3>3. QED
      BY <1>3, <2>5, <3>1, <3>2, Zenon DEF CallsAreTyped
  <2>7. QED
    BY <2>2, <2>6 DEF TypeOK, StoreTyped, CallsAreTyped
<1>13. CASE Elsewhere
  <2>1. clock' \in Nat /\ server' \in Stamped /\ told' \in BOOLEAN
    <3>1. [by |-> "elsewhere", n |-> clock + 1] \in Values
      BY <1>2 DEF Values
    <3>2. QED
      BY <1>2, <1>3, <1>13, <3>1 DEF Elsewhere, Stamped
  <2>2. StoreTyped'
    BY <1>1, <1>13, <2>1 DEF Elsewhere, StoreTyped, hands
  <2>3. CallsAreTyped'
    BY <1>1, <1>13, <2>1, Zenon DEF Elsewhere, CallsAreTyped, queue, hands
  <2>4. QED
    BY <2>2, <2>3 DEF TypeOK, StoreTyped, CallsAreTyped
<1>14. CASE Told
  <2>1. StoreTyped'
    BY <1>1, <1>14 DEF Told, StoreTyped, hands
  <2>2. /\ kind' = kind /\ server' = server /\ run' = run /\ told' = FALSE /\ reread' = reread
        /\ raced' = raced /\ applier' = applier
    BY <1>14 DEF Told, hands
  <2>3. CASE kind = "desktop"
    <3>1. slot' = slot \cup {"pull"} /\ calls' = calls
      BY <1>14, <2>3 DEF Told
    <3>2. slot' \in SUBSET {"pull", "push"}
      BY <1>3, <3>1
    <3>3. CallsAreTyped'
      BY <1>3, <2>2, <3>1, <3>2, Zenon DEF CallsAreTyped
    <3>4. QED
      BY <2>1, <3>3 DEF TypeOK, StoreTyped, CallsAreTyped
  <2>4. CASE kind = "mobile"
    <3>1. slot' = slot /\ Calls(Get)
      BY <1>14, <2>4 DEF Told
    <3>2. calls' \in Seq(Call) /\ Len(calls') <= MaxCalls /\ calls' # << >>
      BY <1>4, <1>7, <2>4, <3>1
    <3>3. Len(calls') <= IF kind' = "desktop" THEN 1 ELSE MaxCalls
      BY <2>2, <2>4, <3>2
    <3>4. CallsAreTyped'
      BY <1>3, <2>2, <3>1, <3>2, <3>3, Zenon DEF CallsAreTyped
    <3>5. QED
      BY <2>1, <3>4 DEF TypeOK, StoreTyped, CallsAreTyped
  <2>5. QED
    BY <1>2, <2>3, <2>4
<1>15. CASE Resume
  <2>1. StoreTyped'
    BY <1>1, <1>15 DEF Resume, StoreTyped, hands
  <2>2. /\ kind' = kind /\ server' = server /\ run' = run /\ told' = told /\ reread' = reread
        /\ raced' = raced /\ slot' = slot /\ kind = "mobile" /\ Calls(Get) /\ applier' = applier
    BY <1>15 DEF Resume, relay, queue, hands
  <2>3. calls' \in Seq(Call) /\ Len(calls') <= MaxCalls /\ calls' # << >>
    BY <1>4, <1>7, <2>2
  <2>4. Len(calls') <= IF kind' = "desktop" THEN 1 ELSE MaxCalls
    BY <2>2, <2>3
  <2>5. CallsAreTyped'
    BY <1>3, <2>2, <2>3, <2>4, Zenon DEF CallsAreTyped
  <2>6. QED
    BY <2>1, <2>5 DEF TypeOK, StoreTyped, CallsAreTyped
<1>16. CASE LoopTakes
  <2>1. StoreTyped'
    BY <1>1, <1>16 DEF LoopTakes, StoreTyped, hands
  <2>2. slot' \in SUBSET {"pull", "push"} /\ run' \in SUBSET {"pull", "push"}
    BY <1>3, <1>16 DEF LoopTakes
  <2>3. CallsAreTyped'
    BY <1>1, <1>16, <2>2, Zenon DEF LoopTakes, CallsAreTyped, relay, hands
  <2>4. QED
    BY <2>1, <2>3 DEF TypeOK, StoreTyped, CallsAreTyped
<1>17. CASE LoopCalls
  <2>1. StoreTyped'
    BY <1>1, <1>17 DEF LoopCalls, StoreTyped, hands
  <2>2. /\ kind' = kind /\ server' = server /\ told' = told /\ applier' = applier /\ raced' = raced
        /\ slot' = slot /\ calls = << >>
    BY <1>17 DEF LoopCalls, relay, hands
  <2>3. run' \in SUBSET {"pull", "push"} /\ reread' \in BOOLEAN
    BY <1>3, <1>17 DEF LoopCalls
  <2>4. calls' = calls \/ calls' = <<Get>> \/ calls' = <<Put(store, also)>>
    BY <1>17 DEF LoopCalls
  <2>5. calls' \in Seq(Call) /\ Len(calls') <= IF kind = "desktop" THEN 1 ELSE MaxCalls
    <3>1. calls' \in Seq(Call) /\ (Len(calls') = 0 \/ Len(calls') = 1)
      BY <1>3, <1>6, <2>2, <2>4
    <3>2. 0 <= MaxCalls /\ 1 <= MaxCalls
      BY <1>3
    <3>3. Len(calls') <= 1 /\ Len(calls') <= MaxCalls
      <4>1. CASE Len(calls') = 0
        BY <3>2, <4>1
      <4>2. CASE Len(calls') = 1
        BY <3>2, <4>2
      <4>3. QED
        BY <3>1, <4>1, <4>2
    <3>4. QED
      BY <3>1, <3>3
  <2>6. applier.step = "idle"
    BY <1>3, <2>2
  <2>7. CallsAreTyped'
    BY <1>3, <2>2, <2>3, <2>5, <2>6, Zenon DEF CallsAreTyped
  <2>8. QED
    BY <2>1, <2>7 DEF TypeOK, StoreTyped, CallsAreTyped
<1>18. CASE Checks
  <2>1. calls # << >> /\ kind = "desktop" /\ calls[1] \in Call
    <3>1. calls # << >> /\ kind = "desktop"
      BY <1>18 DEF Checks
    <3>2. QED
      BY <1>5, <3>1
  <2>2. /\ kind' = kind /\ server' = server /\ told' = told /\ slot' = slot /\ store' = store /\ ui' = ui
        /\ clock' = clock /\ others' = others /\ fails' = fails /\ setter' = setter
    BY <1>18 DEF Checks, relay
  <2>3. CASE applier' = [Idle EXCEPT !.step = "copyValue"]
                /\ raced' = (raced \/ setter.step # "idle") /\ UNCHANGED <<calls, run, also, reread>>
    <3>1. applier' \in Hand /\ raced' \in BOOLEAN
      BY <1>2, <1>3, <2>3, HandsTyped
    <3>2. StoreTyped'
      BY <1>1, <2>2, <2>3, <3>1 DEF StoreTyped
    <3>3. CallsAreTyped'
      BY <1>3, <2>1, <2>2, <2>3, <3>1, Zenon DEF CallsAreTyped
    <3>4. QED
      BY <3>2, <3>3 DEF TypeOK, StoreTyped, CallsAreTyped
  <2>4. CASE Returns(calls[1]) /\ UNCHANGED <<applier, raced>>
    <3>1. /\ calls' = << >> /\ also' \in Nat /\ run' \in SUBSET {"pull", "push"} /\ reread' = TRUE
          /\ applier' = applier /\ raced' = raced
      BY <1>3, <1>8, <2>1, <2>4 DEF Returns
    <3>2. applier.step = "idle"
      BY <1>18 DEF Checks
    <3>3. StoreTyped'
      BY <1>1, <2>2, <3>1 DEF StoreTyped
    <3>4. calls' \in Seq(Call) /\ Len(calls') <= (IF kind' = "desktop" THEN 1 ELSE MaxCalls)
      BY <1>3, <1>6, <3>1
    <3>5. CallsAreTyped'
      BY <1>3, <2>2, <3>1, <3>2, <3>4, Zenon DEF CallsAreTyped
    <3>6. QED
      BY <3>3, <3>5 DEF TypeOK, StoreTyped, CallsAreTyped
  <2>5. QED
    BY <1>18, <2>3, <2>4 DEF Checks
<1>19. CASE SetsMeta
  <2>1. calls # << >> /\ calls[1] \in Call
    <3>1. calls # << >>
      BY <1>3, <1>19 DEF SetsMeta
    <3>2. QED
      BY <1>5, <3>1
  <2>2. /\ calls' = << >> /\ also' \in Nat /\ run' \in SUBSET {"pull", "push"} /\ reread' = TRUE
        /\ applier' = Idle /\ store' = applier.copy
    BY <1>3, <1>8, <1>19, <2>1 DEF SetsMeta, Returns
  <2>3. StoreTyped'
    BY <1>1, <1>2, <1>4, <1>19, <2>2 DEF SetsMeta, StoreTyped
  <2>4. calls' \in Seq(Call) /\ Len(calls') <= (IF kind = "desktop" THEN 1 ELSE MaxCalls)
    BY <1>3, <1>6, <2>2
  <2>5. kind' = kind /\ server' = server /\ told' = told /\ slot' = slot /\ raced' = raced
    BY <1>19 DEF SetsMeta, relay
  <2>6. applier'.step = "idle"
    BY <2>2 DEF Idle
  <2>7. CallsAreTyped'
    BY <1>3, <2>2, <2>4, <2>5, <2>6, Zenon DEF CallsAreTyped
  <2>8. QED
    BY <2>3, <2>7 DEF TypeOK, StoreTyped, CallsAreTyped
<1>20. ASSUME NEW i \in DOMAIN calls, Answer(i) PROVE TypeOK'
  <2>1. calls[i] \in Call
    BY <1>5
  <2>2. server' \in Stamped
    <3>1. Accept(calls[i]) \in Stamped
      BY <1>2, <1>3, <2>1 DEF Accept, Stamped, Call
    <3>2. QED
      BY <1>3, <1>20, <3>1 DEF Answer
  <2>3. [calls[i] EXCEPT !.done = TRUE, !.ans = server'] \in Call
    BY <1>2, <2>1, <2>2, CallsTyped
  <2>4. calls' = [calls EXCEPT ![i] = [calls[i] EXCEPT !.done = TRUE, !.ans = server']]
    BY <1>20 DEF Answer
  <2>5. calls' \in Seq(Call) /\ Len(calls') = Len(calls)
    BY <1>3, <2>3, <2>4, CallsMove
  <2>6. calls' = << >> <=> calls = << >>
    BY <1>5, <2>5, CallsMove
  <2>7. StoreTyped'
    BY <1>1, <1>20 DEF Answer, StoreTyped, hands
  <2>8. told' \in BOOLEAN
    BY <1>3, <1>20 DEF Answer
  <2>9. /\ kind' = kind /\ slot' = slot /\ run' = run /\ reread' = reread /\ raced' = raced
        /\ applier' = applier
    BY <1>20 DEF Answer, queue, hands
  <2>10. CallsAreTyped'
    BY <1>3, <2>2, <2>5, <2>6, <2>8, <2>9, Zenon DEF CallsAreTyped
  <2>11. QED
    BY <2>7, <2>10 DEF TypeOK, StoreTyped, CallsAreTyped
<1>21. ASSUME NEW i \in DOMAIN calls, ReturnsMobile(i) PROVE TypeOK'
  <2>1. calls[i] \in Call /\ kind = "mobile" /\ calls' = RemoveAt(calls, i)
    BY <1>5, <1>21 DEF ReturnsMobile
  <2>2. store' \in Entry
    BY <1>2, <1>21, <2>1, CallsTyped DEF ReturnsMobile
  <2>3. ui' \in [v : Values, due : BOOLEAN] /\ also' \in Nat
    <3>1. store'.v \in Values
      BY <2>2 DEF Entry
    <3>2. QED
      BY <1>2, <1>8, <1>21, <2>1, <3>1 DEF ReturnsMobile
  <2>4. StoreTyped'
    BY <1>1, <1>21, <2>2, <2>3 DEF ReturnsMobile, StoreTyped, hands
  <2>5. calls' \in Seq(Call) /\ Len(calls') = Len(calls) - 1
    BY <1>3, <2>1, CallsMove
  <2>6. Len(calls') <= IF kind = "desktop" THEN 1 ELSE MaxCalls
    BY <1>3, <1>5, <2>5
  <2>7. /\ kind' = kind /\ server' = server /\ told' = told /\ slot' = slot /\ run' = run
        /\ reread' = reread /\ raced' = raced /\ applier' = applier
    BY <1>21 DEF ReturnsMobile, relay, queue, hands
  <2>8. QED
    <3>1. CASE applier.step = "idle"
      <4>1. CallsAreTyped'
        BY <1>3, <2>5, <2>6, <2>7, <3>1, Zenon DEF CallsAreTyped
      <4>2. QED
        BY <2>4, <4>1 DEF TypeOK, StoreTyped, CallsAreTyped
    <3>2. CASE applier.step # "idle"
      BY <1>3, <2>1, <3>2
    <3>3. QED
      BY <3>1, <3>2
<1>22. ASSUME NEW i \in DOMAIN calls, Fails(i) PROVE TypeOK'
  <2>1. calls' = RemoveAt(calls, i) /\ applier.step = "idle" /\ fails' = fails + 1 /\ others + fails < MaxExtra
    BY <1>22 DEF Fails
  <2>2. calls' \in Seq(Call) /\ Len(calls') = Len(calls) - 1
    BY <1>3, <2>1, CallsMove
  <2>3. Len(calls') <= IF kind = "desktop" THEN 1 ELSE MaxCalls
    BY <1>3, <1>5, <2>2
  <2>4. fails' \in Nat /\ others + fails' <= MaxExtra
    BY <1>2, <2>1
  <2>5. StoreTyped'
    BY <1>1, <1>22, <2>4 DEF Fails, StoreTyped, hands
  <2>6. /\ kind' = kind /\ server' = server /\ told' = told /\ slot' = slot /\ applier' = applier
        /\ reread' = reread /\ raced' = raced
    BY <1>22 DEF Fails, relay, hands
  <2>7. run' \in SUBSET {"pull", "push"}
    BY <1>3, <1>22 DEF Fails
  <2>8. CallsAreTyped'
    BY <1>3, <2>1, <2>2, <2>3, <2>6, <2>7, Zenon DEF CallsAreTyped
  <2>9. QED
    BY <2>5, <2>8 DEF TypeOK, StoreTyped, CallsAreTyped
<1>23. QED
  BY <1>9, <1>10, <1>11, <1>12, <1>13, <1>14, <1>15, <1>16, <1>17, <1>18, <1>19, <1>20, <1>21, <1>22

LEMMA NextTypeOK == TypeOK /\ [Next]_vars => TypeOK'
<1> SUFFICES ASSUME TypeOK, [Next]_vars PROVE TypeOK'
  OBVIOUS
<1>1. CASE Next
  BY <1>1, WritersTypeOK, OthersTypeOK, Zenon DEF Next, Setter, Loop
<1>2. CASE UNCHANGED vars
  BY <1>2, Zenon DEF vars, relay, queue, hands, TypeOK
<1>3. QED
  BY <1>1, <1>2

\* The state keeps its shape: at most one call of a desktop is out, and what the
\* loop applies is the answer to a call that is still there.
THEOREM PrefsTypeCorrect == Spec => []TypeOK
  BY InitTypeOK, NextTypeOK, PTL DEF Spec

-----------------------------------------------------------------------------
(* No edit is undone unsent *)

\* The types of what the invariant speaks of.
LEMMA Fields ==
  ASSUME TypeOK
  PROVE  /\ clock \in Nat /\ store \in Entry /\ server \in Stamped /\ setter \in Hand /\ applier \in Hand
         /\ store.at \in Nat /\ store.v.n \in Nat /\ server.v.n \in Nat /\ server.at \in Nat
         /\ setter.at \in Nat /\ setter.copy.at \in Nat /\ setter.copy.v.n \in Nat
         /\ applier.copy.at \in Nat /\ applier.copy.v.n \in Nat
         /\ store.dirty \in BOOLEAN /\ Top \in Nat
         /\ calls # << >> => /\ calls[1] \in Call /\ calls[1].at \in Nat /\ calls[1].v.n \in Nat
                             /\ calls[1].ans.v.n \in Nat /\ calls[1].ans.at \in Nat
                             /\ 1 \in DOMAIN calls
         /\ kind = "desktop" => \A i \in DOMAIN calls : i = 1 /\ calls # << >>
<1>1. /\ clock \in Nat /\ store \in Entry /\ server \in Stamped /\ setter \in Hand /\ applier \in Hand
      /\ calls \in Seq(Call) /\ Len(calls) <= (IF kind = "desktop" THEN 1 ELSE MaxCalls)
  BY DEF TypeOK
<1>2. /\ store.at \in Nat /\ store.v \in Values /\ store.dirty \in BOOLEAN
      /\ server.v \in Values /\ server.at \in Nat
  BY <1>1 DEF Entry, Stamped
<1>3. setter.at \in Nat /\ setter.copy \in Entry /\ applier.copy \in Entry
  BY <1>1 DEF Hand
<1>4. setter.copy.at \in Nat /\ setter.copy.v \in Values /\ applier.copy.at \in Nat /\ applier.copy.v \in Values
  BY <1>3 DEF Entry
<1>5. \A v \in Values : v.n \in Nat
  BY DEF Values
<1>6. Top \in Nat
  BY <1>1 DEF Top
<1>7. /\ Len(calls) \in Nat /\ DOMAIN calls = 1..Len(calls) /\ \A i \in DOMAIN calls : calls[i] \in Call
      /\ (calls = << >> <=> Len(calls) = 0)
  BY <1>1, CallsMove
<1>8. calls # << >> => calls[1] \in Call /\ 1 \in DOMAIN calls
  BY <1>7
<1>9. \A c \in Call : c.at \in Nat /\ c.v \in Values /\ c.ans.v \in Values /\ c.ans.at \in Nat
  BY DEF Call, Stamped
<1>10. kind = "desktop" => \A i \in DOMAIN calls : i = 1 /\ calls # << >>
  BY <1>1, <1>7
<1>11. QED
  BY <1>1, <1>2, <1>3, <1>4, <1>5, <1>6, <1>8, <1>9, <1>10

\* Nothing the invariant speaks of changes.
LEMMA ApartKept ==
  ASSUME Apart, UNCHANGED <<clock, server, store, setter, applier, calls>>
  PROVE  Apart'
  BY Zenon DEF Apart, StoreOK, SetterOK, CallOK, ApplierOK, Top, Marking

\* A call is over, whatever became of it.
LEMMA ApartCalled ==
  ASSUME Apart, UNCHANGED <<clock, server, store, setter>>, calls' = << >>
  PROVE  Apart'
  BY Zenon DEF Apart, StoreOK, SetterOK, Top

\* The setter's first step.
LEMMA SetterCopiesStep ==
  ASSUME TypeOK, Apart, Persist \/ OtherEdit, ~raced'
  PROVE  Apart'
<1> USE Fields
<1>1. PICK m \in BOOLEAN : SetterCopies(m)
  BY DEF Persist, OtherEdit
<1>2. /\ setter.step = "idle" /\ applier.step = "idle"
      /\ clock' = clock /\ server' = server /\ store' = store /\ applier' = applier /\ calls' = calls
  BY <1>1 DEF SetterCopies, Persist, OtherEdit, relay
<1>3. /\ setter'.step = "setValue" /\ setter'.mine = m
      /\ setter'.copy = IF m THEN [store EXCEPT !.v = Edit] ELSE store
  BY <1>1 DEF SetterCopies
<1>4. /\ setter'.copy.at = store.at /\ setter'.copy.dirty = store.dirty
      /\ m => setter'.copy.v = Edit
      /\ ~m => setter'.copy.v = store.v
  BY <1>3 DEF Entry
<1>5. Top = clock /\ Top' = clock /\ store.v.n <= clock
  BY <1>2, <1>3 DEF Top, Apart, StoreOK
<1>6. Edit.by = Here /\ Edit.n = clock + 1 /\ Edit.n > store.v.n
  BY <1>5 DEF Edit
<1>7. SetterOK'
  BY <1>2, <1>3, <1>4, <1>6 DEF SetterOK
<1>8. StoreOK'
  BY <1>2, <1>5 DEF Apart, StoreOK
<1>9. ~Marking /\ ~Marking'
  BY <1>2, <1>3 DEF Marking
<1>10. calls # << >> => (CallOK(calls[1]) /\ ApplierOK(calls[1]))'
  BY <1>2, <1>3, <1>5, <1>9 DEF Apart, CallOK, ApplierOK
<1>11. QED
  BY <1>2, <1>7, <1>8, <1>10 DEF Apart

\* The setter's other steps.
LEMMA SetterStep ==
  ASSUME TypeOK, Apart, SetterSets \/ Stamps \/ SetterCopiesMeta \/ Marks
  PROVE  Apart'
<1> USE Fields
<1>1. /\ setter.step # "idle" /\ server' = server /\ applier' = applier /\ calls' = calls
      /\ setter.step # "copyValue" /\ StoreOK /\ SetterOK
  BY DEF SetterSets, Stamps, SetterCopiesMeta, Marks, relay, Apart
<1>2. calls # << >> => applier.step = "idle"
  BY <1>1 DEF Apart, ApplierOK
<1>3. ASSUME StoreOK', SetterOK', calls # << >> => CallOK(calls[1])' PROVE Apart'
  <2>1. calls # << >> => ApplierOK(calls[1])'
    BY <1>1, <1>2 DEF ApplierOK
  <2>2. QED
    BY <1>1, <1>3, <2>1, Zenon DEF Apart
<1>4. CASE SetterSets
  <2>1. setter.step = "setValue" /\ store' = setter.copy /\ clock' = clock
    BY <1>4 DEF SetterSets
  <2>2. /\ setter'.step = (IF setter.mine THEN "stamp" ELSE "copyMeta") /\ setter'.mine = setter.mine
    BY <1>4 DEF SetterSets, Idle
  <2>3. /\ Top = clock /\ Top' = (IF setter.mine THEN clock + 1 ELSE clock)
        /\ Top <= Top' /\ (Marking' <=> setter.mine) /\ ~Marking
    BY <2>1, <2>2 DEF Top, Marking
  <2>4. /\ setter.copy.at = store.at /\ setter.copy.dirty = store.dirty
        /\ setter.mine => setter.copy.v.n <= clock + 1
        /\ ~setter.mine => setter.copy.v = store.v
    BY <1>1, <2>1 DEF SetterOK
  <2>5. StoreOK'
    BY <1>1, <2>1, <2>3, <2>4 DEF StoreOK
  <2>6. SetterOK'
    BY <2>2 DEF SetterOK
  <2>7. calls # << >> => CallOK(calls[1])'
    BY <1>1, <2>1, <2>3, <2>4 DEF Apart, CallOK
  <2>8. QED
    BY <1>3, <2>5, <2>6, <2>7
<1>5. CASE Stamps
  <2>1. setter.step = "stamp" /\ store' = store /\ clock' = clock + 1 /\ setter.mine
    BY <1>1, <1>5 DEF Stamps, SetterOK
  <2>2. setter'.step = "copyMeta" /\ setter'.mine = setter.mine /\ setter'.at > store.at
    BY <1>5 DEF Stamps, Hand
  <2>3. Top = clock + 1 /\ Top' = clock + 1 /\ Marking /\ Marking'
    BY <2>1, <2>2 DEF Top, Marking
  <2>4. StoreOK'
    BY <1>1, <2>1, <2>3 DEF StoreOK
  <2>5. SetterOK'
    BY <2>1, <2>2 DEF SetterOK
  <2>6. calls # << >> => CallOK(calls[1])'
    BY <1>1, <2>1, <2>3 DEF Apart, CallOK
  <2>7. QED
    BY <1>3, <2>4, <2>5, <2>6
<1>6. CASE SetterCopiesMeta
  <2>1. setter.step = "copyMeta" /\ store' = store /\ clock' = clock
    BY <1>6 DEF SetterCopiesMeta
  <2>2. /\ setter'.step = "setMeta" /\ setter'.mine = setter.mine
        /\ setter'.copy = IF setter.mine THEN [v |-> store.v, at |-> setter.at, dirty |-> TRUE] ELSE store
    BY <1>6 DEF SetterCopiesMeta, Hand
  <2>3. /\ setter'.copy.v = store.v /\ (setter.mine => setter'.copy.at > store.at)
        /\ (~setter.mine => setter'.copy.at = store.at /\ setter'.copy.dirty = store.dirty)
    <3>1. CASE setter.mine
      <4>1. setter'.copy = [v |-> store.v, at |-> setter.at, dirty |-> TRUE]
        BY <2>2, <3>1
      <4>2. setter.at > store.at
        BY <1>1, <2>1, <3>1 DEF SetterOK
      <4>3. QED
        BY <3>1, <4>1, <4>2
    <3>2. CASE ~setter.mine
      BY <2>2, <3>2
    <3>3. QED
      BY <3>1, <3>2
  <2>4. Top = clock /\ Top' = clock /\ (Marking' <=> Marking)
    BY <2>1, <2>2 DEF Top, Marking
  <2>5. StoreOK'
    BY <1>1, <2>1, <2>4 DEF StoreOK
  <2>6. SetterOK'
    BY <2>1, <2>2, <2>3 DEF SetterOK
  <2>7. calls # << >> => CallOK(calls[1])'
    BY <1>1, <2>1, <2>4 DEF Apart, CallOK
  <2>8. QED
    BY <1>3, <2>5, <2>6, <2>7
<1>7. CASE Marks
  <2>1. setter.step = "setMeta" /\ store' = setter.copy /\ clock' = clock /\ setter'.step = "idle" /\ ~setter'.mine
    BY <1>7 DEF Marks, Idle
  <2>2. /\ setter.copy.v = store.v /\ (setter.mine => setter.copy.at > store.at)
        /\ (~setter.mine => setter.copy.at = store.at /\ setter.copy.dirty = store.dirty)
    BY <1>1, <2>1 DEF SetterOK
  <2>3. Top = clock /\ Top' = clock /\ (Marking <=> setter.mine) /\ ~Marking'
    BY <2>1 DEF Top, Marking
  <2>4. StoreOK'
    BY <1>1, <2>1, <2>2, <2>3 DEF StoreOK
  <2>5. SetterOK'
    BY <2>1 DEF SetterOK
  <2>6. calls # << >> => CallOK(calls[1])'
    BY <1>1, <2>1, <2>2, <2>3 DEF Apart, CallOK
  <2>7. QED
    BY <1>3, <2>4, <2>5, <2>6
<1>8. QED
  BY <1>4, <1>5, <1>6, <1>7

\* The loop's steps on an answer.
LEMMA ApplierStep ==
  ASSUME TypeOK, Apart, kind = "desktop", Checks \/ CopiesValue \/ SetsValue \/ CopiesMeta \/ SetsMeta, ~raced'
  PROVE  Apart'
<1> USE Fields
<1>1. /\ clock' = clock /\ server' = server /\ setter' = setter /\ calls # << >>
      /\ StoreOK /\ SetterOK /\ CallOK(calls[1]) /\ ApplierOK(calls[1])
  BY DEF Checks, CopiesValue, SetsValue, CopiesMeta, SetsMeta, relay, Apart, TypeOK
<1>2. Top' = Top /\ Marking' = Marking
  BY <1>1 DEF Top, Marking
<1>3. CASE Checks
  <2>1. store' = store /\ calls[1].done /\ calls # << >> /\ applier.step = "idle"
    BY <1>3 DEF Checks
  <2>2. CASE calls' = << >>
    BY <1>1, <2>1, <2>2, ApartCalled
  <2>3. CASE calls' # << >>
    <3>1. /\ applier' = [Idle EXCEPT !.step = "copyValue"] /\ raced' = (raced \/ setter.step # "idle")
          /\ calls' = calls
          /\ IF calls[1].kind = "get" THEN Newer(store, calls[1].ans) ELSE Untouched(store, calls[1])
      BY <1>3, <2>3 DEF Checks, Returns
    <3>2. setter.step = "idle" /\ applier'.step = "copyValue"
      BY <3>1 DEF Idle
    <3>3. IF calls[1].kind = "get" THEN ~store.dirty ELSE store.at = calls[1].at
      BY <3>1 DEF Newer, Untouched
    <3>4. ApplierOK(calls[1])'
      BY <1>1, <2>1, <3>1, <3>2, <3>3 DEF ApplierOK
    <3>5. StoreOK' /\ SetterOK'
      BY <1>1, <1>2, <2>1 DEF StoreOK, SetterOK
    <3>6. CallOK(calls[1])'
      BY <1>1, <1>2, <2>1, <3>1, <3>2 DEF CallOK
    <3>7. QED
      BY <3>4, <3>5, <3>6 DEF Apart
  <2>4. QED
    BY <2>2, <2>3
<1>4. CASE CopiesValue
  <2>1. store' = store /\ calls' = calls /\ applier.step = "copyValue" /\ applier'.step = "setValue"
        /\ applier'.copy = [store EXCEPT !.v = calls[1].ans.v]
    BY <1>4 DEF CopiesValue, Idle
  <2>2. applier'.copy.v = calls[1].ans.v /\ applier'.copy.at = store.at /\ applier'.copy.dirty = store.dirty
    BY <2>1 DEF Entry
  <2>3. ApplierOK(calls[1])'
    BY <1>1, <2>1, <2>2 DEF ApplierOK
  <2>4. StoreOK' /\ SetterOK'
    BY <1>1, <1>2, <2>1 DEF StoreOK, SetterOK
  <2>5. CallOK(calls[1])'
    BY <1>1, <1>2, <2>1 DEF CallOK
  <2>6. QED
    BY <2>3, <2>4, <2>5 DEF Apart
<1>5. CASE SetsValue
  <2>1. store' = applier.copy /\ calls' = calls /\ applier.step = "setValue" /\ applier'.step = "copyMeta"
    BY <1>5 DEF SetsValue, Idle
  <2>2. /\ applier.copy.v = calls[1].ans.v /\ applier.copy.at = store.at /\ applier.copy.dirty = store.dirty
        /\ setter.step = "idle" /\ calls[1].done
    BY <1>1, <2>1 DEF ApplierOK
  <2>3. ApplierOK(calls[1])'
    BY <1>1, <2>1, <2>2 DEF ApplierOK
  <2>4. StoreOK' /\ SetterOK'
    BY <1>1, <1>2, <2>1, <2>2 DEF StoreOK, SetterOK, CallOK
  <2>5. CallOK(calls[1])'
    BY <1>1, <1>2, <2>1, <2>2 DEF CallOK
  <2>6. QED
    BY <2>3, <2>4, <2>5 DEF Apart
<1>6. CASE CopiesMeta
  <2>1. store' = store /\ calls' = calls /\ applier.step = "copyMeta" /\ applier'.step = "setMeta"
        /\ applier'.copy = [v |-> store.v, at |-> calls[1].ans.at, dirty |-> FALSE]
    BY <1>6 DEF CopiesMeta, Idle
  <2>2. applier'.copy.v = store.v /\ ~applier'.copy.dirty
    BY <2>1
  <2>3. ApplierOK(calls[1])'
    BY <1>1, <2>1, <2>2 DEF ApplierOK
  <2>4. StoreOK' /\ SetterOK'
    BY <1>1, <1>2, <2>1 DEF StoreOK, SetterOK
  <2>5. CallOK(calls[1])'
    BY <1>1, <1>2, <2>1 DEF CallOK
  <2>6. QED
    BY <2>3, <2>4, <2>5 DEF Apart
<1>7. CASE SetsMeta
  <2>1. store' = applier.copy /\ calls' = << >> /\ applier.step = "setMeta" /\ applier'.step = "idle"
    BY <1>7 DEF SetsMeta, Returns, Idle
  <2>2. applier.copy.v = store.v /\ ~applier.copy.dirty /\ setter.step = "idle"
    BY <1>1, <2>1 DEF ApplierOK
  <2>3. StoreOK' /\ SetterOK'
    BY <1>1, <1>2, <2>1, <2>2 DEF StoreOK, SetterOK
  <2>4. QED
    BY <2>1, <2>3 DEF Apart
<1>8. QED
  BY <1>3, <1>4, <1>5, <1>6, <1>7

\* The loop makes a call of the store as it is.
LEMMA LoopCallsStep ==
  ASSUME TypeOK, Apart, LoopCalls
  PROVE  Apart'
<1> USE Fields
<1>1. /\ clock' = clock /\ server' = server /\ setter' = setter /\ store' = store /\ applier' = applier
      /\ calls = << >> /\ applier.step = "idle" /\ StoreOK /\ SetterOK
  BY DEF LoopCalls, relay, hands, Apart, TypeOK
<1>2. Top' = Top /\ Marking' = Marking
  BY <1>1 DEF Top, Marking
<1>3. StoreOK' /\ SetterOK'
  BY <1>1, <1>2 DEF StoreOK, SetterOK
<1>4. calls' = << >> \/ calls' = <<Get>> \/ calls' = <<Put(store, also)>>
  BY <1>1 DEF LoopCalls
<1>5. ASSUME NEW c, calls' = <<c>>, c.v.n <= Top, c.ans.v.n <= Top,
             c.kind = "put" => c.at <= store.at /\ (~c.item => c.at = 0) /\ (c.item => store.v = c.v)
      PROVE  Apart'
  <2>1. calls'[1] = c /\ calls' # << >>
    BY <1>5
  <2>2. CallOK(c)'
    BY <1>1, <1>2, <1>5 DEF CallOK
  <2>3. ApplierOK(c)'
    BY <1>1 DEF ApplierOK
  <2>4. QED
    BY <1>3, <2>1, <2>2, <2>3, Zenon DEF Apart
<1>6. Blank.n = 0 /\ 0 <= Top
  BY DEF Blank
<1>7. CASE calls' = <<Get>>
  BY <1>5, <1>6, <1>7 DEF Get
<1>8. CASE calls' = <<Put(store, also)>>
  <2> DEFINE c == Put(store, also)
  <2>1. /\ c.kind = "put" /\ c.item = store.dirty /\ c.v = (IF store.dirty THEN store.v ELSE Blank)
        /\ c.at = (IF store.dirty THEN store.at ELSE 0) /\ c.ans.v = Blank
    BY DEF Put, Get
  <2> HIDE DEF c
  <2>2. c.v.n <= Top /\ c.ans.v.n <= Top
    BY <1>1, <1>6, <2>1 DEF StoreOK
  <2>3. c.at <= store.at /\ (~c.item => c.at = 0) /\ (c.item => store.v = c.v)
    BY <2>1
  <2>4. QED
    BY <1>5, <1>8, <2>1, <2>2, <2>3 DEF c
<1>9. CASE calls' = << >>
  BY <1>3, <1>9, Zenon DEF Apart
<1>10. QED
  BY <1>4, <1>7, <1>8, <1>9

\* The relay acts: no edit it has is newer than the newest.
LEMMA RelayStep ==
  ASSUME TypeOK, Apart, kind = "desktop", Elsewhere \/ \E i \in DOMAIN calls : Answer(i)
  PROVE  Apart'
<1> USE Fields
<1>1. StoreOK /\ SetterOK /\ (calls # << >> => CallOK(calls[1]) /\ ApplierOK(calls[1]))
  BY DEF Apart
<1>2. CASE Elsewhere
  <2>1. /\ setter' = setter /\ store' = store /\ applier' = applier /\ calls' = calls
        /\ \/ clock' = clock + 1 /\ server'.v.n = clock + 1
           \/ clock' = clock /\ server' = server
    BY <1>2 DEF Elsewhere, hands
  <2>2. clock' >= clock /\ Top' >= Top /\ server'.v.n <= Top' /\ Top' \in Nat /\ clock' \in Nat
    BY <1>1, <2>1 DEF Top, StoreOK
  <2>3. StoreOK'
    BY <1>1, <2>1, <2>2 DEF StoreOK
  <2>4. SetterOK'
    BY <1>1, <2>1, <2>2 DEF SetterOK
  <2>5. calls # << >> => CallOK(calls[1])' /\ ApplierOK(calls[1])'
    <3>1. Marking' = Marking
      BY <2>1 DEF Marking
    <3>2. SUFFICES ASSUME calls # << >> PROVE CallOK(calls[1])' /\ ApplierOK(calls[1])'
      OBVIOUS
    <3>3. calls[1].v.n <= Top' /\ calls[1].ans.v.n <= Top'
      BY <1>1, <2>2, <3>2 DEF CallOK
    <3>4. CallOK(calls[1])'
      BY <1>1, <2>1, <3>1, <3>2, <3>3 DEF CallOK
    <3>5. ApplierOK(calls[1])'
      BY <1>1, <2>1, <3>2 DEF ApplierOK
    <3>6. QED
      BY <3>4, <3>5
  <2>6. QED
    BY <2>1, <2>3, <2>4, <2>5, Zenon DEF Apart
<1>3. ASSUME NEW i \in DOMAIN calls, Answer(i) PROVE Apart'
  <2>1. i = 1 /\ calls # << >>
    OBVIOUS
  <2>2. /\ setter' = setter /\ store' = store /\ applier' = applier /\ clock' = clock /\ ~calls[1].done
        /\ calls' = [calls EXCEPT ![1] = [calls[1] EXCEPT !.done = TRUE, !.ans = server']]
        /\ server' = IF calls[1].kind = "put" THEN Accept(calls[1]) ELSE server
    BY <1>3, <2>1 DEF Answer, hands
  <2> DEFINE c == [calls[1] EXCEPT !.done = TRUE, !.ans = server']
  <2>3. calls' # << >> /\ calls'[1] = c
    <3>1. TypeOK'
      BY <1>3, OthersTypeOK
    <3>2. calls'[1] = c
      BY <2>1, <2>2
    <3>3. DOMAIN calls' = DOMAIN calls
      BY <2>2
    <3>4. calls' # << >>
      BY <2>1, <3>3
    <3>5. QED
      BY <3>2, <3>4
  <2>4. Top' = Top /\ Marking' = Marking
    BY <2>2 DEF Top, Marking
  <2>5. server'.v.n <= Top
    <3>1. server' = server \/ server'.v = calls[1].v
      BY <2>2 DEF Accept
    <3>2. QED
      BY <1>1, <2>1, <3>1 DEF StoreOK, CallOK
  <2>6. /\ c.kind = calls[1].kind /\ c.item = calls[1].item /\ c.at = calls[1].at /\ c.v = calls[1].v
        /\ c.ans = server'
    BY <2>1 DEF Call
  <2> HIDE DEF c
  <2>7. applier.step = "idle"
    BY <1>1, <2>1, <2>2 DEF ApplierOK
  <2>8. CallOK(calls[1])' /\ ApplierOK(calls[1])'
    <3>1. calls'[1].ans.v.n <= Top
      BY <2>3, <2>5, <2>6
    <3>2. CallOK(calls[1])'
      BY <1>1, <2>1, <2>2, <2>3, <2>4, <2>6, <3>1 DEF CallOK
    <3>3. ApplierOK(calls[1])'
      BY <2>2, <2>7 DEF ApplierOK
    <3>4. QED
      BY <3>2, <3>3
  <2>9. StoreOK' /\ SetterOK'
    BY <1>1, <2>2, <2>4, <2>5 DEF StoreOK, SetterOK
  <2>10. QED
    BY <2>3, <2>8, <2>9, Zenon DEF Apart
<1>4. QED
  BY <1>2, <1>3

\* What a setter and the loop see of each other stays in order, step by step,
\* until they overlap.
LEMMA NextPrefs == PrefsInv /\ [Next]_vars => PrefsInv'
<1> SUFFICES ASSUME PrefsInv, [Next]_vars PROVE PrefsInv'
  OBVIOUS
<1>1. TypeOK /\ TypeOK'
  BY NextTypeOK DEF PrefsInv
<1>2. SUFFICES ASSUME kind' = "desktop", ~raced' PROVE Apart'
  BY <1>1 DEF PrefsInv
<1>3. kind' = kind /\ (raced => raced')
  <2>1. CASE Pin \/ Reread \/ PersistMobile \/ OtherEditMobile \/ Elsewhere \/ Told \/ Resume
    BY <2>1 DEF Pin, Reread, PersistMobile, OtherEditMobile, Elsewhere, Told, Resume
  <2>2. CASE Persist \/ OtherEdit
    BY <2>2 DEF Persist, OtherEdit, SetterCopies
  <2>3. CASE SetterSets \/ Stamps \/ SetterCopiesMeta \/ Marks
    BY <2>3 DEF SetterSets, Stamps, SetterCopiesMeta, Marks
  <2>4. CASE Checks
    <3>1. kind' = kind
      BY <2>4 DEF Checks
    <3>2. CASE raced' = raced
      BY <3>1, <3>2
    <3>3. CASE raced' = (raced \/ setter.step # "idle")
      BY <3>1, <3>3
    <3>4. QED
      BY <2>4, <3>2, <3>3 DEF Checks
  <2>5. CASE LoopTakes \/ LoopCalls \/ CopiesValue \/ SetsValue \/ CopiesMeta \/ SetsMeta
    BY <2>5 DEF LoopTakes, LoopCalls, CopiesValue, SetsValue, CopiesMeta, SetsMeta
  <2>6. CASE \E i \in DOMAIN calls : Answer(i) \/ ReturnsMobile(i) \/ Fails(i)
    BY <2>6 DEF Answer, ReturnsMobile, Fails
  <2>7. CASE UNCHANGED vars
    BY <2>7 DEF vars
  <2>8. QED
    BY <2>1, <2>2, <2>3, <2>4, <2>5, <2>6, <2>7 DEF Next, Setter, Loop
<1>4. Apart /\ kind = "desktop"
  BY <1>2, <1>3 DEF PrefsInv
<1>5. CASE Persist \/ OtherEdit
  BY <1>1, <1>2, <1>4, <1>5, SetterCopiesStep
<1>6. CASE SetterSets \/ Stamps \/ SetterCopiesMeta \/ Marks
  BY <1>1, <1>4, <1>6, SetterStep
<1>7. CASE Checks \/ CopiesValue \/ SetsValue \/ CopiesMeta \/ SetsMeta
  BY <1>1, <1>2, <1>4, <1>7, ApplierStep
<1>8. CASE LoopCalls
  BY <1>1, <1>4, <1>8, LoopCallsStep
<1>9. CASE Elsewhere \/ \E i \in DOMAIN calls : Answer(i)
  BY <1>1, <1>4, <1>9, RelayStep
<1>10. CASE Pin \/ Reread \/ LoopTakes
  BY <1>4, <1>10, ApartKept DEF Pin, Reread, LoopTakes, relay, hands
<1>11. CASE Told
  BY <1>4, <1>11, ApartKept DEF Told, hands
<1>12. CASE PersistMobile \/ OtherEditMobile \/ Resume \/ \E i \in DOMAIN calls : ReturnsMobile(i)
  BY <1>4, <1>12 DEF PersistMobile, OtherEditMobile, Resume, ReturnsMobile
<1>13. ASSUME NEW i \in DOMAIN calls, Fails(i) PROVE Apart'
  <2>1. calls' = RemoveAt(calls, i) /\ UNCHANGED <<clock, server, store, setter>>
    BY <1>13 DEF Fails, relay, hands
  <2>2. calls \in Seq(Call) /\ Len(calls) <= 1
    BY <1>1, <1>4 DEF TypeOK
  <2>3. calls' \in Seq(Call) /\ Len(calls') = Len(calls) - 1 /\ i \in 1..Len(calls) /\ Len(calls) \in Nat
    BY <2>1, <2>2, CallsMove
  <2>4. Len(calls') = 0
    BY <2>2, <2>3
  <2>5. calls' = << >>
    BY <2>3, <2>4, CallsMove
  <2>6. QED
    BY <1>4, <2>1, <2>5, ApartCalled
<1>14. CASE UNCHANGED vars
  BY <1>4, <1>14, ApartKept DEF vars, relay, hands
<1>15. QED
  BY <1>5, <1>6, <1>7, <1>8, <1>9, <1>10, <1>11, <1>12, <1>13, <1>14, Zenon DEF Next, Setter, Loop

LEMMA InitPrefs == Init => PrefsInv
<1> SUFFICES ASSUME Init PROVE PrefsInv
  OBVIOUS
<1>1. TypeOK
  BY InitTypeOK
<1>2. StoreOK /\ SetterOK
  BY DEF Init, StoreOK, SetterOK, NoEntry, Blank, Idle, Top
<1>3. calls = << >>
  BY DEF Init
<1>4. QED
  BY <1>1, <1>2, <1>3 DEF PrefsInv, Apart

\* Until a setter of the desktop overlaps the loop, the setter's copy is the
\* configuration with its change in it, what the loop's check found is still so
\* when it writes, and a key that kept the stamp a PUT carried kept its value.
THEOREM PrefsInvariance == Spec => []PrefsInv
  BY InitPrefs, NextPrefs, PTL DEF Spec

\* Which steps replace the value of a desktop's store.
LEMMA StoreChanges ==
  ASSUME PrefsInv, [Next]_vars, kind = "desktop", ~raced', store.dirty, store'.v # store.v
  PROVE  \/ store'.v.by = Here /\ store'.v.n > store.v.n
         \/ \E i \in DOMAIN calls : LET c == calls[i] IN
              c.kind = "put" /\ c.done /\ c.item /\ c.v = store.v
<1>1. TypeOK
  BY DEF PrefsInv
<1>2. store' # store
  OBVIOUS
<1>3. SetterSets \/ Marks \/ SetsValue \/ SetsMeta
  BY <1>2, Zenon DEF Next, Setter, Loop, vars, Pin, Reread, PersistMobile, OtherEdit, OtherEditMobile, Elsewhere,
     Told, Resume, Persist, Stamps, SetterCopiesMeta, LoopTakes, LoopCalls, Checks,
     CopiesValue, CopiesMeta, Answer, ReturnsMobile, Fails
<1>4. ~raced
  BY <1>3 DEF SetterSets, Marks, SetsValue, SetsMeta
<1>5. StoreOK /\ SetterOK /\ (calls # << >> => CallOK(calls[1]) /\ ApplierOK(calls[1]))
  BY <1>4 DEF PrefsInv, Apart
<1>6. CASE SetterSets
  BY <1>5, <1>6 DEF SetterSets, SetterOK
<1>7. CASE Marks
  BY <1>5, <1>7 DEF Marks, SetterOK
<1>8. CASE SetsValue
  <2>1. applier.step = "setValue" /\ calls # << >>
    BY <1>1, <1>8 DEF SetsValue, TypeOK
  <2>2. CallOK(calls[1]) /\ ApplierOK(calls[1]) /\ 1 \in DOMAIN calls /\ calls[1] \in Call /\ store.at \in Nat
    BY <1>1, <1>5, <2>1, Fields
  <2>3. calls[1].kind = "put" /\ calls[1].done /\ store.at = calls[1].at /\ setter.step = "idle"
    <3>1. calls[1].kind \in {"get", "put"}
      BY <2>2 DEF Call
    <3>2. QED
      BY <2>1, <2>2, <3>1 DEF ApplierOK
  <2>4. store.at > 0
    BY <1>5 DEF StoreOK
  <2>5. calls[1].item
    BY <2>2, <2>3, <2>4 DEF CallOK
  <2>6. calls[1].v = store.v
    BY <2>1, <2>2, <2>3, <2>5 DEF CallOK, Marking
  <2>7. QED
    BY <2>2, <2>3, <2>5, <2>6
<1>9. CASE SetsMeta
  <2>1. applier.step = "setMeta" /\ calls # << >>
    BY <1>1, <1>9 DEF SetsMeta, TypeOK
  <2>2. QED
    BY <1>5, <1>9, <2>1 DEF SetsMeta, ApplierOK
<1>10. QED
  BY <1>3, <1>6, <1>7, <1>8, <1>9

\* The check of sync.go, and the loop's serial calls, do what they are there
\* for: an edit of a desktop made at any time, while a PUT or a pull is on its
\* way too, gives way only to a later edit or to the answer to the PUT that
\* carried it, as long as no setter overlapped the loop's own writes.
THEOREM NoEditUndoneUnsent == Spec => UnsentEditStays
<1>1. PrefsInv /\ [Next]_vars =>
        [kind = "desktop" /\ ~raced' /\ store.dirty /\ store'.v # store.v =>
           \/ store'.v.by = Here /\ store'.v.n > store.v.n
           \/ \E i \in DOMAIN calls : LET c == calls[i] IN
                c.kind = "put" /\ c.done /\ c.item /\ c.v = store.v]_vars
  BY StoreChanges
<1>2. QED
  BY <1>1, PrefsInvariance, PTL DEF Spec, UnsentEditStays
=============================================================================
