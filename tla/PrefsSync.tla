----------------------------- MODULE PrefsSync -----------------------------
(***************************************************************************)
(* One synchronised preference (the pinned sessions) on one device of an    *)
(* account: the screen's copy with its debounced write                      *)
(* (composables/useSessionPins.ts), the device's store with its sync        *)
(* engine, and the relay, which keeps the last writer's value and tells     *)
(* every device of a change.  The account's other devices reach this one    *)
(* only through the relay: they are the action Elsewhere.                   *)
(*                                                                          *)
(* A mobile runs lib/prefsSync.ts, whose calls overlap but whose turns do   *)
(* not; a desktop runs internal/prefssync behind the serial loop of         *)
(* desktop/prefs_sync_loop.go, beside the setters of app.go, which change   *)
(* the same configuration on goroutines of their own.  Each change reads    *)
(* the whole configuration (Get) and writes it back (Set), with no lock     *)
(* over both.  A value is who stored it and when.  All share one clock;     *)
(* only the order of stamps and arrivals matters, so it advances with each  *)
(* stamp.  Of the other preferences there is how many are dirty.            *)
(***************************************************************************)
EXTENDS Naturals, Sequences, SequencesExt

CONSTANTS
    MaxEdits,    \* bound: edits of this preference, here and elsewhere
    MaxCalls,    \* bound: calls of a mobile in flight
    MaxExtra     \* bound: edits of other preferences and calls that fail

ASSUME PrefsAssumption == {MaxEdits, MaxExtra} \subseteq Nat /\ MaxCalls \in Nat \ {0}

Here == "here"
Blank == [by |-> "nobody", n |-> 0]
Fresh == [by |-> "nobody", n |-> 1]    \* on screen only
NoEntry == [v |-> Blank, at |-> 0, dirty |-> FALSE]
Idle == [step |-> "idle", mine |-> FALSE, copy |-> NoEntry, at |-> 0]

VARIABLES
    kind,       \* "desktop" or "mobile"
    clock, others, fails,
    server,     \* user_preferences: [v, at]
    told,       \* PREFS_CHANGED is on its way
    store,      \* the value with its Meta: [v, at, dirty]
    also,       \* other preferences that are dirty
    setter,     \* updatePref on a desktop: [step, mine, copy, at]
    applier,    \* the loop, applying an answer: the same
    raced,      \* history: setter and applier changed the store at once
    ui,         \* pinnedIds, and whether flushHandle is set
    calls,      \* GET and PUT requests in flight
    slot, run,  \* the loop's queued request and what is left of the one it runs
    reread      \* "prefs:changed" was emitted and not yet handled

relay == <<server, told>>
queue == <<slot, run>>
hands == <<setter, applier>>
vars == <<kind, clock, others, fails, relay, store, also, hands, raced, ui, calls, queue, reread>>

\* A device pulls when it starts.
Init ==
    /\ kind \in {"desktop", "mobile"}
    /\ clock = 0 /\ others = 0 /\ fails = 0
    /\ server = [v |-> Blank, at |-> 0] /\ told = TRUE
    /\ store = NoEntry /\ also = 0
    /\ setter = Idle /\ applier = Idle /\ raced = FALSE
    /\ ui = [v |-> Blank, due |-> FALSE]
    /\ calls = << >> /\ slot = {} /\ run = {} /\ reread = FALSE

Get == [kind |-> "get", item |-> FALSE, v |-> Blank, at |-> 0, also |-> 0,
        done |-> FALSE, ans |-> [v |-> Blank, at |-> 0]]

\* The request push makes: the key is sent when it is dirty, and so are k others.
Put(s, k) == [Get EXCEPT !.kind = "put", !.item = s.dirty, !.also = k,
                         !.v = IF s.dirty THEN s.v ELSE Blank, !.at = IF s.dirty THEN s.at ELSE 0]

-----------------------------------------------------------------------------
(* The screen and the setters *)

\* pin, unpin, rename: a new set on screen, and schedulePersist.
Pin ==
    /\ clock < MaxEdits
    /\ ui' = [v |-> Fresh, due |-> TRUE]
    /\ UNCHANGED <<kind, clock, others, fails, relay, store, also, hands, raced, calls, queue, reread>>

\* "prefs:changed" on a desktop: readFromPlatform replaces the set on screen.
Reread ==
    /\ reread /\ reread' = FALSE
    /\ ui' = [ui EXCEPT !.v = store.v]
    /\ UNCHANGED <<kind, clock, others, fails, relay, store, also, hands, raced, calls, queue>>

Edit == [by |-> Here, n |-> clock + 1]

\* updatePref copies the configuration and changes the copy; mine: this
\* preference, and not another one.  Setters are called one after another.
SetterCopies(mine) ==
    /\ kind = "desktop" /\ setter.step = "idle"
    /\ setter' = [step |-> "setValue", mine |-> mine, at |-> 0,
                  copy |-> IF mine THEN [store EXCEPT !.v = Edit] ELSE store]
    /\ raced' = (raced \/ applier.step # "idle")

\* The timer of schedulePersist, and flushNow, on a desktop: setPins.
Persist ==
    /\ ui.due /\ clock < MaxEdits /\ SetterCopies(TRUE)
    /\ ui' = [v |-> Edit, due |-> FALSE]
    /\ UNCHANGED <<kind, clock, others, fails, relay, store, also, applier, calls, queue, reread>>

\* An edit of another preference on a desktop.
OtherEdit ==
    /\ others + fails < MaxExtra /\ others' = others + 1 /\ SetterCopies(FALSE)
    /\ UNCHANGED <<kind, clock, fails, relay, store, also, applier, ui, calls, queue, reread>>

\* updatePref replaces the configuration by its copy.
SetterSets ==
    /\ setter.step = "setValue"
    /\ store' = setter.copy
    /\ setter' = [Idle EXCEPT !.step = IF setter.mine THEN "stamp" ELSE "copyMeta", !.mine = setter.mine]
    /\ UNCHANGED <<kind, clock, others, fails, relay, also, applier, raced, ui, calls, queue, reread>>

\* MarkDirty: the clock's time, made later than the stamp the key has.
Stamps ==
    /\ setter.step = "stamp"
    /\ clock' = clock + 1
    /\ setter' = [setter EXCEPT !.step = "copyMeta",
                                !.at = IF clock < store.at THEN store.at + 1 ELSE clock + 1]
    /\ UNCHANGED <<kind, others, fails, relay, store, also, applier, raced, ui, calls, queue, reread>>

\* WriteMeta copies the configuration and changes the meta of the setter's key.
SetterCopiesMeta ==
    /\ setter.step = "copyMeta"
    /\ setter' = [setter EXCEPT !.step = "setMeta", !.at = 0,
                                !.copy = IF setter.mine
                                         THEN [v |-> store.v, at |-> setter.at, dirty |-> TRUE] ELSE store]
    /\ UNCHANGED <<kind, clock, others, fails, relay, store, also, applier, raced, ui, calls, queue, reread>>

\* WriteMeta replaces the configuration, and a push is asked of the loop
\* (enqueueSync).
Marks ==
    /\ setter.step = "setMeta"
    /\ store' = setter.copy /\ setter' = Idle
    /\ also' = IF setter.mine THEN also ELSE also + 1
    /\ slot' = slot \cup {"push"}
    /\ UNCHANGED <<kind, clock, others, fails, relay, applier, raced, ui, calls, run, reread>>

\* A call of a mobile, sent at once.
Calls(c) == Len(calls) < MaxCalls /\ calls' = Append(calls, c)

\* Both edits on a mobile, each in one turn: setPins writes the store, and
\* notifyLocalChange marks the key dirty and pushes every dirty key.
PersistMobile ==
    /\ kind = "mobile" /\ ui.due /\ clock < MaxEdits
    /\ clock' = clock + 1
    /\ store' = [v |-> Edit, at |-> clock + 1, dirty |-> TRUE]
    /\ ui' = [v |-> Edit, due |-> FALSE]
    /\ Calls(Put(store', also))
    /\ UNCHANGED <<kind, others, fails, relay, also, hands, raced, queue, reread>>

OtherEditMobile ==
    /\ kind = "mobile" /\ others + fails < MaxExtra /\ others' = others + 1
    /\ also' = also + 1
    /\ Calls(Put(store, also'))
    /\ UNCHANGED <<kind, clock, fails, relay, store, hands, raced, ui, queue, reread>>

-----------------------------------------------------------------------------
(* The relay *)

\* SetUserPreferences: a later stamp wins, and what it writes is stamped with
\* its arrival.
Accept(c) == IF c.item /\ c.at > server.at
             THEN [v |-> c.v, at |-> IF clock > c.at THEN clock ELSE c.at] ELSE server

\* The relay answers a call; a PUT tells every device.
Answer(i) ==
    LET c == calls[i] IN
    /\ ~c.done
    /\ server' = IF c.kind = "put" THEN Accept(c) ELSE server
    /\ calls' = [calls EXCEPT ![i] = [c EXCEPT !.done = TRUE, !.ans = server']]
    /\ told' = (told \/ c.kind = "put")
    /\ UNCHANGED <<kind, clock, others, fails, store, also, hands, raced, ui, queue, reread>>

\* A PUT of another device: accepted, or refused or about other keys.
Elsewhere ==
    /\ \/ /\ clock < MaxEdits /\ clock' = clock + 1
          /\ server' = [v |-> [by |-> "elsewhere", n |-> clock + 1], at |-> clock + 1]
       \/ UNCHANGED <<clock, server>>
    /\ told' = TRUE
    /\ UNCHANGED <<kind, others, fails, store, also, hands, raced, ui, calls, queue, reread>>

\* A call fails, before or after the relay acted on it.
Fails(i) ==
    /\ others + fails < MaxExtra /\ fails' = fails + 1
    /\ applier.step = "idle"
    /\ calls' = RemoveAt(calls, i)
    /\ run' = run \ {IF calls[i].kind = "get" THEN "pull" ELSE "push"}
    /\ UNCHANGED <<kind, clock, others, relay, store, also, hands, raced, ui, slot, reread>>

-----------------------------------------------------------------------------
(* The engines *)

\* PREFS_CHANGED: a mobile pulls at once, a desktop through its loop.
Told ==
    /\ told /\ told' = FALSE
    /\ \/ kind = "desktop" /\ slot' = slot \cup {"pull"} /\ UNCHANGED calls
       \/ kind = "mobile" /\ Calls(Get) /\ UNCHANGED slot
    /\ UNCHANGED <<kind, clock, others, fails, server, store, also, hands, raced, ui, run, reread>>

\* appStateChange: the user comes back to the mobile app.
Resume ==
    /\ kind = "mobile" /\ calls = << >> /\ Calls(Get)
    /\ UNCHANGED <<kind, clock, others, fails, relay, store, also, hands, raced, ui, queue, reread>>

\* runPrefsSyncLoop takes the coalesced request; runSyncRequest pulls first.
LoopTakes ==
    /\ run = {} /\ calls = << >> /\ slot # {}
    /\ run' = slot /\ slot' = {}
    /\ UNCHANGED <<kind, clock, others, fails, relay, store, also, hands, raced, ui, calls, reread>>

\* Mutant: the loop does not wait for the call it made.
LoopCallsOverlap ==
    /\ run # {} /\ Len(calls) < MaxCalls
    /\ calls' = Append(calls, IF "pull" \in run THEN Get ELSE Put(store, also))
    /\ UNCHANGED <<kind, clock, others, fails, relay, store, also, hands, raced, ui, queue, reread>>

\* The next call of the request the loop runs; a push with no dirty key is over
\* at once, and "prefs:changed" is emitted all the same.
LoopCalls ==
    /\ run # {} /\ calls = << >>
    /\ IF "pull" \in run \/ store.dirty \/ also > 0
       THEN /\ calls' = <<IF "pull" \in run THEN Get ELSE Put(store, also)>>
            /\ UNCHANGED <<run, reread>>
       ELSE run' = {} /\ reread' = TRUE /\ calls' = calls
    /\ UNCHANGED <<kind, clock, others, fails, relay, store, also, hands, raced, ui, slot>>

\* Mutant: the comparison of the stamps is turned round.
NewerOlder(s, a) == a.at < s.at /\ ~s.dirty

\* What a pull asks of an answer: it is newer, and no edit waits to be sent.
Newer(s, a) == a.at > s.at /\ ~s.dirty

\* Mutant: the answer is taken over whatever happened since.
UntouchedAlways(s, c) == c.ans.at > 0

\* What a desktop's push asks of an answer: the relay has the key, which was
\* not stamped anew since it was sent.
Untouched(s, c) == c.ans.at > 0 /\ s.at = c.at

\* Other keys a PUT carried are clean unless one more was changed since.
Sent(c) == IF c.kind = "put" /\ also = c.also THEN 0 ELSE also

\* A desktop's call is over: "prefs:changed" is emitted.
Returns(c) ==
    /\ calls' = << >>
    /\ run' = run \ {IF c.kind = "get" THEN "pull" ELSE "push"} /\ also' = Sent(c)
    /\ reread' = TRUE

\* A desktop's call returned: Pull and Push read the meta of the key, and leave
\* the key alone or go on to write it.
Checks ==
    /\ kind = "desktop" /\ calls # << >> /\ applier.step = "idle"
    /\ LET c == calls[1] IN
       /\ c.done
       /\ IF IF c.kind = "get" THEN Newer(store, c.ans) ELSE Untouched(store, c)
          THEN /\ applier' = [Idle EXCEPT !.step = "copyValue"]
               /\ raced' = (raced \/ setter.step # "idle")
               /\ UNCHANGED <<calls, run, also, reread>>
          ELSE Returns(c) /\ UNCHANGED <<applier, raced>>
    /\ UNCHANGED <<kind, clock, others, fails, relay, store, setter, ui, slot>>

\* WriteValue copies the configuration and changes the value in the copy, ...
CopiesValue ==
    /\ applier.step = "copyValue"
    /\ applier' = [Idle EXCEPT !.step = "setValue", !.copy = [store EXCEPT !.v = calls[1].ans.v]]
    /\ UNCHANGED <<kind, clock, others, fails, relay, store, also, setter, raced, ui, calls, queue, reread>>

\* ... and replaces the configuration.
SetsValue ==
    /\ applier.step = "setValue"
    /\ store' = applier.copy /\ applier' = [Idle EXCEPT !.step = "copyMeta"]
    /\ UNCHANGED <<kind, clock, others, fails, relay, also, setter, raced, ui, calls, queue, reread>>

\* WriteMeta does the same for the meta, ...
CopiesMeta ==
    /\ applier.step = "copyMeta"
    /\ applier' = [Idle EXCEPT !.step = "setMeta",
                               !.copy = [v |-> store.v, at |-> calls[1].ans.at, dirty |-> FALSE]]
    /\ UNCHANGED <<kind, clock, others, fails, relay, store, also, setter, raced, ui, calls, queue, reread>>

\* ... and the call is over.
SetsMeta ==
    /\ applier.step = "setMeta"
    /\ store' = applier.copy /\ applier' = Idle
    /\ Returns(calls[1])
    /\ UNCHANGED <<kind, clock, others, fails, relay, setter, raced, ui, slot>>

\* What lib/prefsSync.ts does with an answer: a pull asks what Newer asks, a push
\* takes over every key the relay has.
Adopted(s, c) == IF IF c.kind = "get" THEN Newer(s, c.ans) ELSE c.ans.at > 0
                 THEN [v |-> c.ans.v, at |-> c.ans.at, dirty |-> FALSE] ELSE s

\* A mobile's call returns and its answer is applied in one turn; a pull emits
\* "prefs:changed", which is handled in the same turn.
ReturnsMobile(i) ==
    LET c == calls[i] IN
    /\ kind = "mobile" /\ c.done
    /\ store' = Adopted(store, c)
    /\ calls' = RemoveAt(calls, i)
    /\ also' = Sent(c)
    /\ ui' = IF c.kind = "get" THEN [ui EXCEPT !.v = store'.v] ELSE ui
    /\ UNCHANGED <<kind, clock, others, fails, relay, hands, raced, queue, reread>>

-----------------------------------------------------------------------------
(* What a goroutine of the desktop does next *)
Setter == Persist \/ SetterSets \/ Stamps \/ SetterCopiesMeta \/ Marks
Loop == LoopTakes \/ LoopCalls \/ Checks \/ CopiesValue \/ SetsValue \/ CopiesMeta \/ SetsMeta

Next ==
    \/ Pin \/ Reread \/ PersistMobile \/ OtherEdit \/ OtherEditMobile
    \/ Setter \/ Loop
    \/ Elsewhere \/ Told \/ Resume
    \/ \E i \in DOMAIN calls : Answer(i) \/ ReturnsMobile(i) \/ Fails(i)

\* Timers fire, events and calls are delivered, goroutines run; edits, failures
\* and the user's return to a mobile app owe nothing.
Fairness ==
    /\ WF_vars(Reread) /\ WF_vars(PersistMobile) /\ WF_vars(Told)
    /\ WF_vars(Setter) /\ WF_vars(Loop)
    /\ WF_vars(\E i \in DOMAIN calls : Answer(i) \/ ReturnsMobile(i))

Spec == Init /\ [][Next]_vars /\ Fairness

-----------------------------------------------------------------------------
(* Properties *)

Values == [by : {Here, "elsewhere", "nobody"}, n : Nat]
Stamped == [v : Values, at : Nat]
Entry == [v : Values, at : Nat, dirty : BOOLEAN]
Call == [kind : {"get", "put"}, item : BOOLEAN, v : Values, at : Nat, also : Nat,
         done : BOOLEAN, ans : Stamped]
Hand == [step : {"idle", "copyValue", "setValue", "stamp", "copyMeta", "setMeta"},
         mine : BOOLEAN, copy : Entry, at : Nat]

TypeOK ==
    /\ kind \in {"desktop", "mobile"}
    /\ clock \in Nat /\ others \in Nat /\ fails \in Nat /\ also \in Nat /\ others + fails <= MaxExtra
    /\ server \in Stamped /\ store \in Entry /\ ui \in [v : Values, due : BOOLEAN]
    /\ setter \in Hand /\ applier \in Hand
    /\ calls \in Seq(Call) /\ Len(calls) <= IF kind = "desktop" THEN 1 ELSE MaxCalls
    /\ applier.step # "idle" => kind = "desktop" /\ calls # << >>
    /\ slot \in SUBSET {"pull", "push"} /\ run \in SUBSET {"pull", "push"}
    /\ {told, reread, raced} \subseteq BOOLEAN

\* An edit a desktop stored is replaced by a later edit made there, or by the
\* answer to the very PUT that carried it: an answer on its way while the user
\* edits the preference again, or a pull, does not undo what was never sent.
UnsentEditStays ==
    [][kind = "desktop" /\ ~raced' /\ store.dirty /\ store'.v # store.v =>
         \/ store'.v.by = Here /\ store'.v.n > store.v.n
         \/ \E i \in DOMAIN calls : LET c == calls[i] IN
              c.kind = "put" /\ c.done /\ c.item /\ c.v = store.v]_vars

\* A stored edit of the user is never undone in favour of an older edit made on
\* the same device ("the pin the user just clicked would silently undo itself"),
\* as long as no setter overlapped the loop.
NoStepBack ==
    [][~raced' /\ store.v.by = Here => ~(store'.v.by = Here /\ store'.v.n < store.v.n)]_vars

\* As long as no call failed and no setter overlapped the loop, the device comes
\* to store and to show what the relay has, with nothing left to send; on a
\* mobile, provided that the user keeps coming back to the app.
EventuallyAgree ==
    <>[](kind = "desktop") \/ []<><<Resume>>_vars
      => <>[](fails = 0 /\ ~raced /\ ~ui.due =>
                store.v = server.v /\ ui.v = server.v /\ ~store.dirty)

\* What is pinned stays on the screen until it has been stored.
PinsKept == ui.due => ui.v = Fresh
=============================================================================
