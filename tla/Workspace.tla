----------------------------- MODULE Workspace -----------------------------
(***************************************************************************)
(* The desktop window's tabs and panes (desktop/frontend/src/App.vue with   *)
(* lib/layout.ts, paneDrop.ts, closeTabOptimistic.ts, localListMerge.ts,    *)
(* remoteTabCleanup.ts, autoCloseTab.ts, paneRemote.ts) against the local   *)
(* host's sessions.  Shells are started and closed by RPCs whose answers    *)
(* arrive later; the host's session list arrives on a stream of its own, so *)
(* an answer and the lists around it come in either order.                  *)
(*                                                                          *)
(* w is the state App.vue's refs hold.  A local session is a number in the  *)
(* order the shells were asked for, a session of another host one above     *)
(* MaxSpawn.  Geometry (ratios), titles and cwd are left out; the relay is  *)
(* taken to list other hosts' sessions only.                                *)
(*                                                                          *)
(* Nothing stops the user while a shell is being started: its tab may be    *)
(* split again, closed or rearranged, and the shell itself be opened from a *)
(* list that came before the answer.  disturbed remembers that this         *)
(* happened; nothing depends on it but the properties.                      *)
(***************************************************************************)
EXTENDS Integers, Sequences, FiniteSets, SequencesExt

CONSTANTS
    MaxSpawn,    \* bound: shells asked for
    MaxRemote,   \* bound: sessions of other hosts
    MaxTabs,     \* bound: tabs open at once
    MaxMoves     \* bound: what the user does, the restoring of a tab included

ASSUME WorkspaceAssumption ==
    {MaxSpawn, MaxRemote, MaxTabs, MaxMoves} \subseteq Nat \ {0}

None    == 0
Locals  == 1..MaxSpawn
Remotes == (MaxSpawn + 1)..(MaxSpawn + MaxRemote)
TabIds  == 1..(MaxTabs + MaxSpawn)

VARIABLES
    alive,          \* the host's shells
    lists, listed,  \* LIST_RESP frames on their way, and the last one sent
    w,              \* the window
    raw,            \* remoteRawList
    missing, ripe,  \* remoteMissingSince, and those whose grace is over
    disturbed       \* history: the user disturbed what waits for a shell

vars == <<alive, lists, listed, w, raw, missing, ripe, disturbed>>

EmptyPane == [sid |-> None, rem |-> FALSE]
Hole      == [sid |-> -1, rem |-> FALSE]    \* an array index nobody assigned
LocalPane(s) == [sid |-> s, rem |-> FALSE]
PaneCount == [single |-> 1, vertical |-> 2, horizontal |-> 2, grid2x2 |-> 4]
SingleTab(id, p) == [id |-> id, lay |-> "single", panes |-> <<p>>, act |-> 1]

\* executeRestore: the window starts with nothing, or with a restored tab of one
\* shell and one session of another host.
Restored == [id |-> 1, lay |-> "vertical", act |-> 1,
             panes |-> <<LocalPane(1), [sid |-> MaxSpawn + 1, rem |-> TRUE]>>]
Init ==
    /\ \E n \in {0, 1} :
          /\ alive = 1..n
          /\ w = [tabs |-> IF n = 0 THEN << >> ELSE <<Restored>>, cur |-> n,
                  local |-> 1..n, pend |-> 1..n, kill |-> {}, starting |-> FALSE, spawns |-> {},
                  asked |-> n, moves |-> n]
    /\ lists = << >> /\ listed = {} /\ raw = {} /\ missing = {} /\ ripe = {}
    /\ disturbed = FALSE

-----------------------------------------------------------------------------
(* layout.ts *)

FirstEmpty(panes) ==
    LET E == {i \in DOMAIN panes : panes[i].sid = None}
    IN IF E = {} THEN None ELSE Min(E)

\* Mutant: the split of a split leaves one pane too few.
TransitionLayoutShort(t, i, dir) ==
    LET p == t.panes
        To(lay, panes, new) == [tab |-> [t EXCEPT !.lay = lay, !.panes = panes, !.act = new], new |-> new]
    IN IF t.lay = "single" THEN To(dir, <<p[1], EmptyPane>>, 2)
       ELSE IF t.lay # "grid2x2" THEN To("grid2x2", <<p[1], p[2], EmptyPane>>, 3)
       ELSE [tab |-> t, new |-> None]

\* transitionLayout: the tab after a split beside pane i, and the pane to fill
\* (None where the grid is full).
TransitionLayout(t, i, dir) ==
    LET p == t.panes
        To(lay, panes, new) == [tab |-> [t EXCEPT !.lay = lay, !.panes = panes, !.act = new], new |-> new]
    IN CASE t.lay = "single"     -> To(dir, <<p[1], EmptyPane>>, 2)
         [] t.lay = "vertical"   -> To("grid2x2", <<p[1], p[2], EmptyPane, EmptyPane>>, IF i = 1 THEN 3 ELSE 4)
         [] t.lay = "horizontal" -> To("grid2x2", <<p[1], EmptyPane, p[2], EmptyPane>>, IF i = 1 THEN 2 ELSE 4)
         [] t.lay = "grid2x2"    -> IF FirstEmpty(p) = None THEN [tab |-> t, new |-> None]
                                    ELSE To("grid2x2", p, FirstEmpty(p))

\* closePane and reduceTwoFilled; gone asks for the tab to be closed.
ClosePane(t, i) ==
    LET To(lay, panes, act) == [tab |-> [t EXCEPT !.lay = lay, !.panes = panes, !.act = act], gone |-> FALSE]
        next   == [t.panes EXCEPT ![i] = EmptyPane]
        filled == {k \in DOMAIN next : next[k].sid # None}
    IN CASE t.lay = "single" -> [tab |-> [t EXCEPT !.act = 1], gone |-> TRUE]
         [] t.lay \in {"vertical", "horizontal"} -> To("single", <<t.panes[IF i = 1 THEN 2 ELSE 1]>>, 1)
         [] t.lay = "grid2x2" ->
              CASE Cardinality(filled) >= 3 -> To("grid2x2", next, Min(filled))
                [] Cardinality(filled) = 2  -> To(IF filled \in {{1, 3}, {2, 4}} THEN "horizontal" ELSE "vertical",
                                                  <<next[Min(filled)], next[Max(filled)]>>, 1)
                [] Cardinality(filled) = 1  -> To("single", <<next[Min(filled)]>>, 1)
                [] OTHER -> [tab |-> SingleTab(t.id, EmptyPane), gone |-> TRUE]

\* swapPanes.
SwapPanes(panes, a, b) == [panes EXCEPT ![a] = panes[b], ![b] = panes[a]]

-----------------------------------------------------------------------------
(* The window *)

HasTab(o, id) == \E k \in DOMAIN o.tabs : o.tabs[k].id = id
At(o, id)     == CHOOSE k \in DOMAIN o.tabs : o.tabs[k].id = id
TabOf(o, id)  == o.tabs[At(o, id)]
PutTab(o, t)  == [o EXCEPT !.tabs[At(o, t.id)] = t]
Shows(t)      == {t.panes[i].sid : i \in DOMAIN t.panes} \ {None, -1}
ShownBy(o)    == UNION {Shows(o.tabs[k]) : k \in DOMAIN o.tabs}

\* findPaneLocation: the first tab, and in it the first pane, that shows s.
Located(o, s) ==
    LET K == {k \in DOMAIN o.tabs : s \in Shows(o.tabs[k])}
        t == o.tabs[Min(K)]
    IN [id |-> t.id, idx |-> Min({i \in DOMAIN t.panes : t.panes[i].sid = s})]

\* The tabs but those named in ids, in their order.
Without(tabs, ids) ==
    LET kept[k \in 0..Len(tabs)] ==
          IF k = 0 THEN << >>
          ELSE IF tabs[k].id \in ids THEN kept[k - 1] ELSE Append(kept[k - 1], tabs[k])
    IN kept[Len(tabs)]

FreeTab(o) == Min({id \in TabIds : ~HasTab(o, id) /\ \A q \in o.spawns : q.tab # id})

\* tabs.push and gotoTab.
OpenTab(o, t) == [o EXCEPT !.tabs = Append(@, t), !.cur = t.id]

\* spawnLocalShell up to its await; the answer is handled by SpawnReturns.
Spawn(o, kind, tab, idx) ==
    [o EXCEPT !.asked = @ + 1,
              !.spawns = @ \cup {[sid |-> o.asked + 1, kind |-> kind, tab |-> tab, idx |-> idx, forked |-> FALSE]}]

\* startNewTab: one at a time.
StartNew(o) == IF o.starting \/ o.asked = MaxSpawn THEN o
               ELSE [Spawn(o, "tab", None, 0) EXCEPT !.starting = TRUE]

\* optimisticallyDropLocalSession, and what closeTab does for each shell.
DropLocal(o, S) == [o EXCEPT !.local = @ \ S, !.pend = @ \ S, !.kill = @ \cup S]

\* computeCloseTabState: the tab goes, its shells are dropped and closed unless
\* they move elsewhere, and the first tab becomes current.
ComputeCloseTabState(o, id, detachOnly) ==
    LET t    == TabOf(o, id)
        kill == IF detachOnly THEN {} ELSE {p.sid : p \in {q \in Range(t.panes) : ~q.rem}} \ {None, -1}
        left == Without(o.tabs, {id})
    IN [DropLocal(o, kill) EXCEPT
          !.tabs = left, !.cur = IF @ = id /\ left # << >> THEN left[1].id ELSE @]

\* closeTab: an explicit close of the last tab starts a new shell.  Looking
\* through a tab with a hole throws before anything is changed.
CloseTabOf(o, id, detachOnly, replace) ==
    IF ~HasTab(o, id) \/ Hole \in Range(TabOf(o, id).panes) THEN o
    ELSE LET b == ComputeCloseTabState(o, id, detachOnly)
         IN IF replace /\ b.tabs = << >> THEN StartNew(b) ELSE b

\* closePaneAt.
ClosePaneAt(o, id, i, detachOnly) ==
    LET t == TabOf(o, id)
        b == IF t.lay # "single" /\ t.panes[i].sid # None /\ ~t.panes[i].rem /\ ~detachOnly
             THEN DropLocal(o, {t.panes[i].sid}) ELSE o
        r == ClosePane(t, i)
    IN IF r.gone THEN CloseTabOf(PutTab(b, r.tab), id, detachOnly, ~detachOnly)
                 ELSE PutTab(b, r.tab)

\* Mutant: the session stays where it was.
DetachedNot(o, s) == o

\* Vacates the pane that shows s, if one does, without closing the session.
Detached(o, s) == IF s \in ShownBy(o)
                  THEN ClosePaneAt(o, Located(o, s).id, Located(o, s).idx, TRUE) ELSE o

\* resolvePaneRemote: the local list overrules the request.
ResolvePaneRemote(o, s, requested) == requested /\ s \notin o.local

\* openRemoteAsTab: focus the pane that shows s, else a tab of its own.
OpenRemoteAsTab(o, s, requested) ==
    IF s \in ShownBy(o)
    THEN LET l == Located(o, s)
         IN [PutTab(o, [TabOf(o, l.id) EXCEPT !.act = l.idx]) EXCEPT !.cur = l.id]
    ELSE OpenTab(o, SingleTab(FreeTab(o), [sid |-> s, rem |-> ResolvePaneRemote(o, s, requested)]))

-----------------------------------------------------------------------------
(* What the user does *)

\* Every shell being started in w is still awaited in o: nobody shows it yet, the
\* tab with the pane it is meant for has the panes it had, or is gone, and no
\* other shell is meant for that pane.
Undisturbed(o) ==
    \A q \in w.spawns :
        /\ q.sid \notin ShownBy(o)
        /\ q.kind = "split" =>
             /\ \A t \in Range(o.tabs) :
                   t.id = q.tab => \E u \in Range(w.tabs) : u.id = q.tab /\ u.panes = t.panes
             /\ \A r \in o.spawns \ w.spawns : ~(r.tab = q.tab /\ r.idx = q.idx)

\* The user may act; Does(o) leaves the window as o.
Ready   == w.moves < MaxMoves
Does(o) == w' = [o EXCEPT !.moves = @ + 1] /\ disturbed' = (disturbed \/ ~Undisturbed(o))
\* findPaneLocation and its like throw on a hole, before anything is changed.
Intact  == \A t \in Range(w.tabs) : Hole \notin Range(t.panes)
Known == w.local \cup raw      \* what the sidebar offers
rest  == <<alive, lists, listed, raw, missing, ripe>>

StartNewTab ==
    /\ Ready /\ ~w.starting /\ w.asked < MaxSpawn /\ Len(w.tabs) < MaxTabs
    /\ Does(StartNew(w)) /\ UNCHANGED rest

\* onSplit up to its await.
OnSplit(dir) ==
    /\ Ready /\ w.asked < MaxSpawn /\ HasTab(w, w.cur)
    /\ LET t == TabOf(w, w.cur)
           r == TransitionLayout(t, t.act, dir)
       IN /\ r.new # None
          /\ Does(Spawn(PutTab(w, r.tab), "split", t.id, r.new))
    /\ UNCHANGED rest

OnClosePane(id, i) ==
    /\ Ready /\ HasTab(w, id) /\ i \in DOMAIN TabOf(w, id).panes
    /\ Does(ClosePaneAt(w, id, i, FALSE)) /\ UNCHANGED rest

OnCloseTab(id) ==
    /\ Ready /\ HasTab(w, id)
    /\ Does(CloseTabOf(w, id, FALSE, TRUE)) /\ UNCHANGED rest

\* A click in the sidebar or on a notification.
OnOpen(s) ==
    /\ Ready /\ Intact /\ s \in Known /\ (s \in ShownBy(w) \/ Len(w.tabs) < MaxTabs)
    /\ Does(OpenRemoteAsTab(w, s, TRUE)) /\ UNCHANGED rest

\* resolveDroppedSession: the pane that shows s now, else a remote one.
DroppedPane(o, s) == IF s \in ShownBy(o)
                     THEN LET l == Located(o, s) IN TabOf(o, l.id).panes[l.idx]
                     ELSE [sid |-> s, rem |-> TRUE]

\* onPaneDropSession: a session dragged onto pane i of a tab.  The two change
\* places within one tab; else the session fills the empty pane or a new split.
OnDrop(id, i, s) ==
    /\ Ready /\ Intact /\ s \in Known \cup ShownBy(w) /\ HasTab(w, id)
    /\ LET t    == TabOf(w, id)
           here == {k \in DOMAIN t.panes : t.panes[k].sid = s}
           pane == DroppedPane(w, s)
           r    == TransitionLayout(t, i, "vertical")
           Place(o, k) == PutTab(o, [TabOf(o, id) EXCEPT !.panes[k] = pane, !.act = k])
       IN /\ i \in DOMAIN t.panes
          /\ IF here # {}
             THEN \E k \in here : Does(PutTab(w, [t EXCEPT !.panes = SwapPanes(t.panes, k, i), !.act = i]))
             ELSE IF t.panes[i].sid = None
             THEN Does(Place(Detached(w, s), i))
             ELSE r.new # None /\ Does(Place(Detached(PutTab(w, r.tab), s), r.new))
    /\ UNCHANGED rest

\* planDetachToTab: there is something to leave behind.
Detachable(o, s) ==
    s \in ShownBy(o) /\ Len(TabOf(o, Located(o, s).id).panes) >= 2

\* onDetachSessionToTab.
OnDetach(s) ==
    /\ Ready /\ Intact /\ Detachable(w, s) /\ Len(w.tabs) < MaxTabs
    /\ LET l == Located(w, s)
       IN Does(OpenRemoteAsTab(ClosePaneAt(w, l.id, l.idx, TRUE), s,
                               TabOf(w, l.id).panes[l.idx].rem))
    /\ UNCHANGED rest

LayoutForCount(n) == CASE n = 1 -> "single" [] n = 2 -> "vertical" [] OTHER -> "grid2x2"

\* mergeSelectedIntoTab: every selected session, in the order of the selection,
\* leaves its pane, and one new tab shows them all, each as a remote one, the
\* host's own shells too.
OnMerge(ids) ==
    /\ Ready /\ Intact /\ IsInjective(ids)
    /\ LET freed[k \in 0..Len(ids)] == IF k = 0 THEN w ELSE Detached(freed[k - 1], ids[k])
           o   == freed[Len(ids)]
           lay == LayoutForCount(Len(ids))
           panes == [k \in 1..PaneCount[lay] |->
                       IF k <= Len(ids) THEN [sid |-> ids[k], rem |-> TRUE] ELSE EmptyPane]
       IN /\ Len(o.tabs) < MaxTabs
          /\ Does(OpenTab(o, [id |-> FreeTab(o), lay |-> lay, panes |-> panes, act |-> 1]))
    /\ UNCHANGED rest

\* gotoTab from the tab strip or the keyboard, set-active-pane and onFocusPane.
OnFocus(id, i) ==
    /\ Ready /\ HasTab(w, id) /\ i \in DOMAIN TabOf(w, id).panes
    /\ Does([PutTab(w, [TabOf(w, id) EXCEPT !.act = i]) EXCEPT !.cur = id]) /\ UNCHANGED rest

\* applyTabReorder.
OnTabReorder(from, to) ==
    /\ Ready /\ {from, to} \subseteq DOMAIN w.tabs /\ from # to
    /\ Does([w EXCEPT !.tabs = InsertAt(RemoveAt(@, from), to, w.tabs[from])]) /\ UNCHANGED rest

-----------------------------------------------------------------------------
(* Answers and lists *)

\* The host forks the shell; its answer is on the way.
HostForks(q) ==
    /\ ~q.forked
    /\ w' = [w EXCEPT !.spawns = (@ \ {q}) \cup {[q EXCEPT !.forked = TRUE]}]
    /\ alive' = alive \cup {q.sid}
    /\ UNCHANGED <<lists, listed, raw, missing, ripe, disturbed>>

SpawnFails(q) ==
    /\ ~q.forked
    /\ w' = [w EXCEPT !.spawns = @ \ {q}, !.starting = @ /\ q.kind # "tab"]
    /\ UNCHANGED <<rest, disturbed>>

\* Writing t.panes[i], past the end of the array if it has shrunk.
SetPane(panes, i, p) ==
    [k \in 1..(IF i > Len(panes) THEN i ELSE Len(panes)) |->
        IF k = i THEN p ELSE IF k <= Len(panes) THEN panes[k] ELSE Hole]

\* After the await of spawnLocalShell: the seed, then the tab of startNewTab or
\* the pane onSplit remembered, of a tab that may have changed or gone.
SpawnReturns(q) ==
    /\ q.forked
    /\ LET o == [w EXCEPT !.spawns = @ \ {q}, !.pend = @ \cup {q.sid}, !.local = @ \cup {q.sid}]
       IN w' = IF q.kind = "tab"
               THEN [OpenTab(o, SingleTab(FreeTab(o), LocalPane(q.sid))) EXCEPT !.starting = FALSE]
               ELSE IF HasTab(o, q.tab)
               THEN PutTab(o, [TabOf(o, q.tab) EXCEPT !.panes = SetPane(@, q.idx, LocalPane(q.sid))])
               ELSE o
    /\ UNCHANGED <<rest, disturbed>>

\* closeSession: the shell ends and its RPC returns, or the RPC fails, which
\* nobody looks at.
HostCloses(s) ==
    /\ s \in w.kill
    /\ w' = [w EXCEPT !.kill = @ \ {s}]
    /\ alive' \in {alive, alive \ {s}}
    /\ UNCHANGED <<lists, listed, raw, missing, ripe, disturbed>>

ShellExits(s) ==
    /\ s \in alive /\ alive' = alive \ {s}
    /\ UNCHANGED <<lists, listed, w, raw, missing, ripe, disturbed>>

\* The host streams its list when it changed.
HostLists ==
    /\ listed # alive /\ Len(lists) < 2
    /\ lists' = Append(lists, alive) /\ listed' = alive
    /\ UNCHANGED <<alive, w, raw, missing, ripe, disturbed>>

\* Mutant: the list replaces what was seeded.
MergeLocalSessionsReplaces(o, arrived) == [o EXCEPT !.local = arrived, !.pend = {}]

\* mergeLocalSessions: what was seeded and not yet confirmed stays.
MergeLocalSessions(o, arrived) ==
    LET kept == (o.pend \ arrived) \cap o.local
    IN [o EXCEPT !.local = arrived \cup kept, !.pend = kept]

\* Mutant: only the tab in view is swept.
SweepMissingSessionsInView(o) ==
    [o EXCEPT !.tabs = [k \in DOMAIN o.tabs |->
        [o.tabs[k] EXCEPT !.panes = [i \in DOMAIN @ |->
            IF o.tabs[k].id = o.cur /\ ~@[i].rem /\ @[i].sid \notin o.local THEN EmptyPane ELSE @[i]]]]]

\* The panes of shells no longer listed are emptied.
Swept(o) ==
    LET lost(p) == p.sid # None /\ ~p.rem /\ p.sid \notin o.local
    IN [o EXCEPT !.tabs = [k \in DOMAIN o.tabs |->
          [o.tabs[k] EXCEPT !.panes = [i \in DOMAIN @ |-> IF lost(@[i]) THEN EmptyPane ELSE @[i]]]]]

\* The sweep of a window with a hole throws there: the panes before it have been
\* swept, the ones behind it have not.
SweptUpTo(o, k, i) ==
    [o EXCEPT !.tabs = [j \in DOMAIN o.tabs |->
        IF j > k THEN o.tabs[j]
        ELSE [o.tabs[j] EXCEPT !.panes = [n \in DOMAIN @ |->
                 IF j = k /\ n >= i THEN @[n] ELSE Swept(o).tabs[j].panes[n]]]]]

\* tabsToAutoCloseOnExit, and their closing one by one: the tabs of o that lost a
\* pane and show nothing in swept.
AutoCloseOnExit(o, swept) ==
    LET closed[k \in 0..Len(o.tabs)] ==
          IF k = 0 THEN swept
          ELSE IF Shows(o.tabs[k]) # {} /\ Shows(swept.tabs[k]) = {}
          THEN CloseTabOf(closed[k - 1], o.tabs[k].id, FALSE, FALSE) ELSE closed[k - 1]
    IN closed[Len(o.tabs)]

SweepMissingSessions(o) ==
    LET holed == {k \in DOMAIN o.tabs : Hole \in Range(o.tabs[k].panes)}
    IN IF holed = {} THEN AutoCloseOnExit(o, Swept(o))
       ELSE LET ps == o.tabs[Min(holed)].panes
            IN SweptUpTo(o, Min(holed), Min({i \in DOMAIN ps : ps[i] = Hole}))

\* applyLocalSessions.
ApplyLocalSessions ==
    /\ lists # << >> /\ lists' = Tail(lists)
    /\ w' = SweepMissingSessions(MergeLocalSessions(w, Head(lists)))
    /\ UNCHANGED <<alive, listed, raw, missing, ripe, disturbed>>

\* pruneStaleRemoteTabs: a tab of one remote session that has been missing for
\* the whole grace period is removed.
PruneStaleRemoteTabs(S) ==
    LET single  == {t \in Range(w.tabs) : t.lay = "single" /\ Len(t.panes) = 1 /\ t.panes[1].rem /\ t.panes[1].sid # None}
        absent  == {t.panes[1].sid : t \in single} \ (S \ w.local)
        stale   == {t \in single : t.panes[1].sid \in ripe \cap absent}
    IN [left    |-> Without(w.tabs, {t.id : t \in stale}),
        missing |-> absent \ ripe]

\* applyRemoteSessions and pruneMissingRemoteTabs.
ApplyRemoteSessions(S) ==
    /\ LET p == PruneStaleRemoteTabs(S)
       IN /\ raw' = S /\ missing' = p.missing /\ ripe' = ripe \cap p.missing
          /\ w' = [w EXCEPT !.tabs = p.left,
                            !.cur = IF HasTab(w, @) /\ ~(\E t \in Range(p.left) : t.id = w.cur) /\ p.left # << >>
                                    THEN p.left[1].id ELSE @]
    /\ UNCHANGED <<alive, lists, listed, disturbed>>

GraceElapses ==
    /\ ripe # missing /\ ripe' = missing
    /\ UNCHANGED <<alive, lists, listed, w, raw, missing, disturbed>>

\* connectRemoteSessionList: another relay configuration starts from nothing.
RelayReconfigured ==
    /\ raw # {} /\ raw' = {} /\ missing' = {} /\ ripe' = {}
    /\ UNCHANGED <<alive, lists, listed, w, disturbed>>

Next ==
    \/ StartNewTab \/ (\E d \in {"vertical", "horizontal"} : OnSplit(d))
    \/ \E id \in TabIds : \/ OnCloseTab(id)
                          \/ \E i \in 1..4 : \/ OnClosePane(id, i) \/ OnFocus(id, i)
                                             \/ \E s \in Locals \cup Remotes : OnDrop(id, i, s)
    \/ \E s \in Locals \cup Remotes : OnOpen(s) \/ OnDetach(s)
    \/ \E n \in 1..4 : \E ids \in [1..n -> Known] : OnMerge(ids)
    \/ \E i, j \in 1..MaxTabs : OnTabReorder(i, j)
    \/ \E q \in w.spawns : HostForks(q) \/ SpawnFails(q) \/ SpawnReturns(q)
    \/ \E s \in Locals : HostCloses(s) \/ ShellExits(s)
    \/ HostLists \/ ApplyLocalSessions
    \/ \E S \in SUBSET Remotes : ApplyRemoteSessions(S)
    \/ GraceElapses \/ RelayReconfigured

\* RPCs are answered and the list stream delivers; the user, the shells and the
\* relay owe nothing.
Fairness ==
    /\ WF_vars(\E q \in w.spawns : HostForks(q) \/ SpawnFails(q) \/ SpawnReturns(q))
    /\ WF_vars(\E s \in Locals : HostCloses(s))
    /\ WF_vars(HostLists) /\ WF_vars(ApplyLocalSessions)

Spec == Init /\ [][Next]_vars /\ Fairness

-----------------------------------------------------------------------------
(* Properties *)

\* "panes: length matches layout" (types.ts), and every pane was assigned.
PanesFitLayout ==
    \A t \in Range(w.tabs) : Len(t.panes) = PaneCount[t.lay] /\ Hole \notin Range(t.panes)

\* A layout never has fewer panes than it draws, the active one among them.
TypeOK ==
    /\ alive \subseteq Locals /\ lists \in Seq(SUBSET Locals) /\ listed \subseteq Locals
    /\ \A t \in Range(w.tabs) :
          /\ t.id \in TabIds /\ t.lay \in DOMAIN PaneCount
          /\ Len(t.panes) \in PaneCount[t.lay]..4 /\ t.act \in DOMAIN t.panes
          /\ \A p \in Range(t.panes) : p = Hole \/ p.sid \in {None} \cup Locals \cup Remotes
    /\ w.cur \in TabIds \cup {None} /\ w.local \cup w.kill \subseteq Locals /\ w.pend \subseteq w.local
    /\ w.starting \in BOOLEAN /\ w.asked \in 0..MaxSpawn /\ w.moves \in 0..MaxMoves
    /\ disturbed \in BOOLEAN
    /\ raw \subseteq Remotes /\ ripe \subseteq missing /\ missing \subseteq Locals \cup Remotes

\* As long as the user has not disturbed what waits for a shell being started, a
\* session is shown by one pane at most, however it was opened, dropped, detached,
\* merged or listed, and "panes: length matches layout" holds.
OnePanePerSession ==
    \/ disturbed
    \/ /\ PanesFitLayout
       /\ \A t, u \in Range(w.tabs) :
             /\ t.id # u.id => Shows(t) \cap Shows(u) = {}
             /\ \A i, j \in DOMAIN t.panes :
                   t.panes[i].sid = t.panes[j].sid /\ t.panes[i].sid # None => i = j

\* The panes that attach to the local host.
LocalPanes == {p \in UNION {Range(t.panes) : t \in Range(w.tabs)} : ~p.rem}

\* As long as the user has not disturbed what waits for a shell being started, a
\* running shell in a pane of the local host stays on the screen through every
\* list however stale, every move, merge and tab close, unless the window asks
\* for it to be closed, and then it leaves the screen in that step.
ShellsKeepTheirPane ==
    [][~disturbed' =>
         \A s \in alive' :
            LocalPane(s) \in LocalPanes =>
                /\ s \in w'.kill \/ s \in ShownBy(w')
                /\ s \in w'.kill \ w.kill => s \notin ShownBy(w')]_vars

\* The pane of a shell that exited is emptied in the end, except where its seed
\* was never confirmed by a later list, or the user has disturbed what waits for
\* a shell being started.
ExitedLeave ==
    <>[](disturbed \/ \A p \in LocalPanes : p.sid # None => p.sid \in alive \cup w.pend)
=============================================================================
