-------------------------- MODULE WorkspaceProofs --------------------------
(***************************************************************************)
(* Theorems about Workspace, for any number of shells, sessions of other    *)
(* hosts, tabs and moves: the shape of the window, that a session is shown  *)
(* by one pane at most, and that a running shell keeps its pane.            *)
(***************************************************************************)
EXTENDS Workspace, SequenceTheorems, FiniteSetTheorems, WellFoundedInduction, TLAPS

-----------------------------------------------------------------------------
(* The inductive invariant *)

Layouts == {"single", "vertical", "horizontal", "grid2x2"}
Sids    == Locals \cup Remotes

\* A pane of the local host shows one of its shells.
Pane == {p \in [sid : Sids \cup {None}, rem : BOOLEAN] : p.rem \/ p.sid \in Locals \cup {None}}
Tab  == [id : TabIds, lay : Layouts, panes : Seq(Pane), act : Nat]
Call == [sid : Locals, kind : {"tab", "split"}, tab : TabIds \cup {None}, idx : 0..4, forked : BOOLEAN]

Window == [tabs : Seq(Tab), cur : TabIds \cup {None}, local : SUBSET Locals, pend : SUBSET Locals,
           kill : SUBSET Locals, starting : BOOLEAN, spawns : SUBSET Call,
           asked : 0..MaxSpawn, moves : 0..MaxMoves]

\* No session twice among the panes.
Distinct(ps) ==
  \A i, j \in DOMAIN ps : ps[i].sid = ps[j].sid /\ ps[i].sid # None => i = j

\* The panes that show a session.
Filled(ps) == {p \in Pane : p.sid # None /\ \E i \in DOMAIN ps : ps[i] = p}

TabOK(t) ==
  /\ t \in Tab /\ Len(t.panes) = PaneCount[t.lay] /\ t.act \in DOMAIN t.panes
  /\ Distinct(t.panes)

\* No two tabs have an id or a session in common.
TabsOK(T) ==
  /\ T \in Seq(Tab) /\ \A k \in DOMAIN T : TabOK(T[k])
  /\ \A j, k \in DOMAIN T : j # k => T[j].id # T[k].id /\ Shows(T[j]) \cap Shows(T[k]) = {}

\* A shell being started is shown nowhere, there is room for its tab, and the
\* pane it is meant for, if that tab is still there, is empty.
SpawnOK(o, q) ==
  /\ q.sid \notin ShownBy(o)
  /\ q.kind = "tab" => o.starting /\ Len(o.tabs) <= MaxTabs
  /\ q.kind = "split" => \A k \in DOMAIN o.tabs :
       o.tabs[k].id = q.tab => q.idx \in DOMAIN o.tabs[k].panes /\ o.tabs[k].panes[q.idx].sid = None

\* The shells being started are among the first n, each asked for once.
Numbered(Q, n) ==
  /\ \A q \in Q : q.sid \in 1..n
  /\ \A q, r \in Q : q.sid = r.sid => q = r

\* No two of them are meant for the same place.
Apart(Q) ==
  \A q, r \in Q : q.kind = r.kind /\ (q.kind = "split" => q.tab = r.tab /\ q.idx = r.idx) => q = r

\* The window but for the places the shells being started are meant for.
ScreenOK(o) ==
  /\ o \in Window /\ TabsOK(o.tabs) /\ Len(o.tabs) <= MaxTabs + 1
  /\ o.pend \subseteq o.local /\ o.local \subseteq 1..o.asked
  /\ ShownBy(o) \cap Locals \subseteq 1..o.asked
  /\ Numbered(o.spawns, o.asked)

WindowOK(o) ==
  /\ ScreenOK(o) /\ Apart(o.spawns)
  /\ \A q \in o.spawns : SpawnOK(o, q)

\* While nobody has disturbed what waits for a shell.
Inv ==
  /\ WindowOK(w)
  /\ alive \subseteq 1..w.asked /\ listed \subseteq 1..w.asked /\ lists \in Seq(SUBSET (1..w.asked))
  /\ raw \subseteq Remotes /\ ripe \subseteq missing /\ missing \subseteq Sids

-----------------------------------------------------------------------------
(* Numbers and panes *)

\* A nonempty set of natural numbers has a least element, and Min is it.
LEMMA LeastElement ==
  ASSUME NEW T, T \subseteq Nat, T # {}
  PROVE  /\ \E x \in T : \A y \in T : x <= y
         /\ Min(T) \in T /\ \A y \in T : Min(T) <= y
<1> DEFINE R == OpToRel(<, Nat)
<1>1. IsWellFoundedOn(R, Nat)
  BY NatLessThanWellFounded, Zenon
<1>2. \E x \in T : \A y \in T : ~ (<<y, x>> \in R)
  <2> HIDE DEF R
  <2>1. QED
    BY <1>1, WFMin
<1>3. \A x, y \in Nat : <<y, x>> \notin R => x <= y
  BY DEF OpToRel
<1>4. \E x \in T : \A y \in T : x <= y
  BY <1>2, <1>3
<1>5. QED
  BY <1>4, Zenon DEF Min

\* Of a nonempty set of pane numbers, Max is the greatest.
LEMMA GreatestPane ==
  ASSUME NEW T, T \subseteq 1..4, T # {}
  PROVE  Max(T) \in T /\ \A y \in T : y <= Max(T)
<1>1. \E x \in T : \A y \in T : x >= y
  <2>1. CASE 4 \in T
    BY <2>1
  <2>2. CASE 4 \notin T /\ 3 \in T
    BY <2>2
  <2>3. CASE 4 \notin T /\ 3 \notin T /\ 2 \in T
    BY <2>3
  <2>4. CASE 4 \notin T /\ 3 \notin T /\ 2 \notin T
    <3>1. \A y \in T : y = 1
      BY <2>4
    <3>2. PICK x \in T : TRUE
      OBVIOUS
    <3>3. x \in T /\ \A y \in T : x >= y
      BY <3>1, <3>2
    <3>4. QED
      BY <3>3
  <2>5. QED
    BY <2>1, <2>2, <2>3, <2>4
<1>2. Max(T) \in T /\ \A y \in T : Max(T) >= y
  BY <1>1, Zenon DEF Max
<1>3. QED
  BY <1>2

\* How many panes each layout has, and which numbers name no session.
LEMMA Counts ==
  /\ Layouts = DOMAIN PaneCount
  /\ PaneCount["single"] = 1 /\ PaneCount["vertical"] = 2 /\ PaneCount["horizontal"] = 2
  /\ PaneCount["grid2x2"] = 4
  /\ EmptyPane \in Pane /\ EmptyPane.sid = None /\ ~EmptyPane.rem
  /\ None \notin Sids /\ -1 \notin Sids /\ Locals \cap Remotes = {}
<1>1. DOMAIN PaneCount = {"single", "vertical", "horizontal", "grid2x2"}
  BY DEF PaneCount
<1>2. /\ PaneCount["single"] = 1 /\ PaneCount["vertical"] = 2 /\ PaneCount["horizontal"] = 2
      /\ PaneCount["grid2x2"] = 4
  BY DEF PaneCount
<1>3. EmptyPane \in Pane /\ EmptyPane.sid = None /\ ~EmptyPane.rem
  BY DEF EmptyPane, Pane
<1>4. None \notin Sids /\ -1 \notin Sids /\ Locals \cap Remotes = {}
  BY WorkspaceAssumption DEF None, Sids, Locals, Remotes
<1>5. QED
  BY <1>1, <1>2, <1>3, <1>4 DEF Layouts

\* What a tab shows.
LEMMA TabShows ==
  ASSUME NEW t \in Tab
  PROVE  /\ Len(t.panes) \in Nat /\ DOMAIN t.panes = 1..Len(t.panes)
         /\ \A i \in DOMAIN t.panes : t.panes[i] \in Pane
         /\ Shows(t) = {s \in Sids : \E i \in DOMAIN t.panes : t.panes[i].sid = s}
         /\ Shows(t) = {p.sid : p \in Filled(t.panes)}
         /\ \A i \in DOMAIN t.panes : t.panes[i].sid # None => t.panes[i].sid \in Shows(t)
<1>1. t.panes \in Seq(Pane)
  BY DEF Tab
<1>2. /\ Len(t.panes) \in Nat /\ DOMAIN t.panes = 1..Len(t.panes)
      /\ \A i \in DOMAIN t.panes : t.panes[i] \in Pane
  BY <1>1, LenProperties, ElementOfSeq
<1>3. \A p \in Pane : p.sid \in Sids \/ p.sid = None
  BY DEF Pane
<1>4. Shows(t) = {s \in Sids : \E i \in DOMAIN t.panes : t.panes[i].sid = s}
  BY <1>2, <1>3, Counts DEF Shows
<1>5. Shows(t) = {p.sid : p \in Filled(t.panes)}
  BY <1>2, <1>3, Counts DEF Shows, Filled
<1>6. QED
  BY <1>2, <1>3, <1>4, <1>5

\* The panes ps are taken from qs, each at most once, or empty.
TakenFrom(ps, qs, f) ==
  /\ \A i \in DOMAIN ps : ps[i].sid = None \/ (f[i] \in DOMAIN qs /\ ps[i] = qs[f[i]])
  /\ \A i, j \in DOMAIN ps : f[i] = f[j] /\ f[i] \in DOMAIN qs => i = j

\* Panes taken from others, each once, repeat no session and show nothing new.
LEMMA Rearranged ==
  ASSUME NEW ps \in Seq(Pane), NEW qs \in Seq(Pane), NEW f, TakenFrom(ps, qs, f), Distinct(qs)
  PROVE  Distinct(ps) /\ Filled(ps) \subseteq Filled(qs)
<1>1. Distinct(ps)
  <2>1. SUFFICES ASSUME NEW i \in DOMAIN ps, NEW j \in DOMAIN ps,
                        ps[i].sid = ps[j].sid, ps[i].sid # None
                 PROVE  i = j
    BY DEF Distinct
  <2>2. /\ f[i] \in DOMAIN qs /\ ps[i] = qs[f[i]]
        /\ f[j] \in DOMAIN qs /\ ps[j] = qs[f[j]]
    BY <2>1 DEF TakenFrom
  <2>3. f[i] = f[j]
    BY <2>1, <2>2 DEF Distinct
  <2>4. QED
    BY <2>2, <2>3 DEF TakenFrom
<1>2. Filled(ps) \subseteq Filled(qs)
  BY Zenon DEF Filled, TakenFrom
<1>3. QED
  BY <1>1, <1>2

-----------------------------------------------------------------------------
(* layout.ts *)

\* A tab written with another layout, other panes and another active pane.
Laid(t, lay, ps, act) == [t EXCEPT !.lay = lay, !.panes = ps, !.act = act]

\* Such a tab is a tab, with the fields it was given.
LEMMA TabWith ==
  ASSUME NEW t \in Tab, NEW lay \in Layouts, NEW ps \in Seq(Pane), NEW act \in Nat
  PROVE  /\ Laid(t, lay, ps, act) \in Tab
         /\ Laid(t, lay, ps, act).id = t.id /\ Laid(t, lay, ps, act).lay = lay
         /\ Laid(t, lay, ps, act).panes = ps /\ Laid(t, lay, ps, act).act = act
  BY DEF Tab, Laid

\* The first pane without a session.
LEMMA FirstEmptyFound ==
  ASSUME NEW t \in Tab, FirstEmpty(t.panes) # None
  PROVE  /\ FirstEmpty(t.panes) \in DOMAIN t.panes
         /\ t.panes[FirstEmpty(t.panes)].sid = None
<1> DEFINE E == {i \in DOMAIN t.panes : t.panes[i].sid = None}
<1>1. E \subseteq Nat
  BY TabShows
<1>2. E # {} /\ FirstEmpty(t.panes) = Min(E)
  BY DEF FirstEmpty
<1>3. Min(E) \in E
  <2> HIDE DEF E
  <2>1. QED
    BY <1>1, <1>2, LeastElement
<1>4. QED
  BY <1>2, <1>3

\* A tab laid out anew.
LEMMA Relaid ==
  ASSUME NEW t \in Tab, NEW lay \in Layouts, NEW ps \in Seq(Pane), NEW act \in DOMAIN ps,
         Len(ps) = PaneCount[lay], Distinct(ps)
  PROVE  /\ TabOK(Laid(t, lay, ps, act)) /\ Laid(t, lay, ps, act).id = t.id
         /\ Laid(t, lay, ps, act).panes = ps
<1>1. act \in Nat
  BY LenProperties
<1>2. QED
  BY <1>1, TabWith DEF TabOK

\* A split leaves the tab sound and shows the same; the new pane is empty.
LEMMA SplitTab ==
  ASSUME NEW t, TabOK(t), NEW i \in DOMAIN t.panes, NEW dir \in {"vertical", "horizontal"}
  PROVE  LET r == TransitionLayout(t, i, dir)
         IN  /\ TabOK(r.tab) /\ r.tab.id = t.id /\ Filled(r.tab.panes) = Filled(t.panes)
             /\ r.new # None => r.new \in DOMAIN r.tab.panes /\ r.tab.panes[r.new].sid = None
<1> DEFINE r == TransitionLayout(t, i, dir)
           p == t.panes
           Good == /\ TabOK(r.tab) /\ r.tab.id = t.id /\ Filled(r.tab.panes) = Filled(t.panes)
                   /\ r.new # None => r.new \in DOMAIN r.tab.panes /\ r.tab.panes[r.new].sid = None
<1>1. /\ t \in Tab /\ t.lay \in Layouts /\ p \in Seq(Pane) /\ Distinct(p)
      /\ Len(p) = PaneCount[t.lay] /\ DOMAIN p = 1..Len(p) /\ \A k \in DOMAIN p : p[k] \in Pane
  BY TabShows DEF TabOK, Tab
<1>2. dir \in Layouts /\ PaneCount[dir] = 2 /\ "grid2x2" \in Layouts
  BY Counts DEF Layouts
<1>3. ASSUME NEW ps \in Seq(Pane), NEW lay \in Layouts, Len(ps) = PaneCount[lay], NEW new \in DOMAIN ps,
             ps[new].sid = None, NEW f, TakenFrom(ps, p, f), Filled(p) \subseteq Filled(ps),
             r = [tab |-> Laid(t, lay, ps, new), new |-> new]
      PROVE  Good
  <2> DEFINE u == Laid(t, lay, ps, new)
  <2>0. Len(ps) = PaneCount[lay] /\ TakenFrom(ps, t.panes, f)
    BY <1>3
  <2>3. Distinct(ps) /\ Filled(ps) \subseteq Filled(p)
    BY <1>1, <2>0, Rearranged
  <2>1. TabOK(u) /\ u.id = t.id /\ u.panes = ps
    BY <1>1, <2>0, <2>3, Relaid
  <2>2. r.tab = u /\ r.new = new
    BY <1>3
  <2> HIDE DEF u, r
  <2>4. QED
    BY <1>3, <2>1, <2>2, <2>3
<1> SUFFICES Good
  OBVIOUS
<1> HIDE DEF Good
<1>4. CASE t.lay = "single"
  <2> DEFINE ps == <<p[1], EmptyPane>>
             f  == <<1, 0>>
  <2>1. DOMAIN p = 1..1
    BY <1>1, <1>4, Counts
  <2>2. p[1] \in Pane /\ ps \in Seq(Pane) /\ Len(ps) = 2 /\ DOMAIN ps = 1..2 /\ ps[1] = p[1] /\ ps[2] = EmptyPane
    BY <1>1, <2>1, Counts
  <2>3. f[1] = 1 /\ f[2] = 0
    OBVIOUS
  <2>4. r = [tab |-> Laid(t, dir, ps, 2), new |-> 2]
    BY <1>4 DEF TransitionLayout, Laid
  <2> HIDE DEF f, ps, r
  <2>5. TakenFrom(ps, p, f)
    BY <2>1, <2>2, <2>3, Counts DEF TakenFrom
  <2>6. \A k \in DOMAIN p : \E l \in DOMAIN ps : ps[l] = p[k]
    BY <2>1, <2>2
  <2>7. Filled(p) \subseteq Filled(ps)
    BY <2>6 DEF Filled
  <2>8. Len(ps) = PaneCount[dir] /\ 2 \in DOMAIN ps /\ ps[2].sid = None
    BY <1>2, <2>2, Counts
  <2>9. QED
    BY <1>2, <1>3, <2>2, <2>4, <2>5, <2>7, <2>8, Zenon
<1>5. CASE t.lay = "vertical"
  <2> DEFINE ps == <<p[1], p[2], EmptyPane, EmptyPane>>
             f  == <<1, 2, 0, 0>>
             n  == IF i = 1 THEN 3 ELSE 4
  <2>1. DOMAIN p = 1..2
    BY <1>1, <1>5, Counts
  <2>2. /\ ps \in Seq(Pane) /\ Len(ps) = 4 /\ DOMAIN ps = 1..4 /\ ps[1] = p[1] /\ ps[2] = p[2]
        /\ ps[3] = EmptyPane /\ ps[4] = EmptyPane
    BY <1>1, <2>1, Counts
  <2>3. f[1] = 1 /\ f[2] = 2 /\ f[3] = 0 /\ f[4] = 0
    OBVIOUS
  <2>4. r = [tab |-> Laid(t, "grid2x2", ps, n), new |-> n]
    BY <1>5 DEF TransitionLayout, Laid
  <2>5. n = 3 \/ n = 4
    OBVIOUS
  <2> HIDE DEF f, ps, r, n
  <2>6. TakenFrom(ps, p, f)
    BY <2>1, <2>2, <2>3, Counts DEF TakenFrom
  <2>7. \A k \in DOMAIN p : \E l \in DOMAIN ps : ps[l] = p[k]
    BY <2>1, <2>2
  <2>8. Filled(p) \subseteq Filled(ps)
    BY <2>7 DEF Filled
  <2>9. Len(ps) = PaneCount["grid2x2"] /\ n \in DOMAIN ps /\ ps[n].sid = None
    BY <2>2, <2>5, Counts
  <2>10. QED
    BY <1>2, <1>3, <2>2, <2>4, <2>6, <2>8, <2>9, Zenon
<1>6. CASE t.lay = "horizontal"
  <2> DEFINE ps == <<p[1], EmptyPane, p[2], EmptyPane>>
             f  == <<1, 0, 2, 0>>
             n  == IF i = 1 THEN 2 ELSE 4
  <2>1. DOMAIN p = 1..2
    BY <1>1, <1>6, Counts
  <2>2. /\ ps \in Seq(Pane) /\ Len(ps) = 4 /\ DOMAIN ps = 1..4 /\ ps[1] = p[1] /\ ps[2] = EmptyPane
        /\ ps[3] = p[2] /\ ps[4] = EmptyPane
    BY <1>1, <2>1, Counts
  <2>3. f[1] = 1 /\ f[2] = 0 /\ f[3] = 2 /\ f[4] = 0
    OBVIOUS
  <2>4. r = [tab |-> Laid(t, "grid2x2", ps, n), new |-> n]
    BY <1>6 DEF TransitionLayout, Laid
  <2>5. n = 2 \/ n = 4
    OBVIOUS
  <2> HIDE DEF f, ps, r, n
  <2>6. TakenFrom(ps, p, f)
    BY <2>1, <2>2, <2>3, Counts DEF TakenFrom
  <2>7. \A k \in DOMAIN p : \E l \in DOMAIN ps : ps[l] = p[k]
    BY <2>1, <2>2
  <2>8. Filled(p) \subseteq Filled(ps)
    BY <2>7 DEF Filled
  <2>9. Len(ps) = PaneCount["grid2x2"] /\ n \in DOMAIN ps /\ ps[n].sid = None
    BY <2>2, <2>5, Counts
  <2>10. QED
    BY <1>2, <1>3, <2>2, <2>4, <2>6, <2>8, <2>9, Zenon
<1>7. CASE t.lay = "grid2x2"
  <2>1. CASE FirstEmpty(p) = None
    <3>1. r = [tab |-> t, new |-> None]
      BY <1>7, <2>1 DEF TransitionLayout, Laid
    <3>2. r.tab = t /\ r.new = None
      BY <3>1
    <3> HIDE DEF r
    <3>3. QED
      BY <3>2, Zenon DEF Good
  <2>2. CASE FirstEmpty(p) # None
    <3> DEFINE n == FirstEmpty(p)
               f == [k \in DOMAIN p |-> k]
    <3>1. r = [tab |-> Laid(t, "grid2x2", p, n), new |-> n]
      BY <1>7, <2>2 DEF TransitionLayout, Laid
    <3>2. n \in DOMAIN p /\ p[n].sid = None
      BY <1>1, <2>2, FirstEmptyFound
    <3>3. \A k \in DOMAIN p : f[k] = k
      OBVIOUS
    <3> HIDE DEF f, r, n
    <3>4. Len(p) = PaneCount["grid2x2"]
      BY <1>1, <1>7
    <3>5. TakenFrom(p, p, f)
      BY <3>3 DEF TakenFrom
    <3>6. Filled(p) \subseteq Filled(p)
      OBVIOUS
    <3>7. QED
      BY <1>1, <1>2, <1>3, <3>1, <3>2, <3>4, <3>5, <3>6, Zenon
  <2>3. QED
    BY <2>1, <2>2
<1>8. Good
  <2>1. t.lay = "single" \/ t.lay = "vertical" \/ t.lay = "horizontal" \/ t.lay = "grid2x2"
    BY <1>1 DEF Layouts
  <2>2. QED
    BY <2>1, <1>4, <1>5, <1>6, <1>7, Zenon
<1>9. QED
  BY <1>8

\* How many panes are filled, and which.
LEMMA FilledCount ==
  ASSUME NEW E \in SUBSET (1..4)
  PROVE  /\ Cardinality(E) \in Nat
         /\ Cardinality(E) = 0 => E = {}
         /\ Cardinality(E) # 0 => Min(E) \in E
         /\ Cardinality(E) = 1 => E = {Min(E)}
         /\ Cardinality(E) = 2 => Max(E) # Min(E) /\ E = {Min(E), Max(E)}
<1>1. IsFiniteSet(E)
  <2>0. 1 \in Int /\ 4 \in Int
    OBVIOUS
  <2>1. IsFiniteSet(1..4)
    BY <2>0, FS_Interval, Zenon
  <2>2. QED
    BY <2>1, FS_Subset
<1>2. Cardinality(E) \in Nat /\ (Cardinality(E) = 0 <=> E = {})
  BY <1>1, FS_CardinalityType, FS_EmptySet
<1>3. E # {} => /\ Min(E) \in E /\ (\A y \in E : Min(E) <= y)
                /\ Max(E) \in E /\ (\A y \in E : y <= Max(E))
  <2>1. E \subseteq Nat
    OBVIOUS
  <2>2. QED
    BY <2>1, LeastElement, GreatestPane
<1>4. Cardinality(E) = 1 => E = {Min(E)}
  BY <1>1, <1>2, <1>3, FS_Singleton
<1>5. ASSUME Cardinality(E) = 2 PROVE Max(E) # Min(E) /\ E = {Min(E), Max(E)}
  <2>1. E # {}
    BY <1>2, <1>5
  <2> DEFINE a == Min(E)
             b == Max(E)
             D == E \ {a}
  <2>2. a \in E /\ b \in E /\ \A y \in E : a <= y /\ y <= b
    BY <1>3, <2>1
  <2>3. IsFiniteSet(D) /\ Cardinality(D) = 1
    BY <1>1, <1>5, <2>2, FS_RemoveElement
  <2>4. PICK x : D = {x}
    <3> HIDE DEF D
    <3>1. QED
      BY <2>3, FS_Singleton
  <2>5. x \in E /\ x # a /\ E = {a, x}
    BY <2>2, <2>4
  <2>6. a \in Nat /\ b \in Nat /\ x \in Nat
    <3>1. \A y \in E : y \in Nat
      OBVIOUS
    <3>2. QED
      BY <2>2, <2>5, <3>1, Zenon
  <2> HIDE DEF a, b, D
  <2>7. b = x
    BY <2>2, <2>5, <2>6
  <2>8. QED
    BY <2>5, <2>7 DEF a, b
<1>6. QED
  BY <1>2, <1>3, <1>4, <1>5

\* All panes but number i are kept.
AllBut(ps, qs, f, i) ==
  /\ TakenFrom(ps, qs, f)
  /\ \A l \in DOMAIN ps : ps[l].sid # None => f[l] # i
  /\ \A k \in DOMAIN qs : k # i /\ qs[k].sid # None => \E l \in DOMAIN ps : ps[l] = qs[k]

\* Panes taken from all but one of the others show what those showed, but for it.
LEMMA AllButOne ==
  ASSUME NEW ps \in Seq(Pane), NEW qs \in Seq(Pane), NEW i \in DOMAIN qs, NEW f,
         AllBut(ps, qs, f, i), Distinct(qs)
  PROVE  Distinct(ps) /\ Filled(ps) = Filled(qs) \ {qs[i]}
<1>1. Distinct(ps) /\ Filled(ps) \subseteq Filled(qs)
  BY Rearranged DEF AllBut
<1>2. ASSUME NEW x \in Filled(ps) PROVE x # qs[i]
  <2>1. PICK l \in DOMAIN ps : ps[l] = x
    BY DEF Filled
  <2>2. x.sid # None
    BY DEF Filled
  <2>3. f[l] \in DOMAIN qs /\ x = qs[f[l]] /\ f[l] # i
    BY <2>1, <2>2 DEF TakenFrom, AllBut
  <2>4. QED
    BY <2>2, <2>3 DEF Distinct
<1>3. ASSUME NEW x \in Filled(qs), x # qs[i] PROVE x \in Filled(ps)
  <2>1. PICK k \in DOMAIN qs : qs[k] = x
    BY DEF Filled
  <2>2. x \in Pane /\ x.sid # None /\ k # i
    BY <1>3, <2>1 DEF Filled
  <2>3. \E l \in DOMAIN ps : ps[l] = x
    BY <2>1, <2>2 DEF AllBut
  <2>4. QED
    BY <2>2, <2>3 DEF Filled
<1>4. QED
  BY <1>1, <1>2, <1>3

\* A closed pane leaves the tab sound and without it; the tab is to go when it
\* showed nothing else.
ClosedOK(t, i, r) ==
  /\ TabOK(r.tab) /\ r.tab.id = t.id /\ r.gone \in BOOLEAN
  /\ ~r.gone => Filled(r.tab.panes) = Filled(t.panes) \ {t.panes[i]}
  /\ r.gone => Filled(t.panes) \subseteq {t.panes[i]}
  /\ r.gone => IF t.lay = "single" THEN r.tab.panes = t.panes ELSE Filled(r.tab.panes) = {}

\* closePane leaves a tab of its layout that shows everything but the closed pane,
\* or asks for the tab to be closed.
LEMMA CloseOnePane ==
  ASSUME NEW t, TabOK(t), NEW i \in DOMAIN t.panes
  PROVE  ClosedOK(t, i, ClosePane(t, i))
<1> DEFINE r == ClosePane(t, i)
           p == t.panes
<1>1. /\ t \in Tab /\ t.lay \in Layouts /\ p \in Seq(Pane) /\ Distinct(p)
      /\ Len(p) = PaneCount[t.lay] /\ DOMAIN p = 1..Len(p) /\ \A k \in DOMAIN p : p[k] \in Pane
  BY TabShows DEF TabOK, Tab
<1>2. "single" \in Layouts /\ "vertical" \in Layouts /\ "horizontal" \in Layouts /\ "grid2x2" \in Layouts
  BY DEF Layouts
<1>3. ASSUME NEW ps \in Seq(Pane), NEW lay \in Layouts, Len(ps) = PaneCount[lay], NEW new \in DOMAIN ps,
             Distinct(ps), Filled(ps) = Filled(p) \ {p[i]},
             r = [tab |-> Laid(t, lay, ps, new), gone |-> FALSE]
      PROVE  ClosedOK(t, i, r)
  <2> DEFINE u == Laid(t, lay, ps, new)
  <2>0. Len(ps) = PaneCount[lay] /\ Distinct(ps) /\ Filled(ps) = Filled(p) \ {p[i]}
    BY <1>3
  <2>1. TabOK(u) /\ u.id = t.id /\ u.panes = ps
    BY <1>1, <2>0, Relaid
  <2>2. r.tab = u /\ r.gone = FALSE
    BY <1>3
  <2> HIDE DEF u, r
  <2>3. QED
    BY <2>0, <2>1, <2>2 DEF ClosedOK
<1> SUFFICES ClosedOK(t, i, r)
  OBVIOUS
<1>4. CASE t.lay = "single"
  <2>1. DOMAIN p = 1..1 /\ i = 1
    BY <1>1, <1>4, Counts
  <2>2. r = [tab |-> [t EXCEPT !.act = 1], gone |-> TRUE]
    BY <1>4 DEF ClosePane
  <2> DEFINE u == [t EXCEPT !.act = 1]
  <2>3. u \in Tab /\ u.id = t.id /\ u.lay = t.lay /\ u.panes = p /\ u.act = 1
    BY <1>1 DEF Tab
  <2>4. r.tab = u /\ r.gone = TRUE
    BY <2>2
  <2> HIDE DEF u, r
  <2>5. TabOK(u)
    BY <1>1, <2>1, <2>3 DEF TabOK
  <2>6. Filled(p) \subseteq {p[i]}
    BY <2>1 DEF Filled
  <2>7. QED
    BY <1>4, <2>3, <2>4, <2>5, <2>6 DEF ClosedOK
<1>5. CASE t.lay = "vertical" \/ t.lay = "horizontal"
  <2> DEFINE j  == IF i = 1 THEN 2 ELSE 1
             ps == <<p[j]>>
             f  == <<j>>
  <2>1. DOMAIN p = 1..2
    BY <1>1, <1>5, Counts
  <2>2. r = [tab |-> Laid(t, "single", ps, 1), gone |-> FALSE]
    BY <1>5 DEF ClosePane, Laid
  <2>3. j \in DOMAIN p /\ j # i /\ \A k \in DOMAIN p : k # i => k = j
    BY <2>1
  <2> HIDE DEF j
  <2>4. ps \in Seq(Pane) /\ Len(ps) = 1 /\ DOMAIN ps = 1..1 /\ ps[1] = p[j] /\ f[1] = j
    BY <1>1, <2>3
  <2> HIDE DEF f, ps, r
  <2>5. TakenFrom(ps, p, f)
    BY <2>3, <2>4 DEF TakenFrom
  <2>6. AllBut(ps, p, f, i)
    BY <2>3, <2>4, <2>5 DEF AllBut
  <2>7. Distinct(ps) /\ Filled(ps) = Filled(p) \ {p[i]}
    BY <1>1, <2>4, <2>6, AllButOne
  <2>8. Len(ps) = PaneCount["single"] /\ 1 \in DOMAIN ps
    BY <2>4, Counts
  <2>9. QED
    BY <1>2, <1>3, <2>2, <2>4, <2>7, <2>8, Zenon
<1>6. CASE t.lay = "grid2x2"
  <2> DEFINE next == [p EXCEPT ![i] = EmptyPane]
             filled == {k \in DOMAIN next : next[k].sid # None}
             n == Cardinality(filled)
             a == Min(filled)
             b == Max(filled)
  <2>1. DOMAIN p = 1..4 /\ Len(p) = 4
    BY <1>1, <1>6, Counts
  <2>2. /\ DOMAIN next = 1..4 /\ next[i] = EmptyPane
        /\ \A k \in 1..4 : k # i => next[k] = p[k]
    BY <2>1
  <2>3. next \in Seq(Pane) /\ Len(next) = 4
    BY <1>1, <2>1, Counts
  <2>4. filled \in SUBSET (1..4)
    BY <2>2
  <2>5. \A k \in 1..4 : k \in filled <=> (k # i /\ p[k].sid # None)
    BY <2>2, Counts
  <2>6. \A k \in filled : k \in 1..4 /\ k \in DOMAIN p /\ k # i /\ next[k] = p[k]
    BY <2>1, <2>2, <2>4, <2>5
  <2>7. /\ n \in Nat /\ (n = 0 => filled = {}) /\ (n # 0 => a \in filled)
        /\ (n = 1 => filled = {a}) /\ (n = 2 => b # a /\ filled = {a, b})
    <3> HIDE DEF filled
    <3>1. QED
      BY <2>4, FilledCount
  <2>8. CASE n >= 3
    <3> DEFINE f == [k \in 1..4 |-> k]
    <3>1. r = [tab |-> Laid(t, "grid2x2", next, a), gone |-> FALSE]
      BY <1>6, <2>8 DEF ClosePane, Laid
    <3>2. a \in DOMAIN next
      BY <2>2, <2>6, <2>7, <2>8
    <3>3. \A k \in 1..4 : f[k] = k
      OBVIOUS
    <3> HIDE DEF next, filled, n, a, b, f, r
    <3>4. TakenFrom(next, p, f)
      BY <2>1, <2>2, <3>3, Counts DEF TakenFrom
    <3>5. AllBut(next, p, f, i)
      BY <2>1, <2>2, <3>3, <3>4, Counts DEF AllBut
    <3>6. Distinct(next) /\ Filled(next) = Filled(p) \ {p[i]}
      BY <1>1, <2>3, <3>5, AllButOne
    <3>7. Len(next) = PaneCount["grid2x2"]
      BY <2>3, Counts
    <3>8. QED
      BY <1>2, <1>3, <2>3, <3>1, <3>2, <3>6, <3>7, Zenon
  <2>9. CASE n = 2
    <3> DEFINE ps  == <<next[a], next[b]>>
               f   == <<a, b>>
               lay == IF filled \in {{1, 3}, {2, 4}} THEN "horizontal" ELSE "vertical"
    <3>1. r = [tab |-> Laid(t, lay, ps, 1), gone |-> FALSE]
      BY <1>6, <2>9 DEF ClosePane, Laid
    <3>2. lay \in Layouts /\ PaneCount[lay] = 2
      BY <1>2, Counts
    <3> HIDE DEF next, filled, n, a, b, r, lay
    <3>3. a \in filled /\ b \in filled /\ b # a
      BY <2>7, <2>9
    <3>4. p[a] \in Pane /\ p[b] \in Pane /\ next[a] = p[a] /\ next[b] = p[b]
      BY <1>1, <2>6, <3>3
    <3>5. /\ ps \in Seq(Pane) /\ Len(ps) = 2 /\ DOMAIN ps = 1..2 /\ ps[1] = p[a] /\ ps[2] = p[b]
          /\ f[1] = a /\ f[2] = b
      BY <3>4
    <3> HIDE DEF ps, f
    <3>6. TakenFrom(ps, p, f)
      BY <2>6, <3>3, <3>5 DEF TakenFrom
    <3>7. AllBut(ps, p, f, i)
      <4>1. \A l \in DOMAIN ps : f[l] # i
        BY <2>6, <3>3, <3>5
      <4>2. ASSUME NEW k \in DOMAIN p, k # i, p[k].sid # None PROVE \E l \in DOMAIN ps : ps[l] = p[k]
        <5>1. k \in filled
          BY <2>1, <2>5, <4>2
        <5>2. k = a \/ k = b
          BY <2>7, <2>9, <5>1
        <5>3. QED
          BY <3>5, <5>2
      <4>3. QED
        BY <3>6, <4>1, <4>2 DEF AllBut
    <3>8. Distinct(ps) /\ Filled(ps) = Filled(p) \ {p[i]}
      BY <1>1, <3>5, <3>7, AllButOne
    <3>9. Len(ps) = PaneCount[lay] /\ 1 \in DOMAIN ps
      BY <3>2, <3>5
    <3>10. QED
      BY <1>3, <3>1, <3>2, <3>5, <3>8, <3>9, Zenon
  <2>10. CASE n = 1
    <3> DEFINE ps == <<next[a]>>
               f  == <<a>>
    <3>1. r = [tab |-> Laid(t, "single", ps, 1), gone |-> FALSE]
      BY <1>6, <2>10 DEF ClosePane, Laid
    <3> HIDE DEF next, filled, n, a, b, r
    <3>2. a \in filled
      BY <2>7, <2>10
    <3>3. p[a] \in Pane /\ next[a] = p[a]
      BY <1>1, <2>6, <3>2
    <3>4. ps \in Seq(Pane) /\ Len(ps) = 1 /\ DOMAIN ps = 1..1 /\ ps[1] = p[a] /\ f[1] = a
      BY <3>3
    <3> HIDE DEF ps, f
    <3>5. TakenFrom(ps, p, f)
      BY <2>6, <3>2, <3>4 DEF TakenFrom
    <3>6. AllBut(ps, p, f, i)
      <4>1. \A l \in DOMAIN ps : f[l] # i
        BY <2>6, <3>2, <3>4
      <4>2. ASSUME NEW k \in DOMAIN p, k # i, p[k].sid # None PROVE \E l \in DOMAIN ps : ps[l] = p[k]
        <5>1. k \in filled
          BY <2>1, <2>5, <4>2
        <5>2. k = a
          BY <2>7, <2>10, <5>1
        <5>3. QED
          BY <3>4, <5>2
      <4>3. QED
        BY <3>5, <4>1, <4>2 DEF AllBut
    <3>7. Distinct(ps) /\ Filled(ps) = Filled(p) \ {p[i]}
      BY <1>1, <3>4, <3>6, AllButOne
    <3>8. Len(ps) = PaneCount["single"] /\ 1 \in DOMAIN ps
      BY <3>4, Counts
    <3>9. QED
      BY <1>2, <1>3, <3>1, <3>4, <3>7, <3>8, Zenon
  <2>11. CASE n = 0
    <3> DEFINE u == SingleTab(t.id, EmptyPane)
    <3>1. r = [tab |-> u, gone |-> TRUE]
      BY <1>6, <2>11 DEF ClosePane
    <3>2. /\ u \in Tab /\ u.id = t.id /\ u.lay = "single" /\ u.act = 1
          /\ u.panes = <<EmptyPane>> /\ Len(u.panes) = 1 /\ DOMAIN u.panes = 1..1
      BY <1>1, <1>2, Counts DEF SingleTab, Tab
    <3>3. r.tab = u /\ r.gone = TRUE
      BY <3>1
    <3> HIDE DEF next, filled, n, a, b, r, u
    <3>4. Filled(u.panes) = {} /\ Distinct(u.panes)
      BY <3>2, Counts DEF Filled, Distinct
    <3>5. Filled(p) \subseteq {p[i]}
      BY <2>1, <2>5, <2>7, <2>11 DEF Filled
    <3>6. TabOK(u)
      BY <3>2, <3>4, Counts DEF TabOK
    <3>7. QED
      BY <1>6, <3>2, <3>3, <3>4, <3>5, <3>6 DEF ClosedOK
  <2>12. n = 0 \/ n = 1 \/ n = 2 \/ n >= 3
    BY <2>7
  <2>13. QED
    BY <2>8, <2>9, <2>10, <2>11, <2>12, Zenon
<1>7. t.lay = "single" \/ (t.lay = "vertical" \/ t.lay = "horizontal") \/ t.lay = "grid2x2"
  BY <1>1 DEF Layouts
<1>8. QED
  BY <1>4, <1>5, <1>6, <1>7, Zenon

\* A tab of one pane.
LEMMA OneTab ==
  ASSUME NEW id \in TabIds, NEW p \in Pane
  PROVE  /\ TabOK(SingleTab(id, p)) /\ SingleTab(id, p).id = id
         /\ SingleTab(id, p).lay = "single" /\ SingleTab(id, p).panes = <<p>>
         /\ Filled(SingleTab(id, p).panes) = {x \in {p} : x.sid # None}
<1> DEFINE u == SingleTab(id, p)
<1>1. /\ u \in Tab /\ u.id = id /\ u.lay = "single" /\ u.act = 1
      /\ u.panes = <<p>> /\ Len(u.panes) = 1 /\ DOMAIN u.panes = 1..1 /\ u.panes[1] = p
  BY DEF SingleTab, Tab, Layouts
<1> HIDE DEF u
<1>2. Filled(u.panes) = {x \in {p} : x.sid # None} /\ Distinct(u.panes)
  BY <1>1 DEF Filled, Distinct
<1>3. TabOK(u)
  BY <1>1, <1>2, Counts DEF TabOK
<1>4. QED
  BY <1>1, <1>2, <1>3 DEF u

\* Another pane becomes the active one.
LEMMA ActTab ==
  ASSUME NEW t, TabOK(t), NEW i \in DOMAIN t.panes
  PROVE  /\ TabOK([t EXCEPT !.act = i]) /\ [t EXCEPT !.act = i].id = t.id
         /\ [t EXCEPT !.act = i].panes = t.panes /\ [t EXCEPT !.act = i].lay = t.lay
<1> DEFINE u == [t EXCEPT !.act = i]
<1>1. t \in Tab /\ i \in Nat
  BY TabShows DEF TabOK
<1>2. u \in Tab /\ u.id = t.id /\ u.lay = t.lay /\ u.panes = t.panes /\ u.act = i
  BY <1>1 DEF Tab
<1> HIDE DEF u
<1>3. TabOK(u)
  BY <1>2 DEF TabOK
<1>4. QED
  BY <1>2, <1>3 DEF u

\* Other panes in the same layout.
LEMMA PanesTab ==
  ASSUME NEW t, TabOK(t), NEW ps \in Seq(Pane), Len(ps) = Len(t.panes), Distinct(ps)
  PROVE  /\ TabOK([t EXCEPT !.panes = ps]) /\ [t EXCEPT !.panes = ps].id = t.id
         /\ [t EXCEPT !.panes = ps].panes = ps /\ [t EXCEPT !.panes = ps].lay = t.lay
         /\ \A i \in DOMAIN ps : /\ TabOK([t EXCEPT !.panes = ps, !.act = i])
                                 /\ [t EXCEPT !.panes = ps, !.act = i].id = t.id
                                 /\ [t EXCEPT !.panes = ps, !.act = i].panes = ps
<1>1. t \in Tab /\ DOMAIN ps = 1..Len(ps) /\ DOMAIN t.panes = 1..Len(t.panes)
  BY TabShows, LenProperties DEF TabOK
<1> DEFINE u == [t EXCEPT !.panes = ps]
<1>2. u \in Tab /\ u.id = t.id /\ u.lay = t.lay /\ u.panes = ps /\ u.act = t.act
  BY <1>1 DEF Tab
<1>3. TabOK(u)
  <2> HIDE DEF u
  <2>1. QED
    BY <1>1, <1>2 DEF TabOK
<1>4. ASSUME NEW i \in DOMAIN ps
      PROVE  /\ TabOK([t EXCEPT !.panes = ps, !.act = i])
             /\ [t EXCEPT !.panes = ps, !.act = i].id = t.id
             /\ [t EXCEPT !.panes = ps, !.act = i].panes = ps
  <2> DEFINE v == [t EXCEPT !.panes = ps, !.act = i]
  <2>1. i \in Nat
    BY <1>1, LenProperties
  <2>2. v \in Tab /\ v.id = t.id /\ v.lay = t.lay /\ v.panes = ps /\ v.act = i
    BY <1>1, <2>1 DEF Tab
  <2> HIDE DEF v
  <2>3. TabOK(v)
    BY <1>1, <2>2 DEF TabOK
  <2>4. QED
    BY <2>2, <2>3 DEF v
<1>5. QED
  BY <1>2, <1>3, <1>4

\* Two panes change places.
LEMMA SwapTab ==
  ASSUME NEW t, TabOK(t), NEW k \in DOMAIN t.panes, NEW i \in DOMAIN t.panes
  PROVE  LET ps == SwapPanes(t.panes, k, i)
         IN  /\ ps \in Seq(Pane) /\ Len(ps) = Len(t.panes) /\ DOMAIN ps = DOMAIN t.panes
             /\ Distinct(ps) /\ Filled(ps) = Filled(t.panes)
<1> DEFINE p  == t.panes
           ps == SwapPanes(p, k, i)
           f  == [l \in DOMAIN p |-> IF l = i THEN k ELSE IF l = k THEN i ELSE l]
<1>1. /\ p \in Seq(Pane) /\ Distinct(p) /\ DOMAIN p = 1..Len(p) /\ Len(p) \in Nat
      /\ \A l \in DOMAIN p : p[l] \in Pane
  BY TabShows DEF TabOK, Tab
<1>2. /\ DOMAIN ps = DOMAIN p
      /\ \A l \in DOMAIN p : ps[l] = IF l = i THEN p[k] ELSE IF l = k THEN p[i] ELSE p[l]
  BY DEF SwapPanes
<1>3. \A l \in DOMAIN p : ps[l] = p[f[l]] /\ f[l] \in DOMAIN p /\ ps[l] \in Pane
  BY <1>1, <1>2
<1>4. ps = [l \in 1..Len(p) |-> ps[l]]
  BY <1>1, <1>2 DEF SwapPanes
<1>5. \A l, m \in DOMAIN p : f[l] = f[m] => l = m
  OBVIOUS
<1>6. \A l \in DOMAIN p : f[f[l]] = l
  OBVIOUS
<1> HIDE DEF ps, f
<1>7. ps \in Seq(Pane) /\ Len(ps) = Len(p)
  <2>1. ps \in [1..Len(p) -> Pane]
    BY <1>1, <1>2, <1>3, <1>4
  <2>2. QED
    BY <1>1, <2>1
<1>8. TakenFrom(ps, p, f)
  BY <1>2, <1>3, <1>5 DEF TakenFrom
<1>9. Distinct(ps) /\ Filled(ps) \subseteq Filled(p)
  BY <1>1, <1>7, <1>8, Rearranged
<1>10. \A l \in DOMAIN p : f[l] \in DOMAIN ps /\ ps[f[l]] = p[l]
  BY <1>2, <1>3, <1>6
<1>11. Filled(p) \subseteq Filled(ps)
  BY <1>10, Zenon DEF Filled
<1>12. QED
  BY <1>2, <1>7, <1>9, <1>11 DEF ps

\* A session that the tab does not show fills an empty pane.
LEMMA FillPane ==
  ASSUME NEW t, TabOK(t), NEW k \in DOMAIN t.panes, t.panes[k].sid = None,
         NEW x \in Pane, x.sid \in Sids, x.sid \notin Shows(t)
  PROVE  LET ps == [t.panes EXCEPT ![k] = x]
         IN  /\ ps \in Seq(Pane) /\ Len(ps) = Len(t.panes) /\ DOMAIN ps = DOMAIN t.panes
             /\ Distinct(ps) /\ Filled(ps) = Filled(t.panes) \cup {x}
<1> DEFINE p  == t.panes
           ps == [p EXCEPT ![k] = x]
<1>1. /\ p \in Seq(Pane) /\ Distinct(p) /\ DOMAIN p = 1..Len(p) /\ Len(p) \in Nat
      /\ \A l \in DOMAIN p : p[l] \in Pane /\ (p[l].sid # None => p[l].sid # x.sid)
  BY TabShows, Zenon DEF TabOK, Tab
<1>2. /\ DOMAIN ps = DOMAIN p /\ ps \in Seq(Pane) /\ Len(ps) = Len(p)
      /\ \A l \in DOMAIN p : ps[l] = IF l = k THEN x ELSE p[l]
  BY <1>1
<1>3. x.sid # None
  BY Counts
<1> HIDE DEF ps
<1>4. Distinct(ps)
  BY <1>1, <1>2, <1>3 DEF Distinct
<1>5. Filled(ps) = Filled(p) \cup {x}
  BY <1>2, <1>3 DEF Filled
<1>6. QED
  BY <1>2, <1>4, <1>5 DEF ps

-----------------------------------------------------------------------------
(* Sequences of tabs *)

\* What all tabs show.
AllShown(T) == UNION {Shows(T[k]) : k \in DOMAIN T}

\* A tab of the sequence is replaced; it may show more, but nothing that another
\* tab shows.
LEMMA ReplaceTab ==
  ASSUME NEW T, TabsOK(T), NEW k \in DOMAIN T, NEW u, TabOK(u), u.id = T[k].id,
         \A j \in DOMAIN T : j # k => Shows(u) \cap Shows(T[j]) = {}
  PROVE  LET U == [T EXCEPT ![k] = u]
         IN  /\ TabsOK(U) /\ Len(U) = Len(T) /\ DOMAIN U = DOMAIN T
             /\ \A j \in DOMAIN T : U[j] = IF j = k THEN u ELSE T[j]
<1> DEFINE U == [T EXCEPT ![k] = u]
<1>1. T \in Seq(Tab) /\ u \in Tab
  BY DEF TabsOK, TabOK
<1>2. U \in Seq(Tab) /\ Len(U) = Len(T) /\ DOMAIN U = DOMAIN T
  BY <1>1
<1>3. \A j \in DOMAIN T : U[j] = IF j = k THEN u ELSE T[j]
  BY <1>1
<1> HIDE DEF U
<1>4. \A j \in DOMAIN U : TabOK(U[j])
  BY <1>2, <1>3 DEF TabsOK
<1>5. ASSUME NEW i \in DOMAIN U, NEW j \in DOMAIN U, i # j
      PROVE  U[i].id # U[j].id /\ Shows(U[i]) \cap Shows(U[j]) = {}
  <2>1. T[i].id # T[j].id /\ Shows(T[i]) \cap Shows(T[j]) = {}
    BY <1>2, <1>5 DEF TabsOK
  <2>2. CASE i = k
    <3>1. U[i] = u /\ U[j] = T[j] /\ j # k
      BY <1>2, <1>3, <1>5, <2>2
    <3>2. QED
      BY <1>2, <2>1, <2>2, <3>1
  <2>3. CASE j = k
    <3>1. U[j] = u /\ U[i] = T[i] /\ i # k
      BY <1>2, <1>3, <1>5, <2>3
    <3>2. QED
      BY <1>2, <2>1, <2>3, <3>1
  <2>4. CASE i # k /\ j # k
    BY <1>2, <1>3, <2>1, <2>4
  <2>5. QED
    BY <2>2, <2>3, <2>4
<1>6. QED
  BY <1>2, <1>3, <1>4, <1>5 DEF TabsOK, U

\* A tab is added.
LEMMA AddTab ==
  ASSUME NEW T, TabsOK(T), NEW u, TabOK(u), \A j \in DOMAIN T : T[j].id # u.id,
         Shows(u) \cap AllShown(T) = {}
  PROVE  LET U == Append(T, u)
         IN  /\ TabsOK(U) /\ Len(U) = Len(T) + 1 /\ Len(T) \in Nat /\ Len(T) + 1 \in DOMAIN U
             /\ \A j \in DOMAIN T : j \in DOMAIN U /\ U[j] = T[j]
             /\ U[Len(T) + 1] = u /\ \A j \in DOMAIN U : j \in DOMAIN T \/ j = Len(T) + 1
<1> DEFINE U == Append(T, u)
           n == Len(T) + 1
<1>1. T \in Seq(Tab) /\ u \in Tab
  BY DEF TabsOK, TabOK
<1>2. Len(T) \in Nat /\ DOMAIN T = 1..Len(T)
  BY <1>1, LenProperties
<1>3. /\ U \in Seq(Tab) /\ Len(U) = n
      /\ \A i \in 1..Len(T) : U[i] = T[i]
      /\ U[n] = u
  BY <1>1, AppendProperties
<1>4. DOMAIN U = 1..n
  BY <1>3, LenProperties
<1>5. /\ \A j \in DOMAIN T : j \in DOMAIN U /\ U[j] = T[j]
      /\ \A j \in DOMAIN U : j \in DOMAIN T \/ j = n
      /\ n \in DOMAIN U /\ n \notin DOMAIN T
  BY <1>2, <1>3, <1>4
<1>6. \A j \in DOMAIN T : Shows(T[j]) \cap Shows(u) = {}
  BY DEF AllShown
<1> HIDE DEF U, n
<1>7. \A j \in DOMAIN U : TabOK(U[j])
  BY <1>3, <1>5 DEF TabsOK
<1>8. ASSUME NEW i \in DOMAIN U, NEW j \in DOMAIN U, i # j
      PROVE  U[i].id # U[j].id /\ Shows(U[i]) \cap Shows(U[j]) = {}
  <2>1. CASE i = n
    <3>1. j \in DOMAIN T /\ U[i] = u /\ U[j] = T[j]
      BY <1>3, <1>5, <1>8, <2>1
    <3>2. QED
      BY <1>6, <3>1
  <2>2. CASE j = n
    <3>1. i \in DOMAIN T /\ U[j] = u /\ U[i] = T[i]
      BY <1>3, <1>5, <1>8, <2>2
    <3>2. QED
      BY <1>6, <3>1
  <2>3. CASE i # n /\ j # n
    <3>1. i \in DOMAIN T /\ U[i] = T[i] /\ j \in DOMAIN T /\ U[j] = T[j]
      BY <1>5, <2>3
    <3>2. QED
      BY <1>8, <3>1 DEF TabsOK
  <2>4. QED
    BY <2>1, <2>2, <2>3
<1>9. QED
  BY <1>2, <1>3, <1>5, <1>7, <1>8 DEF TabsOK, U, n

\* The loop of Without after its first m tabs.
Keeping(T, ids, m, h) ==
  h = [k \in 0..m |-> IF k = 0 THEN << >>
                      ELSE IF T[k].id \in ids THEN h[k - 1] ELSE Append(h[k - 1], T[k])]

\* The filter of Without is defined for tabs of any number.
LEMMA KeepingRuns ==
  ASSUME NEW T, NEW ids, NEW n \in Nat
  PROVE  \E h : Keeping(T, ids, n, h)
<1> DEFINE bad == {m \in Nat : ~\E h : Keeping(T, ids, m, h)}
<1>1. SUFFICES ASSUME bad # {} PROVE FALSE
  OBVIOUS
<1>2. PICK m \in bad : \A j \in bad : m <= j
  <2>1. bad \subseteq Nat
    OBVIOUS
  <2> HIDE DEF bad
  <2>2. QED
    BY <1>1, <2>1, LeastElement
<1>3. m \in Nat /\ ~\E h : Keeping(T, ids, m, h)
  OBVIOUS
<1>4. CASE m = 0
  <2> DEFINE h == [k \in 0..0 |-> << >>]
  <2>1. \A k \in 0..0 : k = 0
    OBVIOUS
  <2>2. h = [k \in 0..0 |-> IF k = 0 THEN << >>
                            ELSE IF T[k].id \in ids THEN h[k - 1] ELSE Append(h[k - 1], T[k])]
    BY <2>1
  <2>3. Keeping(T, ids, 0, h)
    BY <2>2, Zenon DEF Keeping
  <2>4. QED
    BY <1>3, <1>4, <2>3, Zenon
<1>5. CASE m # 0
  <2>1. m - 1 \in Nat /\ m - 1 \notin bad
    BY <1>2, <1>3, <1>5
  <2>2. PICK g : Keeping(T, ids, m - 1, g)
    BY <2>1
  <2> DEFINE S(x, k) == IF T[k].id \in ids THEN x ELSE Append(x, T[k])
             h == [k \in 0..m |-> IF k = m THEN S(g[m - 1], m) ELSE g[k]]
  <2>3. \A k \in 0..m - 1 : g[k] = IF k = 0 THEN << >> ELSE S(g[k - 1], k)
    BY <2>2, Zenon DEF Keeping
  <2> HIDE DEF S
  <2>4. \A k \in 0..m : h[k] = IF k = 0 THEN << >> ELSE S(h[k - 1], k)
    <3>1. TAKE k \in 0..m
    <3>2. CASE k = m
      <4>1. m - 1 \in 0..m /\ m - 1 # m /\ h[m - 1] = g[m - 1]
        BY <1>3, <1>5
      <4>2. QED
        BY <1>3, <1>5, <3>2, <4>1
    <3>3. CASE k # m /\ k # 0
      <4>1. k \in 0..m - 1 /\ k - 1 \in 0..m /\ k - 1 # m
        BY <1>3, <3>3
      <4>2. h[k] = g[k] /\ h[k - 1] = g[k - 1]
        BY <3>3, <4>1
      <4>3. QED
        BY <2>3, <3>3, <4>1, <4>2
    <3>4. CASE k # m /\ k = 0
      BY <1>3, <2>3, <3>4
    <3>5. QED
      BY <3>2, <3>3, <3>4
  <2>5. h = [k \in 0..m |-> h[k]]
    OBVIOUS
  <2> HIDE DEF h
  <2>6. h = [k \in 0..m |-> IF k = 0 THEN << >> ELSE S(h[k - 1], k)]
    BY <2>4, <2>5, Zenon
  <2>7. Keeping(T, ids, m, h)
    BY <2>6, Zenon DEF Keeping, S
  <2>8. QED
    BY <1>3, <2>7, Zenon
<1>6. QED
  BY <1>4, <1>5

\* What Without leaves: the tabs not named, each once, and sound.
LeftOf(U, T, ids, k) ==
  /\ TabsOK(U) /\ Len(U) <= k
  /\ \A i \in DOMAIN U : \E j \in 1..k : U[i] = T[j] /\ T[j].id \notin ids
  /\ \A j \in 1..k : T[j].id \notin ids => \E i \in DOMAIN U : U[i] = T[j]

\* Without keeps the tabs it was not asked to remove, and no other.
LEMMA WithoutLeaves ==
  ASSUME NEW T, TabsOK(T), NEW ids
  PROVE  LeftOf(Without(T, ids), T, ids, Len(T))
<1> DEFINE n == Len(T)
           h == CHOOSE g : Keeping(T, ids, n, g)
<1>1. n \in Nat /\ DOMAIN T = 1..n
  BY LenProperties DEF TabsOK
<1>2. Without(T, ids) = h[n]
  BY Zenon DEF Without, Keeping
<1>3. Keeping(T, ids, n, h)
  <2>1. \E g : Keeping(T, ids, n, g)
    BY <1>1, KeepingRuns
  <2>2. QED
    BY <2>1, Zenon
<1> HIDE DEF h, n
<1>4. \A k \in 0..n : h[k] = IF k = 0 THEN << >>
                             ELSE IF T[k].id \in ids THEN h[k - 1] ELSE Append(h[k - 1], T[k])
  BY <1>3, Zenon DEF Keeping
<1>5. ASSUME NEW k \in 0..n, k # 0, LeftOf(h[k - 1], T, ids, k - 1)
      PROVE  LeftOf(h[k], T, ids, k)
  <2> DEFINE U == h[k - 1]
  <2>1. k \in DOMAIN T /\ k \in Nat /\ k - 1 \in Nat /\ 1..k = (1..(k - 1)) \cup {k}
        /\ 1..(k - 1) \subseteq DOMAIN T /\ k \notin 1..(k - 1)
    BY <1>1, <1>5
  <2>2. Len(U) \in Nat
    BY <1>5, LenProperties DEF LeftOf, TabsOK
  <2>3. CASE T[k].id \in ids
    <3>1. h[k] = U
      BY <1>4, <1>5, <2>3
    <3> HIDE DEF U
    <3>2. QED
      BY <1>5, <2>1, <2>2, <2>3, <3>1 DEF LeftOf, U
  <2>4. CASE T[k].id \notin ids
    <3>1. h[k] = Append(U, T[k])
      BY <1>4, <1>5, <2>4
    <3> HIDE DEF U
    <3>2. /\ TabsOK(U) /\ Len(U) <= k - 1
          /\ \A i \in DOMAIN U : \E j \in 1..(k - 1) : U[i] = T[j] /\ T[j].id \notin ids
          /\ \A j \in 1..(k - 1) : T[j].id \notin ids => \E i \in DOMAIN U : U[i] = T[j]
      BY <1>5 DEF LeftOf, U
    <3>3. TabOK(T[k])
      BY <2>1 DEF TabsOK
    <3>4. \A i \in DOMAIN U : U[i].id # T[k].id /\ Shows(T[k]) \cap Shows(U[i]) = {}
      <4>1. TAKE i \in DOMAIN U
      <4>2. PICK j \in 1..(k - 1) : U[i] = T[j]
        BY <3>2
      <4>3. j \in DOMAIN T /\ j # k
        BY <2>1
      <4>4. T[k].id # T[j].id /\ Shows(T[k]) \cap Shows(T[j]) = {}
        BY <2>1, <4>3, Zenon DEF TabsOK
      <4>5. QED
        BY <4>2, <4>4
    <3>5. Shows(T[k]) \cap AllShown(U) = {}
      BY <3>4 DEF AllShown
    <3> DEFINE V == Append(U, T[k])
               l == Len(U) + 1
    <3>6. /\ TabsOK(V) /\ Len(V) = l
          /\ \A j \in DOMAIN U : j \in DOMAIN V /\ V[j] = U[j]
          /\ V[l] = T[k] /\ l \in DOMAIN V /\ \A j \in DOMAIN V : j \in DOMAIN U \/ j = l
      BY <3>2, <3>3, <3>4, <3>5, AddTab
    <3> HIDE DEF V, l
    <3>7. Len(V) <= k
      BY <2>1, <2>2, <3>2, <3>6 DEF l
    <3>8. \A i \in DOMAIN V : \E j \in 1..k : V[i] = T[j] /\ T[j].id \notin ids
      BY <2>1, <2>4, <3>2, <3>6
    <3>9. \A j \in 1..k : T[j].id \notin ids => \E i \in DOMAIN V : V[i] = T[j]
      BY <2>1, <3>2, <3>6
    <3>10. LeftOf(V, T, ids, k)
      BY <3>6, <3>7, <3>8, <3>9 DEF LeftOf
    <3>11. QED
      BY <3>1, <3>10 DEF V
  <2>5. QED
    BY <2>3, <2>4
<1>6. LeftOf(h[0], T, ids, 0)
  <2>1. h[0] = << >>
    BY <1>1, <1>4
  <2>2. << >> \in Seq(Tab) /\ Len(<< >>) = 0 /\ DOMAIN << >> = {} /\ 1..0 = {}
    OBVIOUS
  <2>3. QED
    BY <2>1, <2>2 DEF LeftOf, TabsOK
<1> DEFINE bad == {k \in 0..n : ~LeftOf(h[k], T, ids, k)}
<1>7. bad = {}
  <2>1. SUFFICES ASSUME bad # {} PROVE FALSE
    OBVIOUS
  <2>2. PICK k \in bad : \A j \in bad : k <= j
    <3>1. bad \subseteq Nat
      BY <1>1
    <3> HIDE DEF bad
    <3>2. QED
      BY <2>1, <3>1, LeastElement
  <2>3. k \in 0..n /\ ~LeftOf(h[k], T, ids, k)
    OBVIOUS
  <2>4. k # 0
    BY <1>6, <2>3
  <2>5. k - 1 \in 0..n /\ k - 1 \notin bad
    BY <1>1, <2>2, <2>3, <2>4
  <2>6. QED
    BY <1>5, <2>3, <2>4, <2>5
<1>8. n \in 0..n /\ n \notin bad
  BY <1>1, <1>7
<1>9. LeftOf(h[n], T, ids, n)
  BY <1>8
<1>10. QED
  BY <1>2, <1>9 DEF n

\* applyTabReorder: the same tabs in another order.
LEMMA Reordered ==
  ASSUME NEW T, TabsOK(T), NEW a \in DOMAIN T, NEW b \in DOMAIN T
  PROVE  LET U == InsertAt(RemoveAt(T, a), b, T[a])
         IN  /\ TabsOK(U) /\ Len(U) = Len(T)
             /\ \A k \in DOMAIN U : \E j \in DOMAIN T : U[k] = T[j]
             /\ \A j \in DOMAIN T : \E k \in DOMAIN U : U[k] = T[j]
<1> DEFINE n == Len(T)
           R == RemoveAt(T, a)
           c == SubSeq(R, 1, b - 1)
           d == SubSeq(R, b, n - 1)
           U == InsertAt(R, b, T[a])
           g == [k \in 1..n |-> IF k < b THEN (IF k < a THEN k ELSE k + 1)
                                ELSE IF k = b THEN a ELSE (IF k - 1 < a THEN k - 1 ELSE k)]
<1>1. T \in Seq(Tab) /\ n \in Nat /\ DOMAIN T = 1..n /\ a \in 1..n /\ b \in 1..n /\ T[a] \in Tab
      /\ \A k \in 1..n : T[k] \in Tab
  BY LenProperties, ElementOfSeq DEF TabsOK
<1>2. R \in Seq(Tab) /\ Len(R) = n - 1 /\ \A k \in 1..(n - 1) : R[k] = IF k < a THEN T[k] ELSE T[k + 1]
  <2> DEFINE x == SubSeq(T, 1, a - 1)
             y == SubSeq(T, a + 1, n)
  <2>1. x \in Seq(Tab) /\ Len(x) = a - 1 /\ \A k \in 1..(a - 1) : x[k] = T[k]
    BY <1>1, SubSeqProperties
  <2>2. y \in Seq(Tab) /\ Len(y) = n - a /\ \A k \in 1..(n - a) : y[k] = T[a + k]
    BY <1>1, SubSeqProperties
  <2>3. R = x \o y
    BY DEF RemoveAt
  <2> HIDE DEF x, y, R, n
  <2>4. /\ x \o y \in Seq(Tab) /\ Len(x \o y) = Len(x) + Len(y)
        /\ \A k \in 1..(Len(x) + Len(y)) : (x \o y)[k] = IF k <= Len(x) THEN x[k] ELSE y[k - Len(x)]
    BY <2>1, <2>2, ConcatProperties
  <2>5. Len(x) + Len(y) = n - 1 /\ Len(x) = a - 1
    BY <1>1, <2>1, <2>2
  <2>6. ASSUME NEW k \in 1..(n - 1) PROVE R[k] = IF k < a THEN T[k] ELSE T[k + 1]
    <3>1. R[k] = IF k <= a - 1 THEN x[k] ELSE y[k - (a - 1)]
      BY <2>3, <2>4, <2>5, Zenon
    <3>2. CASE k < a
      <4>1. k <= a - 1 /\ k \in 1..(a - 1)
        BY <1>1, <3>2
      <4>2. QED
        BY <2>1, <3>1, <3>2, <4>1
    <3>3. CASE ~(k < a)
      <4>1. ~(k <= a - 1) /\ k - (a - 1) \in 1..(n - a) /\ a + (k - (a - 1)) = k + 1
        BY <1>1, <3>3
      <4>2. y[k - (a - 1)] = T[k + 1]
        BY <2>2, <4>1
      <4>3. QED
        BY <3>1, <3>3, <4>1, <4>2
    <3>4. QED
      BY <3>2, <3>3
  <2>7. QED
    BY <2>3, <2>4, <2>5, <2>6
<1>3. U = c \o <<T[a]>> \o d
  BY <1>2 DEF InsertAt
<1> HIDE DEF R, n
<1>4. c \in Seq(Tab) /\ Len(c) = b - 1 /\ \A k \in 1..(b - 1) : c[k] = R[k]
  BY <1>1, <1>2, SubSeqProperties
<1>5. d \in Seq(Tab) /\ Len(d) = n - b /\ \A k \in 1..(n - b) : d[k] = R[b + k - 1]
  BY <1>1, <1>2, SubSeqProperties
<1> HIDE DEF c, d
<1>6. /\ c \o <<T[a]>> \in Seq(Tab) /\ Len(c \o <<T[a]>>) = b
      /\ \A k \in 1..b : (c \o <<T[a]>>)[k] = IF k < b THEN R[k] ELSE T[a]
  <2> DEFINE e == <<T[a]>>
  <2>1. e \in Seq(Tab) /\ Len(e) = 1 /\ e[1] = T[a]
    BY <1>1
  <2> HIDE DEF e
  <2>2. /\ c \o e \in Seq(Tab) /\ Len(c \o e) = Len(c) + Len(e)
        /\ \A k \in 1..(Len(c) + Len(e)) : (c \o e)[k] = IF k <= Len(c) THEN c[k] ELSE e[k - Len(c)]
    BY <1>4, <2>1, ConcatProperties
  <2>3. Len(c) + Len(e) = b
    BY <1>1, <1>4, <2>1
  <2>4. ASSUME NEW k \in 1..b PROVE (c \o e)[k] = IF k < b THEN R[k] ELSE T[a]
    <3>1. (c \o e)[k] = IF k <= b - 1 THEN c[k] ELSE e[k - (b - 1)]
      BY <1>4, <2>2, <2>3, Zenon
    <3>2. k < b => k <= b - 1 /\ k \in 1..(b - 1)
      BY <1>1
    <3>3. ~(k < b) => ~(k <= b - 1) /\ k - (b - 1) = 1
      BY <1>1
    <3>4. QED
      BY <1>4, <2>1, <3>1, <3>2, <3>3
  <2>5. QED
    BY <2>2, <2>3, <2>4 DEF e
<1>7. /\ U \in Seq(Tab) /\ Len(U) = n
      /\ \A k \in 1..n : U[k] = IF k < b THEN R[k] ELSE IF k = b THEN T[a] ELSE R[k - 1]
  <2> DEFINE e == c \o <<T[a]>>
  <2>1. e \in Seq(Tab) /\ Len(e) = b /\ \A k \in 1..b : e[k] = IF k < b THEN R[k] ELSE T[a]
    BY <1>6
  <2>2. U = e \o d
    BY <1>3
  <2> HIDE DEF e, U
  <2>3. /\ e \o d \in Seq(Tab) /\ Len(e \o d) = Len(e) + Len(d)
        /\ \A k \in 1..(Len(e) + Len(d)) : (e \o d)[k] = IF k <= Len(e) THEN e[k] ELSE d[k - Len(e)]
    BY <1>5, <2>1, ConcatProperties
  <2>4. Len(e) + Len(d) = n
    BY <1>1, <1>5, <2>1
  <2>5. ASSUME NEW k \in 1..n
        PROVE  U[k] = IF k < b THEN R[k] ELSE IF k = b THEN T[a] ELSE R[k - 1]
    <3>1. U[k] = IF k <= b THEN e[k] ELSE d[k - b]
      BY <2>1, <2>2, <2>3, <2>4, Zenon
    <3>2. k <= b => k \in 1..b /\ (~(k < b) => k = b)
      BY <1>1
    <3>3. ~(k <= b) => k - b \in 1..(n - b) /\ b + (k - b) - 1 = k - 1 /\ ~(k < b) /\ k # b
      BY <1>1
    <3>4. CASE k <= b
      BY <2>1, <3>1, <3>2, <3>4
    <3>5. CASE ~(k <= b)
      <4>1. d[k - b] = R[k - 1]
        BY <1>5, <3>3, <3>5
      <4>2. QED
        BY <3>1, <3>3, <3>5, <4>1
    <3>6. QED
      BY <3>4, <3>5
  <2>6. QED
    BY <2>2, <2>3, <2>4, <2>5
<1>8. DOMAIN U = 1..n
  BY <1>7, LenProperties
<1> HIDE DEF U
<1>9. ASSUME NEW k \in 1..n PROVE g[k] \in 1..n /\ U[k] = T[g[k]]
  <2>1. CASE k < b
    <3>1. k \in 1..(n - 1)
      BY <1>1, <2>1
    <3>2. g[k] = IF k < a THEN k ELSE k + 1
      BY <2>1
    <3>3. U[k] = IF k < a THEN T[k] ELSE T[k + 1]
      BY <1>2, <1>7, <2>1, <3>1
    <3>4. k \in 1..n /\ k + 1 \in 1..n
      BY <1>1, <3>1
    <3> HIDE DEF g
    <3>5. QED
      BY <3>2, <3>3, <3>4
  <2>2. CASE k = b
    <3>1. g[k] = a
      BY <1>1, <2>2
    <3>2. U[k] = T[a]
      BY <1>1, <1>7, <2>2
    <3>3. QED
      BY <1>1, <3>1, <3>2
  <2>3. CASE ~(k < b) /\ k # b
    <3>1. k - 1 \in 1..(n - 1)
      BY <1>1, <2>3
    <3>2. g[k] = IF k - 1 < a THEN k - 1 ELSE k
      BY <2>3
    <3>3. U[k] = R[k - 1]
      BY <1>7, <2>3
    <3>4. R[k - 1] = IF k - 1 < a THEN T[k - 1] ELSE T[(k - 1) + 1]
      BY <1>2, <3>1
    <3>5. (k - 1) + 1 = k
      BY <1>1
    <3>6. k \in 1..n /\ k - 1 \in 1..n
      BY <1>1, <3>1
    <3> HIDE DEF g
    <3>7. QED
      BY <3>2, <3>3, <3>4, <3>5, <3>6
  <2>4. QED
    BY <2>1, <2>2, <2>3
<1>10. \A i, j \in 1..n : g[i] = g[j] => i = j
  BY <1>1
<1>11. ASSUME NEW j \in 1..n PROVE \E k \in 1..n : g[k] = j
  <2>1. CASE j = a
    <3>1. g[b] = j
      BY <1>1, <2>1
    <3>2. QED
      BY <1>1, <3>1
  <2>2. CASE j < a
    <3> DEFINE k == IF j < b THEN j ELSE j + 1
    <3>1. k \in 1..n /\ g[k] = j
      BY <1>1, <2>2
    <3>2. QED
      BY <3>1
  <2>3. CASE j > a
    <3> DEFINE k == IF j - 1 < b THEN j - 1 ELSE j
    <3>1. k \in 1..n /\ g[k] = j
      BY <1>1, <2>3
    <3>2. QED
      BY <3>1
  <2>4. j \in Int /\ a \in Int
    BY <1>1
  <2>5. QED
    BY <2>1, <2>2, <2>3, <2>4
<1> HIDE DEF g
<1>12. TabsOK(U)
  <2>1. \A k \in DOMAIN U : TabOK(U[k])
    BY <1>1, <1>8, <1>9 DEF TabsOK
  <2>2. ASSUME NEW i \in DOMAIN U, NEW j \in DOMAIN U, i # j
        PROVE  U[i].id # U[j].id /\ Shows(U[i]) \cap Shows(U[j]) = {}
    <3>1. g[i] \in DOMAIN T /\ g[j] \in DOMAIN T /\ g[i] # g[j] /\ U[i] = T[g[i]] /\ U[j] = T[g[j]]
      BY <1>1, <1>8, <1>9, <1>10, <2>2
    <3>2. T[g[i]].id # T[g[j]].id /\ Shows(T[g[i]]) \cap Shows(T[g[j]]) = {}
      BY <3>1, Zenon DEF TabsOK
    <3>3. QED
      BY <3>1, <3>2
  <2>3. QED
    BY <1>7, <2>1, <2>2 DEF TabsOK
<1>13. /\ \A k \in DOMAIN U : \E j \in DOMAIN T : U[k] = T[j]
       /\ \A j \in DOMAIN T : \E k \in DOMAIN U : U[k] = T[j]
  <2>1. \A k \in DOMAIN U : \E j \in DOMAIN T : U[k] = T[j]
    BY <1>1, <1>8, <1>9
  <2>2. ASSUME NEW j \in DOMAIN T PROVE \E k \in DOMAIN U : U[k] = T[j]
    <3>1. PICK k \in 1..n : g[k] = j
      BY <1>1, <1>11
    <3>2. U[k] = T[j]
      BY <1>9, <3>1
    <3>3. QED
      BY <1>8, <3>2
  <2>3. QED
    BY <2>1, <2>2
<1>14. QED
  BY <1>7, <1>12, <1>13 DEF U, R, n

-----------------------------------------------------------------------------
(* The window *)

\* The panes with a session, over all tabs.
OnScreen(T) == UNION {Filled(T[k].panes) : k \in DOMAIN T}

\* b differs from o in its tabs and the current tab only.
SameBut(o, b) ==
  /\ b.local = o.local /\ b.pend = o.pend /\ b.kill = o.kill
  /\ b.starting = o.starting /\ b.spawns = o.spawns /\ b.asked = o.asked /\ b.moves = o.moves

\* What the window shows, in terms of its panes.
LEMMA ScreenShows ==
  ASSUME NEW T, TabsOK(T)
  PROVE  /\ AllShown(T) = {p.sid : p \in OnScreen(T)}
         /\ \A p \in OnScreen(T) : p \in Pane /\ p.sid \in Sids /\ p.sid \in AllShown(T)
         /\ \A p, q \in OnScreen(T) : p.sid = q.sid => p = q
         /\ \A j \in DOMAIN T : T[j] \in Tab /\ Shows(T[j]) = {p.sid : p \in Filled(T[j].panes)}
<1>1. \A j \in DOMAIN T : TabOK(T[j]) /\ T[j] \in Tab
  BY DEF TabsOK, TabOK
<1>2. \A j \in DOMAIN T : Shows(T[j]) = {p.sid : p \in Filled(T[j].panes)} /\ Shows(T[j]) \subseteq Sids
  BY <1>1, TabShows
<1>3. AllShown(T) = {p.sid : p \in OnScreen(T)}
  BY <1>2 DEF AllShown, OnScreen
<1>4. \A p \in OnScreen(T) : p \in Pane /\ p.sid \in Sids /\ p.sid \in AllShown(T)
  BY <1>2 DEF AllShown, OnScreen, Filled
<1>5. ASSUME NEW p \in OnScreen(T), NEW q \in OnScreen(T), p.sid = q.sid PROVE p = q
  <2>1. PICK j \in DOMAIN T : p \in Filled(T[j].panes)
    BY DEF OnScreen
  <2>2. PICK k \in DOMAIN T : q \in Filled(T[k].panes)
    BY DEF OnScreen
  <2>3. p.sid \in Shows(T[j]) /\ p.sid \in Shows(T[k])
    BY <1>2, <1>5, <2>1, <2>2
  <2>4. j = k
    BY <2>3 DEF TabsOK
  <2>5. Distinct(T[j].panes)
    BY <1>1 DEF TabOK
  <2>6. QED
    BY <1>5, <2>1, <2>2, <2>4, <2>5 DEF Filled, Distinct
<1>6. QED
  BY <1>1, <1>2, <1>3, <1>4, <1>5

\* A tab is found by its id.
LEMMA TabFound ==
  ASSUME NEW o, TabsOK(o.tabs), NEW id, HasTab(o, id)
  PROVE  /\ At(o, id) \in DOMAIN o.tabs /\ TabOf(o, id) = o.tabs[At(o, id)]
         /\ TabOf(o, id).id = id /\ TabOK(TabOf(o, id)) /\ TabOf(o, id) \in Tab /\ id \in TabIds
         /\ \A k \in DOMAIN o.tabs : o.tabs[k].id = id => k = At(o, id)
<1>1. At(o, id) \in DOMAIN o.tabs /\ o.tabs[At(o, id)].id = id
  BY Zenon DEF HasTab, At
<1>2. TabOf(o, id) = o.tabs[At(o, id)]
  BY DEF TabOf
<1>3. TabOK(TabOf(o, id)) /\ TabOf(o, id) \in Tab
  BY <1>1, <1>2 DEF TabsOK, TabOK
<1>4. \A k \in DOMAIN o.tabs : o.tabs[k].id = id => k = At(o, id)
  BY <1>1, Zenon DEF TabsOK
<1>5. id \in TabIds
  BY <1>1, <1>2, <1>3 DEF Tab
<1>6. QED
  BY <1>1, <1>2, <1>3, <1>4, <1>5

\* What a tab is replaced by, and what the window shows then.
LEMMA PutTabKeeps ==
  ASSUME NEW o, ScreenOK(o), NEW u, TabOK(u), HasTab(o, u.id),
         \A s \in Shows(u) : s \in ShownBy(o) => s \in Shows(TabOf(o, u.id)),
         Shows(u) \cap Locals \subseteq 1..o.asked
  PROVE  LET b == PutTab(o, u)
         IN  /\ ScreenOK(b) /\ SameBut(o, b) /\ b.cur = o.cur /\ Len(b.tabs) = Len(o.tabs)
             /\ DOMAIN b.tabs = DOMAIN o.tabs
             /\ \A k \in DOMAIN o.tabs : b.tabs[k] = IF k = At(o, u.id) THEN u ELSE o.tabs[k]
             /\ HasTab(b, u.id) /\ At(b, u.id) = At(o, u.id) /\ TabOf(b, u.id) = u
             /\ OnScreen(b.tabs) = (OnScreen(o.tabs) \ Filled(TabOf(o, u.id).panes)) \cup Filled(u.panes)
<1> DEFINE b == PutTab(o, u)
           k == At(o, u.id)
           T == o.tabs
<1>1. /\ o \in Window /\ TabsOK(T) /\ T \in Seq(Tab) /\ Len(T) <= MaxTabs + 1
      /\ o.pend \subseteq o.local /\ o.local \subseteq 1..o.asked /\ Numbered(o.spawns, o.asked)
      /\ ShownBy(o) \cap Locals \subseteq 1..o.asked /\ ShownBy(o) = AllShown(T)
  BY DEF ScreenOK, TabsOK, ShownBy, AllShown
<1>2. k \in DOMAIN T /\ TabOf(o, u.id) = T[k] /\ T[k].id = u.id /\ T[k] \in Tab /\ TabOK(T[k])
  BY <1>1, TabFound
<1>3. ASSUME NEW j \in DOMAIN T, j # k PROVE Shows(u) \cap Shows(T[j]) = {}
  <2>1. Shows(T[k]) \cap Shows(T[j]) = {}
    BY <1>1, <1>2, <1>3, Zenon DEF TabsOK
  <2>2. Shows(T[j]) \subseteq ShownBy(o)
    BY DEF ShownBy
  <2>3. QED
    BY <1>2, <2>1, <2>2
<1> DEFINE U == [T EXCEPT ![k] = u]
<1>4. /\ TabsOK(U) /\ Len(U) = Len(T) /\ DOMAIN U = DOMAIN T
      /\ \A j \in DOMAIN T : U[j] = IF j = k THEN u ELSE T[j]
  BY <1>1, <1>2, <1>3, ReplaceTab
<1>5. U \in Seq(Tab)
  BY <1>4 DEF TabsOK
<1>6. b = [o EXCEPT !.tabs = U]
  BY <1>1 DEF PutTab
<1> HIDE DEF b, U, k, T
<1>7. b \in Window /\ b.tabs = U /\ SameBut(o, b) /\ b.cur = o.cur
  BY <1>1, <1>5, <1>6 DEF Window, SameBut
<1>8. U[k] = u
  BY <1>2, <1>4
<1>9. OnScreen(U) = (OnScreen(T) \ Filled(T[k].panes)) \cup Filled(u.panes)
  <2>1. ASSUME NEW j \in DOMAIN T, j # k PROVE Filled(T[j].panes) \cap Filled(T[k].panes) = {}
    <3>1. Shows(T[k]) \cap Shows(T[j]) = {}
      BY <1>1, <1>2, <2>1, Zenon DEF TabsOK
    <3>2. /\ Shows(T[j]) = {p.sid : p \in Filled(T[j].panes)}
          /\ Shows(T[k]) = {p.sid : p \in Filled(T[k].panes)}
      BY <1>1, <1>2, ScreenShows
    <3>3. QED
      BY <3>1, <3>2
  <2>2. \A x \in OnScreen(U) : x \in Filled(u.panes) \/ \E j \in DOMAIN T : j # k /\ x \in Filled(T[j].panes)
    BY <1>4 DEF OnScreen
  <2>3. \A j \in DOMAIN T : j # k => Filled(T[j].panes) \subseteq OnScreen(U)
    BY <1>4 DEF OnScreen
  <2>4. Filled(u.panes) \subseteq OnScreen(U)
    BY <1>2, <1>4, <1>8 DEF OnScreen
  <2>5. \A x \in OnScreen(T) : x \in Filled(T[k].panes) \/ \E j \in DOMAIN T : j # k /\ x \in Filled(T[j].panes)
    BY DEF OnScreen
  <2>6. \A j \in DOMAIN T : Filled(T[j].panes) \subseteq OnScreen(T)
    BY DEF OnScreen
  <2>7. QED
    BY <2>1, <2>2, <2>3, <2>4, <2>5, <2>6
<1>10. ShownBy(b) \subseteq ShownBy(o) \cup Shows(u)
  BY <1>4, <1>7 DEF ShownBy, T
<1>11. ScreenOK(b)
  BY <1>1, <1>4, <1>7, <1>10 DEF ScreenOK, SameBut
<1>12. HasTab(b, u.id)
  BY <1>2, <1>4, <1>7, <1>8 DEF HasTab
<1>13. At(b, u.id) = k
  <2>1. \A j \in DOMAIN b.tabs : b.tabs[j].id = u.id => j = At(b, u.id)
    BY <1>4, <1>7, <1>12, TabFound
  <2>2. QED
    BY <1>2, <1>4, <1>7, <1>8, <2>1
<1>14. TabOf(b, u.id) = u
  BY <1>7, <1>8, <1>13 DEF TabOf
<1>15. QED
  BY <1>2, <1>4, <1>7, <1>9, <1>11, <1>12, <1>13, <1>14 DEF b, k, T

\* findPaneLocation finds the pane.
LEMMA PaneLocated ==
  ASSUME NEW o, TabsOK(o.tabs), NEW s \in ShownBy(o)
  PROVE  LET l == Located(o, s)
         IN  /\ HasTab(o, l.id) /\ l.idx \in DOMAIN TabOf(o, l.id).panes
             /\ TabOf(o, l.id).panes[l.idx].sid = s /\ s \in Sids /\ s \in Shows(TabOf(o, l.id))
<1> DEFINE l == Located(o, s)
           K == {k \in DOMAIN o.tabs : s \in Shows(o.tabs[k])}
           t == o.tabs[Min(K)]
           I == {i \in DOMAIN t.panes : t.panes[i].sid = s}
<1>1. l = [id |-> t.id, idx |-> Min(I)]
  BY Zenon DEF Located
<1>2. K \subseteq Nat /\ K # {}
  BY LenProperties DEF ShownBy, TabsOK
<1>3. Min(K) \in K
  <2> HIDE DEF K
  <2>1. QED
    BY <1>2, LeastElement
<1>4. Min(K) \in DOMAIN o.tabs /\ s \in Shows(t)
  BY <1>3
<1>5. TabOK(t) /\ t \in Tab
  BY <1>4 DEF TabsOK, TabOK
<1> HIDE DEF K
<1>6. s \in Sids /\ I # {} /\ I \subseteq Nat
  BY <1>4, <1>5, TabShows
<1>7. Min(I) \in I
  <2> HIDE DEF I
  <2>1. QED
    BY <1>6, LeastElement
<1>8. l.id = t.id /\ l.idx = Min(I)
  BY <1>1
<1> HIDE DEF l
<1>9. HasTab(o, l.id)
  BY <1>4, <1>8 DEF HasTab
<1>10. TabOf(o, l.id) = t
  <2>1. /\ TabOf(o, l.id) = o.tabs[At(o, l.id)]
        /\ \A k \in DOMAIN o.tabs : o.tabs[k].id = l.id => k = At(o, l.id)
    BY <1>9, TabFound
  <2>2. Min(K) = At(o, l.id)
    BY <1>4, <1>8, <2>1
  <2>3. QED
    BY <2>1, <2>2
<1>11. QED
  BY <1>4, <1>6, <1>7, <1>8, <1>9, <1>10 DEF l

\* The shells of a set of panes.
Shells(P) == {p.sid : p \in {q \in P : ~q.rem}}

\* b is o with the shells in D dropped and closed, but for its tabs and the
\* current tab.
Drops(o, b, D) ==
  /\ b.local = o.local \ D /\ b.pend = o.pend \ D /\ b.kill = o.kill \cup D
  /\ b.starting = o.starting /\ b.spawns = o.spawns /\ b.asked = o.asked /\ b.moves = o.moves

\* Dropping shells from the local list leaves the tabs as they are.
LEMMA DropLocalKeeps ==
  ASSUME NEW o, ScreenOK(o), NEW D \in SUBSET Locals
  PROVE  LET b == DropLocal(o, D)
         IN  ScreenOK(b) /\ Drops(o, b, D) /\ b.tabs = o.tabs /\ b.cur = o.cur
<1> DEFINE b == DropLocal(o, D)
<1>1. o \in Window
  BY DEF ScreenOK
<1>2. b = [o EXCEPT !.local = o.local \ D, !.pend = o.pend \ D, !.kill = o.kill \cup D]
  BY DEF DropLocal
<1>3. o.local \ D \in SUBSET Locals /\ o.pend \ D \in SUBSET Locals /\ o.kill \cup D \in SUBSET Locals
  BY <1>1 DEF Window
<1> HIDE DEF b
<1>4. b \in Window /\ b.tabs = o.tabs /\ b.cur = o.cur /\ Drops(o, b, D)
  BY <1>1, <1>2, <1>3 DEF Window, Drops
<1>5. ShownBy(b) = ShownBy(o)
  BY <1>4, Zenon DEF ShownBy
<1>6. ScreenOK(b)
  BY <1>4, <1>5 DEF ScreenOK, Drops
<1>7. QED
  BY <1>4, <1>6 DEF b

\* Tabs named in ids are removed from the screen.
TabsGo(o, b, ids) ==
  /\ TabsOK(b.tabs) /\ Len(b.tabs) <= Len(o.tabs)
  /\ \A k \in DOMAIN o.tabs : o.tabs[k].id \notin ids => \E j \in DOMAIN b.tabs : b.tabs[j] = o.tabs[k]
  /\ \A j \in DOMAIN b.tabs : \E k \in DOMAIN o.tabs : b.tabs[j] = o.tabs[k] /\ o.tabs[k].id \notin ids

\* Without, for the window: what is left, and a current tab among it.
LEMMA TabsWithout ==
  ASSUME NEW o, ScreenOK(o), NEW ids, NEW b, b \in Window, b.tabs = Without(o.tabs, ids),
         b.asked = o.asked, b.spawns = o.spawns, b.pend \subseteq b.local, b.local \subseteq o.local
  PROVE  ScreenOK(b) /\ TabsGo(o, b, ids) /\ OnScreen(b.tabs) \subseteq OnScreen(o.tabs)
<1> DEFINE T == o.tabs
           U == b.tabs
<1>1. /\ TabsOK(T) /\ Len(T) <= MaxTabs + 1 /\ o.local \subseteq 1..o.asked
      /\ ShownBy(o) \cap Locals \subseteq 1..o.asked /\ Numbered(o.spawns, o.asked)
  BY DEF ScreenOK
<1>2. Len(T) \in Nat /\ DOMAIN T = 1..Len(T)
  BY <1>1, LenProperties DEF TabsOK
<1>3. /\ TabsOK(U) /\ Len(U) <= Len(T)
      /\ \A i \in DOMAIN U : \E j \in 1..Len(T) : U[i] = T[j] /\ T[j].id \notin ids
      /\ \A j \in 1..Len(T) : T[j].id \notin ids => \E i \in DOMAIN U : U[i] = T[j]
  BY <1>1, WithoutLeaves DEF LeftOf
<1>4. TabsGo(o, b, ids)
  BY <1>2, <1>3 DEF TabsGo
<1> HIDE DEF T, U
<1>5. OnScreen(U) \subseteq OnScreen(T) /\ ShownBy(b) \subseteq ShownBy(o)
  <2>1. \A i \in DOMAIN U : \E j \in DOMAIN T : U[i] = T[j]
    BY <1>2, <1>3
  <2>2. ASSUME NEW x \in OnScreen(U) PROVE x \in OnScreen(T)
    <3>1. PICK i \in DOMAIN U : x \in Filled(U[i].panes)
      BY DEF OnScreen
    <3>2. PICK j \in DOMAIN T : U[i] = T[j]
      BY <2>1
    <3>3. QED
      BY <3>1, <3>2 DEF OnScreen
  <2>3. ASSUME NEW x \in ShownBy(b) PROVE x \in ShownBy(o)
    <3>1. PICK i \in DOMAIN U : x \in Shows(U[i])
      BY DEF ShownBy, U
    <3>2. PICK j \in DOMAIN T : U[i] = T[j]
      BY <2>1
    <3>3. QED
      BY <3>1, <3>2 DEF ShownBy, T
  <2>4. QED
    BY <2>2, <2>3
<1>6. Len(U) <= MaxTabs + 1
  <2>1. Len(U) \in Nat
    BY <1>3, LenProperties DEF TabsOK
  <2>2. QED
    BY <1>1, <1>2, <1>3, <2>1, WorkspaceAssumption
<1>7. ScreenOK(b)
  BY <1>1, <1>3, <1>5, <1>6 DEF ScreenOK, T, U
<1>8. QED
  BY <1>4, <1>5, <1>7 DEF T, U

\* computeCloseTabState: the tab goes, and unless it is only detached its shells
\* are closed.
LEMMA TabCloses ==
  ASSUME NEW o, ScreenOK(o), NEW id, HasTab(o, id), NEW det \in BOOLEAN
  PROVE  LET b == ComputeCloseTabState(o, id, det)
             F == Filled(TabOf(o, id).panes)
         IN  /\ ScreenOK(b) /\ Drops(o, b, IF det THEN {} ELSE Shells(F)) /\ TabsGo(o, b, {id})
             /\ OnScreen(b.tabs) = OnScreen(o.tabs) \ F
<1> DEFINE b == ComputeCloseTabState(o, id, det)
           t == TabOf(o, id)
           F == Filled(t.panes)
           kill == IF det THEN {} ELSE {p.sid : p \in {q \in Range(t.panes) : ~q.rem}} \ {None, -1}
           D == IF det THEN {} ELSE Shells(F)
           left == Without(o.tabs, {id})
           d == DropLocal(o, kill)
<1>1. o \in Window /\ TabsOK(o.tabs) /\ o.pend \subseteq o.local
  BY DEF ScreenOK
<1>2. /\ At(o, id) \in DOMAIN o.tabs /\ t = o.tabs[At(o, id)] /\ t.id = id /\ TabOK(t) /\ t \in Tab
      /\ \A k \in DOMAIN o.tabs : o.tabs[k].id = id => k = At(o, id)
  BY <1>1, TabFound
<1>3. kill = D /\ D \in SUBSET Locals
  <2>1. \A i \in DOMAIN t.panes : t.panes[i] \in Pane
    BY <1>2, TabShows
  <2>2. \A p \in Pane : /\ p.sid # -1
                        /\ ~p.rem /\ p.sid # None => p.sid \in Locals
    <3>1. \A p \in Pane : p.sid \in Sids \cup {None} /\ (~p.rem => p.sid \in Locals \cup {None})
      BY DEF Pane
    <3>2. -1 \notin Sids \cup {None}
      BY Counts DEF None
    <3>3. QED
      BY <3>1, <3>2
  <2>3. {p.sid : p \in {q \in Range(t.panes) : ~q.rem}} \ {None, -1} = Shells(F)
    BY <2>1, <2>2 DEF Shells, Filled, Range
  <2>4. Shells(F) \subseteq Locals
    BY <2>2 DEF Shells, Filled
  <2>5. QED
    BY <2>3, <2>4
<1>4. ScreenOK(d) /\ Drops(o, d, D) /\ d.tabs = o.tabs /\ d.cur = o.cur /\ d \in Window
  <2> HIDE DEF kill, D
  <2>1. d = DropLocal(o, D)
    BY <1>3
  <2>2. QED
    BY <1>3, <2>1, DropLocalKeeps DEF ScreenOK
<1> DEFINE c == IF d.cur = id /\ left # << >> THEN left[1].id ELSE d.cur
<1>5. b = [d EXCEPT !.tabs = left, !.cur = c]
  BY Zenon DEF ComputeCloseTabState
<1>6. left \in Seq(Tab)
  BY <1>1, WithoutLeaves DEF LeftOf, TabsOK
<1> HIDE DEF t, kill, D, left, d, b
<1>7. c \in TabIds \cup {None}
  <2>1. CASE left = << >>
    BY <1>4, <2>1 DEF Window
  <2>2. CASE left # << >>
    <3>1. left[1] \in Tab
      BY <1>6, <2>2
    <3>2. left[1].id \in TabIds
      BY <3>1 DEF Tab
    <3>3. QED
      BY <1>4, <3>2 DEF Window
  <2>3. QED
    BY <2>1, <2>2
<1> HIDE DEF c
<1>8. b \in Window /\ b.tabs = left /\ SameBut(d, b)
  BY <1>4, <1>5, <1>6, <1>7 DEF Window, SameBut
<1>9. Drops(o, b, D)
  BY <1>4, <1>8 DEF Drops, SameBut
<1>10. ScreenOK(b) /\ TabsGo(o, b, {id}) /\ OnScreen(b.tabs) \subseteq OnScreen(o.tabs)
  <2>1. /\ b.tabs = Without(o.tabs, {id}) /\ b.asked = o.asked /\ b.spawns = o.spawns
        /\ b.pend \subseteq b.local /\ b.local \subseteq o.local
    BY <1>1, <1>8, <1>9 DEF Drops, left
  <2>2. QED
    BY <1>8, <2>1, TabsWithout
<1>11. OnScreen(b.tabs) = OnScreen(o.tabs) \ F
  <2>1. ASSUME NEW x \in OnScreen(b.tabs) PROVE x \notin F
    <3>1. PICK j \in DOMAIN b.tabs : x \in Filled(b.tabs[j].panes)
      BY DEF OnScreen
    <3>2. PICK k \in DOMAIN o.tabs : b.tabs[j] = o.tabs[k] /\ o.tabs[k].id # id
      BY <1>10 DEF TabsGo
    <3>3. Shows(o.tabs[k]) \cap Shows(t) = {}
      BY <1>1, <1>2, <3>2 DEF TabsOK
    <3>4. /\ Shows(o.tabs[k]) = {p.sid : p \in Filled(o.tabs[k].panes)}
          /\ Shows(t) = {p.sid : p \in F}
      BY <1>1, <1>2, ScreenShows
    <3>5. QED
      BY <3>1, <3>2, <3>3, <3>4
  <2>2. ASSUME NEW x \in OnScreen(o.tabs), x \notin F PROVE x \in OnScreen(b.tabs)
    <3>1. PICK k \in DOMAIN o.tabs : x \in Filled(o.tabs[k].panes)
      BY DEF OnScreen
    <3>2. o.tabs[k].id # id
      BY <1>2, <2>2, <3>1
    <3>3. PICK j \in DOMAIN b.tabs : b.tabs[j] = o.tabs[k]
      BY <1>10, <3>2 DEF TabsGo
    <3>4. QED
      BY <3>1, <3>3 DEF OnScreen
  <2>3. QED
    BY <1>10, <2>1, <2>2
<1>12. QED
  BY <1>9, <1>10, <1>11 DEF b, D, t

-----------------------------------------------------------------------------
(* Starting shells, closing panes *)

\* Where nothing is dropped, only tabs and the current tab may differ.
LEMMA DropsNothing ==
  ASSUME NEW o, NEW b, Drops(o, b, {})
  PROVE  SameBut(o, b)
  BY DEF Drops, SameBut

\* A tab still on the screen is the one its id names.
LEMMA TabHere ==
  ASSUME NEW o, TabsOK(o.tabs), NEW j \in DOMAIN o.tabs
  PROVE  HasTab(o, o.tabs[j].id) /\ TabOf(o, o.tabs[j].id) = o.tabs[j]
<1>1. HasTab(o, o.tabs[j].id)
  BY DEF HasTab
<1>2. j = At(o, o.tabs[j].id)
  BY <1>1, TabFound
<1>3. QED
  BY <1>1, <1>2 DEF TabOf

\* A shell is asked for, with the next number.
NewCall(o, c, q) ==
  /\ c.spawns = o.spawns \cup {q} /\ c.asked = o.asked + 1
  /\ q.sid = o.asked + 1 /\ ~q.forked /\ SpawnOK(c, q)
  /\ q.kind = "tab" => ~o.starting

\* At most one shell more is being started.
Starts(o, c) ==
  /\ o.asked <= c.asked /\ (o.starting => c.starting)
  /\ c.spawns = o.spawns \/ \E q : NewCall(o, c, q)

\* The next number is the number of no shell yet.
LEMMA NextNumber ==
  ASSUME NEW Q, NEW n \in Nat, Numbered(Q, n), NEW q, q.sid = n + 1
  PROVE  Numbered(Q \cup {q}, n + 1)
<1>1. \A r \in Q : r.sid \in 1..n
  BY DEF Numbered
<1>2. \A r \in Q : r.sid \in 1..(n + 1) /\ r.sid # q.sid
  BY <1>1
<1>3. q.sid \in 1..(n + 1)
  OBVIOUS
<1>4. \A r \in Q \cup {q} : r.sid \in 1..(n + 1)
  BY <1>2, <1>3
<1>5. \A r, x \in Q \cup {q} : r.sid = x.sid => r = x
  BY <1>2, Zenon DEF Numbered
<1>6. QED
  BY <1>4, <1>5, Zenon DEF Numbered

\* Spawn: the shell shows nowhere yet.
LEMMA Asked ==
  ASSUME NEW o, ScreenOK(o), o.asked < MaxSpawn,
         NEW kind \in {"tab", "split"}, NEW tab \in TabIds \cup {None}, NEW idx \in 0..4
  PROVE  LET b == Spawn(o, kind, tab, idx)
             q == [sid |-> o.asked + 1, kind |-> kind, tab |-> tab, idx |-> idx, forked |-> FALSE]
         IN  /\ ScreenOK(b) /\ b.tabs = o.tabs /\ b.cur = o.cur /\ b.local = o.local /\ b.pend = o.pend
             /\ b.kill = o.kill /\ b.moves = o.moves /\ b.starting = o.starting /\ b.asked = o.asked + 1
             /\ b.spawns = o.spawns \cup {q} /\ o.asked <= b.asked
             /\ q.sid \notin ShownBy(b)
<1> DEFINE b == Spawn(o, kind, tab, idx)
           q == [sid |-> o.asked + 1, kind |-> kind, tab |-> tab, idx |-> idx, forked |-> FALSE]
<1>1. /\ o \in Window /\ TabsOK(o.tabs) /\ Len(o.tabs) <= MaxTabs + 1
      /\ o.pend \subseteq o.local /\ o.local \subseteq 1..o.asked
      /\ ShownBy(o) \cap Locals \subseteq 1..o.asked /\ Numbered(o.spawns, o.asked)
  BY DEF ScreenOK
<1>2. o.asked \in 0..MaxSpawn /\ o.asked \in Nat /\ o.spawns \in SUBSET Call
  BY <1>1, WorkspaceAssumption DEF Window
<1>3. o.asked + 1 \in 0..MaxSpawn /\ o.asked + 1 \in Locals /\ o.asked + 1 \notin 1..o.asked
      /\ 1..o.asked \subseteq 1..(o.asked + 1) /\ o.asked <= o.asked + 1
  BY <1>2, WorkspaceAssumption DEF Locals
<1>4. q \in Call
  BY <1>3 DEF Call
<1>5. b = [o EXCEPT !.asked = o.asked + 1, !.spawns = o.spawns \cup {q}]
  BY DEF Spawn
<1>6. q.sid = o.asked + 1 /\ q.kind = kind /\ q.tab = tab /\ q.idx = idx /\ ~q.forked
  OBVIOUS
<1> HIDE DEF b, q
<1>15. o.spawns \cup {q} \in SUBSET Call
  BY <1>2, <1>4
<1>7. /\ b \in Window /\ b.tabs = o.tabs /\ b.cur = o.cur /\ b.local = o.local /\ b.pend = o.pend
      /\ b.kill = o.kill /\ b.moves = o.moves /\ b.starting = o.starting
      /\ b.asked = o.asked + 1 /\ b.spawns = o.spawns \cup {q}
  BY <1>1, <1>3, <1>5, <1>15 DEF Window
<1>8. ShownBy(b) = ShownBy(o)
  BY <1>7, Zenon DEF ShownBy
<1>13. Numbered(b.spawns, b.asked)
  BY <1>1, <1>2, <1>6, <1>7, NextNumber
<1>9. ScreenOK(b)
  BY <1>1, <1>3, <1>7, <1>8, <1>13 DEF ScreenOK
<1>10. q.sid \notin ShownBy(b)
  BY <1>1, <1>3, <1>6, <1>8
<1>12. QED
  BY <1>3, <1>6, <1>7, <1>9, <1>10 DEF b, q

\* What a window says of its sessions, but for what is being started.
SameHold(o, b) ==
  b.tabs = o.tabs /\ b.local = o.local /\ b.pend = o.pend /\ b.kill = o.kill /\ b.moves = o.moves

\* startNewTab.
LEMMA Started ==
  ASSUME NEW o, ScreenOK(o), Len(o.tabs) <= MaxTabs
  PROVE  /\ ScreenOK(StartNew(o)) /\ SameHold(o, StartNew(o)) /\ StartNew(o).cur = o.cur
         /\ Starts(o, StartNew(o))
<1>0. o \in Window /\ o.asked \in 0..MaxSpawn /\ o.starting \in BOOLEAN
  BY DEF ScreenOK, Window
<1>1. CASE o.starting \/ o.asked = MaxSpawn
  <2>1. StartNew(o) = o
    BY <1>1 DEF StartNew
  <2>2. o.asked <= o.asked
    BY <1>0
  <2>3. QED
    BY <2>1, <2>2 DEF SameHold, Starts
<1>2. CASE ~(o.starting \/ o.asked = MaxSpawn)
  <2> DEFINE b == Spawn(o, "tab", None, 0)
             q == [sid |-> o.asked + 1, kind |-> "tab", tab |-> None, idx |-> 0, forked |-> FALSE]
  <2>1. o.asked < MaxSpawn
    BY <1>0, <1>2, WorkspaceAssumption
  <2>2. /\ ScreenOK(b) /\ b.tabs = o.tabs /\ b.cur = o.cur /\ b.local = o.local /\ b.pend = o.pend
        /\ b.kill = o.kill /\ b.moves = o.moves /\ b.asked = o.asked + 1
        /\ b.spawns = o.spawns \cup {q} /\ o.asked <= b.asked /\ q.sid \notin ShownBy(b)
    BY <2>1, Asked
  <2>11. q.sid = o.asked + 1 /\ q.kind = "tab" /\ ~q.forked
    OBVIOUS
  <2> HIDE DEF b, q
  <2> DEFINE c == [b EXCEPT !.starting = TRUE]
  <2>3. StartNew(o) = c
    BY <1>2 DEF StartNew, b
  <2>4. b \in Window
    BY <2>2 DEF ScreenOK
  <2>5. /\ c \in Window /\ c.tabs = b.tabs /\ c.cur = b.cur /\ c.local = b.local /\ c.pend = b.pend
        /\ c.kill = b.kill /\ c.moves = b.moves /\ c.asked = b.asked /\ c.spawns = b.spawns /\ c.starting
    BY <2>4 DEF Window
  <2> HIDE DEF c
  <2>6. ShownBy(c) = ShownBy(b)
    BY <2>5, Zenon DEF ShownBy
  <2>7. ScreenOK(c)
    BY <2>2, <2>5, <2>6 DEF ScreenOK
  <2>8. SpawnOK(c, q)
    BY <2>2, <2>5, <2>6, <2>11 DEF SpawnOK
  <2>9. NewCall(o, c, q)
    BY <1>2, <2>2, <2>5, <2>8, <2>11 DEF NewCall
  <2>10. QED
    BY <2>2, <2>3, <2>5, <2>7, <2>9 DEF SameHold, Starts
<1>3. QED
  BY <1>1, <1>2

\* Every pane of a sound tab was assigned.
LEMMA NoHoles ==
  ASSUME NEW t, TabOK(t)
  PROVE  Hole \notin Range(t.panes)
<1>1. \A i \in DOMAIN t.panes : t.panes[i] \in Pane
  BY TabShows DEF TabOK
<1>2. Hole \notin Pane
  <2>1. Hole.sid = -1
    BY DEF Hole
  <2>2. -1 \notin Sids /\ -1 # None
    BY Counts DEF None
  <2>3. QED
    BY <2>1, <2>2 DEF Pane
<1>3. QED
  BY <1>1, <1>2 DEF Range

\* The pane that showed x, or nothing, leaves tab id; its shell is closed if it is
\* in D.
PaneLeaves(o, c, id, x, D) ==
  /\ ScreenOK(c) /\ Drops(o, c, D) /\ Len(c.tabs) <= Len(o.tabs)
  /\ OnScreen(c.tabs) = OnScreen(o.tabs) \ {x}
  /\ \A k \in DOMAIN o.tabs : o.tabs[k].id # id => \E j \in DOMAIN c.tabs : c.tabs[j] = o.tabs[k]

\* closeTab starts a shell where the last tab went and it is no detach.
Refilled(c, det) == IF ~det /\ c.tabs = << >> THEN StartNew(c) ELSE c

\* closePaneAt.
LEMMA PaneCloses ==
  ASSUME NEW o, ScreenOK(o), NEW id, HasTab(o, id), NEW i \in DOMAIN TabOf(o, id).panes,
         NEW det \in BOOLEAN
  PROVE  LET x == TabOf(o, id).panes[i]
         IN  \E c : /\ PaneLeaves(o, c, id, x, IF det \/ x.rem \/ x.sid = None THEN {} ELSE {x.sid})
                    /\ ClosePaneAt(o, id, i, det) = Refilled(c, det)
<1> DEFINE t == TabOf(o, id)
           x == t.panes[i]
           D == IF det \/ x.rem \/ x.sid = None THEN {} ELSE {x.sid}
           r == ClosePane(t, i)
           b == IF t.lay # "single" /\ x.sid # None /\ ~x.rem /\ ~det THEN DropLocal(o, {x.sid}) ELSE o
           E == IF t.lay = "single" THEN {} ELSE D
           z == PutTab(b, r.tab)
<1>1. o \in Window /\ TabsOK(o.tabs) /\ Len(o.tabs) \in Nat
  BY LenProperties DEF ScreenOK, TabsOK
<1>2. /\ At(o, id) \in DOMAIN o.tabs /\ t = o.tabs[At(o, id)] /\ t.id = id /\ TabOK(t) /\ t \in Tab
      /\ \A k \in DOMAIN o.tabs : o.tabs[k].id = id => k = At(o, id)
  BY <1>1, TabFound
<1>3. x \in Pane /\ (~x.rem /\ x.sid # None => x.sid \in Locals)
  BY <1>2, TabShows DEF Pane
<1>4. D \in SUBSET Locals /\ E \in SUBSET Locals
  BY <1>3
<1>5. ClosedOK(t, i, r)
  BY <1>2, CloseOnePane
<1>6. ClosePaneAt(o, id, i, det) = IF r.gone THEN CloseTabOf(z, id, det, ~det) ELSE z
  BY Zenon DEF ClosePaneAt
<1>7. b = DropLocal(o, E)
  <2>1. CASE E = {}
    <3>1. b = o
      BY <2>1
    <3>2. [o EXCEPT !.local = o.local \ {}, !.pend = o.pend \ {}, !.kill = o.kill \cup {}] = o
      BY <1>1 DEF Window
    <3>3. QED
      BY <2>1, <3>1, <3>2 DEF DropLocal
  <2>2. CASE E # {}
    BY <2>2
  <2>3. QED
    BY <2>1, <2>2
<1> HIDE DEF b, E, D, r
<1>8. ScreenOK(b) /\ Drops(o, b, E) /\ b.tabs = o.tabs /\ b.cur = o.cur
  BY <1>4, <1>7, DropLocalKeeps
<1>9. HasTab(b, id) /\ TabOf(b, id) = t /\ At(b, id) = At(o, id)
  BY <1>8, Zenon DEF HasTab, TabOf, At, t
<1>10. TabOK(r.tab) /\ r.tab.id = id /\ r.gone \in BOOLEAN /\ Filled(r.tab.panes) \subseteq Filled(t.panes)
  BY <1>2, <1>5, Zenon DEF ClosedOK
<1>11. /\ Shows(t) = {p.sid : p \in Filled(t.panes)}
       /\ Shows(r.tab) = {p.sid : p \in Filled(r.tab.panes)}
  BY <1>2, <1>10, TabShows DEF TabOK
<1>12. Shows(r.tab) \subseteq Shows(t)
  BY <1>10, <1>11
<1>13. Shows(t) \subseteq ShownBy(b)
  BY <1>2, <1>8 DEF ShownBy
<1>14. Shows(r.tab) \cap Locals \subseteq 1..b.asked
  BY <1>8, <1>12, <1>13 DEF ScreenOK
<1>15. /\ ScreenOK(z) /\ SameBut(b, z) /\ Len(z.tabs) = Len(b.tabs) /\ DOMAIN z.tabs = DOMAIN b.tabs
       /\ \A k \in DOMAIN b.tabs : z.tabs[k] = IF k = At(b, id) THEN r.tab ELSE b.tabs[k]
       /\ HasTab(z, id) /\ TabOf(z, id) = r.tab
       /\ OnScreen(z.tabs) = (OnScreen(b.tabs) \ Filled(t.panes)) \cup Filled(r.tab.panes)
  <2> DEFINE u == r.tab
  <2>1. TabOK(u) /\ u.id = id /\ HasTab(b, u.id) /\ TabOf(b, u.id) = t /\ Shows(u) \cap Locals \subseteq 1..b.asked
    BY <1>9, <1>10, <1>14
  <2>2. \A s \in Shows(u) : s \in ShownBy(b) => s \in Shows(TabOf(b, u.id))
    BY <1>12, <2>1
  <2> HIDE DEF u
  <2>3. LET y == PutTab(b, u)
        IN  /\ ScreenOK(y) /\ SameBut(b, y) /\ y.cur = b.cur /\ Len(y.tabs) = Len(b.tabs)
            /\ DOMAIN y.tabs = DOMAIN b.tabs
            /\ \A k \in DOMAIN b.tabs : y.tabs[k] = IF k = At(b, u.id) THEN u ELSE b.tabs[k]
            /\ HasTab(y, u.id) /\ At(y, u.id) = At(b, u.id) /\ TabOf(y, u.id) = u
            /\ OnScreen(y.tabs) = (OnScreen(b.tabs) \ Filled(TabOf(b, u.id).panes)) \cup Filled(u.panes)
    BY <1>8, <2>1, <2>2, PutTabKeeps, Zenon
  <2>4. QED
    BY <2>1, <2>3 DEF u
<1> HIDE DEF z
<1>16. Filled(t.panes) \subseteq OnScreen(o.tabs) /\ x \notin OnScreen(o.tabs) \ Filled(t.panes)
  <2>1. Filled(t.panes) \subseteq OnScreen(o.tabs)
    BY <1>2 DEF OnScreen
  <2>2. ASSUME x \in OnScreen(o.tabs) PROVE x \in Filled(t.panes)
    <3>1. x.sid # None
      BY <1>1, <2>2, ScreenShows, Counts
    <3>2. QED
      BY <1>3, <3>1 DEF Filled
  <2>3. QED
    BY <2>1, <2>2
<1>17. \A k \in DOMAIN o.tabs : o.tabs[k].id # id => k \in DOMAIN z.tabs /\ z.tabs[k] = o.tabs[k]
  BY <1>2, <1>8, <1>9, <1>15
<1>18. Drops(o, z, E)
  BY <1>8, <1>15 DEF Drops, SameBut
<1>19. CASE ~r.gone
  <2>1. Filled(r.tab.panes) = Filled(t.panes) \ {x}
    BY <1>5, <1>19, Zenon DEF ClosedOK, x
  <2>2. OnScreen(z.tabs) = OnScreen(o.tabs) \ {x}
    BY <1>8, <1>15, <1>16, <2>1
  <2>3. E = D
    BY <1>19 DEF E, r, ClosePane
  <2>4. PaneLeaves(o, z, id, x, D)
    BY <1>8, <1>15, <1>17, <1>18, <2>2, <2>3, <1>1 DEF PaneLeaves
  <2>5. z.tabs # << >>
    <3>1. Len(<< >>) = 0
      OBVIOUS
    <3>2. Len(o.tabs) # 0
      BY <1>1, <1>2, LenProperties DEF TabsOK
    <3>3. QED
      BY <1>8, <1>15, <3>1, <3>2
  <2>6. ClosePaneAt(o, id, i, det) = Refilled(z, det)
    BY <1>6, <1>19, <2>5 DEF Refilled
  <2>7. QED
    BY <2>4, <2>6 DEF D
<1>20. CASE r.gone
  <2> DEFINE c == ComputeCloseTabState(z, id, det)
             F == Filled(r.tab.panes)
             G == IF det THEN {} ELSE Shells(F)
  <2>1. ScreenOK(c) /\ Drops(z, c, G) /\ TabsGo(z, c, {id}) /\ OnScreen(c.tabs) = OnScreen(z.tabs) \ F
    BY <1>15, TabCloses
  <2>2. CloseTabOf(z, id, det, ~det) = Refilled(c, det)
    BY <1>10, <1>15, NoHoles DEF CloseTabOf, Refilled
  <2>3. Filled(t.panes) \subseteq {x} /\ Filled(t.panes) = IF x.sid = None THEN {} ELSE {x}
    <3>1. Filled(t.panes) \subseteq {x}
      BY <1>5, <1>20, Zenon DEF ClosedOK, x
    <3>2. QED
      BY <1>3, <3>1 DEF Filled
  <2>4. D = E \cup G
    <3>1. CASE t.lay = "single"
      <4>1. r.tab.panes = t.panes
        BY <1>5, <1>20, <3>1 DEF ClosedOK
      <4>2. F = IF x.sid = None THEN {} ELSE {x}
        BY <2>3, <4>1
      <4> HIDE DEF F, x
      <4>3. G = D
        BY <4>2 DEF D, Shells
      <4>4. QED
        BY <3>1, <4>3 DEF E
    <3>2. CASE t.lay # "single"
      <4>1. F = {}
        BY <1>5, <1>20, <3>2 DEF ClosedOK
      <4>2. G = {}
        BY <4>1 DEF Shells
      <4>3. QED
        BY <3>2, <4>2 DEF E
    <3>3. QED
      BY <3>1, <3>2
  <2> HIDE DEF c, G
  <2>5. Drops(o, c, D)
    BY <1>18, <2>1, <2>4 DEF Drops
  <2>6. OnScreen(c.tabs) = OnScreen(o.tabs) \ {x}
    <3>1. OnScreen(c.tabs) = OnScreen(o.tabs) \ Filled(t.panes)
      BY <1>8, <1>10, <1>15, <2>1
    <3>2. QED
      BY <1>16, <2>3, <3>1
  <2>7. \A k \in DOMAIN o.tabs : o.tabs[k].id # id => \E j \in DOMAIN c.tabs : c.tabs[j] = o.tabs[k]
    <3>1. TAKE k \in DOMAIN o.tabs
    <3>2. HAVE o.tabs[k].id # id
    <3>3. k \in DOMAIN z.tabs /\ z.tabs[k] = o.tabs[k] /\ z.tabs[k].id \notin {id}
      BY <1>17, <3>2
    <3>4. QED
      BY <2>1, <3>3 DEF TabsGo
  <2>8. PaneLeaves(o, c, id, x, D)
    BY <1>8, <1>15, <2>1, <2>5, <2>6, <2>7 DEF PaneLeaves, TabsGo
  <2>9. QED
    BY <1>6, <1>20, <2>2, <2>8 DEF D
<1>21. QED
  BY <1>10, <1>19, <1>20

-----------------------------------------------------------------------------
(* Detaching and opening *)

\* Tab u may stand in place of the tab of its id.
Fits(o, u) ==
  /\ TabOK(u) /\ HasTab(o, u.id)
  /\ \A s \in Shows(u) : s \in ShownBy(o) => s \in Shows(TabOf(o, u.id))
  /\ Shows(u) \cap Locals \subseteq 1..o.asked

Placed(o, b, u) ==
  /\ ScreenOK(b) /\ SameBut(o, b) /\ b.cur = o.cur /\ Len(b.tabs) = Len(o.tabs)
  /\ DOMAIN b.tabs = DOMAIN o.tabs
  /\ \A k \in DOMAIN o.tabs : b.tabs[k] = IF k = At(o, u.id) THEN u ELSE o.tabs[k]
  /\ HasTab(b, u.id) /\ TabOf(b, u.id) = u
  /\ OnScreen(b.tabs) = (OnScreen(o.tabs) \ Filled(TabOf(o, u.id).panes)) \cup Filled(u.panes)

\* A tab that fits replaces the panes of its predecessor by its own, and no others.
LEMMA TabPlaced ==
  ASSUME NEW o, ScreenOK(o), NEW u, Fits(o, u)
  PROVE  Placed(o, PutTab(o, u), u)
<1>1. /\ TabOK(u) /\ HasTab(o, u.id)
      /\ \A s \in Shows(u) : s \in ShownBy(o) => s \in Shows(TabOf(o, u.id))
      /\ Shows(u) \cap Locals \subseteq 1..o.asked
  BY Zenon DEF Fits
<1>2. LET b == PutTab(o, u)
      IN  /\ ScreenOK(b) /\ SameBut(o, b) /\ b.cur = o.cur /\ Len(b.tabs) = Len(o.tabs)
          /\ DOMAIN b.tabs = DOMAIN o.tabs
          /\ \A k \in DOMAIN o.tabs : b.tabs[k] = IF k = At(o, u.id) THEN u ELSE o.tabs[k]
          /\ HasTab(b, u.id) /\ At(b, u.id) = At(o, u.id) /\ TabOf(b, u.id) = u
          /\ OnScreen(b.tabs) = (OnScreen(o.tabs) \ Filled(TabOf(o, u.id).panes)) \cup Filled(u.panes)
  BY <1>1, PutTabKeeps, Zenon
<1>3. QED
  BY <1>2, Zenon DEF Placed

\* What a tab shows is among what the window shows, and of the shells asked for.
LEMMA TabAmong ==
  ASSUME NEW o, ScreenOK(o), NEW id, HasTab(o, id)
  PROVE  /\ Shows(TabOf(o, id)) \subseteq ShownBy(o)
         /\ Shows(TabOf(o, id)) \cap Locals \subseteq 1..o.asked
         /\ Shows(TabOf(o, id)) = {p.sid : p \in Filled(TabOf(o, id).panes)}
         /\ Filled(TabOf(o, id).panes) \subseteq OnScreen(o.tabs)
<1>1. TabsOK(o.tabs) /\ ShownBy(o) \cap Locals \subseteq 1..o.asked
  BY DEF ScreenOK
<1>2. At(o, id) \in DOMAIN o.tabs /\ TabOf(o, id) = o.tabs[At(o, id)] /\ TabOf(o, id) \in Tab
  BY <1>1, TabFound
<1>3. Shows(TabOf(o, id)) \subseteq ShownBy(o)
  BY <1>2 DEF ShownBy
<1>4. Filled(TabOf(o, id).panes) \subseteq OnScreen(o.tabs)
  BY <1>2 DEF OnScreen
<1>5. QED
  BY <1>1, <1>2, <1>3, <1>4, TabShows

\* A tab that shows no more than the one it replaces fits.
LEMMA FitsLess ==
  ASSUME NEW o, ScreenOK(o), NEW u, TabOK(u), HasTab(o, u.id),
         Filled(u.panes) \subseteq Filled(TabOf(o, u.id).panes)
  PROVE  Fits(o, u)
<1>1. Shows(u) = {p.sid : p \in Filled(u.panes)}
  BY TabShows DEF TabOK
<1>2. Shows(u) \subseteq Shows(TabOf(o, u.id))
  BY <1>1, TabAmong
<1>3. QED
  BY <1>2, TabAmong DEF Fits

\* No pane shows s any more; tabs that did not are as they were.
Vacates(o, c, s) ==
  /\ ScreenOK(c) /\ SameBut(o, c) /\ Len(c.tabs) <= Len(o.tabs)
  /\ OnScreen(c.tabs) = {p \in OnScreen(o.tabs) : p.sid # s}
  /\ \A k \in DOMAIN o.tabs : s \notin Shows(o.tabs[k]) => \E j \in DOMAIN c.tabs : c.tabs[j] = o.tabs[k]

\* Detached vacates the pane of the session and keeps every other pane.
LEMMA SessionLeaves ==
  ASSUME NEW o, ScreenOK(o), NEW s
  PROVE  Vacates(o, Detached(o, s), s)
<1>1. TabsOK(o.tabs) /\ Len(o.tabs) \in Nat
  BY LenProperties DEF ScreenOK, TabsOK
<1>2. CASE s \notin ShownBy(o)
  <2>1. Detached(o, s) = o
    BY <1>2 DEF Detached
  <2>2. s \notin AllShown(o.tabs)
    BY <1>2 DEF AllShown, ShownBy
  <2>3. OnScreen(o.tabs) = {p \in OnScreen(o.tabs) : p.sid # s}
    BY <1>1, <2>2, ScreenShows
  <2>4. QED
    BY <1>1, <2>1, <2>3 DEF Vacates, SameBut
<1>3. CASE s \in ShownBy(o)
  <2> DEFINE l == Located(o, s)
             t == TabOf(o, l.id)
             x == t.panes[l.idx]
  <2>1. HasTab(o, l.id) /\ l.idx \in DOMAIN t.panes /\ x.sid = s /\ s \in Sids /\ s \in Shows(t)
    BY <1>1, <1>3, PaneLocated
  <2>2. Detached(o, s) = ClosePaneAt(o, l.id, l.idx, TRUE)
    BY <1>3 DEF Detached
  <2>3. t = o.tabs[At(o, l.id)] /\ t \in Tab /\ \A k \in DOMAIN o.tabs : o.tabs[k].id = l.id => k = At(o, l.id)
    BY <1>1, <2>1, TabFound
  <2>4. x \in Pane
    BY <2>1, <2>3, TabShows
  <2>5. x \in OnScreen(o.tabs)
    <3>1. x \in Filled(t.panes)
      BY <2>1, <2>4, Counts DEF Filled
    <3>2. QED
      BY <2>1, <3>1, TabAmong
  <2> HIDE DEF l
  <2>6. PICK c : PaneLeaves(o, c, l.id, x, {}) /\ ClosePaneAt(o, l.id, l.idx, TRUE) = Refilled(c, TRUE)
    BY <2>1, PaneCloses
  <2>7. Detached(o, s) = c
    BY <2>2, <2>6 DEF Refilled
  <2>8. SameBut(o, c)
    BY <2>6, DropsNothing DEF PaneLeaves
  <2>9. OnScreen(o.tabs) \ {x} = {p \in OnScreen(o.tabs) : p.sid # s}
    BY <1>1, <2>1, <2>5, ScreenShows
  <2>10. \A k \in DOMAIN o.tabs : s \notin Shows(o.tabs[k]) => o.tabs[k].id # l.id
    BY <2>1, <2>3
  <2>11. QED
    BY <2>6, <2>7, <2>8, <2>9, <2>10 DEF PaneLeaves, Vacates
<1>4. QED
  BY <1>2, <1>3

\* A tab that did not show s is found again by its id.
LEMMA TabStays ==
  ASSUME NEW o, ScreenOK(o), NEW c, NEW s, Vacates(o, c, s), NEW id, HasTab(o, id),
         s \notin Shows(TabOf(o, id))
  PROVE  HasTab(c, id) /\ TabOf(c, id) = TabOf(o, id)
<1>1. At(o, id) \in DOMAIN o.tabs /\ TabOf(o, id) = o.tabs[At(o, id)] /\ TabOf(o, id).id = id
  BY TabFound DEF ScreenOK
<1>2. PICK j \in DOMAIN c.tabs : c.tabs[j] = TabOf(o, id)
  BY <1>1 DEF Vacates
<1>3. TabsOK(c.tabs)
  BY DEF Vacates, ScreenOK
<1>4. QED
  BY <1>1, <1>2, <1>3, TabHere

\* What a window shows is what its panes show.
LEMMA ShownOnScreen ==
  ASSUME NEW o, ScreenOK(o)
  PROVE  ShownBy(o) = {p.sid : p \in OnScreen(o.tabs)}
<1>1. ShownBy(o) = AllShown(o.tabs)
  BY Zenon DEF ShownBy, AllShown
<1>2. QED
  BY <1>1, ScreenShows DEF ScreenOK

\* There is room for a tab, counting those that shells are being started for.
Room(o) ==
  \/ Len(o.tabs) < MaxTabs
  \/ Len(o.tabs) <= MaxTabs /\ \E s \in Locals : \A q \in o.spawns : q.sid # s

\* There are more ids than tabs and shells: a new tab gets one of its own.
LEMMA FreeTabFound ==
  ASSUME NEW o, ScreenOK(o), Room(o)
  PROVE  /\ FreeTab(o) \in TabIds /\ ~HasTab(o, FreeTab(o))
         /\ \A q \in o.spawns : q.tab # FreeTab(o)
<1> DEFINE n == Len(o.tabs)
           m == MaxTabs + MaxSpawn
           G == {id \in TabIds : ~HasTab(o, id) /\ \A q \in o.spawns : q.tab # id}
           Of(id) == CHOOSE q \in o.spawns : q.tab = id
           Number(id) == IF HasTab(o, id) THEN At(o, id) ELSE n + Of(id).sid
<1>1. /\ TabsOK(o.tabs) /\ n \in Nat /\ DOMAIN o.tabs = 1..n /\ o.spawns \subseteq Call
      /\ \A q, r \in o.spawns : q.sid = r.sid => q = r
  BY LenProperties DEF ScreenOK, TabsOK, Window, Numbered
<1>2. FreeTab(o) = Min(G)
  BY DEF FreeTab
<1>3. G \subseteq Nat
  BY DEF TabIds
<1>4. G # {}
  <2>1. SUFFICES ASSUME \A id \in TabIds : HasTab(o, id) \/ \E q \in o.spawns : q.tab = id PROVE FALSE
    BY Zenon
  <2>2. \A id \in TabIds : HasTab(o, id) =>
          At(o, id) \in 1..n /\ o.tabs[At(o, id)].id = id
    BY <1>1, TabFound
  <2>3. \A id \in TabIds : ~HasTab(o, id) => Of(id) \in o.spawns /\ Of(id).tab = id
    BY <2>1, Zenon
  <2>4. \A q \in o.spawns : q.sid \in 1..MaxSpawn
    BY <1>1 DEF Call, Locals
  <2> HIDE DEF Of
  <2>5. ASSUME NEW x \in TabIds, NEW y \in TabIds, Number(x) = Number(y) PROVE x = y
    <3>1. CASE HasTab(o, x) /\ HasTab(o, y)
      BY <2>2, <2>5, <3>1
    <3>2. CASE HasTab(o, x) /\ ~HasTab(o, y)
      BY <1>1, <2>2, <2>3, <2>4, <2>5, <3>2, WorkspaceAssumption
    <3>3. CASE ~HasTab(o, x) /\ HasTab(o, y)
      BY <1>1, <2>2, <2>3, <2>4, <2>5, <3>3, WorkspaceAssumption
    <3>4. CASE ~HasTab(o, x) /\ ~HasTab(o, y)
      <4>1. Of(x).sid \in Nat /\ Of(y).sid \in Nat /\ Of(x) \in o.spawns /\ Of(y) \in o.spawns
        BY <2>3, <2>4, <3>4
      <4>2. Of(x).sid = Of(y).sid
        BY <1>1, <2>5, <3>4, <4>1
      <4>3. QED
        BY <1>1, <2>3, <3>4, <4>1, <4>2
    <3>5. QED
      BY <3>1, <3>2, <3>3, <3>4
  <2>6. ASSUME NEW J, IsFiniteSet(J), Cardinality(J) \in Nat, Cardinality(J) < m,
               \A id \in TabIds : Number(id) \in J
        PROVE  FALSE
    <3> DEFINE f == [id \in TabIds |-> Number(id)]
    <3>1. m \in Int /\ m > 0 /\ 1 \in Int /\ TabIds = 1..m
      BY WorkspaceAssumption DEF TabIds
    <3>2. f \in [TabIds -> J] /\ \A id \in TabIds : f[id] = Number(id)
      BY <2>6
    <3> HIDE DEF m, f, Number
    <3>3. IsFiniteSet(1..m) /\ Cardinality(1..m) = IF 1 > m THEN 0 ELSE m - 1 + 1
      BY <3>1, FS_Interval, Zenon
    <3>4. IsFiniteSet(TabIds) /\ Cardinality(J) < Cardinality(TabIds)
      BY <2>6, <3>1, <3>3
    <3>5. \E x, y \in TabIds : x # y /\ f[x] = f[y]
      BY <2>6, <3>2, <3>4, FS_PigeonHole
    <3>6. QED
      BY <2>5, <3>2, <3>5
  <2> DEFINE k == n + MaxSpawn
             I == 1..k
  <2>7. \A id \in TabIds : Number(id) \in I
    BY <1>1, <2>2, <2>3, <2>4, WorkspaceAssumption
  <2>8. IsFiniteSet(I) /\ Cardinality(I) = k
    <3>1. k \in Int /\ k > 0 /\ 1 \in Int
      BY <1>1, WorkspaceAssumption
    <3> HIDE DEF k
    <3>2. IsFiniteSet(1..k) /\ Cardinality(1..k) = IF 1 > k THEN 0 ELSE k - 1 + 1
      BY <3>1, FS_Interval, Zenon
    <3>3. QED
      BY <3>1, <3>2
  <2>9. CASE n < MaxTabs
    <3>1. k < m /\ k \in Nat
      BY <1>1, <2>9, WorkspaceAssumption
    <3> HIDE DEF I, k, m, Number
    <3>2. QED
      BY <2>6, <2>7, <2>8, <3>1
  <2>10. CASE n <= MaxTabs /\ \E s \in Locals : \A q \in o.spawns : q.sid # s
    <3>1. PICK s \in Locals : \A q \in o.spawns : q.sid # s
      BY <2>10
    <3> DEFINE x == n + s
               J == I \ {x}
    <3>2. s \in Nat /\ s > 0 /\ x \in I
      BY <1>1, WorkspaceAssumption DEF Locals
    <3>3. \A id \in TabIds : Number(id) # x
      BY <1>1, <2>2, <2>3, <2>4, <3>1, <3>2, WorkspaceAssumption
    <3>4. k - 1 \in Nat /\ k - 1 < m
      BY <1>1, <2>10, WorkspaceAssumption
    <3> HIDE DEF I, k, m, Number, x
    <3>5. IsFiniteSet(J) /\ Cardinality(J) = k - 1
      BY <2>8, <3>2, FS_RemoveElement
    <3>6. \A id \in TabIds : Number(id) \in J
      BY <2>7, <3>3
    <3> HIDE DEF J
    <3>7. QED
      BY <2>6, <3>4, <3>5, <3>6
  <2>11. QED
    BY <2>9, <2>10 DEF Room
<1>5. Min(G) \in G
  <2> HIDE DEF G
  <2>1. QED
    BY <1>3, <1>4, LeastElement
<1>6. QED
  BY <1>2, <1>5

\* Tab u is new on the screen of c.
Opened(o, c, u) ==
  /\ ScreenOK(c) /\ SameBut(o, c) /\ Len(c.tabs) = Len(o.tabs) + 1
  /\ OnScreen(c.tabs) = OnScreen(o.tabs) \cup Filled(u.panes)
  /\ \A k \in DOMAIN c.tabs : c.tabs[k] = u \/ \E j \in DOMAIN o.tabs : c.tabs[k] = o.tabs[j]

\* tabs.push and gotoTab, for a tab of sessions shown nowhere.
LEMMA TabOpens ==
  ASSUME NEW o, ScreenOK(o), Len(o.tabs) <= MaxTabs, NEW u, TabOK(u), ~HasTab(o, u.id),
         Shows(u) \cap ShownBy(o) = {}, Shows(u) \cap Locals \subseteq 1..o.asked
  PROVE  Opened(o, OpenTab(o, u), u)
<1> DEFINE c == OpenTab(o, u)
           T == o.tabs
           U == Append(T, u)
           n == Len(T) + 1
<1>1. /\ o \in Window /\ TabsOK(T) /\ Len(T) <= MaxTabs
      /\ o.pend \subseteq o.local /\ o.local \subseteq 1..o.asked
      /\ ShownBy(o) \cap Locals \subseteq 1..o.asked /\ Numbered(o.spawns, o.asked)
  BY DEF ScreenOK
<1>2. \A j \in DOMAIN T : T[j].id # u.id
  BY DEF HasTab
<1>3. Shows(u) \cap AllShown(T) = {}
  BY Zenon DEF AllShown, ShownBy
<1>4. /\ TabsOK(U) /\ Len(U) = n /\ Len(T) \in Nat /\ n \in DOMAIN U
      /\ \A j \in DOMAIN T : j \in DOMAIN U /\ U[j] = T[j]
      /\ U[n] = u /\ \A j \in DOMAIN U : j \in DOMAIN T \/ j = n
  BY <1>1, <1>2, <1>3, AddTab
<1>5. c = [o EXCEPT !.tabs = U, !.cur = u.id]
  BY DEF OpenTab
<1>6. u.id \in TabIds
  BY DEF TabOK, Tab
<1> HIDE DEF U, c
<1>7. U \in Seq(Tab)
  BY <1>4 DEF TabsOK
<1>8. c \in Window /\ c.tabs = U /\ SameBut(o, c)
  BY <1>1, <1>5, <1>6, <1>7 DEF Window, SameBut
<1> HIDE DEF n
<1>9. OnScreen(U) = OnScreen(T) \cup Filled(u.panes)
  <2>1. ASSUME NEW x \in OnScreen(U) PROVE x \in OnScreen(T) \cup Filled(u.panes)
    <3>1. PICK j \in DOMAIN U : x \in Filled(U[j].panes)
      BY DEF OnScreen
    <3>2. QED
      BY <1>4, <3>1 DEF OnScreen
  <2>2. ASSUME NEW x \in OnScreen(T) PROVE x \in OnScreen(U)
    <3>1. PICK j \in DOMAIN T : x \in Filled(T[j].panes)
      BY DEF OnScreen
    <3>2. QED
      BY <1>4, <3>1 DEF OnScreen
  <2>3. Filled(u.panes) \subseteq OnScreen(U)
    BY <1>4 DEF OnScreen
  <2>4. QED
    BY <2>1, <2>2, <2>3
<1>10. ShownBy(c) \subseteq ShownBy(o) \cup Shows(u)
  <2>1. ASSUME NEW x \in ShownBy(c) PROVE x \in ShownBy(o) \cup Shows(u)
    <3>1. PICK j \in DOMAIN U : x \in Shows(U[j])
      BY <1>8 DEF ShownBy
    <3>2. QED
      BY <1>4, <3>1 DEF ShownBy
  <2>2. QED
    BY <2>1
<1>11. Len(U) <= MaxTabs + 1
  BY <1>4, WorkspaceAssumption DEF n
<1>12. ScreenOK(c)
  BY <1>1, <1>4, <1>8, <1>10, <1>11 DEF ScreenOK, SameBut
<1>13. QED
  BY <1>4, <1>8, <1>9, <1>12 DEF Opened, c, n

\* A tab of one session that shows nowhere.
LEMMA SessionOpens ==
  ASSUME NEW o, ScreenOK(o), Room(o), NEW p \in Pane, p.sid # None,
         p.sid \notin ShownBy(o), p.sid \in Locals => p.sid \in 1..o.asked
  PROVE  /\ ScreenOK(OpenTab(o, SingleTab(FreeTab(o), p))) /\ SameBut(o, OpenTab(o, SingleTab(FreeTab(o), p)))
         /\ OnScreen(OpenTab(o, SingleTab(FreeTab(o), p)).tabs) = OnScreen(o.tabs) \cup {p}
         /\ Len(OpenTab(o, SingleTab(FreeTab(o), p)).tabs) = Len(o.tabs) + 1
         /\ \A k \in DOMAIN OpenTab(o, SingleTab(FreeTab(o), p)).tabs :
              \/ \A q \in o.spawns : q.tab # OpenTab(o, SingleTab(FreeTab(o), p)).tabs[k].id
              \/ \E j \in DOMAIN o.tabs : OpenTab(o, SingleTab(FreeTab(o), p)).tabs[k] = o.tabs[j]
<1> DEFINE u == SingleTab(FreeTab(o), p)
<1>1. FreeTab(o) \in TabIds /\ ~HasTab(o, FreeTab(o)) /\ \A q \in o.spawns : q.tab # FreeTab(o)
  BY FreeTabFound
<1>2. TabOK(u) /\ u.id = FreeTab(o) /\ Filled(u.panes) = {x \in {p} : x.sid # None}
  BY <1>1, OneTab
<1> HIDE DEF u
<1>3. Filled(u.panes) = {p}
  BY <1>2
<1>4. Shows(u) = {p.sid}
  BY <1>2, <1>3, TabShows DEF TabOK
<1>7. Len(o.tabs) <= MaxTabs
  <2>1. Len(o.tabs) \in Nat
    BY LenProperties DEF ScreenOK, TabsOK
  <2>2. QED
    BY <2>1, WorkspaceAssumption DEF Room
<1>5. Opened(o, OpenTab(o, u), u)
  BY <1>1, <1>2, <1>4, <1>7, TabOpens
<1> DEFINE c == OpenTab(o, u)
<1>8. \A k \in DOMAIN c.tabs :
        (\A q \in o.spawns : q.tab # c.tabs[k].id) \/ \E j \in DOMAIN o.tabs : c.tabs[k] = o.tabs[j]
  <2> HIDE DEF c
  <2>1. Opened(o, c, u)
    BY <1>5 DEF c
  <2>2. QED
    BY <1>1, <1>2, <2>1, Zenon DEF Opened
<1>6. QED
  BY <1>3, <1>5, <1>8 DEF Opened, u

\* openRemoteAsTab.
LEMMA RemoteOpens ==
  ASSUME NEW o, ScreenOK(o), NEW s \in Sids, s \in Locals => s \in 1..o.asked,
         NEW requested \in BOOLEAN, s \in Remotes => requested,
         s \in ShownBy(o) \/ Len(o.tabs) < MaxTabs
  PROVE  LET c == OpenRemoteAsTab(o, s, requested)
         IN  /\ ScreenOK(c) /\ SameBut(o, c) /\ (Len(c.tabs) <= Len(o.tabs) \/ Len(c.tabs) <= MaxTabs)
             /\ OnScreen(c.tabs) =
                  IF s \in ShownBy(o) THEN OnScreen(o.tabs)
                  ELSE OnScreen(o.tabs) \cup {[sid |-> s, rem |-> ResolvePaneRemote(o, s, requested)]}
<1> DEFINE c == OpenRemoteAsTab(o, s, requested)
<1>0. o \in Window /\ TabsOK(o.tabs)
  BY DEF ScreenOK
<1>1. CASE s \in ShownBy(o)
  <2> DEFINE l == Located(o, s)
             t == TabOf(o, l.id)
             u == [t EXCEPT !.act = l.idx]
             b == PutTab(o, u)
             d == [b EXCEPT !.cur = l.id]
  <2>1. HasTab(o, l.id) /\ l.idx \in DOMAIN t.panes
    BY <1>0, <1>1, PaneLocated
  <2>2. c = d
    BY <1>1, Zenon DEF OpenRemoteAsTab
  <2>3. TabOK(t) /\ t.id = l.id /\ l.id \in TabIds
    BY <1>0, <2>1, TabFound
  <2> HIDE DEF l
  <2>4. TabOK(u) /\ u.id = l.id /\ u.panes = t.panes
    BY <2>1, <2>3, ActTab
  <2>5. Fits(o, u)
    <3> HIDE DEF u
    <3>1. QED
      BY <2>1, <2>4, FitsLess
  <2>6. Placed(o, b, u)
    <3> HIDE DEF u
    <3>1. QED
      BY <2>5, TabPlaced
  <2> HIDE DEF b
  <2>7. /\ ScreenOK(b) /\ b \in Window /\ SameBut(o, b) /\ OnScreen(b.tabs) = OnScreen(o.tabs)
        /\ Len(b.tabs) = Len(o.tabs) /\ Len(o.tabs) \in Nat
    <3>0. Len(o.tabs) \in Nat
      BY <1>0, LenProperties DEF TabsOK
    <3>1. OnScreen(b.tabs) = (OnScreen(o.tabs) \ Filled(t.panes)) \cup Filled(t.panes)
      BY <2>4, <2>6 DEF Placed
    <3>2. Filled(t.panes) \subseteq OnScreen(o.tabs)
      BY <2>1, TabAmong
    <3>3. QED
      BY <2>6, <3>0, <3>1, <3>2 DEF Placed, ScreenOK
  <2>8. d \in Window /\ d.tabs = b.tabs /\ SameBut(b, d)
    BY <2>3, <2>7 DEF Window, SameBut
  <2> HIDE DEF d
  <2>9. ShownBy(d) = ShownBy(b)
    BY <2>8, Zenon DEF ShownBy
  <2>10. ScreenOK(d)
    BY <2>7, <2>8, <2>9 DEF ScreenOK, SameBut
  <2>12. Len(d.tabs) <= Len(o.tabs)
    BY <2>7, <2>8
  <2>11. QED
    BY <1>1, <2>2, <2>7, <2>8, <2>10, <2>12 DEF SameBut
<1>2. CASE s \notin ShownBy(o)
  <2> DEFINE p == [sid |-> s, rem |-> ResolvePaneRemote(o, s, requested)]
  <2>1. c = OpenTab(o, SingleTab(FreeTab(o), p))
    BY <1>2, Zenon DEF OpenRemoteAsTab
  <2>2. ResolvePaneRemote(o, s, requested) \in BOOLEAN
    BY DEF ResolvePaneRemote
  <2>3. s \in Remotes => ResolvePaneRemote(o, s, requested)
    BY <1>0, Counts DEF ResolvePaneRemote, Window
  <2>4. p \in Pane /\ p.sid = s
    BY <2>2, <2>3 DEF Pane, Sids
  <2>5. s # None
    BY Counts
  <2>7. Len(o.tabs) < MaxTabs /\ Len(o.tabs) \in Nat /\ Room(o)
    BY <1>0, <1>2, LenProperties DEF TabsOK, Room
  <2>8. Len(o.tabs) + 1 <= MaxTabs
    BY <2>7, WorkspaceAssumption
  <2> HIDE DEF p
  <2>6. QED
    BY <1>2, <2>1, <2>4, <2>5, <2>7, <2>8, SessionOpens DEF p
<1>3. QED
  BY <1>1, <1>2

-----------------------------------------------------------------------------
(* mergeSelectedIntoTab *)

\* The loop that vacates the panes of the selected sessions.
Freeing(o, ids, m, h) ==
  h = [k \in 0..m |-> IF k = 0 THEN o ELSE Detached(h[k - 1], ids[k])]

\* The fold of mergeSelectedIntoTab is defined for selections of any length.
LEMMA FreeingRuns ==
  ASSUME NEW o, NEW ids, NEW n \in Nat
  PROVE  \E h : Freeing(o, ids, n, h)
<1> DEFINE bad == {m \in Nat : ~\E h : Freeing(o, ids, m, h)}
<1>1. SUFFICES ASSUME bad # {} PROVE FALSE
  OBVIOUS
<1>2. PICK m \in bad : \A j \in bad : m <= j
  <2>1. bad \subseteq Nat
    OBVIOUS
  <2> HIDE DEF bad
  <2>2. QED
    BY <1>1, <2>1, LeastElement
<1>3. m \in Nat /\ ~\E h : Freeing(o, ids, m, h)
  OBVIOUS
<1>4. CASE m = 0
  <2> DEFINE h == [k \in 0..0 |-> o]
  <2>1. \A k \in 0..0 : k = 0
    OBVIOUS
  <2>2. h = [k \in 0..0 |-> IF k = 0 THEN o ELSE Detached(h[k - 1], ids[k])]
    BY <2>1
  <2>3. Freeing(o, ids, 0, h)
    BY <2>2, Zenon DEF Freeing
  <2>4. QED
    BY <1>3, <1>4, <2>3, Zenon
<1>5. CASE m # 0
  <2>1. m - 1 \in Nat /\ m - 1 \notin bad
    BY <1>2, <1>3, <1>5
  <2>2. PICK g : Freeing(o, ids, m - 1, g)
    BY <2>1
  <2> DEFINE h == [k \in 0..m |-> IF k = m THEN Detached(g[m - 1], ids[m]) ELSE g[k]]
  <2>3. \A k \in 0..m - 1 : g[k] = IF k = 0 THEN o ELSE Detached(g[k - 1], ids[k])
    BY <2>2, Zenon DEF Freeing
  <2>4. \A k \in 0..m : h[k] = IF k = 0 THEN o ELSE Detached(h[k - 1], ids[k])
    <3>1. TAKE k \in 0..m
    <3>2. CASE k = m
      <4>1. m - 1 \in 0..m /\ m - 1 # m /\ h[m - 1] = g[m - 1]
        BY <1>3, <1>5
      <4>2. QED
        BY <1>3, <1>5, <3>2, <4>1
    <3>3. CASE k # m /\ k # 0
      <4>1. k \in 0..m - 1 /\ k - 1 \in 0..m /\ k - 1 # m
        BY <1>3, <3>3
      <4>2. h[k] = g[k] /\ h[k - 1] = g[k - 1]
        BY <3>3, <4>1
      <4>3. QED
        BY <2>3, <3>3, <4>1, <4>2
    <3>4. CASE k # m /\ k = 0
      BY <1>3, <2>3, <3>4
    <3>5. QED
      BY <3>2, <3>3, <3>4
  <2>5. h = [k \in 0..m |-> h[k]]
    OBVIOUS
  <2> HIDE DEF h
  <2>6. h = [k \in 0..m |-> IF k = 0 THEN o ELSE Detached(h[k - 1], ids[k])]
    BY <2>4, <2>5, Zenon
  <2>7. QED
    BY <1>3, <2>6, Zenon DEF Freeing
<1>6. QED
  BY <1>4, <1>5

\* No pane shows one of the first k selected sessions any more.
FreedOf(o, c, ids, k) ==
  /\ ScreenOK(c) /\ SameBut(o, c) /\ Len(c.tabs) <= Len(o.tabs)
  /\ OnScreen(c.tabs) = {p \in OnScreen(o.tabs) : \A j \in 1..k : p.sid # ids[j]}

\* After the first n sessions were detached, none of them is on the screen and
\* every other pane still is.
LEMMA AllFreed ==
  ASSUME NEW o, ScreenOK(o), NEW ids, NEW n \in Nat, NEW h, Freeing(o, ids, n, h)
  PROVE  FreedOf(o, h[n], ids, n)
<1>1. \A k \in 0..n : h[k] = IF k = 0 THEN o ELSE Detached(h[k - 1], ids[k])
  BY Zenon DEF Freeing
<1>2. FreedOf(o, h[0], ids, 0)
  <2>1. h[0] = o /\ 1..0 = {}
    BY <1>1
  <2>2. Len(o.tabs) \in Nat
    BY LenProperties DEF ScreenOK, TabsOK
  <2>3. QED
    BY <2>1, <2>2 DEF FreedOf, SameBut
<1>3. ASSUME NEW k \in 0..n, k # 0, FreedOf(o, h[k - 1], ids, k - 1)
      PROVE  FreedOf(o, h[k], ids, k)
  <2> DEFINE b == h[k - 1]
             c == h[k]
  <2>1. c = Detached(b, ids[k]) /\ 1..k = (1..(k - 1)) \cup {k}
    BY <1>1, <1>3
  <2>2. /\ ScreenOK(b) /\ SameBut(o, b) /\ Len(b.tabs) <= Len(o.tabs)
        /\ OnScreen(b.tabs) = {p \in OnScreen(o.tabs) : \A j \in 1..(k - 1) : p.sid # ids[j]}
    BY <1>3 DEF FreedOf
  <2> HIDE DEF b, c
  <2>3. Vacates(b, c, ids[k])
    BY <2>1, <2>2, SessionLeaves
  <2>4. /\ ScreenOK(c) /\ SameBut(b, c) /\ Len(c.tabs) <= Len(b.tabs)
        /\ OnScreen(c.tabs) = {p \in OnScreen(b.tabs) : p.sid # ids[k]}
    BY <2>3 DEF Vacates
  <2>5. SameBut(o, c)
    BY <2>2, <2>4 DEF SameBut
  <2>6. Len(c.tabs) <= Len(o.tabs)
    <3>1. Len(c.tabs) \in Nat /\ Len(b.tabs) \in Nat /\ Len(o.tabs) \in Nat
      BY <2>2, <2>4, LenProperties DEF ScreenOK, TabsOK
    <3>2. QED
      BY <2>2, <2>4, <3>1
  <2>7. OnScreen(c.tabs) = {p \in OnScreen(o.tabs) : \A j \in 1..k : p.sid # ids[j]}
    BY <2>1, <2>2, <2>4
  <2>8. QED
    BY <2>4, <2>5, <2>6, <2>7 DEF FreedOf, c
<1> DEFINE bad == {k \in 0..n : ~FreedOf(o, h[k], ids, k)}
<1>4. bad = {}
  <2>1. SUFFICES ASSUME bad # {} PROVE FALSE
    OBVIOUS
  <2>2. PICK k \in bad : \A j \in bad : k <= j
    <3>1. bad \subseteq Nat
      OBVIOUS
    <3> HIDE DEF bad
    <3>2. QED
      BY <2>1, <3>1, LeastElement
  <2>3. k \in 0..n /\ ~FreedOf(o, h[k], ids, k)
    OBVIOUS
  <2>4. k # 0
    BY <1>2, <2>3
  <2>5. k - 1 \in 0..n /\ k - 1 \notin bad
    BY <2>2, <2>3, <2>4
  <2>6. QED
    BY <1>3, <2>3, <2>4, <2>5
<1>5. n \in 0..n /\ n \notin bad
  BY <1>4
<1>6. QED
  BY <1>5

\* The tab of the merged sessions.
MergedPanes(ids, n, lay) ==
  [k \in 1..PaneCount[lay] |-> IF k <= n THEN [sid |-> ids[k], rem |-> TRUE] ELSE EmptyPane]

MergedTab(id, ids, n, lay) == [id |-> id, lay |-> lay, panes |-> MergedPanes(ids, n, lay), act |-> 1]

OnceEach(ids, n) == ids \in [1..n -> Sids] /\ \A j, k \in 1..n : ids[j] = ids[k] => j = k

\* It shows them, each as a remote one.
MergedOK(u, id, ids, n) ==
  /\ TabOK(u) /\ u.id = id /\ Shows(u) = {ids[k] : k \in 1..n}
  /\ Filled(u.panes) = {[sid |-> ids[k], rem |-> TRUE] : k \in 1..n}

\* The tab of a merge is one of its layout and shows the selection, each once.
LEMMA TabMerged ==
  ASSUME NEW id \in TabIds, NEW n \in 1..4, NEW ids, OnceEach(ids, n)
  PROVE  MergedOK(MergedTab(id, ids, n, LayoutForCount(n)), id, ids, n)
<1>0. ids \in [1..n -> Sids] /\ \A j, k \in 1..n : ids[j] = ids[k] => j = k
  BY DEF OnceEach
<1> DEFINE lay == LayoutForCount(n)
           m   == PaneCount[lay]
           ps  == MergedPanes(ids, n, lay)
           u   == MergedTab(id, ids, n, lay)
<1>1. lay \in Layouts /\ m \in 1..4 /\ n <= m
  <2>1. CASE n = 1
    BY <2>1, Counts DEF LayoutForCount, Layouts
  <2>2. CASE n = 2
    BY <2>2, Counts DEF LayoutForCount, Layouts
  <2>3. CASE n \in 3..4
    BY <2>3, Counts DEF LayoutForCount, Layouts
  <2>4. QED
    BY <2>1, <2>2, <2>3
<1> HIDE DEF lay, m
<1>2. \A k \in 1..n : [sid |-> ids[k], rem |-> TRUE] \in Pane
  BY <1>0 DEF Pane
<1>3. ps = [k \in 1..m |-> IF k <= n THEN [sid |-> ids[k], rem |-> TRUE] ELSE EmptyPane]
  BY DEF MergedPanes, m
<1>4. /\ ps \in Seq(Pane) /\ Len(ps) = m /\ DOMAIN ps = 1..m
      /\ \A k \in 1..n : k \in 1..m /\ ps[k] = [sid |-> ids[k], rem |-> TRUE] /\ ps[k].sid = ids[k]
      /\ \A k \in 1..m : ps[k].sid # None => k \in 1..n
  <2>1. \A k \in 1..m : ps[k] \in Pane
    BY <1>1, <1>2, <1>3, Counts
  <2>2. QED
    BY <1>1, <1>3, <2>1, Counts
<1>5. u \in Tab /\ u.id = id /\ u.lay = lay /\ u.panes = ps /\ u.act = 1
  <2> HIDE DEF ps
  <2>1. u = [id |-> id, lay |-> lay, panes |-> ps, act |-> 1]
    BY DEF MergedTab, ps
  <2>2. QED
    BY <1>1, <1>4, <2>1 DEF Tab
<1> HIDE DEF u, ps
<1>6. Distinct(ps)
  <2>1. SUFFICES ASSUME NEW i \in 1..m, NEW j \in 1..m, ps[i].sid = ps[j].sid, ps[i].sid # None
                 PROVE  i = j
    BY <1>4, Zenon DEF Distinct
  <2>2. i \in 1..n /\ j \in 1..n
    BY <1>4, <2>1
  <2>3. ids[i] = ids[j]
    BY <1>4, <2>1, <2>2
  <2>4. QED
    BY <1>0, <2>2, <2>3
<1>7. TabOK(u)
  BY <1>1, <1>4, <1>5, <1>6 DEF TabOK, m
<1>8. \A k \in 1..n : ids[k] \in Sids /\ ids[k] # None
  BY <1>0, Counts
<1>9. Filled(ps) = {[sid |-> ids[k], rem |-> TRUE] : k \in 1..n}
  <2>1. ASSUME NEW x \in Filled(ps) PROVE \E k \in 1..n : x = [sid |-> ids[k], rem |-> TRUE]
    <3>1. PICK k \in DOMAIN ps : ps[k] = x /\ x.sid # None
      BY DEF Filled
    <3>2. k \in 1..n
      BY <1>4, <3>1
    <3>3. QED
      BY <1>4, <3>1, <3>2, Zenon
  <2>2. ASSUME NEW k \in 1..n PROVE [sid |-> ids[k], rem |-> TRUE] \in Filled(ps)
    <3>1. k \in DOMAIN ps /\ ps[k] = [sid |-> ids[k], rem |-> TRUE] /\ ps[k].sid = ids[k]
      BY <1>4
    <3>2. ps[k] \in Pane /\ ps[k].sid # None
      BY <1>2, <1>8, <3>1
    <3>3. ps[k] \in Filled(ps)
      BY <3>1, <3>2 DEF Filled
    <3>4. QED
      BY <3>1, <3>3
  <2>3. QED
    BY <2>1, <2>2, Zenon
<1>10. Shows(u) = {ids[k] : k \in 1..n}
  <2>1. Shows(u) = {s \in Sids : \E i \in 1..m : ps[i].sid = s}
    BY <1>4, <1>5, TabShows
  <2>2. ASSUME NEW s \in Shows(u) PROVE \E k \in 1..n : s = ids[k]
    <3>1. PICK i \in 1..m : ps[i].sid = s /\ s \in Sids
      BY <2>1
    <3>2. i \in 1..n
      BY <1>4, <3>1, Counts
    <3>3. QED
      BY <1>4, <3>1, <3>2
  <2>3. ASSUME NEW k \in 1..n PROVE ids[k] \in Shows(u)
    BY <1>4, <1>8, <2>1
  <2>4. QED
    <3> DEFINE X == Shows(u)
               Y == {ids[k] : k \in 1..n}
    <3>1. X \subseteq Y
      BY <2>2
    <3>2. Y \subseteq X
      BY <2>3
    <3> HIDE DEF X, Y
    <3>3. X = Y
      BY <3>1, <3>2
    <3>4. QED
      BY <3>3 DEF X, Y
<1>11. QED
  BY <1>5, <1>7, <1>9, <1>10, Zenon DEF u, lay, MergedOK

-----------------------------------------------------------------------------
(* applyLocalSessions and applyRemoteSessions *)

\* Every tab of c is one of o, with panes where there were panes and none of them
\* filled.
Thinner(o, c) ==
  /\ Len(c.tabs) <= Len(o.tabs) /\ c.spawns = o.spawns /\ c.asked = o.asked /\ c.starting = o.starting
  /\ OnScreen(c.tabs) \subseteq OnScreen(o.tabs)
  /\ \A j \in DOMAIN c.tabs : \E k \in DOMAIN o.tabs :
       /\ c.tabs[j].id = o.tabs[k].id /\ DOMAIN c.tabs[j].panes = DOMAIN o.tabs[k].panes
       /\ \A i \in DOMAIN o.tabs[k].panes : o.tabs[k].panes[i].sid = None => c.tabs[j].panes[i].sid = None

\* The pane a shell is being started for stays as it was meant for it.
LEMMA SpawnsStay ==
  ASSUME NEW o, WindowOK(o), NEW c, ScreenOK(c), Thinner(o, c)
  PROVE  WindowOK(c)
<1>1. ScreenOK(o) /\ Apart(o.spawns) /\ (\A q \in o.spawns : SpawnOK(o, q))
  BY DEF WindowOK
<1>2. ShownBy(c) \subseteq ShownBy(o)
  <2>1. ShownBy(c) = {p.sid : p \in OnScreen(c.tabs)} /\ ShownBy(o) = {p.sid : p \in OnScreen(o.tabs)}
    BY <1>1, ShownOnScreen
  <2>2. QED
    BY <2>1 DEF Thinner
<1>3. Len(c.tabs) <= Len(o.tabs) /\ c.spawns = o.spawns /\ c.starting = o.starting
  BY DEF Thinner
<1>4. Len(c.tabs) \in Nat /\ Len(o.tabs) \in Nat
  BY <1>1, LenProperties DEF ScreenOK, TabsOK
<1>5. ASSUME NEW q \in c.spawns PROVE SpawnOK(c, q)
  <2>1. SpawnOK(o, q)
    BY <1>1, <1>3
  <2>2. q.sid \notin ShownBy(c)
    BY <1>2, <2>1 DEF SpawnOK
  <2>3. q.kind = "tab" => c.starting /\ Len(c.tabs) <= MaxTabs
    BY <1>3, <1>4, <2>1, WorkspaceAssumption DEF SpawnOK
  <2>4. ASSUME q.kind = "split", NEW j \in DOMAIN c.tabs, c.tabs[j].id = q.tab
        PROVE  q.idx \in DOMAIN c.tabs[j].panes /\ c.tabs[j].panes[q.idx].sid = None
    <3>1. PICK k \in DOMAIN o.tabs :
            /\ c.tabs[j].id = o.tabs[k].id /\ DOMAIN c.tabs[j].panes = DOMAIN o.tabs[k].panes
            /\ \A i \in DOMAIN o.tabs[k].panes : o.tabs[k].panes[i].sid = None => c.tabs[j].panes[i].sid = None
      BY DEF Thinner
    <3>2. q.idx \in DOMAIN o.tabs[k].panes /\ o.tabs[k].panes[q.idx].sid = None
      BY <2>1, <2>4, <3>1 DEF SpawnOK
    <3>3. QED
      BY <3>1, <3>2
  <2>5. QED
    BY <2>2, <2>3, <2>4 DEF SpawnOK
<1>6. QED
  BY <1>1, <1>3, <1>5 DEF WindowOK

\* mergeLocalSessions: what was seeded and is not in the list stays pending.
LEMMA ListMerged ==
  ASSUME NEW o, WindowOK(o), NEW arrived \in SUBSET (1..o.asked)
  PROVE  LET b == MergeLocalSessions(o, arrived)
         IN  /\ WindowOK(b) /\ b.tabs = o.tabs /\ b.kill = o.kill /\ b.asked = o.asked
             /\ b.spawns = o.spawns /\ b.moves = o.moves /\ b.starting = o.starting
             /\ b.pend = (o.pend \ arrived) \cap o.local /\ b.local = arrived \cup b.pend
<1> DEFINE b == MergeLocalSessions(o, arrived)
           kept == (o.pend \ arrived) \cap o.local
<1>1. ScreenOK(o) /\ o \in Window /\ o.local \subseteq 1..o.asked /\ o.asked \in 0..MaxSpawn
  BY DEF WindowOK, ScreenOK, Window
<1>2. b = [o EXCEPT !.local = arrived \cup kept, !.pend = kept]
  BY DEF MergeLocalSessions
<1>3. 1..o.asked \subseteq Locals
  BY <1>1, WorkspaceAssumption DEF Locals
<1>4. kept \in SUBSET Locals /\ arrived \cup kept \in SUBSET Locals /\ arrived \cup kept \subseteq 1..o.asked
  BY <1>1, <1>3
<1> HIDE DEF b, kept
<1>5. /\ b \in Window /\ b.tabs = o.tabs /\ b.kill = o.kill /\ b.asked = o.asked
      /\ b.spawns = o.spawns /\ b.moves = o.moves /\ b.starting = o.starting /\ b.pend = kept /\ b.local = arrived \cup kept
  BY <1>1, <1>2, <1>4 DEF Window
<1>6. ShownBy(b) = ShownBy(o)
  BY <1>5, Zenon DEF ShownBy
<1>7. ScreenOK(b)
  BY <1>1, <1>4, <1>5, <1>6 DEF ScreenOK
<1>8. \A q \in b.spawns : SpawnOK(b, q)
  BY <1>5, <1>6 DEF WindowOK, SpawnOK
<1>9. WindowOK(b)
  BY <1>5, <1>7, <1>8 DEF WindowOK
<1>10. QED
  BY <1>5, <1>9 DEF b, kept

\* A tab with the panes of lost shells emptied.
SweptTab(t, L) ==
  [t EXCEPT !.panes = [i \in DOMAIN @ |->
     IF @[i].sid # None /\ ~@[i].rem /\ @[i].sid \notin L THEN EmptyPane ELSE @[i]]]

\* The sweep empties panes of a tab and leaves its layout alone.
LEMMA TabSwept ==
  ASSUME NEW t, TabOK(t), NEW L
  PROVE  LET u == SweptTab(t, L)
         IN  /\ TabOK(u) /\ u.id = t.id /\ DOMAIN u.panes = DOMAIN t.panes
             /\ \A i \in DOMAIN t.panes : t.panes[i].sid = None => u.panes[i].sid = None
             /\ Filled(u.panes) = {p \in Filled(t.panes) : p.rem \/ p.sid \in L}
<1> DEFINE ps == [i \in DOMAIN t.panes |->
                    IF t.panes[i].sid # None /\ ~t.panes[i].rem /\ t.panes[i].sid \notin L
                    THEN EmptyPane ELSE t.panes[i]]
           u  == SweptTab(t, L)
           f  == [i \in DOMAIN t.panes |-> i]
<1>1. /\ t \in Tab /\ t.panes \in Seq(Pane) /\ Len(t.panes) \in Nat /\ DOMAIN t.panes = 1..Len(t.panes)
      /\ \A i \in DOMAIN t.panes : t.panes[i] \in Pane
  BY TabShows DEF TabOK, Tab
<1>2. \A i \in DOMAIN t.panes :
        ps[i] = IF t.panes[i].sid # None /\ ~t.panes[i].rem /\ t.panes[i].sid \notin L
                THEN EmptyPane ELSE t.panes[i]
  OBVIOUS
<1>3. \A i \in DOMAIN t.panes : ps[i] \in Pane /\ (ps[i].sid = None \/ ps[i] = t.panes[i])
  BY <1>1, Counts
<1>4. ps \in Seq(Pane) /\ Len(ps) = Len(t.panes) /\ DOMAIN ps = DOMAIN t.panes
  <2>1. ps \in [1..Len(t.panes) -> Pane]
    BY <1>1, <1>3
  <2> HIDE DEF ps
  <2>2. QED
    BY <1>1, <2>1
<1>5. u = [t EXCEPT !.panes = ps]
  BY <1>1 DEF SweptTab, Tab
<1> HIDE DEF ps
<1>6. Distinct(ps)
  <2>1. TakenFrom(ps, t.panes, f)
    BY <1>3, <1>4 DEF TakenFrom
  <2>2. Distinct(t.panes)
    BY DEF TabOK
  <2> HIDE DEF f
  <2>3. QED
    BY <1>1, <1>4, <2>1, <2>2, Rearranged
<1>7. TabOK(u) /\ u.id = t.id /\ u.panes = ps
  <2>1. /\ TabOK([t EXCEPT !.panes = ps]) /\ [t EXCEPT !.panes = ps].id = t.id
        /\ [t EXCEPT !.panes = ps].panes = ps
    BY <1>4, <1>6, PanesTab
  <2> HIDE DEF u
  <2>2. QED
    BY <1>5, <2>1
<1>8. Filled(ps) = {p \in Filled(t.panes) : p.rem \/ p.sid \in L}
  <2>1. ASSUME NEW x \in Filled(ps) PROVE x \in Filled(t.panes) /\ (x.rem \/ x.sid \in L)
    <3>1. PICK i \in DOMAIN ps : ps[i] = x /\ x \in Pane /\ x.sid # None
      BY DEF Filled
    <3>2. ps[i] = t.panes[i] /\ (x.rem \/ x.sid \in L)
      BY <1>2, <1>4, <3>1, Counts
    <3>3. QED
      BY <1>4, <3>1, <3>2 DEF Filled
  <2>2. ASSUME NEW x \in Filled(t.panes), x.rem \/ x.sid \in L PROVE x \in Filled(ps)
    <3>1. PICK i \in DOMAIN t.panes : t.panes[i] = x /\ x \in Pane /\ x.sid # None
      BY DEF Filled
    <3>2. ps[i] = x
      BY <1>2, <2>2, <3>1
    <3>3. QED
      BY <1>4, <3>1, <3>2 DEF Filled
  <2>3. QED
    BY <2>1, <2>2
<1>9. \A i \in DOMAIN t.panes : t.panes[i].sid = None => ps[i].sid = None
  BY <1>2, Counts
<1> HIDE DEF u
<1>10. QED
  BY <1>4, <1>7, <1>8, <1>9 DEF u

\* Only panes of shells no longer listed are emptied.
LEMMA ScreenSwept ==
  ASSUME NEW o, WindowOK(o)
  PROVE  LET c == Swept(o)
         IN  /\ WindowOK(c) /\ SameBut(o, c) /\ c.cur = o.cur /\ DOMAIN c.tabs = DOMAIN o.tabs
             /\ Len(c.tabs) = Len(o.tabs)
             /\ \A k \in DOMAIN o.tabs : c.tabs[k].id = o.tabs[k].id
             /\ OnScreen(c.tabs) = {p \in OnScreen(o.tabs) : p.rem \/ p.sid \in o.local}
<1> DEFINE c == Swept(o)
           T == o.tabs
           U == [k \in DOMAIN T |-> SweptTab(T[k], o.local)]
<1>1. ScreenOK(o) /\ o \in Window /\ TabsOK(T) /\ T \in Seq(Tab) /\ Len(T) \in Nat /\ DOMAIN T = 1..Len(T)
  BY LenProperties DEF WindowOK, ScreenOK, TabsOK
<1>2. \A k \in DOMAIN T : TabOK(T[k])
  BY <1>1 DEF TabsOK
<1>3. c = [o EXCEPT !.tabs = U]
  BY DEF Swept, SweptTab
<1>4. \A k \in DOMAIN T :
        /\ TabOK(U[k]) /\ U[k].id = T[k].id /\ DOMAIN U[k].panes = DOMAIN T[k].panes
        /\ \A i \in DOMAIN T[k].panes : T[k].panes[i].sid = None => U[k].panes[i].sid = None
        /\ Filled(U[k].panes) = {p \in Filled(T[k].panes) : p.rem \/ p.sid \in o.local}
  <2>1. TAKE k \in DOMAIN T
  <2>2. U[k] = SweptTab(T[k], o.local)
    OBVIOUS
  <2>3. QED
    BY <1>2, <2>2, TabSwept
<1>5. U \in [1..Len(T) -> Tab] /\ DOMAIN U = DOMAIN T
  BY <1>1, <1>4 DEF TabOK
<1> HIDE DEF U, c
<1>6. U \in Seq(Tab) /\ Len(U) = Len(T)
  BY <1>1, <1>5
<1>7. c \in Window /\ c.tabs = U /\ SameBut(o, c) /\ c.cur = o.cur
  BY <1>1, <1>3, <1>6 DEF Window, SameBut
<1>8. \A k \in DOMAIN T : Shows(U[k]) \subseteq Shows(T[k])
  <2>1. TAKE k \in DOMAIN T
  <2>2. U[k] \in Tab /\ T[k] \in Tab
    BY <1>2, <1>4 DEF TabOK
  <2>3. Shows(U[k]) = {p.sid : p \in Filled(U[k].panes)} /\ Shows(T[k]) = {p.sid : p \in Filled(T[k].panes)}
    BY <2>2, TabShows
  <2>4. QED
    BY <1>4, <2>3
<1>9. TabsOK(U)
  <2>1. \A j, k \in DOMAIN U : j # k => U[j].id # U[k].id /\ Shows(U[j]) \cap Shows(U[k]) = {}
    <3>1. ASSUME NEW j \in DOMAIN U, NEW k \in DOMAIN U, j # k
          PROVE  U[j].id # U[k].id /\ Shows(U[j]) \cap Shows(U[k]) = {}
      <4>1. T[j].id # T[k].id /\ Shows(T[j]) \cap Shows(T[k]) = {}
        BY <1>1, <1>5, <3>1 DEF TabsOK
      <4>2. QED
        BY <1>4, <1>5, <1>8, <4>1
    <3>2. QED
      BY <3>1
  <2>2. QED
    BY <1>4, <1>5, <1>6, <2>1 DEF TabsOK
<1>10. OnScreen(U) = {p \in OnScreen(T) : p.rem \/ p.sid \in o.local}
  <2>1. ASSUME NEW x \in OnScreen(U) PROVE x \in OnScreen(T) /\ (x.rem \/ x.sid \in o.local)
    <3>1. PICK k \in DOMAIN T : x \in Filled(U[k].panes)
      BY <1>5 DEF OnScreen
    <3>2. QED
      BY <1>4, <3>1 DEF OnScreen
  <2>2. ASSUME NEW x \in OnScreen(T), x.rem \/ x.sid \in o.local PROVE x \in OnScreen(U)
    <3>1. PICK k \in DOMAIN T : x \in Filled(T[k].panes)
      BY DEF OnScreen
    <3>2. x \in Filled(U[k].panes)
      BY <1>4, <2>2, <3>1
    <3>3. QED
      BY <1>5, <3>2 DEF OnScreen
  <2>3. QED
    BY <2>1, <2>2
<1>11. ScreenOK(c)
  <2>1. ShownBy(c) \subseteq ShownBy(o)
    BY <1>5, <1>7, <1>8 DEF ShownBy
  <2>2. QED
    BY <1>1, <1>6, <1>7, <1>9, <2>1 DEF ScreenOK, SameBut
<1>12. Thinner(o, c)
  <2>1. \A j \in DOMAIN c.tabs : \E k \in DOMAIN o.tabs :
          /\ c.tabs[j].id = o.tabs[k].id /\ DOMAIN c.tabs[j].panes = DOMAIN o.tabs[k].panes
          /\ \A i \in DOMAIN o.tabs[k].panes : o.tabs[k].panes[i].sid = None => c.tabs[j].panes[i].sid = None
    BY <1>4, <1>5, <1>7
  <2>2. OnScreen(c.tabs) \subseteq OnScreen(o.tabs)
    BY <1>7, <1>10
  <2>3. QED
    BY <1>1, <1>6, <1>7, <2>1, <2>2 DEF Thinner, SameBut
<1>13. WindowOK(c)
  BY <1>11, <1>12, SpawnsStay
<1>14. QED
  BY <1>4, <1>5, <1>6, <1>7, <1>10, <1>13 DEF c

\* The loop that closes the tabs left with nothing.
Closing(o, swept, m, h) ==
  h = [k \in 0..m |-> IF k = 0 THEN swept
                      ELSE IF Shows(o.tabs[k]) # {} /\ Shows(swept.tabs[k]) = {}
                      THEN CloseTabOf(h[k - 1], o.tabs[k].id, FALSE, FALSE) ELSE h[k - 1]]

\* The closing of the swept tabs, one by one, is defined for any number of them.
LEMMA ClosingRuns ==
  ASSUME NEW o, NEW swept, NEW n \in Nat
  PROVE  \E h : Closing(o, swept, n, h)
<1> DEFINE bad == {m \in Nat : ~\E h : Closing(o, swept, m, h)}
<1>1. SUFFICES ASSUME bad # {} PROVE FALSE
  OBVIOUS
<1>2. PICK m \in bad : \A j \in bad : m <= j
  <2>1. bad \subseteq Nat
    OBVIOUS
  <2> HIDE DEF bad
  <2>2. QED
    BY <1>1, <2>1, LeastElement
<1>3. m \in Nat /\ ~\E h : Closing(o, swept, m, h)
  OBVIOUS
<1> DEFINE S(x, k) == IF Shows(o.tabs[k]) # {} /\ Shows(swept.tabs[k]) = {}
                      THEN CloseTabOf(x, o.tabs[k].id, FALSE, FALSE) ELSE x
<1>4. \A i \in Nat : \A h : Closing(o, swept, i, h) <=> h = [k \in 0..i |-> IF k = 0 THEN swept ELSE S(h[k - 1], k)]
  BY Zenon DEF Closing
<1> HIDE DEF S
<1>5. CASE m = 0
  <2> DEFINE h == [k \in 0..0 |-> swept]
  <2>1. \A k \in 0..0 : k = 0
    OBVIOUS
  <2>2. h = [k \in 0..0 |-> IF k = 0 THEN swept ELSE S(h[k - 1], k)]
    BY <2>1
  <2>3. QED
    BY <1>3, <1>4, <1>5, <2>2, Zenon
<1>6. CASE m # 0
  <2>1. m - 1 \in Nat /\ m - 1 \notin bad
    BY <1>2, <1>3, <1>6
  <2>2. PICK g : Closing(o, swept, m - 1, g)
    BY <2>1
  <2> DEFINE h == [k \in 0..m |-> IF k = m THEN S(g[m - 1], m) ELSE g[k]]
  <2>3. g = [k \in 0..m - 1 |-> IF k = 0 THEN swept ELSE S(g[k - 1], k)]
    BY <2>2, Zenon DEF Closing, S
  <2>4. \A k \in 0..m - 1 : g[k] = IF k = 0 THEN swept ELSE S(g[k - 1], k)
    BY <2>3, Zenon
  <2>5. \A k \in 0..m : h[k] = IF k = 0 THEN swept ELSE S(h[k - 1], k)
    <3>1. TAKE k \in 0..m
    <3>2. CASE k = m
      <4>1. m - 1 \in 0..m /\ m - 1 # m /\ h[m - 1] = g[m - 1]
        BY <1>3, <1>6
      <4>2. QED
        BY <1>3, <1>6, <3>2, <4>1
    <3>3. CASE k # m /\ k # 0
      <4>1. k \in 0..m - 1 /\ k - 1 \in 0..m /\ k - 1 # m
        BY <1>3, <3>3
      <4>2. h[k] = g[k] /\ h[k - 1] = g[k - 1]
        BY <3>3, <4>1
      <4>3. QED
        BY <2>4, <3>3, <4>1, <4>2
    <3>4. CASE k # m /\ k = 0
      BY <1>3, <2>4, <3>4
    <3>5. QED
      BY <3>2, <3>3, <3>4
  <2>6. h = [k \in 0..m |-> h[k]]
    OBVIOUS
  <2> HIDE DEF h
  <2>7. h = [k \in 0..m |-> IF k = 0 THEN swept ELSE S(h[k - 1], k)]
    BY <2>5, <2>6, Zenon
  <2>8. QED
    BY <1>3, <1>4, <2>7, Zenon
<1>7. QED
  BY <1>5, <1>6

\* Tabs that show nothing were closed, and nothing else was done.
Trimmed(s, c) ==
  /\ ScreenOK(c) /\ SameBut(s, c) /\ Len(c.tabs) <= Len(s.tabs) /\ OnScreen(c.tabs) = OnScreen(s.tabs)
  /\ \A j \in DOMAIN c.tabs : \E k \in DOMAIN s.tabs : c.tabs[j] = s.tabs[k]

\* One of them.
LEMMA EmptyTabCloses ==
  ASSUME NEW s, ScreenOK(s), NEW b, Trimmed(s, b), NEW k \in DOMAIN s.tabs, Shows(s.tabs[k]) = {}
  PROVE  Trimmed(s, CloseTabOf(b, s.tabs[k].id, FALSE, FALSE))
<1> DEFINE id == s.tabs[k].id
           c  == CloseTabOf(b, id, FALSE, FALSE)
<1>1. /\ ScreenOK(b) /\ SameBut(s, b) /\ Len(b.tabs) <= Len(s.tabs) /\ OnScreen(b.tabs) = OnScreen(s.tabs)
      /\ \A j \in DOMAIN b.tabs : \E i \in DOMAIN s.tabs : b.tabs[j] = s.tabs[i]
  BY DEF Trimmed
<1>2. CASE ~HasTab(b, id)
  BY <1>2 DEF CloseTabOf
<1>3. CASE HasTab(b, id)
  <2> DEFINE F == Filled(TabOf(b, id).panes)
  <2>0. Hole \notin Range(TabOf(b, id).panes)
    BY <1>1, <1>3, TabFound, NoHoles DEF ScreenOK
  <2>1. c = ComputeCloseTabState(b, id, FALSE)
    BY <1>3, <2>0 DEF CloseTabOf
  <2>2. ScreenOK(c) /\ Drops(b, c, Shells(F)) /\ TabsGo(b, c, {id}) /\ OnScreen(c.tabs) = OnScreen(b.tabs) \ F
    <3> DEFINE d == ComputeCloseTabState(b, id, FALSE)
    <3>1. /\ ScreenOK(d) /\ Drops(b, d, IF FALSE THEN {} ELSE Shells(F)) /\ TabsGo(b, d, {id})
          /\ OnScreen(d.tabs) = OnScreen(b.tabs) \ F
      BY <1>1, <1>3, TabCloses, Zenon
    <3>2. QED
      BY <2>1, <3>1
  <2>3. F = {}
    <3>1. TabsOK(b.tabs) /\ TabsOK(s.tabs)
      BY <1>1 DEF ScreenOK
    <3>2. At(b, id) \in DOMAIN b.tabs /\ TabOf(b, id) = b.tabs[At(b, id)] /\ TabOf(b, id).id = id
      BY <1>3, <3>1, TabFound
    <3>3. PICK i \in DOMAIN s.tabs : TabOf(b, id) = s.tabs[i]
      BY <1>1, <3>2
    <3>4. i = k
      BY <3>1, <3>2, <3>3 DEF TabsOK
    <3>5. Shows(TabOf(b, id)) = {}
      BY <3>3, <3>4
    <3>6. Shows(TabOf(b, id)) = {p.sid : p \in F}
      BY <1>1, <1>3, TabAmong
    <3>7. QED
      BY <3>5, <3>6
  <2>4. Shells(F) = {}
    BY <2>3 DEF Shells
  <2> HIDE DEF c, F
  <2>5. SameBut(b, c)
    BY <2>2, <2>4, DropsNothing
  <2>6. SameBut(s, c)
    BY <1>1, <2>5 DEF SameBut
  <2>7. OnScreen(c.tabs) = OnScreen(s.tabs)
    BY <1>1, <2>2, <2>3
  <2>8. Len(c.tabs) <= Len(s.tabs)
    <3>1. Len(c.tabs) \in Nat /\ Len(b.tabs) \in Nat /\ Len(s.tabs) \in Nat
      BY <1>1, <2>2, LenProperties DEF ScreenOK, TabsOK
    <3>2. QED
      BY <1>1, <2>2, <3>1 DEF TabsGo
  <2>9. \A j \in DOMAIN c.tabs : \E i \in DOMAIN s.tabs : c.tabs[j] = s.tabs[i]
    <3>1. TAKE j \in DOMAIN c.tabs
    <3>2. PICK i \in DOMAIN b.tabs : c.tabs[j] = b.tabs[i]
      BY <2>2 DEF TabsGo
    <3>3. QED
      BY <1>1, <3>2
  <2>10. QED
    BY <2>2, <2>6, <2>7, <2>8, <2>9 DEF Trimmed, c
<1>4. QED
  BY <1>2, <1>3

\* sweepMissingSessions: the panes of shells no longer listed are emptied, tabs
\* left with nothing go, and all else stays on the screen.
LEMMA ShellsSwept ==
  ASSUME NEW o, WindowOK(o)
  PROVE  LET c == SweepMissingSessions(o)
         IN  /\ WindowOK(c) /\ SameBut(o, c)
             /\ OnScreen(c.tabs) = {p \in OnScreen(o.tabs) : p.rem \/ p.sid \in o.local}
<1> DEFINE s == Swept(o)
           n == Len(o.tabs)
           h == CHOOSE g : Closing(o, s, n, g)
           c == SweepMissingSessions(o)
<1>1. /\ WindowOK(s) /\ SameBut(o, s) /\ DOMAIN s.tabs = DOMAIN o.tabs
      /\ \A k \in DOMAIN o.tabs : s.tabs[k].id = o.tabs[k].id
      /\ OnScreen(s.tabs) = {p \in OnScreen(o.tabs) : p.rem \/ p.sid \in o.local}
  BY ScreenSwept
<1>2. ScreenOK(s) /\ n \in Nat /\ DOMAIN o.tabs = 1..n /\ Len(s.tabs) \in Nat
  BY <1>1, LenProperties DEF WindowOK, ScreenOK, TabsOK
<1>0. {k \in DOMAIN o.tabs : Hole \in Range(o.tabs[k].panes)} = {}
  <2>1. \A k \in DOMAIN o.tabs : TabOK(o.tabs[k])
    BY DEF WindowOK, ScreenOK, TabsOK
  <2>2. QED
    BY <2>1, NoHoles
<1>3. c = h[n]
  <2>1. c = AutoCloseOnExit(o, s)
    BY <1>0, Zenon DEF SweepMissingSessions
  <2>2. QED
    BY <2>1, Zenon DEF AutoCloseOnExit, Closing
<1> HIDE DEF s, n
<1>4. Closing(o, s, n, h)
  <2>1. \E g : Closing(o, s, n, g)
    BY <1>2, ClosingRuns
  <2>2. QED
    BY <2>1, Zenon
<1> HIDE DEF h, c
<1>5. \A k \in 0..n : h[k] = IF k = 0 THEN s
                             ELSE IF Shows(o.tabs[k]) # {} /\ Shows(s.tabs[k]) = {}
                             THEN CloseTabOf(h[k - 1], o.tabs[k].id, FALSE, FALSE) ELSE h[k - 1]
  BY <1>4, Zenon DEF Closing
<1>6. Trimmed(s, h[0])
  <2>0. 0 \in 0..n
    BY <1>2
  <2>1. h[0] = s
    BY <1>5, <2>0, Zenon
  <2>2. QED
    BY <1>2, <2>1 DEF Trimmed, SameBut
<1>7. ASSUME NEW k \in 0..n, k # 0, Trimmed(s, h[k - 1]) PROVE Trimmed(s, h[k])
  <2>1. k \in DOMAIN o.tabs /\ k \in DOMAIN s.tabs /\ s.tabs[k].id = o.tabs[k].id
    BY <1>1, <1>2, <1>7
  <2>2. CASE Shows(o.tabs[k]) # {} /\ Shows(s.tabs[k]) = {}
    <3>1. h[k] = CloseTabOf(h[k - 1], s.tabs[k].id, FALSE, FALSE)
      BY <1>5, <1>7, <2>1, <2>2
    <3>2. QED
      BY <1>2, <1>7, <2>1, <2>2, <3>1, EmptyTabCloses
  <2>3. CASE ~(Shows(o.tabs[k]) # {} /\ Shows(s.tabs[k]) = {})
    <3>1. h[k] = h[k - 1]
      BY <1>5, <1>7, <2>3
    <3>2. QED
      BY <1>7, <3>1
  <2>4. QED
    BY <2>2, <2>3
<1> DEFINE bad == {k \in 0..n : ~Trimmed(s, h[k])}
<1>8. bad = {}
  <2>1. SUFFICES ASSUME bad # {} PROVE FALSE
    OBVIOUS
  <2>2. PICK k \in bad : \A j \in bad : k <= j
    <3>1. bad \subseteq Nat
      BY <1>2
    <3> HIDE DEF bad
    <3>2. QED
      BY <2>1, <3>1, LeastElement
  <2>3. k \in 0..n /\ ~Trimmed(s, h[k])
    OBVIOUS
  <2>4. k # 0
    BY <1>6, <2>3
  <2>5. k - 1 \in 0..n /\ k - 1 \notin bad
    BY <1>2, <2>2, <2>3, <2>4
  <2>6. QED
    BY <1>7, <2>3, <2>4, <2>5
<1>9. Trimmed(s, c)
  <2>1. n \in 0..n /\ n \notin bad
    BY <1>2, <1>8
  <2>2. QED
    BY <1>3, <2>1
<1>10. Thinner(s, c)
  <2>1. \A j \in DOMAIN c.tabs : \E k \in DOMAIN s.tabs :
          /\ c.tabs[j].id = s.tabs[k].id /\ DOMAIN c.tabs[j].panes = DOMAIN s.tabs[k].panes
          /\ \A i \in DOMAIN s.tabs[k].panes : s.tabs[k].panes[i].sid = None => c.tabs[j].panes[i].sid = None
    BY <1>9 DEF Trimmed
  <2>2. QED
    BY <1>9, <2>1 DEF Trimmed, Thinner, SameBut
<1>11. WindowOK(c)
  BY <1>1, <1>9, <1>10, SpawnsStay DEF Trimmed
<1>12. SameBut(o, c) /\ OnScreen(c.tabs) = {p \in OnScreen(o.tabs) : p.rem \/ p.sid \in o.local}
  BY <1>1, <1>9 DEF Trimmed, SameBut
<1>13. QED
  BY <1>11, <1>12 DEF c

\* pruneStaleRemoteTabs: what is removed is remote, what is missing is shown.
LEMMA RemotesPruned ==
  ASSUME WindowOK(w), NEW S
  PROVE  LET p == PruneStaleRemoteTabs(S)
             c == [w EXCEPT !.tabs = p.left,
                            !.cur = IF HasTab(w, @) /\ ~(\E t \in Range(p.left) : t.id = w.cur) /\ p.left # << >>
                                    THEN p.left[1].id ELSE @]
         IN  /\ WindowOK(c) /\ SameBut(w, c) /\ p.missing \subseteq Sids
             /\ OnScreen(c.tabs) \subseteq OnScreen(w.tabs)
             /\ \A x \in OnScreen(w.tabs) : x.rem \/ x \in OnScreen(c.tabs)
<1> DEFINE p == PruneStaleRemoteTabs(S)
           single == {t \in Range(w.tabs) : t.lay = "single" /\ Len(t.panes) = 1 /\ t.panes[1].rem /\ t.panes[1].sid # None}
           absent == {t.panes[1].sid : t \in single} \ (S \ w.local)
           stale  == {t \in single : t.panes[1].sid \in ripe \cap absent}
           ids    == {t.id : t \in stale}
           left   == Without(w.tabs, ids)
           cur    == IF HasTab(w, w.cur) /\ ~(\E t \in Range(left) : t.id = w.cur) /\ left # << >>
                     THEN left[1].id ELSE w.cur
           c      == [w EXCEPT !.tabs = left, !.cur = cur]
<1>1. p.left = left /\ p.missing = absent \ ripe
  <2>1. p = [left |-> left, missing |-> absent \ ripe]
    BY Zenon DEF PruneStaleRemoteTabs
  <2> HIDE DEF p, left, absent
  <2>2. QED
    BY <2>1
<1>2. ScreenOK(w) /\ w \in Window /\ TabsOK(w.tabs) /\ w.pend \subseteq w.local
  BY DEF WindowOK, ScreenOK
<1>3. \A t \in single : TabOK(t) /\ t \in Tab /\ t.panes[1].rem /\ DOMAIN t.panes = 1..1 /\ t.panes[1].sid \in Sids
  <2>1. TAKE t \in single
  <2>2. TabOK(t) /\ t \in Tab /\ t.lay = "single" /\ t.panes[1].rem /\ t.panes[1].sid # None
    BY <1>2 DEF TabsOK, TabOK, Range
  <2>3. Len(t.panes) = 1 /\ DOMAIN t.panes = 1..1
    BY <2>2, Counts, TabShows DEF TabOK
  <2>4. t.panes[1] \in Pane
    BY <2>2, <2>3, TabShows
  <2>5. QED
    BY <2>2, <2>3, <2>4 DEF Pane
<1>4. absent \subseteq Sids
  BY <1>3
<1>5. \A k \in DOMAIN w.tabs : w.tabs[k].id \in ids => \A x \in Filled(w.tabs[k].panes) : x.rem
  <2>1. SUFFICES ASSUME NEW k \in DOMAIN w.tabs, w.tabs[k].id \in ids, NEW x \in Filled(w.tabs[k].panes)
                 PROVE  x.rem
    BY Zenon
  <2>2. PICK t \in stale : t.id = w.tabs[k].id
    BY <2>1
  <2>3. PICK j \in DOMAIN w.tabs : t = w.tabs[j]
    BY DEF Range
  <2>4. j = k
    BY <1>2, <2>2, <2>3 DEF TabsOK
  <2>5. t \in single
    OBVIOUS
  <2> HIDE DEF stale, single
  <2>6. QED
    BY <1>3, <2>3, <2>4, <2>5 DEF Filled
<1> HIDE DEF single, absent, stale, ids, p
<1>6. left \in Seq(Tab)
  BY <1>2, WithoutLeaves DEF LeftOf, TabsOK
<1> HIDE DEF left
<1>7. cur \in TabIds \cup {None}
  <2>1. CASE left = << >>
    BY <1>2, <2>1 DEF Window
  <2>2. CASE left # << >>
    <3>1. left[1] \in Tab
      BY <1>6, <2>2
    <3>2. left[1].id \in TabIds
      BY <3>1 DEF Tab
    <3>3. QED
      BY <1>2, <3>2 DEF Window
  <2>3. QED
    BY <2>1, <2>2
<1> HIDE DEF cur
<1>8. c \in Window /\ c.tabs = left /\ SameBut(w, c)
  BY <1>2, <1>6, <1>7 DEF Window, SameBut
<1> HIDE DEF c
<1>9. ScreenOK(c) /\ TabsGo(w, c, ids) /\ OnScreen(c.tabs) \subseteq OnScreen(w.tabs)
  <2>1. /\ c.tabs = Without(w.tabs, ids) /\ c.asked = w.asked /\ c.spawns = w.spawns
        /\ c.pend \subseteq c.local /\ c.local \subseteq w.local
    BY <1>2, <1>8 DEF SameBut, left
  <2>2. QED
    BY <1>2, <1>8, <2>1, TabsWithout
<1>10. Thinner(w, c)
  <2>1. \A j \in DOMAIN c.tabs : \E k \in DOMAIN w.tabs : c.tabs[j] = w.tabs[k]
    BY <1>9 DEF TabsGo
  <2>2. \A j \in DOMAIN c.tabs : \E k \in DOMAIN w.tabs :
          /\ c.tabs[j].id = w.tabs[k].id /\ DOMAIN c.tabs[j].panes = DOMAIN w.tabs[k].panes
          /\ \A i \in DOMAIN w.tabs[k].panes : w.tabs[k].panes[i].sid = None => c.tabs[j].panes[i].sid = None
    BY <2>1
  <2>3. QED
    BY <1>8, <1>9, <2>2 DEF TabsGo, Thinner, SameBut
<1>11. WindowOK(c)
  BY <1>9, <1>10, SpawnsStay
<1>12. \A x \in OnScreen(w.tabs) : x.rem \/ x \in OnScreen(c.tabs)
  <2>1. TAKE x \in OnScreen(w.tabs)
  <2>2. PICK k \in DOMAIN w.tabs : x \in Filled(w.tabs[k].panes)
    BY DEF OnScreen
  <2>3. CASE w.tabs[k].id \in ids
    BY <1>5, <2>2, <2>3
  <2>4. CASE w.tabs[k].id \notin ids
    <3>1. PICK j \in DOMAIN c.tabs : c.tabs[j] = w.tabs[k]
      BY <1>9, <2>4 DEF TabsGo
    <3>2. QED
      BY <2>2, <3>1 DEF OnScreen
  <2>5. QED
    BY <2>3, <2>4
<1>13. p.missing \subseteq Sids
  BY <1>1, <1>4
<1>14. c = [w EXCEPT !.tabs = p.left,
                     !.cur = IF HasTab(w, @) /\ ~(\E t \in Range(p.left) : t.id = w.cur) /\ p.left # << >>
                             THEN p.left[1].id ELSE @]
  BY <1>1 DEF c, cur
<1>15. QED
  BY <1>8, <1>9, <1>11, <1>12, <1>13, <1>14, Zenon DEF p

-----------------------------------------------------------------------------
(* What the user does *)

\* No tab is opened beyond the bound.
Bounded(o, c) == Len(c.tabs) <= Len(o.tabs) \/ Len(c.tabs) <= MaxTabs

\* c is what an operation of the user makes of o: the shells in D are closed and
\* leave the screen, and a pane of the local host that is new shows a listed shell.
Sound(o, c, D) ==
  /\ ScreenOK(c) /\ c.moves = o.moves /\ Bounded(o, c) /\ Starts(o, c)
  /\ c.local = o.local \ D /\ c.pend = o.pend \ D /\ c.kill = o.kill \cup D
  /\ \A p \in OnScreen(c.tabs) : p.sid \notin D /\ (p.rem \/ p \in OnScreen(o.tabs) \/ p.sid \in c.local)

\* The other shells that panes of the local host show stay on the screen.
Keeps(o, c, D) ==
  \A p \in OnScreen(o.tabs) : p.rem \/ p.sid \in D \/ \E x \in OnScreen(c.tabs) : x.sid = p.sid

\* An operation that touches only the tabs, and opens no pane of the local host but
\* one of a listed shell, is sound.
LEMMA SoundScreen ==
  ASSUME NEW o, NEW c, ScreenOK(c), SameBut(o, c), Bounded(o, c),
         \A p \in OnScreen(c.tabs) : p.rem \/ p \in OnScreen(o.tabs) \/ p.sid \in o.local
  PROVE  Sound(o, c, {})
<1>1. c \in Window
  BY DEF ScreenOK
<1>3. Starts(o, c)
  BY <1>1 DEF SameBut, Window, Starts
<1>4. QED
  BY <1>3 DEF Sound, SameBut

\* No tab has more than four panes.
LEMMA FourPanes ==
  ASSUME NEW t, TabOK(t)
  PROVE  DOMAIN t.panes \subseteq 1..4
<1>1. Len(t.panes) = PaneCount[t.lay] /\ t.lay \in Layouts /\ DOMAIN t.panes = 1..Len(t.panes)
  BY TabShows DEF TabOK, Tab
<1>2. Len(t.panes) \in 1..4
  BY <1>1, Counts DEF Layouts
<1>3. QED
  BY <1>1, <1>2

\* A close that emptied the window starts a shell, and shows nothing for it yet.
LEMMA Refills ==
  ASSUME NEW o, NEW c, NEW D, ScreenOK(o), ScreenOK(c), Drops(o, c, D), Len(c.tabs) <= Len(o.tabs),
         \A p \in OnScreen(c.tabs) : p \in OnScreen(o.tabs) /\ p.sid \notin D
  PROVE  Sound(o, Refilled(c, FALSE), D) /\ OnScreen(Refilled(c, FALSE).tabs) = OnScreen(c.tabs)
<1> DEFINE d == Refilled(c, FALSE)
<1>1. /\ c.spawns = o.spawns /\ c.asked = o.asked /\ c.asked \in Nat /\ c.moves = o.moves
      /\ c.starting = o.starting
  BY DEF Drops, ScreenOK, Window
<1>2. ScreenOK(d) /\ SameHold(c, d) /\ Starts(c, d)
  <2>1. CASE c.tabs = << >>
    <3>1. d = StartNew(c)
      BY <2>1 DEF Refilled
    <3>2. Len(c.tabs) <= MaxTabs
      <4>1. Len(c.tabs) = 0
        BY <2>1
      <4>2. QED
        BY <4>1, WorkspaceAssumption
    <3>3. QED
      BY <1>1, <3>1, <3>2, Started
  <2>2. CASE c.tabs # << >>
    <3>1. d = c
      BY <2>2 DEF Refilled
    <3> HIDE DEF d
    <3>3. QED
      BY <1>1, <3>1 DEF SameHold, Starts
  <2>3. QED
    BY <2>1, <2>2
<1> HIDE DEF d
<1>5. Starts(o, d)
  BY <1>1, <1>2 DEF Starts, NewCall
<1>6. Bounded(o, d)
  BY <1>2 DEF SameHold, Bounded
<1>3. Sound(o, d, D)
  BY <1>1, <1>2, <1>5, <1>6 DEF Sound, SameHold, Drops
<1>4. QED
  BY <1>2, <1>3 DEF SameHold, d

\* onSplit.
LEMMA Splits ==
  ASSUME NEW o, WindowOK(o), o.asked < MaxSpawn, NEW id, HasTab(o, id),
         NEW dir \in {"vertical", "horizontal"},
         TransitionLayout(TabOf(o, id), TabOf(o, id).act, dir).new # None
  PROVE  LET t == TabOf(o, id)
             r == TransitionLayout(t, t.act, dir)
             c == Spawn(PutTab(o, r.tab), "split", t.id, r.new)
         IN  Sound(o, c, {}) /\ Keeps(o, c, {})
<1> DEFINE t == TabOf(o, id)
           r == TransitionLayout(t, t.act, dir)
           b == PutTab(o, r.tab)
           c == Spawn(b, "split", t.id, r.new)
<1>1. ScreenOK(o) /\ TabsOK(o.tabs) /\ o \in Window
  BY DEF WindowOK, ScreenOK
<1>2. TabOK(t) /\ t.id = id /\ id \in TabIds /\ t.act \in DOMAIN t.panes
  BY <1>1, TabFound DEF TabOK
<1> HIDE DEF t
<1>3. /\ TabOK(r.tab) /\ r.tab.id = t.id /\ Filled(r.tab.panes) = Filled(t.panes)
      /\ r.new \in DOMAIN r.tab.panes /\ r.tab.panes[r.new].sid = None
  BY <1>2, SplitTab DEF t
<1> HIDE DEF r
<1>4. Fits(o, r.tab)
  BY <1>1, <1>2, <1>3, FitsLess DEF t
<1>5. Placed(o, b, r.tab)
  BY <1>1, <1>4, TabPlaced
<1> HIDE DEF b
<1>6. /\ ScreenOK(b) /\ SameBut(o, b) /\ DOMAIN b.tabs = DOMAIN o.tabs
      /\ \A k \in DOMAIN o.tabs : b.tabs[k] = IF k = At(o, id) THEN r.tab ELSE o.tabs[k]
  BY <1>2, <1>3, <1>5 DEF Placed
<1>7. OnScreen(b.tabs) = OnScreen(o.tabs)
  <2>1. OnScreen(b.tabs) = (OnScreen(o.tabs) \ Filled(t.panes)) \cup Filled(t.panes)
    BY <1>2, <1>3, <1>5 DEF Placed, t
  <2>2. Filled(t.panes) \subseteq OnScreen(o.tabs)
    BY <1>1, TabAmong DEF t
  <2>3. QED
    BY <2>1, <2>2
<1>8. \A k \in DOMAIN b.tabs : b.tabs[k].id = t.id => r.new \in DOMAIN b.tabs[k].panes /\ b.tabs[k].panes[r.new].sid = None
  <2>1. \A k \in DOMAIN o.tabs : o.tabs[k].id = id => k = At(o, id)
    BY <1>1, TabFound
  <2>2. QED
    BY <1>2, <1>3, <1>6, <2>1
<1>9. r.new \in 0..4
  BY <1>3, FourPanes
<1>10. /\ b.spawns = o.spawns /\ b.asked < MaxSpawn /\ b.asked = o.asked /\ b.asked \in Nat /\ b.starting = o.starting
       /\ b.local = o.local /\ b.pend = o.pend /\ b.kill = o.kill /\ b.moves = o.moves
  BY <1>1, <1>6 DEF SameBut, Window
<1> DEFINE q == [sid |-> b.asked + 1, kind |-> "split", tab |-> t.id, idx |-> r.new, forked |-> FALSE]
<1>11. /\ ScreenOK(c) /\ c.tabs = b.tabs /\ c.local = b.local /\ c.pend = b.pend
       /\ c.kill = b.kill /\ c.moves = b.moves /\ c.starting = b.starting /\ c.asked = b.asked + 1
       /\ c.spawns = b.spawns \cup {q} /\ q.sid \notin ShownBy(c)
  <2>2. t.id \in TabIds \cup {None}
    BY <1>2
  <2>4. "split" \in {"tab", "split"}
    OBVIOUS
  <2>3. QED
    BY <1>6, <1>9, <1>10, <2>2, <2>4, Asked
<1>14. q.sid = b.asked + 1 /\ ~q.forked /\ q.kind # "tab" /\ q.tab = t.id /\ q.idx = r.new
  OBVIOUS
<1> HIDE DEF c, q
<1>18. SpawnOK(c, q)
  BY <1>8, <1>11, <1>14 DEF SpawnOK
<1>15. NewCall(o, c, q)
  BY <1>10, <1>11, <1>14, <1>18 DEF NewCall
<1>16. Starts(o, c)
  BY <1>10, <1>11, <1>15 DEF Starts
<1>17. Bounded(o, c)
  <2>1. Len(b.tabs) = Len(o.tabs) /\ Len(o.tabs) \in Nat
    BY <1>1, <1>5, LenProperties DEF Placed, TabsOK
  <2>2. QED
    BY <1>11, <2>1 DEF Bounded
<1>12. Sound(o, c, {}) /\ Keeps(o, c, {})
  BY <1>7, <1>10, <1>11, <1>16, <1>17 DEF Sound, Keeps
<1>13. QED
  BY <1>12 DEF c, b, r, t

\* onClosePane.
LEMMA ClosesPane ==
  ASSUME NEW o, WindowOK(o), NEW id, HasTab(o, id), NEW i \in DOMAIN TabOf(o, id).panes
  PROVE  \E D : Sound(o, ClosePaneAt(o, id, i, FALSE), D) /\ Keeps(o, ClosePaneAt(o, id, i, FALSE), D)
<1> DEFINE x == TabOf(o, id).panes[i]
           D == IF x.rem \/ x.sid = None THEN {} ELSE {x.sid}
           d == ClosePaneAt(o, id, i, FALSE)
<1>1. ScreenOK(o) /\ TabsOK(o.tabs)
  BY DEF WindowOK, ScreenOK
<1>2. PICK c : PaneLeaves(o, c, id, x, D) /\ d = Refilled(c, FALSE)
  BY <1>1, PaneCloses
<1>4. x \in Pane
  BY <1>1, TabFound, TabShows
<1>5. x.sid # None => x \in OnScreen(o.tabs)
  <2>1. x.sid # None => x \in Filled(TabOf(o, id).panes)
    BY <1>4 DEF Filled
  <2>2. QED
    BY <1>1, <2>1, TabAmong
<1> HIDE DEF x, d
<1>6. \A p \in OnScreen(c.tabs) : p \in OnScreen(o.tabs) /\ p.sid \notin D
  BY <1>1, <1>2, <1>5, ScreenShows DEF PaneLeaves
<1>7. \A p \in OnScreen(o.tabs) : p.rem \/ p.sid \in D \/ p \in OnScreen(c.tabs)
  <2>1. \A p \in OnScreen(o.tabs) : p.sid # None
    BY <1>1, ScreenShows, Counts
  <2>2. QED
    BY <1>2, <2>1 DEF PaneLeaves
<1> HIDE DEF D
<1>8. Sound(o, d, D) /\ OnScreen(d.tabs) = OnScreen(c.tabs)
  BY <1>1, <1>2, <1>6, Refills DEF PaneLeaves
<1>9. QED
  BY <1>7, <1>8 DEF Keeps, d

\* onCloseTab.
LEMMA ClosesTab ==
  ASSUME NEW o, WindowOK(o), NEW id, HasTab(o, id)
  PROVE  \E D : Sound(o, CloseTabOf(o, id, FALSE, TRUE), D) /\ Keeps(o, CloseTabOf(o, id, FALSE, TRUE), D)
<1> DEFINE F == Filled(TabOf(o, id).panes)
           D == Shells(F)
           b == ComputeCloseTabState(o, id, FALSE)
           d == CloseTabOf(o, id, FALSE, TRUE)
<1>1. ScreenOK(o) /\ TabsOK(o.tabs)
  BY DEF WindowOK, ScreenOK
<1>2. ScreenOK(b) /\ Drops(o, b, D) /\ Len(b.tabs) <= Len(o.tabs) /\ OnScreen(b.tabs) = OnScreen(o.tabs) \ F
  <2>1. /\ ScreenOK(b) /\ Drops(o, b, IF FALSE THEN {} ELSE Shells(F)) /\ TabsGo(o, b, {id})
        /\ OnScreen(b.tabs) = OnScreen(o.tabs) \ F
    BY <1>1, TabCloses, Zenon
  <2>2. QED
    BY <2>1 DEF TabsGo
<1>3. d = Refilled(b, FALSE)
  BY <1>1, TabFound, NoHoles DEF CloseTabOf, Refilled
<1>5. F \subseteq OnScreen(o.tabs)
  BY <1>1, TabAmong
<1> HIDE DEF F, b, d
<1>6. \A p \in OnScreen(b.tabs) : p \in OnScreen(o.tabs) /\ p.sid \notin D
  BY <1>1, <1>2, <1>5, ScreenShows DEF Shells
<1>7. \A p \in OnScreen(o.tabs) : p.rem \/ p.sid \in D \/ p \in OnScreen(b.tabs)
  BY <1>2 DEF Shells
<1> HIDE DEF D
<1>8. Sound(o, d, D) /\ OnScreen(d.tabs) = OnScreen(b.tabs)
  BY <1>1, <1>2, <1>3, <1>6, Refills
<1>9. QED
  BY <1>7, <1>8 DEF Keeps, d

\* A tab is replaced by one that shows the same.
LEMMA SameFilling ==
  ASSUME NEW o, ScreenOK(o), NEW u, TabOK(u), HasTab(o, u.id), Filled(u.panes) = Filled(TabOf(o, u.id).panes)
  PROVE  /\ Placed(o, PutTab(o, u), u) /\ ScreenOK(PutTab(o, u)) /\ SameBut(o, PutTab(o, u))
         /\ OnScreen(PutTab(o, u).tabs) = OnScreen(o.tabs) /\ Bounded(o, PutTab(o, u))
<1> DEFINE b == PutTab(o, u)
<1>1. Fits(o, u)
  BY FitsLess
<1>2. Placed(o, b, u)
  BY <1>1, TabPlaced
<1> HIDE DEF b
<1>3. OnScreen(b.tabs) = (OnScreen(o.tabs) \ Filled(u.panes)) \cup Filled(u.panes)
  BY <1>2 DEF Placed
<1>4. Filled(u.panes) \subseteq OnScreen(o.tabs)
  BY TabAmong
<1>6. Bounded(o, b)
  <2>1. Len(o.tabs) \in Nat
    BY LenProperties DEF ScreenOK, TabsOK
  <2>2. QED
    BY <1>2, <2>1 DEF Placed, Bounded
<1>5. QED
  BY <1>2, <1>3, <1>4, <1>6 DEF Placed, b

\* A click in the sidebar.
LEMMA Opens ==
  ASSUME NEW o, WindowOK(o), NEW s \in Sids, s \in Locals => s \in 1..o.asked,
         s \in ShownBy(o) \/ Len(o.tabs) < MaxTabs
  PROVE  Sound(o, OpenRemoteAsTab(o, s, TRUE), {}) /\ Keeps(o, OpenRemoteAsTab(o, s, TRUE), {})
<1> DEFINE c == OpenRemoteAsTab(o, s, TRUE)
           x == [sid |-> s, rem |-> ResolvePaneRemote(o, s, TRUE)]
<1>1. ScreenOK(o)
  BY DEF WindowOK
<1>2. TRUE \in BOOLEAN
  OBVIOUS
<1>3. /\ ScreenOK(c) /\ SameBut(o, c) /\ Bounded(o, c)
      /\ OnScreen(c.tabs) = IF s \in ShownBy(o) THEN OnScreen(o.tabs) ELSE OnScreen(o.tabs) \cup {x}
  BY <1>1, <1>2, RemoteOpens DEF Bounded
<1>4. x.rem \/ x.sid \in o.local
  BY DEF ResolvePaneRemote
<1> HIDE DEF c, x
<1>5. \A p \in OnScreen(c.tabs) : p.rem \/ p \in OnScreen(o.tabs) \/ p.sid \in o.local
  BY <1>3, <1>4
<1>6. Sound(o, c, {})
  BY <1>3, <1>5, SoundScreen
<1>7. Keeps(o, c, {})
  BY <1>3 DEF Keeps
<1>8. QED
  BY <1>6, <1>7 DEF c

\* A tab with other panes, as many, and another active one.
Repaned(t, ps, i) == [t EXCEPT !.panes = ps, !.act = i]

\* With as many panes, none of them repeating a session, it is still a tab.
LEMMA RepanedTab ==
  ASSUME NEW t, TabOK(t), NEW ps \in Seq(Pane), Len(ps) = Len(t.panes), Distinct(ps), NEW i \in DOMAIN ps
  PROVE  TabOK(Repaned(t, ps, i)) /\ Repaned(t, ps, i).id = t.id /\ Repaned(t, ps, i).panes = ps
<1> DEFINE u == Repaned(t, ps, i)
<1>1. t \in Tab /\ DOMAIN ps = 1..Len(ps) /\ Len(ps) \in Nat /\ i \in Nat
  BY LenProperties DEF TabOK
<1>2. u \in Tab /\ u.id = t.id /\ u.lay = t.lay /\ u.panes = ps /\ u.act = i
  BY <1>1 DEF Tab, Repaned
<1> HIDE DEF u
<1>3. TabOK(u)
  BY <1>2 DEF TabOK
<1>4. QED
  BY <1>2, <1>3 DEF u

\* A session leaves its pane, if it has one, for the empty pane k of tab id.
Drop(o, id, k, s, x) ==
  LET b == Detached(o, s) IN PutTab(b, [TabOf(b, id) EXCEPT !.panes[k] = x, !.act = k])

\* A session dropped on an empty pane leaves the pane it stood in and fills this one.
LEMMA Dropped ==
  ASSUME NEW o, ScreenOK(o), NEW id, HasTab(o, id),
         NEW k \in DOMAIN TabOf(o, id).panes, TabOf(o, id).panes[k].sid = None,
         NEW s \in Sids, s \notin Shows(TabOf(o, id)), s \in Locals => s \in 1..o.asked,
         NEW x \in Pane, x.sid = s, x.rem \/ x \in OnScreen(o.tabs), s \in ShownBy(o) => x \in OnScreen(o.tabs)
  PROVE  Sound(o, Drop(o, id, k, s, x), {}) /\ Keeps(o, Drop(o, id, k, s, x), {})
<1> DEFINE t  == TabOf(o, id)
           b  == Detached(o, s)
           ps == [t.panes EXCEPT ![k] = x]
           u  == Repaned(t, ps, k)
           c  == Drop(o, id, k, s, x)
<1>1. TabOK(t) /\ t.id = id
  BY TabFound DEF ScreenOK
<1>2. Vacates(o, b, s)
  BY SessionLeaves
<1>3. HasTab(b, id) /\ TabOf(b, id) = t
  BY <1>2, TabStays
<1>4. c = PutTab(b, u)
  BY <1>3, Zenon DEF Drop, Repaned
<1>5. /\ ScreenOK(b) /\ SameBut(o, b) /\ Len(b.tabs) <= Len(o.tabs)
      /\ OnScreen(b.tabs) = {p \in OnScreen(o.tabs) : p.sid # s}
  BY <1>2 DEF Vacates
<1> HIDE DEF t, b
<1>6. ps \in Seq(Pane) /\ Len(ps) = Len(t.panes) /\ k \in DOMAIN ps /\ Distinct(ps) /\ Filled(ps) = Filled(t.panes) \cup {x}
  BY <1>1, FillPane DEF t
<1> HIDE DEF ps
<1>7. TabOK(u) /\ u.id = id /\ u.panes = ps
  BY <1>1, <1>6, RepanedTab
<1> HIDE DEF u, c
<1>8. Shows(u) = Shows(t) \cup {s}
  <2>1. Shows(u) = {p.sid : p \in Filled(ps)} /\ Shows(t) = {p.sid : p \in Filled(t.panes)}
    BY <1>1, <1>7, TabShows DEF TabOK
  <2>2. QED
    BY <1>6, <2>1
<1>9. Fits(b, u)
  <2>1. s \notin ShownBy(b)
    BY <1>5, ShownOnScreen
  <2>2. Shows(t) \cap Locals \subseteq 1..o.asked /\ b.asked = o.asked
    BY <1>5, TabAmong DEF t, SameBut
  <2>3. QED
    BY <1>3, <1>7, <1>8, <2>1, <2>2 DEF Fits
<1>10. Placed(b, c, u)
  BY <1>4, <1>5, <1>9, TabPlaced
<1>11. OnScreen(c.tabs) = {p \in OnScreen(o.tabs) : p.sid # s} \cup {x}
  <2>1. OnScreen(c.tabs) = (OnScreen(b.tabs) \ Filled(t.panes)) \cup (Filled(t.panes) \cup {x})
    BY <1>3, <1>6, <1>7, <1>10 DEF Placed
  <2>2. Filled(t.panes) \subseteq OnScreen(b.tabs)
    BY <1>3, <1>5, TabAmong
  <2>3. QED
    BY <1>5, <2>1, <2>2
<1>12. ScreenOK(c) /\ SameBut(o, c) /\ Bounded(o, c)
  BY <1>5, <1>10 DEF Placed, SameBut, Bounded
<1>13. Sound(o, c, {})
  <2>1. \A p \in OnScreen(c.tabs) : p.rem \/ p \in OnScreen(o.tabs) \/ p.sid \in o.local
    BY <1>11
  <2>2. QED
    BY <1>12, <2>1, SoundScreen
<1>14. Keeps(o, c, {})
  <2>1. ASSUME NEW p \in OnScreen(o.tabs), p.sid = s PROVE p = x
    <3>1. s \in ShownBy(o)
      BY <2>1, ShownOnScreen
    <3>2. QED
      BY <2>1, <3>1, ScreenShows DEF ScreenOK
  <2>2. QED
    BY <1>11, <2>1 DEF Keeps
<1>15. QED
  BY <1>13, <1>14 DEF c

\* The pane dragged is the one on the screen, or a remote one.
LEMMA DroppedPaneFound ==
  ASSUME NEW o, ScreenOK(o), NEW s \in Sids
  PROVE  LET x == DroppedPane(o, s)
         IN  /\ x \in Pane /\ x.sid = s /\ (x.rem \/ x \in OnScreen(o.tabs))
             /\ s \in ShownBy(o) => x \in OnScreen(o.tabs)
<1> DEFINE x == DroppedPane(o, s)
<1>1. CASE s \in ShownBy(o)
  <2> DEFINE l == Located(o, s)
             t == TabOf(o, l.id)
  <2>1. HasTab(o, l.id) /\ l.idx \in DOMAIN t.panes /\ t.panes[l.idx].sid = s
    BY <1>1, PaneLocated DEF ScreenOK
  <2>2. x = t.panes[l.idx]
    BY <1>1 DEF DroppedPane
  <2> HIDE DEF l
  <2>3. t \in Tab
    BY <2>1, TabFound DEF ScreenOK
  <2>4. t.panes[l.idx] \in Pane
    BY <2>1, <2>3, TabShows
  <2>5. t.panes[l.idx] \in Filled(t.panes)
    BY <2>1, <2>4, Counts DEF Filled
  <2>6. t.panes[l.idx] \in OnScreen(o.tabs)
    BY <2>1, <2>5, TabAmong
  <2> HIDE DEF x
  <2>7. QED
    BY <1>1, <2>1, <2>2, <2>4, <2>6 DEF x
<1>2. CASE s \notin ShownBy(o)
  <2>1. x = [sid |-> s, rem |-> TRUE]
    BY <1>2 DEF DroppedPane
  <2>2. QED
    BY <1>2, <2>1 DEF Pane
<1>3. QED
  BY <1>1, <1>2

-----------------------------------------------------------------------------
(* The user's actions *)

\* The step leaves the window as c, but for the count of moves.
UserDoes(c, D) == Sound(w, c, D) /\ Does(c) /\ UNCHANGED rest

\* What the user finds.
Screen == WindowOK(w) /\ raw \subseteq Remotes

\* What the sidebar offers is a session, and of the local ones one that was asked for.
LEMMA KnownSession ==
  ASSUME Screen, NEW s \in Known \cup ShownBy(w)
  PROVE  s \in Sids /\ (s \in Locals => s \in 1..w.asked)
<1>1. w.local \subseteq Locals /\ w.local \subseteq 1..w.asked /\ ShownBy(w) \cap Locals \subseteq 1..w.asked
  BY DEF Screen, WindowOK, ScreenOK, Window
<1>2. ShownBy(w) \subseteq Sids
  BY PaneLocated DEF Screen, WindowOK, ScreenOK
<1>3. QED
  BY <1>1, <1>2, Counts DEF Screen, Known, Sids

\* startNewTab asks for a shell and touches no pane.
LEMMA StepStartNewTab ==
  ASSUME Screen, StartNewTab
  PROVE  \E c, D : UserDoes(c, D) /\ Keeps(w, c, D)
<1> DEFINE c == StartNew(w)
<1>1. Len(w.tabs) < MaxTabs /\ Does(c) /\ UNCHANGED rest
  BY DEF StartNewTab
<1>2. ScreenOK(w) /\ Len(w.tabs) \in Nat
  BY LenProperties DEF Screen, WindowOK, ScreenOK, TabsOK
<1>6. Len(w.tabs) <= MaxTabs
  BY <1>1, <1>2, WorkspaceAssumption
<1>3. ScreenOK(c) /\ SameHold(w, c) /\ Starts(w, c)
  BY <1>2, <1>6, Started
<1> HIDE DEF c
<1>4. Sound(w, c, {}) /\ Keeps(w, c, {})
  BY <1>3, <1>6 DEF Sound, SameHold, Keeps, Bounded
<1>5. QED
  BY <1>1, <1>4 DEF UserDoes

\* onSplit asks for a shell and keeps an empty pane for it.
LEMMA StepOnSplit ==
  ASSUME Screen, NEW dir \in {"vertical", "horizontal"}, OnSplit(dir)
  PROVE  \E c, D : UserDoes(c, D) /\ Keeps(w, c, D)
<1> DEFINE t == TabOf(w, w.cur)
           r == TransitionLayout(t, t.act, dir)
           c == Spawn(PutTab(w, r.tab), "split", t.id, r.new)
<1>1. w.asked < MaxSpawn /\ HasTab(w, w.cur) /\ r.new # None /\ Does(c) /\ UNCHANGED rest
  BY Zenon DEF OnSplit
<1>2. Sound(w, c, {}) /\ Keeps(w, c, {})
  BY <1>1, Splits DEF Screen
<1>3. QED
  BY <1>1, <1>2, Zenon DEF UserDoes

\* closePaneAt closes the shell of that pane only.
LEMMA StepOnClosePane ==
  ASSUME Screen, NEW id, NEW i, OnClosePane(id, i)
  PROVE  \E c, D : UserDoes(c, D) /\ Keeps(w, c, D)
<1> DEFINE c == ClosePaneAt(w, id, i, FALSE)
<1>1. HasTab(w, id) /\ i \in DOMAIN TabOf(w, id).panes /\ Does(c) /\ UNCHANGED rest
  BY Zenon DEF OnClosePane
<1>2. PICK D : Sound(w, c, D) /\ Keeps(w, c, D)
  BY <1>1, ClosesPane DEF Screen
<1>3. QED
  BY <1>1, <1>2, Zenon DEF UserDoes

\* closeTab closes the shells of that tab only.
LEMMA StepOnCloseTab ==
  ASSUME Screen, NEW id, OnCloseTab(id)
  PROVE  \E c, D : UserDoes(c, D) /\ Keeps(w, c, D)
<1> DEFINE c == CloseTabOf(w, id, FALSE, TRUE)
<1>1. HasTab(w, id) /\ Does(c) /\ UNCHANGED rest
  BY Zenon DEF OnCloseTab
<1>2. PICK D : Sound(w, c, D) /\ Keeps(w, c, D)
  BY <1>1, ClosesTab DEF Screen
<1>3. QED
  BY <1>1, <1>2, Zenon DEF UserDoes

\* openRemoteAsTab finds the pane that shows the session, or opens one.
LEMMA StepOnOpen ==
  ASSUME Screen, NEW s, OnOpen(s)
  PROVE  \E c, D : UserDoes(c, D) /\ Keeps(w, c, D)
<1> DEFINE c == OpenRemoteAsTab(w, s, TRUE)
<1>1. s \in Known /\ (s \in ShownBy(w) \/ Len(w.tabs) < MaxTabs) /\ Does(c) /\ UNCHANGED rest
  BY Zenon DEF OnOpen
<1>2. s \in Sids /\ (s \in Locals => s \in 1..w.asked)
  BY <1>1, KnownSession
<1>3. Sound(w, c, {}) /\ Keeps(w, c, {})
  BY <1>1, <1>2, Opens DEF Screen
<1>4. QED
  BY <1>1, <1>3, Zenon DEF UserDoes

\* A change of focus touches no pane.
LEMMA StepOnFocus ==
  ASSUME Screen, NEW id, NEW i, OnFocus(id, i)
  PROVE  \E c, D : UserDoes(c, D) /\ Keeps(w, c, D)
<1> DEFINE t == TabOf(w, id)
           u == [t EXCEPT !.act = i]
           b == PutTab(w, u)
           c == [b EXCEPT !.cur = id]
<1>1. HasTab(w, id) /\ i \in DOMAIN t.panes /\ Does(c) /\ UNCHANGED rest
  BY Zenon DEF OnFocus
<1>2. ScreenOK(w)
  BY DEF Screen, WindowOK
<1>3. TabOK(t) /\ t.id = id /\ id \in TabIds
  BY <1>1, <1>2, TabFound DEF ScreenOK
<1>4. TabOK(u) /\ u.id = id /\ u.panes = t.panes
  BY <1>1, <1>3, ActTab
<1>5. ScreenOK(b) /\ SameBut(w, b) /\ OnScreen(b.tabs) = OnScreen(w.tabs) /\ Bounded(w, b)
  <2> HIDE DEF u
  <2>1. QED
    BY <1>1, <1>2, <1>4, SameFilling
<1> HIDE DEF b
<1>6. c \in Window /\ c.tabs = b.tabs /\ SameBut(b, c)
  BY <1>3, <1>5 DEF ScreenOK, Window, SameBut
<1> HIDE DEF c
<1>7. ScreenOK(c)
  <2>1. ShownBy(c) = ShownBy(b)
    BY <1>6, Zenon DEF ShownBy
  <2>2. QED
    BY <1>5, <1>6, <2>1 DEF ScreenOK, SameBut
<1>8. SameBut(w, c) /\ OnScreen(c.tabs) = OnScreen(w.tabs) /\ Bounded(w, c)
  BY <1>5, <1>6 DEF SameBut, Bounded
<1>9. Sound(w, c, {})
  BY <1>2, <1>7, <1>8, SoundScreen
<1>10. Keeps(w, c, {})
  BY <1>8 DEF Keeps
<1>11. QED
  BY <1>1, <1>9, <1>10, Zenon DEF UserDoes

\* A reordering of the tabs shows the same panes.
LEMMA StepOnTabReorder ==
  ASSUME Screen, NEW a, NEW z, OnTabReorder(a, z)
  PROVE  \E c, D : UserDoes(c, D) /\ Keeps(w, c, D)
<1> DEFINE T == w.tabs
           U == InsertAt(RemoveAt(T, a), z, T[a])
           c == [w EXCEPT !.tabs = U]
<1>1. a \in DOMAIN T /\ z \in DOMAIN T /\ Does(c) /\ UNCHANGED rest
  BY DEF OnTabReorder
<1>2. ScreenOK(w) /\ w \in Window /\ TabsOK(T) /\ Len(T) \in Nat
  BY LenProperties DEF Screen, WindowOK, ScreenOK, TabsOK
<1>3. /\ TabsOK(U) /\ Len(U) = Len(T)
      /\ \A k \in DOMAIN U : \E j \in DOMAIN T : U[k] = T[j]
      /\ \A j \in DOMAIN T : \E k \in DOMAIN U : U[k] = T[j]
  BY <1>1, <1>2, Reordered
<1> HIDE DEF U
<1>4. c \in Window /\ c.tabs = U /\ SameBut(w, c)
  BY <1>2, <1>3 DEF Window, SameBut, TabsOK
<1> HIDE DEF c
<1>5. OnScreen(U) = OnScreen(T)
  <2>1. ASSUME NEW x \in OnScreen(U) PROVE x \in OnScreen(T)
    <3>1. PICK k \in DOMAIN U : x \in Filled(U[k].panes)
      BY DEF OnScreen
    <3>2. PICK j \in DOMAIN T : U[k] = T[j]
      BY <1>3
    <3>3. QED
      BY <3>1, <3>2 DEF OnScreen
  <2>2. ASSUME NEW x \in OnScreen(T) PROVE x \in OnScreen(U)
    <3>1. PICK j \in DOMAIN T : x \in Filled(T[j].panes)
      BY DEF OnScreen
    <3>2. PICK k \in DOMAIN U : U[k] = T[j]
      BY <1>3
    <3>3. QED
      BY <3>1, <3>2 DEF OnScreen
  <2>3. QED
    BY <2>1, <2>2
<1>6. ShownBy(c) \subseteq ShownBy(w)
  <2>1. ASSUME NEW x \in ShownBy(c) PROVE x \in ShownBy(w)
    <3>1. PICK k \in DOMAIN U : x \in Shows(U[k])
      BY <1>4 DEF ShownBy
    <3>2. PICK j \in DOMAIN T : U[k] = T[j]
      BY <1>3
    <3>3. QED
      BY <3>1, <3>2 DEF ShownBy
  <2>2. QED
    BY <2>1
<1>7. ScreenOK(c)
  BY <1>2, <1>3, <1>4, <1>6 DEF ScreenOK, SameBut
<1>11. Bounded(w, c)
  BY <1>2, <1>3, <1>4 DEF Bounded
<1>8. Sound(w, c, {})
  BY <1>4, <1>5, <1>7, <1>11, SoundScreen
<1>9. Keeps(w, c, {})
  BY <1>4, <1>5 DEF Keeps
<1>10. QED
  BY <1>1, <1>8, <1>9, Zenon DEF UserDoes

\* onPaneDropSession moves panes and closes nothing.
LEMMA StepOnDrop ==
  ASSUME Screen, NEW id, NEW i, NEW s, OnDrop(id, i, s)
  PROVE  \E c, D : UserDoes(c, D) /\ Keeps(w, c, D)
<1> DEFINE t    == TabOf(w, id)
           here == {k \in DOMAIN t.panes : t.panes[k].sid = s}
           x    == DroppedPane(w, s)
           r    == TransitionLayout(t, i, "vertical")
           b    == PutTab(w, r.tab)
<1>1. s \in Known \cup ShownBy(w) /\ HasTab(w, id) /\ i \in DOMAIN t.panes /\ UNCHANGED rest
  BY Zenon DEF OnDrop
<1>2. ScreenOK(w) /\ TabsOK(w.tabs)
  BY DEF Screen, WindowOK, ScreenOK
<1>3. s \in Sids /\ (s \in Locals => s \in 1..w.asked)
  BY <1>1, KnownSession
<1>4. /\ x \in Pane /\ x.sid = s /\ (x.rem \/ x \in OnScreen(w.tabs))
      /\ s \in ShownBy(w) => x \in OnScreen(w.tabs)
  BY <1>2, <1>3, DroppedPaneFound
<1>5. TabOK(t) /\ t.id = id /\ t \in Tab
  BY <1>1, <1>2, TabFound
<1>6. \/ \E k \in here : Does(PutTab(w, [t EXCEPT !.panes = SwapPanes(t.panes, k, i), !.act = i]))
      \/ here = {} /\ t.panes[i].sid = None /\ Does(Drop(w, id, i, s, x))
      \/ here = {} /\ t.panes[i].sid # None /\ r.new # None /\ Does(Drop(b, id, r.new, s, x))
  BY Zenon DEF OnDrop, Drop
<1>7. here = {} => s \notin Shows(t)
  BY <1>5, TabShows
<1> HIDE DEF t, x
<1>8. CASE \E k \in here : Does(PutTab(w, [t EXCEPT !.panes = SwapPanes(t.panes, k, i), !.act = i]))
  <2>1. PICK k \in here : Does(PutTab(w, Repaned(t, SwapPanes(t.panes, k, i), i)))
    BY <1>8, Zenon DEF Repaned
  <2> DEFINE ps == SwapPanes(t.panes, k, i)
             u  == Repaned(t, ps, i)
             c  == PutTab(w, u)
  <2>2. k \in DOMAIN t.panes
    OBVIOUS
  <2>3. ps \in Seq(Pane) /\ Len(ps) = Len(t.panes) /\ DOMAIN ps = DOMAIN t.panes /\ Distinct(ps) /\ Filled(ps) = Filled(t.panes)
    BY <1>1, <1>5, <2>2, SwapTab DEF t
  <2> HIDE DEF ps
  <2>4. TabOK(u) /\ u.id = id /\ u.panes = ps
    BY <1>1, <1>5, <2>3, RepanedTab DEF t
  <2> HIDE DEF u
  <2>5. ScreenOK(c) /\ SameBut(w, c) /\ OnScreen(c.tabs) = OnScreen(w.tabs) /\ Bounded(w, c)
    BY <1>1, <1>2, <2>3, <2>4, SameFilling DEF t
  <2>6. Does(c)
    BY <2>1 DEF u, ps
  <2> HIDE DEF c
  <2>7. Sound(w, c, {}) /\ Keeps(w, c, {})
    BY <1>2, <2>5, SoundScreen DEF Keeps
  <2>8. QED
    BY <1>1, <2>6, <2>7, Zenon DEF UserDoes
<1>9. CASE here = {} /\ t.panes[i].sid = None /\ Does(Drop(w, id, i, s, x))
  <2> DEFINE c == Drop(w, id, i, s, x)
  <2>1. Sound(w, c, {}) /\ Keeps(w, c, {})
    BY <1>1, <1>2, <1>3, <1>4, <1>7, <1>9, Dropped DEF t
  <2>2. QED
    BY <1>1, <1>9, <2>1, Zenon DEF UserDoes
<1>10. CASE here = {} /\ t.panes[i].sid # None /\ r.new # None /\ Does(Drop(b, id, r.new, s, x))
  <2> DEFINE c == Drop(b, id, r.new, s, x)
  <2>1. /\ TabOK(r.tab) /\ r.tab.id = id /\ Filled(r.tab.panes) = Filled(t.panes)
        /\ r.new \in DOMAIN r.tab.panes /\ r.tab.panes[r.new].sid = None
    BY <1>1, <1>5, <1>10, SplitTab DEF t
  <2> HIDE DEF r
  <2>2. Placed(w, b, r.tab) /\ ScreenOK(b) /\ SameBut(w, b) /\ OnScreen(b.tabs) = OnScreen(w.tabs)
    BY <1>1, <1>2, <2>1, SameFilling DEF t
  <2> HIDE DEF b
  <2>3. HasTab(b, id) /\ TabOf(b, id) = r.tab
    BY <2>1, <2>2 DEF Placed
  <2>4. s \notin Shows(TabOf(b, id))
    <3>1. Shows(r.tab) = {p.sid : p \in Filled(r.tab.panes)} /\ Shows(t) = {p.sid : p \in Filled(t.panes)}
      BY <1>5, <2>1, TabShows DEF TabOK
    <3>2. QED
      BY <1>7, <1>10, <2>1, <2>3, <3>1
  <2>5. /\ b.spawns = w.spawns /\ b.asked = w.asked /\ b.local = w.local /\ b.pend = w.pend
        /\ b.kill = w.kill /\ b.moves = w.moves /\ b.starting = w.starting /\ Len(b.tabs) = Len(w.tabs)
    BY <2>2 DEF SameBut, Placed
  <2>6. s \in ShownBy(b) => s \in ShownBy(w)
    BY <1>2, <2>2, ShownOnScreen
  <2>7. Sound(b, c, {}) /\ Keeps(b, c, {})
    BY <1>3, <1>4, <2>1, <2>2, <2>3, <2>4, <2>5, <2>6, Dropped
  <2> HIDE DEF c
  <2>8. Sound(w, c, {}) /\ Keeps(w, c, {})
    BY <2>2, <2>5, <2>7 DEF Sound, Keeps, Starts, NewCall, Bounded
  <2>9. QED
    BY <1>1, <1>10, <2>8, Zenon DEF UserDoes, c
<1>11. QED
  BY <1>6, <1>8, <1>9, <1>10

\* onDetachSessionToTab moves one pane to a tab of its own, attached as it was.
LEMMA StepOnDetach ==
  ASSUME Screen, NEW s, OnDetach(s)
  PROVE  \E c, D : UserDoes(c, D) /\ Keeps(w, c, D)
<1> DEFINE l == Located(w, s)
           x == TabOf(w, l.id).panes[l.idx]
           b == Detached(w, s)
           c == OpenRemoteAsTab(b, s, x.rem)
<1>1. s \in ShownBy(w) /\ Len(w.tabs) < MaxTabs /\ Does(c) /\ UNCHANGED rest
  BY Zenon DEF OnDetach, Detachable, Detached
<1>2. ScreenOK(w) /\ TabsOK(w.tabs)
  BY DEF Screen, WindowOK, ScreenOK
<1>3. s \in Sids
  BY <1>1, <1>2, PaneLocated
<1>4. x = DroppedPane(w, s)
  BY <1>1, Zenon DEF DroppedPane
<1>5. x \in Pane /\ x.sid = s /\ x \in OnScreen(w.tabs)
  BY <1>1, <1>2, <1>3, <1>4, DroppedPaneFound
<1>6. Vacates(w, b, s)
  BY <1>2, SessionLeaves
<1> HIDE DEF x, b, l
<1>7. ScreenOK(b) /\ SameBut(w, b) /\ OnScreen(b.tabs) = {p \in OnScreen(w.tabs) : p.sid # s}
  BY <1>6 DEF Vacates
<1>8. s \notin ShownBy(b)
  BY <1>7, ShownOnScreen
<1>9. Len(b.tabs) < MaxTabs /\ Len(b.tabs) <= Len(w.tabs) /\ b.asked = w.asked /\ Len(w.tabs) <= MaxTabs
  <2>1. Len(b.tabs) \in Nat /\ Len(w.tabs) \in Nat
    BY <1>2, <1>7, LenProperties DEF ScreenOK, TabsOK
  <2>2. QED
    BY <1>1, <1>2, <1>6, <1>7, <2>1, WorkspaceAssumption DEF Vacates, SameBut
<1>10. x.rem \in BOOLEAN /\ (s \in Remotes => x.rem) /\ (s \in Locals => s \in 1..b.asked)
  <2>1. x.rem \in BOOLEAN /\ (x.rem \/ s \in Locals \cup {None})
    BY <1>5 DEF Pane
  <2>2. s \in Locals => s \in 1..w.asked
    BY <1>1, <1>2 DEF ScreenOK
  <2>3. QED
    BY <1>3, <1>9, <2>1, <2>2, Counts
<1> DEFINE y == [sid |-> s, rem |-> ResolvePaneRemote(b, s, x.rem)]
<1>11. /\ ScreenOK(c) /\ SameBut(b, c) /\ OnScreen(c.tabs) = OnScreen(b.tabs) \cup {y}
       /\ Len(c.tabs) <= Len(b.tabs) \/ Len(c.tabs) <= MaxTabs
  BY <1>3, <1>7, <1>8, <1>9, <1>10, RemoteOpens
<1>12. (~x.rem => y = x) /\ (y.rem \/ y.sid \in w.local \/ ~x.rem)
  <2>1. ~x.rem => y.rem = FALSE
    BY DEF ResolvePaneRemote
  <2>2. x = [sid |-> x.sid, rem |-> x.rem] /\ x.rem \in BOOLEAN
    BY <1>5 DEF Pane
  <2>3. ~x.rem => y = x
    BY <1>5, <2>1, <2>2
  <2>4. y.rem \/ y.sid \in w.local \/ ~x.rem
    BY <1>7 DEF ResolvePaneRemote, SameBut
  <2>5. QED
    BY <2>3, <2>4
<1> HIDE DEF c, y
<1>18. Len(b.tabs) \in Nat /\ Len(c.tabs) \in Nat /\ Len(w.tabs) \in Nat
  BY <1>2, <1>7, <1>11, LenProperties DEF ScreenOK, TabsOK
<1>13. SameBut(w, c) /\ Bounded(w, c)
  BY <1>7, <1>9, <1>11, <1>18, WorkspaceAssumption DEF SameBut, Bounded
<1>14. \A p \in OnScreen(c.tabs) : p.rem \/ p \in OnScreen(w.tabs) \/ p.sid \in w.local
  BY <1>5, <1>7, <1>11, <1>12
<1>15. Keeps(w, c, {})
  <2>1. \A p \in OnScreen(w.tabs) : p.sid = s => p = x
    BY <1>2, <1>5, ScreenShows
  <2>2. QED
    BY <1>7, <1>11, <1>12, <2>1 DEF Keeps
<1>16. Sound(w, c, {})
  BY <1>2, <1>11, <1>13, <1>14, SoundScreen
<1>17. QED
  BY <1>1, <1>15, <1>16, Zenon DEF UserDoes

\* mergeSelectedIntoTab closes nothing, and what it selects stays on the screen.
LEMMA StepOnMerge ==
  ASSUME Screen, NEW n \in 1..4, NEW ids \in [1..n -> Known], OnMerge(ids)
  PROVE  \E c, D : UserDoes(c, D) /\ Keeps(w, c, D)
<1>0. ids \in Seq(Known) /\ Len(ids) = n /\ DOMAIN ids = 1..n /\ n \in Nat
  OBVIOUS
<1> DEFINE h == CHOOSE g : Freeing(w, ids, Len(ids), g)
           o == h[Len(ids)]
           lay == LayoutForCount(Len(ids))
           u == MergedTab(FreeTab(o), ids, Len(ids), lay)
           c == OpenTab(o, u)
<1>1. IsInjective(ids) /\ Len(o.tabs) < MaxTabs /\ Does(c) /\ UNCHANGED rest
  BY Zenon DEF OnMerge, Freeing, MergedTab, MergedPanes
<1>2. ScreenOK(w) /\ TabsOK(w.tabs)
  BY DEF Screen, WindowOK, ScreenOK
<1>3. Freeing(w, ids, n, h)
  <2>1. \E g : Freeing(w, ids, n, g)
    BY <1>0, FreeingRuns
  <2>2. h = CHOOSE g : Freeing(w, ids, n, g)
    BY <1>0
  <2>3. QED
    BY <2>1, <2>2, Zenon
<1> HIDE DEF h
<1>4. FreedOf(w, o, ids, n)
  BY <1>0, <1>2, <1>3, AllFreed
<1> HIDE DEF o
<1>5. /\ ScreenOK(o) /\ SameBut(w, o)
      /\ OnScreen(o.tabs) = {p \in OnScreen(w.tabs) : \A j \in 1..n : p.sid # ids[j]}
  BY <1>4 DEF FreedOf
<1>6. \A k \in 1..n : ids[k] \in Known /\ ids[k] \in Sids /\ (ids[k] \in Locals => ids[k] \in 1..w.asked)
  <2>1. \A k \in 1..n : ids[k] \in Known
    OBVIOUS
  <2>2. QED
    BY <2>1, KnownSession
<1>7. o.asked = w.asked /\ o.local = w.local
  BY <1>2, <1>5 DEF SameBut
<1>8. FreeTab(o) \in TabIds /\ ~HasTab(o, FreeTab(o))
  BY <1>1, <1>5, FreeTabFound DEF Room
<1>9. /\ TabOK(u) /\ u.id = FreeTab(o) /\ Shows(u) = {ids[k] : k \in 1..n}
      /\ Filled(u.panes) = {[sid |-> ids[k], rem |-> TRUE] : k \in 1..n}
  <2>1. ids \in [1..n -> Sids] /\ \A j, k \in 1..n : ids[j] = ids[k] => j = k
    BY <1>0, <1>1, <1>6 DEF IsInjective
  <2>2. OnceEach(ids, n)
    BY <2>1, Zenon DEF OnceEach
  <2>3. MergedOK(u, FreeTab(o), ids, n)
    BY <1>0, <1>8, <2>2, TabMerged
  <2>4. QED
    BY <2>3, Zenon DEF MergedOK
<1> HIDE DEF u
<1>10. Shows(u) \cap ShownBy(o) = {}
  <2>1. ShownBy(o) = {p.sid : p \in OnScreen(o.tabs)}
    BY <1>5, ShownOnScreen
  <2>2. QED
    BY <1>5, <1>9, <2>1
<1>11. Shows(u) \cap Locals \subseteq 1..o.asked
  BY <1>6, <1>7, <1>9
<1>18. Len(o.tabs) \in Nat /\ Len(o.tabs) + 1 <= MaxTabs /\ Len(o.tabs) <= MaxTabs
  <2>1. Len(o.tabs) \in Nat
    BY <1>5, LenProperties DEF ScreenOK, TabsOK
  <2>2. QED
    BY <1>1, <2>1, WorkspaceAssumption
<1>12. Opened(o, c, u)
  BY <1>18, <1>5, <1>8, <1>9, <1>10, <1>11, TabOpens
<1> HIDE DEF c
<1>13. ScreenOK(c) /\ SameBut(w, c) /\ Bounded(w, c) /\ OnScreen(c.tabs) = OnScreen(o.tabs) \cup Filled(u.panes)
  BY <1>5, <1>12, <1>18 DEF Opened, SameBut, Bounded
<1>14. \A p \in Filled(u.panes) : p.rem
  BY <1>9
<1>15. Sound(w, c, {})
  <2>1. \A p \in OnScreen(c.tabs) : p.rem \/ p \in OnScreen(w.tabs) \/ p.sid \in w.local
    BY <1>5, <1>13, <1>14
  <2>2. QED
    BY <1>2, <1>13, <2>1, SoundScreen
<1>16. Keeps(w, c, {})
  <2>1. ASSUME NEW p \in OnScreen(w.tabs) PROVE \E x \in OnScreen(c.tabs) : x.sid = p.sid
    <3>1. CASE \A j \in 1..n : p.sid # ids[j]
      BY <1>5, <1>13, <3>1
    <3>2. CASE \E j \in 1..n : p.sid = ids[j]
      <4>1. PICK j \in 1..n : p.sid = ids[j]
        BY <3>2
      <4> DEFINE x == [sid |-> ids[j], rem |-> TRUE]
      <4>2. x.sid = p.sid /\ x \in Filled(u.panes)
        BY <1>9, <4>1
      <4> HIDE DEF x
      <4>3. QED
        BY <1>13, <4>2
    <3>3. QED
      BY <3>1, <3>2
  <2>2. QED
    BY <2>1 DEF Keeps
<1>17. QED
  BY <1>1, <1>15, <1>16, Zenon DEF UserDoes

-----------------------------------------------------------------------------
(* Answers and lists *)

\* Counting a move changes nothing else.
LEMMA MoveCounted ==
  ASSUME NEW c, WindowOK(c), c.moves < MaxMoves
  PROVE  LET b == [c EXCEPT !.moves = @ + 1]
         IN  /\ WindowOK(b) /\ b.tabs = c.tabs /\ b.local = c.local /\ b.pend = c.pend /\ b.kill = c.kill
             /\ b.spawns = c.spawns /\ b.asked = c.asked
<1> DEFINE b == [c EXCEPT !.moves = @ + 1]
<1>1. ScreenOK(c) /\ c \in Window
  BY DEF WindowOK, ScreenOK
<1>2. c.moves + 1 \in 0..MaxMoves
  BY <1>1, WorkspaceAssumption DEF Window
<1>3. b = [c EXCEPT !.moves = c.moves + 1]
  OBVIOUS
<1> HIDE DEF b
<1>4. /\ b \in Window /\ b.tabs = c.tabs /\ b.local = c.local /\ b.pend = c.pend /\ b.kill = c.kill
      /\ b.spawns = c.spawns /\ b.asked = c.asked /\ b.starting = c.starting
  BY <1>1, <1>2, <1>3 DEF Window
<1>5. ShownBy(b) = ShownBy(c)
  BY <1>4, Zenon DEF ShownBy
<1>6. ScreenOK(b)
  BY <1>1, <1>4, <1>5 DEF ScreenOK
<1>7. \A q \in b.spawns : SpawnOK(b, q)
  BY <1>4, <1>5 DEF WindowOK, SpawnOK
<1>8. QED
  BY <1>4, <1>6, <1>7 DEF WindowOK, b

\* Of the calls, those in Q are left; nothing else changes.
Answered(o, b, Q) ==
  /\ b.tabs = o.tabs /\ b.local = o.local /\ b.pend = o.pend /\ b.kill = o.kill
  /\ b.spawns = Q /\ b.asked = o.asked /\ b.moves = o.moves

\* q is the call r, perhaps answered since.
SameCall(q, r) == q.sid = r.sid /\ q.kind = r.kind /\ q.tab = r.tab /\ q.idx = r.idx

\* A change of the calls on their way that keeps what they are for keeps the window.
LEMMA CallsKept ==
  ASSUME NEW o, WindowOK(o), NEW b, b \in Window, NEW Q, Answered(o, b, Q),
         Numbered(Q, o.asked), Apart(Q),
         \A q \in Q : (\E r \in o.spawns : SameCall(q, r)) /\ (q.kind = "tab" => b.starting)
  PROVE  WindowOK(b)
<1>1. ScreenOK(o)
  BY DEF WindowOK
<1>2. ShownBy(b) = ShownBy(o)
  BY Zenon DEF ShownBy, Answered
<1>3. ScreenOK(b)
  BY <1>1, <1>2 DEF ScreenOK, Answered
<1>4. ASSUME NEW q \in b.spawns PROVE SpawnOK(b, q)
  <2>1. PICK r \in o.spawns : SameCall(q, r)
    BY DEF Answered
  <2>2. SpawnOK(o, r)
    BY DEF WindowOK
  <2>3. q.kind = "tab" => b.starting
    BY DEF Answered
  <2>4. QED
    BY <1>2, <2>1, <2>2, <2>3 DEF SpawnOK, Answered, SameCall
<1>5. QED
  BY <1>3, <1>4 DEF WindowOK, Answered

\* What a call is among the others, and the others without it.
LEMMA OneCall ==
  ASSUME NEW Q, NEW n, Numbered(Q, n), Apart(Q), NEW q \in Q
  PROVE  /\ Numbered(Q \ {q}, n) /\ Apart(Q \ {q})
         /\ \A p \in Q \ {q} : p.sid # q.sid /\ ~(p.kind = "tab" /\ q.kind = "tab")
         /\ \A p \in Q \ {q} : p.kind = "split" /\ q.kind = "split" => ~(p.tab = q.tab /\ p.idx = q.idx)
<1>1. Numbered(Q \ {q}, n) /\ Apart(Q \ {q})
  BY Zenon DEF Numbered, Apart
<1>2. \A p \in Q \ {q} : p.sid # q.sid
  BY Zenon DEF Numbered
<1>3. \A p \in Q \ {q} : ~(p.kind = "tab" /\ q.kind = "tab")
  BY DEF Apart
<1>4. \A p \in Q \ {q} : p.kind = "split" /\ q.kind = "split" => ~(p.tab = q.tab /\ p.idx = q.idx)
  BY DEF Apart
<1>5. QED
  BY <1>1, <1>2, <1>3, <1>4

\* A call in place of another with the same number and place.
LEMMA CallReplaced ==
  ASSUME NEW Q, NEW n, Numbered(Q, n), Apart(Q), NEW q \in Q, NEW r, SameCall(r, q)
  PROVE  Numbered((Q \ {q}) \cup {r}, n) /\ Apart((Q \ {q}) \cup {r})
<1> DEFINE P == Q \ {q}
<1>1. /\ Numbered(P, n) /\ Apart(P) /\ \A p \in P : p.sid # q.sid
  BY OneCall
<1>2. \A p \in P : ~(p.kind = q.kind /\ (p.kind = "split" => p.tab = q.tab /\ p.idx = q.idx))
  BY DEF Apart
<1>3. \A p \in P : ~(q.kind = p.kind /\ (q.kind = "split" => q.tab = p.tab /\ q.idx = p.idx))
  BY <1>2
<1>4. q.sid \in 1..n
  BY DEF Numbered
<1> HIDE DEF P
<1>5. \A p \in P \cup {r} : p.sid \in 1..n
  BY <1>1, <1>4 DEF Numbered, SameCall
<1>6. \A p, x \in P \cup {r} : p.sid = x.sid => p = x
  BY <1>1, Zenon DEF Numbered, SameCall
<1>7. Apart(P \cup {r})
  BY <1>1, <1>2, <1>3 DEF Apart, SameCall
<1>8. QED
  BY <1>5, <1>6, <1>7, Zenon DEF Numbered, P

\* The host forks a shell that was asked for, which is on no screen.
LEMMA StepHostForks ==
  ASSUME WindowOK(w), NEW q \in w.spawns, HostForks(q)
  PROVE  \E r : /\ WindowOK(w') /\ Answered(w, w', (w.spawns \ {q}) \cup {r}) /\ r.sid = q.sid /\ r.forked
                /\ ~q.forked /\ alive' = alive \cup {q.sid} /\ q.sid \in 1..w.asked /\ q.sid \notin ShownBy(w)
                /\ UNCHANGED <<lists, listed, raw, missing, ripe>>
<1> DEFINE r == [q EXCEPT !.forked = TRUE]
           Q == (w.spawns \ {q}) \cup {r}
<1>1. /\ w \in Window /\ SpawnOK(w, q) /\ Numbered(w.spawns, w.asked) /\ Apart(w.spawns)
      /\ \A p \in w.spawns : SpawnOK(w, p)
  BY DEF WindowOK, ScreenOK
<1>2. q \in Call /\ w.spawns \in SUBSET Call
  BY <1>1 DEF Window
<1>3. r \in Call /\ SameCall(r, q) /\ r.forked
  BY <1>2 DEF Call, SameCall
<1>4. /\ ~q.forked /\ alive' = alive \cup {q.sid} /\ w' = [w EXCEPT !.spawns = Q]
      /\ UNCHANGED <<lists, listed, raw, missing, ripe>>
  BY DEF HostForks
<1> HIDE DEF r
<1>5. Q \in SUBSET Call
  BY <1>2, <1>3
<1>6. Numbered(Q, w.asked) /\ Apart(Q)
  BY <1>1, <1>3, CallReplaced
<1>7. \A p \in Q : \E x \in w.spawns : SameCall(p, x)
  BY <1>3 DEF SameCall
<1> HIDE DEF Q
<1>8. w' \in Window /\ Answered(w, w', Q) /\ w'.starting = w.starting
  BY <1>1, <1>4, <1>5 DEF Window, Answered
<1>9. \A p \in Q : p.kind = "tab" => w'.starting
  BY <1>1, <1>7, <1>8 DEF SpawnOK, SameCall
<1>10. WindowOK(w')
  BY <1>6, <1>7, <1>8, <1>9, CallsKept
<1>11. q.sid \notin ShownBy(w) /\ q.sid \in 1..w.asked
  BY <1>1 DEF SpawnOK, Numbered
<1>12. QED
  BY <1>3, <1>4, <1>8, <1>10, <1>11 DEF SameCall, Q

\* A shell that could not be started leaves the window as it was.
LEMMA StepSpawnFails ==
  ASSUME WindowOK(w), NEW q \in w.spawns, SpawnFails(q)
  PROVE  WindowOK(w') /\ Answered(w, w', w.spawns \ {q}) /\ UNCHANGED rest
<1> DEFINE Q == w.spawns \ {q}
           s == w.starting /\ q.kind # "tab"
<1>1. /\ w \in Window /\ Numbered(w.spawns, w.asked) /\ Apart(w.spawns)
      /\ \A p \in w.spawns : SpawnOK(w, p)
  BY DEF WindowOK, ScreenOK
<1>2. w' = [w EXCEPT !.spawns = Q, !.starting = s] /\ UNCHANGED rest
  BY DEF SpawnFails
<1>3. s \in BOOLEAN /\ Q \in SUBSET Call
  BY <1>1 DEF Window
<1>4. /\ Numbered(Q, w.asked) /\ Apart(Q)
      /\ \A p \in Q : ~(p.kind = "tab" /\ q.kind = "tab")
  BY <1>1, OneCall
<1>5. \A p \in Q : p.kind = "tab" => s
  BY <1>1, <1>4 DEF SpawnOK
<1>6. \A p \in Q : \E r \in w.spawns : SameCall(p, r)
  BY DEF SameCall
<1> HIDE DEF s, Q
<1>7. w' \in Window /\ Answered(w, w', Q) /\ w'.starting = s
  BY <1>1, <1>2, <1>3 DEF Window, Answered
<1>8. WindowOK(w')
  BY <1>4, <1>5, <1>6, <1>7, CallsKept
<1>9. QED
  BY <1>2, <1>7, <1>8 DEF Q

\* The host ends a shell the window had asked it to close, or fails to.
LEMMA StepHostCloses ==
  ASSUME WindowOK(w), NEW s, HostCloses(s)
  PROVE  /\ WindowOK(w') /\ w'.tabs = w.tabs /\ w'.local = w.local /\ w'.pend = w.pend /\ w'.kill = w.kill \ {s}
         /\ w'.spawns = w.spawns /\ w'.asked = w.asked /\ alive' \subseteq alive
         /\ UNCHANGED <<lists, listed, raw, missing, ripe>>
<1>1. ScreenOK(w) /\ w \in Window
  BY DEF WindowOK, ScreenOK
<1>2. /\ w' = [w EXCEPT !.kill = w.kill \ {s}] /\ alive' \subseteq alive
      /\ UNCHANGED <<lists, listed, raw, missing, ripe>>
  BY DEF HostCloses
<1>3. w.kill \ {s} \in SUBSET Locals
  BY <1>1 DEF Window
<1>4. /\ w' \in Window /\ w'.tabs = w.tabs /\ w'.local = w.local /\ w'.pend = w.pend /\ w'.kill = w.kill \ {s}
      /\ w'.spawns = w.spawns /\ w'.asked = w.asked /\ w'.starting = w.starting
  BY <1>1, <1>2, <1>3 DEF Window
<1>5. ShownBy(w') = ShownBy(w)
  BY <1>4, Zenon DEF ShownBy
<1>6. ScreenOK(w')
  BY <1>1, <1>4, <1>5 DEF ScreenOK
<1>7. \A q \in w'.spawns : SpawnOK(w', q)
  BY <1>4, <1>5 DEF WindowOK, SpawnOK
<1>8. WindowOK(w')
  BY <1>4, <1>6, <1>7 DEF WindowOK
<1>9. QED
  BY <1>2, <1>4, <1>8

\* Writing an existing pane of the array.
LEMMA PaneWritten ==
  ASSUME NEW ps \in Seq(Pane), NEW i \in DOMAIN ps, NEW x
  PROVE  SetPane(ps, i, x) = [ps EXCEPT ![i] = x]
<1>1. Len(ps) \in Nat /\ DOMAIN ps = 1..Len(ps) /\ ~(i > Len(ps))
  BY LenProperties
<1>2. SetPane(ps, i, x) = [k \in 1..Len(ps) |-> IF k = i THEN x ELSE IF k <= Len(ps) THEN ps[k] ELSE Hole]
  BY <1>1 DEF SetPane
<1>3. \A k \in 1..Len(ps) : (IF k = i THEN x ELSE IF k <= Len(ps) THEN ps[k] ELSE Hole) = [ps EXCEPT ![i] = x][k]
  BY <1>1
<1>4. [ps EXCEPT ![i] = x] = [k \in 1..Len(ps) |-> [ps EXCEPT ![i] = x][k]]
  BY <1>1
<1>5. QED
  BY <1>2, <1>3, <1>4, Zenon

\* The pane of a shell that has been started.
LEMMA ShellPane ==
  ASSUME NEW s \in Locals
  PROVE  /\ LocalPane(s) \in Pane /\ LocalPane(s).sid = s /\ ~LocalPane(s).rem
         /\ s \in Sids /\ s # None
  BY Counts DEF LocalPane, Pane, Sids

\* The answer of q is seeded, and the shell gets the pane that was meant for it.
Seeded(o, b, q) ==
  /\ WindowOK(b) /\ b.local = o.local \cup {q.sid} /\ b.pend = o.pend \cup {q.sid} /\ b.kill = o.kill
  /\ b.spawns = o.spawns \ {q} /\ b.asked = o.asked
  /\ OnScreen(o.tabs) \subseteq OnScreen(b.tabs)
  /\ OnScreen(b.tabs) \subseteq OnScreen(o.tabs) \cup {LocalPane(q.sid)}

\* The places of the other shells are as they were.
PlacesKept(o, b, q) ==
  \A p \in o.spawns \ {q} :
    /\ p.kind = "tab" => b.starting /\ Len(b.tabs) <= MaxTabs
    /\ p.kind = "split" => \A k \in DOMAIN b.tabs :
         b.tabs[k].id = p.tab => p.idx \in DOMAIN b.tabs[k].panes /\ b.tabs[k].panes[p.idx].sid = None

\* c is o with the answer of q seeded and its pane to be filled.
Answer(o, c, q) ==
  /\ c.local = o.local \cup {q.sid} /\ c.pend = o.pend \cup {q.sid} /\ c.kill = o.kill
  /\ c.spawns = o.spawns \ {q} /\ c.asked = o.asked

\* The window with the answer seeded and the pane filled is one the invariant allows.
LEMMA SeededWindow ==
  ASSUME NEW o, WindowOK(o), NEW q \in o.spawns, NEW b, ScreenOK(b), Answer(o, b, q), PlacesKept(o, b, q),
         OnScreen(b.tabs) = OnScreen(o.tabs) \/ OnScreen(b.tabs) = OnScreen(o.tabs) \cup {LocalPane(q.sid)}
  PROVE  Seeded(o, b, q)
<1>1. ScreenOK(o) /\ Numbered(o.spawns, o.asked) /\ Apart(o.spawns) /\ \A p \in o.spawns : SpawnOK(o, p)
  BY DEF WindowOK, ScreenOK
<1>2. Apart(o.spawns \ {q}) /\ \A p \in o.spawns \ {q} : p.sid # q.sid
  BY <1>1, OneCall
<1>3. ShownBy(b) \subseteq ShownBy(o) \cup {q.sid}
  <2>1. ShownBy(b) = {p.sid : p \in OnScreen(b.tabs)} /\ ShownBy(o) = {p.sid : p \in OnScreen(o.tabs)}
    BY <1>1, ShownOnScreen
  <2>2. LocalPane(q.sid).sid = q.sid
    BY DEF LocalPane
  <2>3. QED
    BY <2>1, <2>2
<1>4. ASSUME NEW p \in o.spawns \ {q} PROVE SpawnOK(b, p)
  <2>1. p.sid \notin ShownBy(b)
    BY <1>1, <1>2, <1>3 DEF SpawnOK
  <2>2. QED
    BY <2>1 DEF SpawnOK, PlacesKept
<1>5. WindowOK(b)
  BY <1>2, <1>4 DEF WindowOK, Answer
<1>6. QED
  BY <1>5 DEF Seeded, Answer

\* The answer of a shell finds its pane empty, or its tab gone.
LEMMA StepSpawnReturns ==
  ASSUME WindowOK(w), NEW q \in w.spawns, SpawnReturns(q)
  PROVE  Seeded(w, w', q) /\ UNCHANGED rest
<1> DEFINE s == q.sid
           x == LocalPane(s)
           o == [w EXCEPT !.spawns = @ \ {q}, !.pend = @ \cup {s}, !.local = @ \cup {s}]
           Q == w.spawns \ {q}
<1>1. /\ ScreenOK(w) /\ w \in Window /\ SpawnOK(w, q) /\ TabsOK(w.tabs)
      /\ Numbered(w.spawns, w.asked) /\ Apart(w.spawns) /\ \A p \in w.spawns : SpawnOK(w, p)
  BY DEF WindowOK, ScreenOK
<1>2. q \in Call /\ s \in Locals /\ s \notin ShownBy(w) /\ w.asked \in Nat
  BY <1>1 DEF Window, Call, SpawnOK
<1>3. s \in 1..w.asked
  BY <1>1 DEF Numbered
<1>4. x \in Pane /\ x.sid = s /\ ~x.rem /\ s \in Sids /\ s # None
  BY <1>2, ShellPane
<1>5. /\ Numbered(Q, w.asked) /\ \A p \in Q : p.sid # s /\ ~(p.kind = "tab" /\ q.kind = "tab")
      /\ \A p \in Q : p.kind = "split" /\ q.kind = "split" => ~(p.tab = q.tab /\ p.idx = q.idx)
  BY <1>1, OneCall
<1>6. /\ o \in Window /\ o.tabs = w.tabs /\ o.cur = w.cur /\ Answer(w, o, q)
      /\ o.moves = w.moves /\ o.starting = w.starting
  <2>1. o = [w EXCEPT !.spawns = Q, !.pend = w.pend \cup {s}, !.local = w.local \cup {s}]
    OBVIOUS
  <2>2. w.pend \cup {s} \in SUBSET Locals /\ w.local \cup {s} \in SUBSET Locals /\ Q \in SUBSET Call
    BY <1>1, <1>2 DEF Window
  <2> HIDE DEF o
  <2>3. QED
    BY <1>1, <2>1, <2>2 DEF Window, Answer
<1>7. /\ UNCHANGED rest
      /\ w' = IF q.kind = "tab"
              THEN [OpenTab(o, SingleTab(FreeTab(o), x)) EXCEPT !.starting = FALSE]
              ELSE IF HasTab(o, q.tab)
              THEN PutTab(o, [TabOf(o, q.tab) EXCEPT !.panes = SetPane(@, q.idx, x)])
              ELSE o
  BY Zenon DEF SpawnReturns
<1> HIDE DEF o, x
<1>14. o.spawns = Q /\ o.asked = w.asked /\ o.local = w.local \cup {s} /\ o.pend = w.pend \cup {s} /\ o.kill = w.kill
  BY <1>6 DEF Answer
<1> HIDE DEF Q
<1>8. ShownBy(o) = ShownBy(w)
  BY <1>6, Zenon DEF ShownBy
<1>9. ScreenOK(o)
  BY <1>1, <1>3, <1>5, <1>6, <1>8, <1>14 DEF ScreenOK
<1>10. CASE q.kind = "tab"
  <2> DEFINE b == OpenTab(o, SingleTab(FreeTab(o), x))
             c == [b EXCEPT !.starting = FALSE]
  <2>1. Room(o)
    <3>1. Len(o.tabs) <= MaxTabs
      BY <1>1, <1>6, <1>10 DEF SpawnOK
    <3>2. QED
      BY <1>2, <1>5, <1>14, <3>1 DEF Room
  <2>2. /\ ScreenOK(b) /\ SameBut(o, b) /\ OnScreen(b.tabs) = OnScreen(o.tabs) \cup {x}
        /\ \A k \in DOMAIN b.tabs :
             (\A p \in o.spawns : p.tab # b.tabs[k].id) \/ \E j \in DOMAIN o.tabs : b.tabs[k] = o.tabs[j]
    BY <1>2, <1>3, <1>4, <1>8, <1>9, <1>14, <2>1, SessionOpens
  <2> HIDE DEF b
  <2>3. /\ c \in Window /\ c.tabs = b.tabs /\ c.local = b.local /\ c.pend = b.pend /\ c.kill = b.kill
        /\ c.spawns = b.spawns /\ c.asked = b.asked
    BY <2>2 DEF ScreenOK, Window
  <2>4. w' = c
    BY <1>7, <1>10 DEF b
  <2> HIDE DEF c
  <2>5. ShownBy(c) = ShownBy(b)
    BY <2>3, Zenon DEF ShownBy
  <2>6. ScreenOK(c)
    BY <2>2, <2>3, <2>5 DEF ScreenOK
  <2>7. PlacesKept(w, c, q)
    <3>1. SUFFICES ASSUME NEW p \in Q
                   PROVE  /\ p.kind # "tab"
                          /\ p.kind = "split" => \A k \in DOMAIN c.tabs : c.tabs[k].id = p.tab =>
                                p.idx \in DOMAIN c.tabs[k].panes /\ c.tabs[k].panes[p.idx].sid = None
      BY Zenon DEF PlacesKept, Q
    <3>2. p.kind # "tab"
      BY <1>5, <1>10
    <3>3. ASSUME p.kind = "split", NEW k \in DOMAIN c.tabs, c.tabs[k].id = p.tab
          PROVE  p.idx \in DOMAIN c.tabs[k].panes /\ c.tabs[k].panes[p.idx].sid = None
      <4>1. PICK j \in DOMAIN o.tabs : c.tabs[k] = o.tabs[j]
        BY <1>14, <2>2, <2>3, <3>3
      <4>2. SpawnOK(w, p)
        BY <1>1 DEF Q
      <4>3. QED
        BY <1>6, <3>3, <4>1, <4>2 DEF SpawnOK
    <3>4. QED
      BY <3>2, <3>3
  <2>8. Answer(w, c, q)
    BY <1>6, <2>2, <2>3 DEF Answer, SameBut
  <2>9. OnScreen(c.tabs) = OnScreen(w.tabs) \cup {LocalPane(q.sid)}
    BY <1>6, <2>2, <2>3 DEF x
  <2>10. Seeded(w, c, q)
    BY <2>6, <2>7, <2>8, <2>9, SeededWindow
  <2>11. QED
    BY <1>7, <2>4, <2>10
<1>11. CASE q.kind # "tab" /\ HasTab(o, q.tab)
  <2> DEFINE t  == TabOf(o, q.tab)
             ps == [t.panes EXCEPT ![q.idx] = x]
             u  == Repaned(t, ps, t.act)
             b  == PutTab(o, u)
  <2>1. TabOK(t) /\ t.id = q.tab /\ t \in Tab /\ t = o.tabs[At(o, q.tab)] /\ At(o, q.tab) \in DOMAIN o.tabs
    BY <1>9, <1>11, TabFound DEF ScreenOK
  <2>2. q.kind = "split"
    BY <1>2, <1>11 DEF Call
  <2>3. q.idx \in DOMAIN t.panes /\ t.panes[q.idx].sid = None
    BY <1>1, <1>6, <2>1, <2>2 DEF SpawnOK
  <2>4. Shows(t) \subseteq ShownBy(o) /\ Shows(t) \cap Locals \subseteq 1..o.asked /\ Filled(t.panes) \subseteq OnScreen(o.tabs)
    BY <1>9, <1>11, TabAmong
  <2>5. s \notin Shows(t)
    BY <1>2, <1>8, <2>4
  <2> HIDE DEF t
  <2>6. ps \in Seq(Pane) /\ Len(ps) = Len(t.panes) /\ DOMAIN ps = DOMAIN t.panes /\ Distinct(ps) /\ Filled(ps) = Filled(t.panes) \cup {x}
    BY <1>4, <2>1, <2>3, <2>5, FillPane
  <2>18. \A i \in DOMAIN t.panes : i # q.idx => ps[i] = t.panes[i]
    OBVIOUS
  <2>7. SetPane(t.panes, q.idx, x) = ps
    <3>1. t.panes \in Seq(Pane)
      BY <2>1 DEF Tab
    <3>2. QED
      BY <2>3, <3>1, PaneWritten
  <2> HIDE DEF ps
  <2>8. t.act \in DOMAIN ps
    BY <2>1, <2>6 DEF TabOK
  <2>9. TabOK(u) /\ u.id = q.tab /\ u.panes = ps
    BY <2>1, <2>6, <2>8, RepanedTab
  <2>10. u = [t EXCEPT !.panes = SetPane(@, q.idx, x)]
    BY <2>1, <2>7 DEF Repaned, Tab
  <2> HIDE DEF u
  <2>11. w' = b
    BY <1>7, <1>11, <2>10 DEF t
  <2>12. Shows(u) = Shows(t) \cup {s}
    <3>1. Shows(u) = {p.sid : p \in Filled(ps)} /\ Shows(t) = {p.sid : p \in Filled(t.panes)}
      BY <2>1, <2>9, TabShows DEF TabOK
    <3>2. QED
      BY <1>4, <2>6, <3>1
  <2>13. Fits(o, u)
    BY <1>2, <1>3, <1>8, <1>11, <1>14, <2>4, <2>9, <2>12 DEF Fits, t
  <2>14. Placed(o, b, u)
    BY <1>9, <2>13, TabPlaced
  <2> HIDE DEF b
  <2>15. OnScreen(b.tabs) = OnScreen(o.tabs) \cup {x}
    <3>1. OnScreen(b.tabs) = (OnScreen(o.tabs) \ Filled(t.panes)) \cup (Filled(t.panes) \cup {x})
      BY <2>6, <2>9, <2>14 DEF Placed, t
    <3>2. QED
      BY <2>4, <3>1
  <2>19. /\ ScreenOK(b) /\ SameBut(o, b) /\ DOMAIN b.tabs = DOMAIN o.tabs /\ Len(b.tabs) = Len(o.tabs)
         /\ \A k \in DOMAIN o.tabs : b.tabs[k] = IF k = At(o, q.tab) THEN u ELSE o.tabs[k]
    BY <2>9, <2>14 DEF Placed
  <2>20. PlacesKept(w, b, q)
    <3>1. SUFFICES ASSUME NEW p \in Q
                   PROVE  /\ p.kind = "tab" => b.starting /\ Len(b.tabs) <= MaxTabs
                          /\ p.kind = "split" => \A k \in DOMAIN b.tabs : b.tabs[k].id = p.tab =>
                                p.idx \in DOMAIN b.tabs[k].panes /\ b.tabs[k].panes[p.idx].sid = None
      BY Zenon DEF PlacesKept, Q
    <3>2. SpawnOK(w, p)
      BY <1>1 DEF Q
    <3>3. p.kind = "tab" => b.starting /\ Len(b.tabs) <= MaxTabs
      BY <1>6, <2>19, <3>2 DEF SpawnOK, SameBut
    <3>4. ASSUME p.kind = "split", NEW k \in DOMAIN b.tabs, b.tabs[k].id = p.tab
          PROVE  p.idx \in DOMAIN b.tabs[k].panes /\ b.tabs[k].panes[p.idx].sid = None
      <4>1. k \in DOMAIN o.tabs /\ o.tabs[k].id = p.tab
        BY <2>1, <2>9, <2>19, <3>4
      <4>2. p.idx \in DOMAIN o.tabs[k].panes /\ o.tabs[k].panes[p.idx].sid = None
        BY <1>6, <3>2, <3>4, <4>1 DEF SpawnOK
      <4>3. CASE k = At(o, q.tab)
        <5>1. p.idx # q.idx
          BY <1>5, <2>1, <2>2, <3>4, <4>1, <4>3
        <5>2. b.tabs[k].panes = ps /\ o.tabs[k].panes = t.panes
          BY <2>1, <2>9, <2>19, <4>1, <4>3
        <5>3. QED
          BY <2>6, <2>18, <4>2, <5>1, <5>2
      <4>4. CASE k # At(o, q.tab)
        BY <2>19, <4>1, <4>2, <4>4
      <4>5. QED
        BY <4>3, <4>4
    <3>5. QED
      BY <3>3, <3>4
  <2>16. Seeded(w, b, q)
    <3>1. Answer(w, b, q)
      BY <1>6, <2>19 DEF Answer, SameBut
    <3>2. OnScreen(b.tabs) = OnScreen(w.tabs) \cup {LocalPane(q.sid)}
      BY <1>6, <2>15 DEF x
    <3>3. QED
      BY <2>19, <2>20, <3>1, <3>2, SeededWindow
  <2>17. QED
    BY <1>7, <2>11, <2>16
<1>12. CASE q.kind # "tab" /\ ~HasTab(o, q.tab)
  <2>1. w' = o
    BY <1>7, <1>12
  <2>2. PlacesKept(w, o, q)
    BY <1>1, <1>6 DEF PlacesKept, SpawnOK
  <2>3. Seeded(w, o, q)
    BY <1>6, <1>9, <2>2, SeededWindow
  <2>4. QED
    BY <1>7, <2>1, <2>3
<1>13. QED
  BY <1>10, <1>11, <1>12

\* The list arrives: the window holds what it names and what is pending, and
\* panes of the local host show what it holds.
LEMMA StepApplyLocalSessions ==
  ASSUME WindowOK(w), lists \in Seq(SUBSET (1..w.asked)), ApplyLocalSessions
  PROVE  /\ WindowOK(w') /\ w'.kill = w.kill /\ w'.asked = w.asked /\ w'.spawns = w.spawns
         /\ lists # << >> /\ lists' = Tail(lists)
         /\ w'.pend = (w.pend \ Head(lists)) \cap w.local /\ w'.local = Head(lists) \cup w'.pend
         /\ OnScreen(w'.tabs) = {p \in OnScreen(w.tabs) : p.rem \/ p.sid \in w'.local}
         /\ UNCHANGED <<alive, listed, raw, missing, ripe>>
<1> DEFINE a == Head(lists)
           b == MergeLocalSessions(w, a)
           c == SweepMissingSessions(b)
<1>1. /\ lists # << >> /\ lists' = Tail(lists) /\ w' = c
      /\ UNCHANGED <<alive, listed, raw, missing, ripe>>
  BY Zenon DEF ApplyLocalSessions
<1>2. a \in SUBSET (1..w.asked)
  <2> DEFINE S == SUBSET (1..w.asked)
  <2> HIDE DEF S
  <2>1. lists \in Seq(S)
    BY DEF S
  <2>2. a \in S
    BY <1>1, <2>1
  <2>3. QED
    BY <2>2 DEF S
<1> HIDE DEF a
<1>3. /\ WindowOK(b) /\ b.tabs = w.tabs /\ b.kill = w.kill /\ b.asked = w.asked
      /\ b.spawns = w.spawns
      /\ b.pend = (w.pend \ a) \cap w.local /\ b.local = a \cup b.pend
  BY <1>2, ListMerged
<1> HIDE DEF b
<1>4. /\ WindowOK(c) /\ SameBut(b, c)
      /\ OnScreen(c.tabs) = {p \in OnScreen(b.tabs) : p.rem \/ p.sid \in b.local}
  BY <1>3, ShellsSwept
<1> HIDE DEF c
<1>5. QED
  BY <1>1, <1>3, <1>4 DEF SameBut, a

\* The relay's list arrives.
LEMMA StepApplyRemoteSessions ==
  ASSUME WindowOK(w), NEW S \in SUBSET Remotes, ApplyRemoteSessions(S)
  PROVE  /\ WindowOK(w') /\ SameBut(w, w') /\ raw' = S /\ missing' \subseteq Sids /\ ripe' \subseteq missing'
         /\ OnScreen(w'.tabs) \subseteq OnScreen(w.tabs)
         /\ \A x \in OnScreen(w.tabs) : x.rem \/ x \in OnScreen(w'.tabs)
         /\ UNCHANGED <<alive, lists, listed>>
<1> DEFINE p == PruneStaleRemoteTabs(S)
           c == [w EXCEPT !.tabs = p.left,
                          !.cur = IF HasTab(w, @) /\ ~(\E t \in Range(p.left) : t.id = w.cur) /\ p.left # << >>
                                  THEN p.left[1].id ELSE @]
<1>1. w' = c /\ raw' = S /\ missing' = p.missing /\ ripe' = ripe \cap p.missing /\ UNCHANGED <<alive, lists, listed>>
  BY Zenon DEF ApplyRemoteSessions
<1>2. /\ WindowOK(c) /\ SameBut(w, c) /\ p.missing \subseteq Sids
      /\ OnScreen(c.tabs) \subseteq OnScreen(w.tabs)
      /\ \A x \in OnScreen(w.tabs) : x.rem \/ x \in OnScreen(c.tabs)
  BY RemotesPruned, Zenon
<1> HIDE DEF c, p
<1>3. QED
  BY <1>1, <1>2

-----------------------------------------------------------------------------
(* The inductive invariant holds *)

\* The disjuncts of Next in which the user acts.
UserNext ==
  \/ StartNewTab \/ (\E d \in {"vertical", "horizontal"} : OnSplit(d))
  \/ \E id \in TabIds : \/ OnCloseTab(id)
                        \/ \E i \in 1..4 : \/ OnClosePane(id, i) \/ OnFocus(id, i)
                                           \/ \E s \in Locals \cup Remotes : OnDrop(id, i, s)
  \/ \E s \in Locals \cup Remotes : OnOpen(s) \/ OnDetach(s)
  \/ \E n \in 1..4 : \E ids \in [1..n -> Known] : OnMerge(ids)
  \/ \E i, j \in 1..MaxTabs : OnTabReorder(i, j)

\* Every move of the user counts, and is looked at for what it disturbs.
LEMMA UserMoves ==
  ASSUME UserNext
  PROVE  Ready /\ \E c : Does(c)
<1>1. Ready
  BY Zenon DEF UserNext, StartNewTab, OnSplit, OnCloseTab, OnClosePane, OnFocus, OnDrop, OnOpen, OnDetach,
     OnMerge, OnTabReorder
<1>2. ASSUME NEW id, NEW i, NEW s, OnDrop(id, i, s) PROVE \E c : Does(c)
  BY <1>2, Zenon DEF OnDrop
<1>3. ASSUME NEW ids, OnMerge(ids) PROVE \E c : Does(c)
  BY <1>3, Zenon DEF OnMerge
<1>4. ASSUME NEW s, OnDetach(s) PROVE \E c : Does(c)
  BY <1>4, Zenon DEF OnDetach
<1>5. ASSUME NEW d, OnSplit(d) PROVE \E c : Does(c)
  BY <1>5, Zenon DEF OnSplit
<1>6. \E c : Does(c)
  BY <1>2, <1>3, <1>4, <1>5, Zenon DEF UserNext, StartNewTab, OnCloseTab, OnClosePane, OnFocus, OnOpen, OnTabReorder
<1>7. QED
  BY <1>1, <1>6

\* A move that disturbs nothing that waits for a shell leaves every shell the place
\* that is meant for it.
LEMMA PlacesStay ==
  ASSUME WindowOK(w), NEW c, NEW D, Sound(w, c, D), Undisturbed(c)
  PROVE  WindowOK(c)
<1>1. /\ ScreenOK(w) /\ Apart(w.spawns) /\ \A q \in w.spawns : SpawnOK(w, q)
      /\ ScreenOK(c) /\ Bounded(w, c) /\ Starts(w, c)
  BY DEF WindowOK, Sound
<1>2. /\ \A q \in c.spawns : q.kind = "tab" \/ q.kind = "split"
      /\ Len(c.tabs) \in Nat /\ Len(w.tabs) \in Nat
  BY <1>1, LenProperties DEF ScreenOK, Window, Call, TabsOK
<1>3. ASSUME NEW q \in w.spawns PROVE SpawnOK(c, q)
  <2>1. SpawnOK(w, q)
    BY <1>1
  <2>2. q.sid \notin ShownBy(c)
    BY DEF Undisturbed
  <2>3. q.kind = "tab" => c.starting /\ Len(c.tabs) <= MaxTabs
    BY <1>1, <1>2, <2>1, WorkspaceAssumption DEF SpawnOK, Bounded, Starts
  <2>4. ASSUME q.kind = "split", NEW k \in DOMAIN c.tabs, c.tabs[k].id = q.tab
        PROVE  q.idx \in DOMAIN c.tabs[k].panes /\ c.tabs[k].panes[q.idx].sid = None
    <3>1. c.tabs[k] \in Range(c.tabs)
      BY DEF Range
    <3>2. PICK u \in Range(w.tabs) : u.id = q.tab /\ u.panes = c.tabs[k].panes
      BY <2>4, <3>1, Zenon DEF Undisturbed
    <3>3. PICK j \in DOMAIN w.tabs : u = w.tabs[j]
      BY DEF Range
    <3>4. q.idx \in DOMAIN w.tabs[j].panes /\ w.tabs[j].panes[q.idx].sid = None
      BY <2>1, <2>4, <3>2, <3>3 DEF SpawnOK
    <3>5. QED
      BY <3>2, <3>3, <3>4
  <2>5. QED
    BY <2>2, <2>3, <2>4 DEF SpawnOK
<1>4. CASE c.spawns = w.spawns
  BY <1>1, <1>3, <1>4 DEF WindowOK
<1>5. ASSUME NEW r, NewCall(w, c, r) PROVE WindowOK(c)
  <2>1. c.spawns = w.spawns \cup {r} /\ SpawnOK(c, r) /\ (r.kind = "tab" => ~w.starting)
    BY <1>5 DEF NewCall
  <2>2. \A q \in c.spawns : SpawnOK(c, q)
    BY <1>3, <2>1
  <2>3. ASSUME NEW q \in w.spawns, r \notin w.spawns
        PROVE  ~(q.kind = r.kind /\ (q.kind = "split" => q.tab = r.tab /\ q.idx = r.idx))
    <3>1. CASE r.kind = "tab"
      BY <1>1, <2>1, <3>1 DEF SpawnOK
    <3>2. CASE r.kind = "split"
      <4>1. r \in c.spawns \ w.spawns
        BY <2>1, <2>3
      <4>2. q.kind = "split" => ~(r.tab = q.tab /\ r.idx = q.idx)
        BY <4>1, Zenon DEF Undisturbed
      <4>3. QED
        BY <3>2, <4>2
    <3>3. QED
      BY <1>2, <2>1, <3>1, <3>2
  <2>4. Apart(c.spawns)
    <3>1. CASE r \in w.spawns
      <4>1. c.spawns = w.spawns
        BY <2>1, <3>1
      <4>2. QED
        BY <1>1, <4>1
    <3>2. CASE r \notin w.spawns
      BY <1>1, <2>1, <2>3, <3>2 DEF Apart
    <3>3. QED
      BY <3>1, <3>2
  <2>5. QED
    BY <1>1, <2>2, <2>4 DEF WindowOK
<1>6. QED
  BY <1>1, <1>4, <1>5 DEF Starts

\* What a step of the user does to the window.
Acts(D) ==
  /\ WindowOK(w') /\ w.asked <= w'.asked
  /\ w'.local = w.local \ D /\ w'.pend = w.pend \ D /\ w'.kill = w.kill \cup D
  /\ \A p \in OnScreen(w'.tabs) : p.sid \notin D /\ (p.rem \/ p \in OnScreen(w.tabs) \/ p.sid \in w'.local)
  /\ \A q \in w'.spawns : q \in w.spawns \/ q.sid = w.asked + 1
  /\ UNCHANGED rest /\ Keeps(w, w', D)

\* Every move of the user that disturbs nothing does so.
LEMMA UserSteps ==
  ASSUME WindowOK(w), raw \subseteq Remotes, UserNext, ~disturbed'
  PROVE  \E D : Acts(D)
<1>2. w.moves < MaxMoves
  BY UserMoves DEF Ready
<1>3. Screen
  BY DEF Screen
<1> DEFINE Good(c, D) == UserDoes(c, D) /\ Keeps(w, c, D)
<1>4. \E c, D : Good(c, D)
  <2>1. CASE StartNewTab
    BY <1>3, <2>1, StepStartNewTab, Zenon
  <2>2. CASE \E d \in {"vertical", "horizontal"} : OnSplit(d)
    BY <1>3, <2>2, StepOnSplit, Zenon
  <2>3. CASE \E id \in TabIds : OnCloseTab(id)
    BY <1>3, <2>3, StepOnCloseTab, Zenon
  <2>4. CASE \E id \in TabIds : \E i \in 1..4 : OnClosePane(id, i)
    BY <1>3, <2>4, StepOnClosePane, Zenon
  <2>5. CASE \E id \in TabIds : \E i \in 1..4 : OnFocus(id, i)
    BY <1>3, <2>5, StepOnFocus, Zenon
  <2>6. CASE \E id \in TabIds : \E i \in 1..4 : \E s \in Locals \cup Remotes : OnDrop(id, i, s)
    BY <1>3, <2>6, StepOnDrop, Zenon
  <2>7. CASE \E s \in Locals \cup Remotes : OnOpen(s)
    BY <1>3, <2>7, StepOnOpen, Zenon
  <2>8. CASE \E s \in Locals \cup Remotes : OnDetach(s)
    BY <1>3, <2>8, StepOnDetach, Zenon
  <2>9. CASE \E n \in 1..4 : \E ids \in [1..n -> Known] : OnMerge(ids)
    BY <1>3, <2>9, StepOnMerge, Zenon
  <2>10. CASE \E i, j \in 1..MaxTabs : OnTabReorder(i, j)
    BY <1>3, <2>10, StepOnTabReorder, Zenon
  <2> HIDE DEF Good
  <2>11. QED
    BY <2>1, <2>2, <2>3, <2>4, <2>5, <2>6, <2>7, <2>8, <2>9, <2>10, Zenon DEF UserNext
<1>5. PICK c, D : UserDoes(c, D) /\ Keeps(w, c, D)
  BY <1>4
<1>6. /\ Sound(w, c, D) /\ w' = [c EXCEPT !.moves = @ + 1] /\ disturbed' = (disturbed \/ ~Undisturbed(c))
      /\ UNCHANGED rest
  BY <1>5, Zenon DEF UserDoes, Does
<1>12. Undisturbed(c)
  BY <1>6, Zenon
<1>7. WindowOK(c) /\ c.moves < MaxMoves
  BY <1>2, <1>6, <1>12, PlacesStay DEF Sound
<1>8. /\ WindowOK(w') /\ w'.tabs = c.tabs /\ w'.local = c.local /\ w'.pend = c.pend /\ w'.kill = c.kill
      /\ w'.spawns = c.spawns /\ w'.asked = c.asked
  BY <1>6, <1>7, MoveCounted
<1>9. Keeps(w, w', D)
  BY <1>5, <1>8 DEF Keeps
<1>13. w.asked <= c.asked /\ \A q \in c.spawns : q \in w.spawns \/ q.sid = w.asked + 1
  BY <1>6 DEF Sound, Starts, NewCall
<1>14. /\ c.local = w.local \ D /\ c.pend = w.pend \ D /\ c.kill = w.kill \cup D
       /\ \A p \in OnScreen(c.tabs) : p.sid \notin D /\ (p.rem \/ p \in OnScreen(w.tabs) \/ p.sid \in c.local)
  BY <1>6 DEF Sound
<1>10. Acts(D)
  BY <1>6, <1>8, <1>9, <1>13, <1>14, Zenon DEF Acts
<1>11. QED
  BY <1>10

\* Next, by who acts.
LEMMA NextSplit ==
  ASSUME Next
  PROVE  \/ UserNext
         \/ \E q \in w.spawns : HostForks(q) \/ SpawnFails(q) \/ SpawnReturns(q)
         \/ \E s \in Locals : HostCloses(s) \/ ShellExits(s)
         \/ HostLists \/ ApplyLocalSessions
         \/ \E S \in SUBSET Remotes : ApplyRemoteSessions(S)
         \/ GraceElapses \/ RelayReconfigured
  BY Zenon DEF Next, UserNext

\* A sequence over a set is one over a larger set.
LEMMA SeqOfMore ==
  ASSUME NEW S, NEW T, S \subseteq T, NEW x \in Seq(S)
  PROVE  x \in Seq(T)
<1>1. Len(x) \in Nat /\ DOMAIN x = 1..Len(x) /\ x = [i \in 1..Len(x) |-> x[i]]
  BY LenProperties
<1>2. \A i \in 1..Len(x) : x[i] \in T
  BY <1>1, ElementOfSeq
<1>3. x \in [1..Len(x) -> T]
  BY <1>1, <1>2, Zenon
<1>4. QED
  BY <1>1, <1>3

\* The lists' part of Inv, for a window that has asked for more.
ListsOK(n) == alive \subseteq 1..n /\ listed \subseteq 1..n /\ lists \in Seq(SUBSET (1..n))

\* Lists of the shells asked for so far remain so when another is asked for.
LEMMA ListsGrow ==
  ASSUME NEW m \in Nat, NEW n \in Nat, m <= n, ListsOK(m)
  PROVE  ListsOK(n)
<1>1. 1..m \subseteq 1..n
  OBVIOUS
<1>2. SUBSET (1..m) \subseteq SUBSET (1..n)
  BY <1>1
<1>3. lists \in Seq(SUBSET (1..n))
  BY <1>2, SeqOfMore, Zenon DEF ListsOK
<1>4. QED
  BY <1>1, <1>3 DEF ListsOK

\* The restored tab.
LEMMA RestoredTab ==
  /\ TabOK(Restored) /\ Shows(Restored) \cap Locals \subseteq 1..1
<1> DEFINE x  == LocalPane(1)
           y  == [sid |-> MaxSpawn + 1, rem |-> TRUE]
           ps == <<x, y>>
<1>1. 1 \in Locals /\ MaxSpawn + 1 \in Remotes /\ MaxSpawn + 1 # 1 /\ MaxSpawn + 1 \notin Locals /\ 1 \in TabIds
  BY WorkspaceAssumption DEF Locals, Remotes, TabIds
<1>2. x \in Pane /\ x.sid = 1
  BY <1>1, ShellPane
<1>3. y \in Pane /\ y.sid = MaxSpawn + 1
  BY <1>1 DEF Pane, Sids
<1>4. Restored = [id |-> 1, lay |-> "vertical", act |-> 1, panes |-> ps]
  BY DEF Restored
<1> HIDE DEF x, y
<1>5. ps \in Seq(Pane) /\ Len(ps) = 2 /\ DOMAIN ps = 1..2 /\ ps[1] = x /\ ps[2] = y
  BY <1>2, <1>3
<1> HIDE DEF ps
<1>6. Distinct(ps)
  <2>1. \A i, j \in 1..2 : i = j \/ (i = 1 /\ j = 2) \/ (i = 2 /\ j = 1)
    OBVIOUS
  <2>2. QED
    BY <1>1, <1>2, <1>3, <1>5, <2>1 DEF Distinct
<1>7. Restored \in Tab /\ Restored.panes = ps /\ Restored.lay = "vertical" /\ Restored.act = 1
  BY <1>1, <1>4, <1>5 DEF Tab, Layouts
<1>8. TabOK(Restored)
  BY <1>5, <1>6, <1>7, Counts DEF TabOK
<1>9. \A i \in DOMAIN ps : ps[i].sid = 1 \/ ps[i].sid = MaxSpawn + 1
  <2>1. \A i \in 1..2 : i = 1 \/ i = 2
    OBVIOUS
  <2>2. QED
    BY <1>2, <1>3, <1>5, <2>1
<1>10. \A s \in Shows(Restored) : s = 1 \/ s = MaxSpawn + 1
  BY <1>7, <1>9, TabShows
<1>11. QED
  BY <1>1, <1>8, <1>10

\* The empty window, and the one with a restored tab.
LEMMA InvInit ==
  ASSUME Init
  PROVE  Inv /\ ~disturbed
<1>1. PICK n \in {0, 1} :
        /\ alive = 1..n
        /\ w = [tabs |-> IF n = 0 THEN << >> ELSE <<Restored>>, cur |-> n,
                local |-> 1..n, pend |-> 1..n, kill |-> {}, starting |-> FALSE, spawns |-> {},
                asked |-> n, moves |-> n]
  BY Zenon DEF Init
<1>2. /\ listed = {} /\ lists = << >> /\ raw = {} /\ missing = {} /\ ripe = {} /\ ~disturbed
  BY DEF Init
<1> DEFINE T == IF n = 0 THEN << >> ELSE <<Restored>>
<1>3. TabsOK(T) /\ Len(T) <= MaxTabs + 1 /\ \A k \in DOMAIN T : Shows(T[k]) \cap Locals \subseteq 1..n
  <2>1. CASE n = 0
    <3>1. T = << >>
      BY <2>1
    <3>2. T \in Seq(Tab) /\ Len(T) = 0 /\ DOMAIN T = {}
      BY <3>1
    <3> HIDE DEF T
    <3>3. QED
      BY <3>2, WorkspaceAssumption DEF TabsOK
  <2>2. CASE n = 1
    <3>1. T = <<Restored>> /\ TabOK(Restored) /\ Restored \in Tab
      BY <2>2, RestoredTab DEF TabOK
    <3>2. T \in Seq(Tab) /\ Len(T) = 1 /\ DOMAIN T = 1..1 /\ T[1] = Restored
      BY <3>1
    <3> HIDE DEF T
    <3>3. \A k \in DOMAIN T : k = 1
      BY <3>2
    <3>4. TabsOK(T)
      BY <3>1, <3>2, <3>3 DEF TabsOK
    <3>5. \A k \in DOMAIN T : Shows(T[k]) \cap Locals \subseteq 1..1
      BY <3>2, <3>3, RestoredTab
    <3>6. QED
      BY <2>2, <3>2, <3>4, <3>5, WorkspaceAssumption
  <2>3. QED
    BY <2>1, <2>2
<1>4. 1..n \in SUBSET Locals /\ n \in 0..MaxSpawn /\ n \in 0..MaxMoves /\ n \in TabIds \cup {None}
  BY WorkspaceAssumption DEF Locals, TabIds, None
<1>5. T \in Seq(Tab)
  BY <1>3 DEF TabsOK
<1> HIDE DEF T
<1>6. w = [tabs |-> T, cur |-> n, local |-> 1..n, pend |-> 1..n, kill |-> {}, starting |-> FALSE, spawns |-> {},
           asked |-> n, moves |-> n]
  BY <1>1 DEF T
<1>7. w \in Window /\ w.tabs = T /\ w.local = 1..n /\ w.pend = 1..n /\ w.spawns = {} /\ w.asked = n
  BY <1>4, <1>5, <1>6 DEF Window
<1>8. ShownBy(w) \cap Locals \subseteq 1..n
  BY <1>3, <1>7 DEF ShownBy
<1>9. ScreenOK(w)
  BY <1>3, <1>7, <1>8 DEF ScreenOK, Numbered
<1>10. WindowOK(w)
  BY <1>7, <1>9 DEF WindowOK, Apart
<1>11. lists \in Seq(SUBSET (1..w.asked))
  BY <1>2
<1>12. QED
  BY <1>1, <1>2, <1>7, <1>10, <1>11 DEF Inv

\* The invariant but for the window.
RestOK(n) == ListsOK(n) /\ raw \subseteq Remotes /\ ripe \subseteq missing /\ missing \subseteq Sids

\* The invariant is that of the window and that of the rest, in either state.
LEMMA InvParts ==
  (Inv <=> WindowOK(w) /\ RestOK(w.asked)) /\ (Inv' <=> WindowOK(w') /\ RestOK(w.asked)')
  BY DEF Inv, RestOK, ListsOK

\* Every step keeps the invariant, one action at a time.
LEMMA InvNext ==
  ASSUME Inv, [Next]_vars, ~disturbed'
  PROVE  Inv'
<1>1. /\ WindowOK(w) /\ RestOK(w.asked) /\ ListsOK(w.asked) /\ w.asked \in Nat
      /\ raw \subseteq Remotes /\ ripe \subseteq missing /\ missing \subseteq Sids
  BY InvParts DEF RestOK, WindowOK, ScreenOK, Window
<1>2. CASE UserNext
  <2>1. PICK D : Acts(D)
    BY <1>1, <1>2, UserSteps
  <2>2. /\ WindowOK(w') /\ w.asked <= w'.asked
        /\ alive' = alive /\ lists' = lists /\ listed' = listed /\ raw' = raw /\ missing' = missing /\ ripe' = ripe
    BY <2>1 DEF Acts, rest
  <2>3. w'.asked \in Nat
    BY <2>2 DEF WindowOK, ScreenOK, Window
  <2>4. ListsOK(w'.asked)
    BY <1>1, <2>2, <2>3, ListsGrow
  <2>5. QED
    BY <1>1, <2>2, <2>4, InvParts DEF RestOK, ListsOK
<1>3. ASSUME NEW q \in w.spawns, HostForks(q) PROVE Inv'
  <2>1. PICK r : /\ WindowOK(w') /\ Answered(w, w', (w.spawns \ {q}) \cup {r})
                 /\ alive' = alive \cup {q.sid} /\ q.sid \in 1..w.asked
                 /\ UNCHANGED <<lists, listed, raw, missing, ripe>>
    BY <1>1, <1>3, StepHostForks
  <2>2. QED
    BY <1>1, <2>1, InvParts DEF RestOK, ListsOK, Answered
<1>4. ASSUME NEW q \in w.spawns, SpawnFails(q) PROVE Inv'
  <2>1. WindowOK(w') /\ Answered(w, w', w.spawns \ {q}) /\ UNCHANGED rest
    BY <1>1, <1>4, StepSpawnFails
  <2>2. QED
    BY <1>1, <2>1, InvParts DEF RestOK, ListsOK, Answered, rest
<1>5. ASSUME NEW q \in w.spawns, SpawnReturns(q) PROVE Inv'
  <2>1. Seeded(w, w', q) /\ UNCHANGED rest
    BY <1>1, <1>5, StepSpawnReturns
  <2>2. QED
    BY <1>1, <2>1, InvParts DEF RestOK, ListsOK, Seeded, rest
<1>6. ASSUME NEW s \in Locals, HostCloses(s) PROVE Inv'
  <2>1. WindowOK(w') /\ w'.asked = w.asked /\ alive' \subseteq alive /\ UNCHANGED <<lists, listed, raw, missing, ripe>>
    BY <1>1, <1>6, StepHostCloses
  <2>2. QED
    BY <1>1, <2>1, InvParts DEF RestOK, ListsOK
<1>7. ASSUME NEW s \in Locals, ShellExits(s) PROVE Inv'
  BY <1>1, <1>7, InvParts DEF RestOK, ListsOK, ShellExits
<1>8. CASE HostLists
  <2>1. lists' = Append(lists, alive) /\ listed' = alive /\ UNCHANGED <<alive, w, raw, missing, ripe>>
    BY <1>8 DEF HostLists
  <2> DEFINE S == SUBSET (1..w.asked)
  <2>2. lists \in Seq(S) /\ alive \in S
    BY <1>1 DEF ListsOK
  <2> HIDE DEF S
  <2>3. lists' \in Seq(S)
    BY <2>1, <2>2
  <2>4. QED
    BY <1>1, <2>1, <2>3, InvParts DEF RestOK, ListsOK, S
<1>9. CASE ApplyLocalSessions
  <2>1. lists \in Seq(SUBSET (1..w.asked))
    BY <1>1 DEF ListsOK
  <2>2. /\ WindowOK(w') /\ w'.asked = w.asked /\ lists # << >> /\ lists' = Tail(lists)
        /\ UNCHANGED <<alive, listed, raw, missing, ripe>>
    BY <1>1, <1>9, <2>1, StepApplyLocalSessions
  <2> DEFINE S == SUBSET (1..w.asked)
  <2> HIDE DEF S
  <2>3. lists \in Seq(S)
    BY <2>1 DEF S
  <2>4. lists' \in Seq(S)
    BY <2>2, <2>3
  <2>5. QED
    BY <1>1, <2>2, <2>4, InvParts DEF RestOK, ListsOK, S
<1>10. ASSUME NEW S \in SUBSET Remotes, ApplyRemoteSessions(S) PROVE Inv'
  <2>1. /\ WindowOK(w') /\ SameBut(w, w') /\ raw' = S /\ missing' \subseteq Sids /\ ripe' \subseteq missing'
        /\ UNCHANGED <<alive, lists, listed>>
    BY <1>1, <1>10, StepApplyRemoteSessions
  <2>2. QED
    BY <1>1, <2>1, InvParts DEF RestOK, ListsOK, SameBut
<1>11. CASE GraceElapses
  BY <1>1, <1>11, InvParts DEF RestOK, ListsOK, GraceElapses
<1>12. CASE RelayReconfigured
  BY <1>1, <1>12, InvParts DEF RestOK, ListsOK, RelayReconfigured
<1>13. CASE UNCHANGED vars
  BY <1>1, <1>13, InvParts DEF RestOK, ListsOK, vars
<1>14. QED
  BY <1>2, <1>3, <1>4, <1>5, <1>6, <1>7, <1>8, <1>9, <1>10, <1>11, <1>12, <1>13, NextSplit

\* A step that leaves nothing disturbed found nothing disturbed.
LEMMA DisturbedStays ==
  ASSUME [Next]_vars, ~disturbed'
  PROVE  ~disturbed
<1>1. CASE UserNext
  <2>1. PICK c : Does(c)
    BY <1>1, UserMoves
  <2>2. QED
    BY <2>1, Zenon DEF Does
<1>2. CASE UNCHANGED disturbed
  BY <1>2, Zenon
<1>3. UserNext \/ UNCHANGED disturbed
  <2>1. CASE UNCHANGED vars
    BY <2>1 DEF vars
  <2>2. CASE Next
    <3>1. ASSUME NEW q, HostForks(q) \/ SpawnFails(q) \/ SpawnReturns(q) PROVE UNCHANGED disturbed
      BY <3>1, Zenon DEF HostForks, SpawnFails, SpawnReturns
    <3>2. ASSUME NEW s, HostCloses(s) \/ ShellExits(s) PROVE UNCHANGED disturbed
      BY <3>2, Zenon DEF HostCloses, ShellExits
    <3>3. ASSUME HostLists \/ ApplyLocalSessions \/ GraceElapses \/ RelayReconfigured PROVE UNCHANGED disturbed
      BY <3>3, Zenon DEF HostLists, ApplyLocalSessions, GraceElapses, RelayReconfigured
    <3>4. ASSUME NEW S, ApplyRemoteSessions(S) PROVE UNCHANGED disturbed
      BY <3>4, Zenon DEF ApplyRemoteSessions
    <3>5. QED
      BY <2>2, <3>1, <3>2, <3>3, <3>4, NextSplit, Zenon
  <2>3. QED
    BY <2>1, <2>2
<1>4. QED
  BY <1>1, <1>2, <1>3

\* What the invariant says of the window's shape and of its sessions.
LEMMA InvImplies ==
  ASSUME Inv
  PROVE  OnePanePerSession
<1>1. TabsOK(w.tabs)
  BY DEF Inv, WindowOK, ScreenOK
<1>2. \A t \in Range(w.tabs) : TabOK(t) /\ \E k \in DOMAIN w.tabs : t = w.tabs[k]
  BY <1>1 DEF Range, TabsOK
<1>3. PanesFitLayout
  BY <1>2, NoHoles DEF PanesFitLayout, TabOK
<1>4. ASSUME NEW t \in Range(w.tabs), NEW u \in Range(w.tabs)
      PROVE  /\ t.id # u.id => Shows(t) \cap Shows(u) = {}
             /\ \A i, j \in DOMAIN t.panes : t.panes[i].sid = t.panes[j].sid /\ t.panes[i].sid # None => i = j
  <2>1. t.id # u.id => Shows(t) \cap Shows(u) = {}
    BY <1>1, <1>2 DEF TabsOK
  <2>2. Distinct(t.panes)
    BY <1>2 DEF TabOK
  <2>3. QED
    BY <2>1, <2>2 DEF Distinct
<1>5. QED
  BY <1>3, <1>4, Zenon DEF OnePanePerSession

\* As long as the user has not disturbed what waits for a shell being started: the
\* panes of a tab are those of its layout, each was assigned, and a session is
\* shown by one pane at most, however it was opened, dropped, detached, merged,
\* listed or pruned, and however many shells are being started.
THEOREM WorkspaceOnePane ==
  Spec => []OnePanePerSession
<1>1. Init => disturbed \/ Inv
  BY InvInit
<1>2. (disturbed \/ Inv) /\ [Next]_vars => (disturbed \/ Inv)'
  BY InvNext, DisturbedStays
<1>3. disturbed \/ Inv => OnePanePerSession
  BY InvImplies DEF OnePanePerSession
<1>4. QED
  BY <1>1, <1>2, <1>3, PTL DEF Spec

-----------------------------------------------------------------------------
(* A shell keeps its pane *)

\* A shell that was not forked yet is known to nobody.
Unforked ==
  \A q \in w.spawns : ~q.forked => /\ q.sid \notin alive /\ q.sid \notin listed /\ q.sid \notin w.local
                                   /\ \A i \in DOMAIN lists : q.sid \notin lists[i]

\* The lists on their way are in order: a running shell that one of them names is
\* named by every later one.
InOrder ==
  \A s \in alive : \A i \in DOMAIN lists :
     s \in lists[i] => s \in listed /\ \A j \in DOMAIN lists : i < j => s \in lists[j]

\* A running shell of the window that no list on its way may drop: it is still
\* seeded, or it was listed and every list on its way names it.
Confirmed ==
  \A s \in alive : s \in w.local =>
     s \in w.pend \/ (s \in listed /\ \A i \in DOMAIN lists : s \in lists[i])

\* A running shell in a pane of the local host is one of the window's.
OfTheWindow ==
  \A p \in OnScreen(w.tabs) : ~p.rem /\ p.sid \in alive => p.sid \in w.local

Held == Unforked /\ InOrder /\ Confirmed /\ OfTheWindow

\* What a step does to the pane of a running shell.
KeepsPane(s) ==
  LocalPane(s) \in OnScreen(w.tabs) =>
     /\ s \in w'.kill \/ \E p \in OnScreen(w'.tabs) : p.sid = s
     /\ s \in w'.kill \ w.kill => \A p \in OnScreen(w'.tabs) : p.sid # s

\* Moves of the user: what is dropped is closed and leaves the screen, and
\* everything else of the local host stays on it.
LEMMA UserHolds ==
  ASSUME Inv, Held, UserNext, ~disturbed'
  PROVE  Held' /\ \A s \in alive' \cap Locals : KeepsPane(s)
<1>1. /\ WindowOK(w) /\ raw \subseteq Remotes /\ w.asked \in Nat /\ w.local \subseteq 1..w.asked
      /\ alive \subseteq 1..w.asked /\ listed \subseteq 1..w.asked /\ lists \in Seq(SUBSET (1..w.asked))
  BY DEF Inv, WindowOK, ScreenOK, Window
<1>2. PICK D : Acts(D)
  BY <1>1, UserSteps
<1>3. /\ w'.local = w.local \ D /\ w'.pend = w.pend \ D /\ w'.kill = w.kill \cup D
      /\ \A p \in OnScreen(w'.tabs) : p.sid \notin D /\ (p.rem \/ p \in OnScreen(w.tabs) \/ p.sid \in w'.local)
      /\ \A q \in w'.spawns : q \in w.spawns \/ q.sid = w.asked + 1
      /\ alive' = alive /\ lists' = lists /\ listed' = listed
      /\ Keeps(w, w', D)
  BY <1>2 DEF Acts, rest
<1>4. \A i \in DOMAIN lists : lists[i] \subseteq 1..w.asked
  <2> DEFINE S == SUBSET (1..w.asked)
  <2>1. \A i \in DOMAIN lists : lists[i] \in S
    <3>1. lists \in Seq(S)
      BY <1>1
    <3> HIDE DEF S
    <3>2. QED
      BY <3>1, LenProperties, ElementOfSeq
  <2>2. QED
    BY <2>1
<1>5. w.asked + 1 \notin 1..w.asked
  BY <1>1
<1>6. Unforked'
  BY <1>1, <1>3, <1>4, <1>5 DEF Held, Unforked
<1>7. InOrder'
  BY <1>3 DEF InOrder, Held
<1>8. Confirmed'
  BY <1>3 DEF Confirmed, Held
<1>9. OfTheWindow'
  BY <1>3 DEF OfTheWindow, Held
<1>10. ASSUME NEW s \in alive' \cap Locals PROVE KeepsPane(s)
  BY <1>3, ShellPane DEF KeepsPane, Keeps
<1>11. QED
  BY <1>6, <1>7, <1>8, <1>9, <1>10 DEF Held

\* A forked shell is on no list and on no screen yet.
LEMMA ForkHolds ==
  ASSUME Inv, Held, NEW q \in w.spawns, HostForks(q)
  PROVE  Held' /\ \A s \in alive' \cap Locals : KeepsPane(s)
<1>1. WindowOK(w) /\ ScreenOK(w)
  BY DEF Inv, WindowOK
<1>2. PICK r : /\ Answered(w, w', (w.spawns \ {q}) \cup {r}) /\ r.forked /\ ~q.forked
               /\ alive' = alive \cup {q.sid} /\ q.sid \notin ShownBy(w) /\ UNCHANGED <<lists, listed, raw, missing, ripe>>
  BY <1>1, StepHostForks
<1>3. /\ w'.tabs = w.tabs /\ w'.local = w.local /\ w'.pend = w.pend /\ w'.kill = w.kill
      /\ w'.spawns = (w.spawns \ {q}) \cup {r} /\ lists' = lists /\ listed' = listed
  BY <1>2 DEF Answered
<1>4. \A p \in OnScreen(w.tabs) : p.sid # q.sid
  BY <1>1, <1>2, ShownOnScreen
<1>5. q.sid \notin w.local /\ \A i \in DOMAIN lists : q.sid \notin lists[i]
  BY <1>2 DEF Held, Unforked
<1>11. \A p \in w.spawns \ {q} : p.sid # q.sid
  BY <1>1 DEF ScreenOK, Numbered
<1>6. Unforked'
  BY <1>2, <1>3, <1>11 DEF Held, Unforked
<1>7. InOrder'
  BY <1>2, <1>3, <1>5 DEF InOrder, Held
<1>8. Confirmed'
  BY <1>2, <1>3, <1>5 DEF Confirmed, Held
<1>9. OfTheWindow'
  BY <1>2, <1>3, <1>4 DEF OfTheWindow, Held
<1>10. QED
  BY <1>3, <1>6, <1>7, <1>8, <1>9, ShellPane DEF Held, KeepsPane

\* The answer of a shell, or none: the seed keeps it from the lists.
LEMMA AnswerHolds ==
  ASSUME Inv, Held, NEW q \in w.spawns, SpawnFails(q) \/ SpawnReturns(q)
  PROVE  Held' /\ \A s \in alive' \cap Locals : KeepsPane(s)
<1>1. WindowOK(w)
  BY DEF Inv
<1>2. CASE SpawnFails(q)
  <2>1. Answered(w, w', w.spawns \ {q}) /\ UNCHANGED rest
    BY <1>1, <1>2, StepSpawnFails
  <2>2. QED
    BY <2>1, ShellPane DEF Held, Unforked, InOrder, Confirmed, OfTheWindow, KeepsPane, Answered, rest
<1>3. CASE SpawnReturns(q)
  <2>1. Seeded(w, w', q) /\ UNCHANGED rest
    BY <1>1, <1>3, StepSpawnReturns
  <2>2. q.sid \in Locals
    BY <1>1 DEF WindowOK, ScreenOK, Window, Call
  <2>3. /\ w'.local = w.local \cup {q.sid} /\ w'.pend = w.pend \cup {q.sid} /\ w'.kill = w.kill
        /\ w'.spawns = w.spawns \ {q}
        /\ OnScreen(w.tabs) \subseteq OnScreen(w'.tabs)
        /\ OnScreen(w'.tabs) \subseteq OnScreen(w.tabs) \cup {LocalPane(q.sid)}
        /\ alive' = alive /\ lists' = lists /\ listed' = listed
    BY <2>1 DEF Seeded, rest
  <2>4. LocalPane(q.sid).sid = q.sid
    BY <2>2, ShellPane
  <2>5. OfTheWindow'
    BY <2>3, <2>4 DEF Held, OfTheWindow
  <2>8. \A p \in w.spawns \ {q} : p.sid # q.sid
    BY <1>1 DEF WindowOK, ScreenOK, Numbered
  <2>6. Unforked' /\ InOrder' /\ Confirmed'
    BY <2>3, <2>8 DEF Held, Unforked, InOrder, Confirmed
  <2>7. QED
    BY <2>3, <2>5, <2>6, ShellPane DEF Held, KeepsPane
<1>4. QED
  BY <1>2, <1>3

\* A shell ends, on request or by itself.
LEMMA EndHolds ==
  ASSUME Inv, Held, NEW c, HostCloses(c) \/ ShellExits(c)
  PROVE  Held' /\ \A s \in alive' \cap Locals : KeepsPane(s)
<1>1. WindowOK(w)
  BY DEF Inv
<1>2. /\ w'.tabs = w.tabs /\ w'.local = w.local /\ w'.pend = w.pend /\ w'.spawns = w.spawns
      /\ w'.kill \subseteq w.kill /\ alive' \subseteq alive
      /\ lists' = lists /\ listed' = listed
  <2>1. CASE HostCloses(c)
    BY <1>1, <2>1, StepHostCloses
  <2>2. CASE ShellExits(c)
    BY <2>2 DEF ShellExits
  <2>3. QED
    BY <2>1, <2>2
<1>3. Unforked' /\ InOrder' /\ Confirmed'
  BY <1>2 DEF Held, Unforked, InOrder, Confirmed
<1>4. OfTheWindow'
  BY <1>2 DEF Held, OfTheWindow
<1>5. QED
  BY <1>2, <1>3, <1>4, ShellPane DEF Held, KeepsPane

\* A list that is sent names every running shell.
LEMMA ListHolds ==
  ASSUME Inv, Held, HostLists
  PROVE  Held' /\ \A s \in alive' \cap Locals : KeepsPane(s)
<1>1. lists \in Seq(SUBSET (1..w.asked))
  BY DEF Inv
<1>2. lists' = Append(lists, alive) /\ listed' = alive /\ alive' = alive /\ w' = w
  BY DEF HostLists
<1> DEFINE n == Len(lists)
<1>3. n \in Nat /\ DOMAIN lists = 1..n
  BY <1>1, LenProperties
<1>4. /\ DOMAIN lists' = 1..(n + 1) /\ lists'[n + 1] = alive
      /\ \A i \in 1..n : lists'[i] = lists[i]
  <2> DEFINE S == SUBSET (1..w.asked)
  <2>1. lists \in Seq(S) /\ alive \in S
    BY <1>1 DEF Inv
  <2> HIDE DEF S
  <2>2. QED
    BY <1>2, <2>1, AppendProperties
<1> HIDE DEF n
<1>5. \A i \in DOMAIN lists' : lists'[i] = alive \/ (i \in DOMAIN lists /\ lists'[i] = lists[i])
  BY <1>3, <1>4
<1>6. \A i, j \in DOMAIN lists' : i < j => i \in DOMAIN lists
  BY <1>3, <1>4
<1>7. Unforked'
  BY <1>2, <1>5 DEF Held, Unforked
<1>8. InOrder'
  BY <1>2, <1>3, <1>4, <1>5, <1>6 DEF Held, InOrder
<1>9. Confirmed'
  BY <1>2, <1>5 DEF Held, Confirmed
<1>10. OfTheWindow'
  BY <1>2 DEF Held, OfTheWindow
<1>11. QED
  BY <1>2, <1>7, <1>8, <1>9, <1>10, ShellPane DEF Held, KeepsPane

\* A list that is applied, however old, names every running shell of the window
\* that is no longer seeded.
LEMMA ApplyHolds ==
  ASSUME Inv, Held, ApplyLocalSessions
  PROVE  Held' /\ \A s \in alive' \cap Locals : KeepsPane(s)
<1>1. WindowOK(w) /\ lists \in Seq(SUBSET (1..w.asked))
  BY DEF Inv
<1>2. /\ w'.kill = w.kill /\ w'.spawns = w.spawns /\ lists # << >> /\ lists' = Tail(lists)
      /\ w'.pend = (w.pend \ Head(lists)) \cap w.local /\ w'.local = Head(lists) \cup w'.pend
      /\ OnScreen(w'.tabs) = {p \in OnScreen(w.tabs) : p.rem \/ p.sid \in w'.local}
      /\ alive' = alive /\ listed' = listed
  BY <1>1, StepApplyLocalSessions
<1> DEFINE n == Len(lists)
<1>3. /\ n \in Nat /\ DOMAIN lists = 1..n /\ n > 0 /\ Head(lists) = lists[1]
      /\ DOMAIN lists' = 1..(n - 1) /\ \A i \in 1..(n - 1) : lists'[i] = lists[i + 1]
  <2> DEFINE S == SUBSET (1..w.asked)
  <2> HIDE DEF S
  <2>1. lists \in Seq(S)
    BY <1>1 DEF S
  <2>2. QED
    BY <1>2, <2>1, LenProperties, HeadTailProperties, EmptySeq
<1> HIDE DEF n
<1>4. \A i \in DOMAIN lists' : i + 1 \in DOMAIN lists /\ 1 < i + 1 /\ lists'[i] = lists[i + 1]
  BY <1>3
<1>5. 1 \in DOMAIN lists
  BY <1>3
<1>6. \A s \in alive : s \in Head(lists) => s \in listed /\ \A i \in DOMAIN lists' : s \in lists'[i]
  BY <1>3, <1>4, <1>5 DEF Held, InOrder
<1>7. Unforked'
  BY <1>2, <1>3, <1>4, <1>5 DEF Held, Unforked
<1>8. InOrder'
  <2>1. \A i, j \in DOMAIN lists' : i < j => i + 1 < j + 1
    BY <1>3
  <2>2. QED
    BY <1>2, <1>4, <2>1 DEF Held, InOrder
<1>9. Confirmed'
  BY <1>2, <1>6 DEF Confirmed
<1>10. OfTheWindow'
  BY <1>2 DEF OfTheWindow
<1>11. ASSUME NEW s \in alive' \cap Locals PROVE KeepsPane(s)
  <2>1. LocalPane(s).sid = s /\ ~LocalPane(s).rem
    BY ShellPane
  <2>2. ASSUME LocalPane(s) \in OnScreen(w.tabs) PROVE s \in w'.local
    <3>1. s \in w.local
      BY <1>2, <2>1, <2>2 DEF Held, OfTheWindow
    <3>2. s \in w.pend \/ s \in lists[1]
      BY <1>2, <1>5, <2>2, <3>1 DEF Held, Confirmed
    <3>3. QED
      BY <1>2, <1>3, <3>1, <3>2
  <2>3. QED
    BY <1>2, <2>1, <2>2 DEF KeepsPane
<1>12. QED
  BY <1>7, <1>8, <1>9, <1>10, <1>11 DEF Held

\* The lists of the relay and the grace period touch no pane of the local host.
LEMMA RelayHolds ==
  ASSUME Inv, Held,
         \/ \E S \in SUBSET Remotes : ApplyRemoteSessions(S)
         \/ GraceElapses \/ RelayReconfigured \/ UNCHANGED vars
  PROVE  Held' /\ \A s \in alive' \cap Locals : KeepsPane(s)
<1>1. WindowOK(w)
  BY DEF Inv
<1>2. /\ SameBut(w, w') /\ OnScreen(w'.tabs) \subseteq OnScreen(w.tabs)
      /\ \A x \in OnScreen(w.tabs) : x.rem \/ x \in OnScreen(w'.tabs)
      /\ alive' = alive /\ lists' = lists /\ listed' = listed
  <2>1. ASSUME NEW S \in SUBSET Remotes, ApplyRemoteSessions(S) PROVE <1>2!:
    BY <1>1, <2>1, StepApplyRemoteSessions
  <2>2. CASE GraceElapses \/ RelayReconfigured \/ UNCHANGED vars
    BY <2>2 DEF GraceElapses, RelayReconfigured, vars, SameBut
  <2>3. QED
    BY <2>1, <2>2
<1>3. Unforked' /\ InOrder' /\ Confirmed'
  BY <1>2 DEF Held, Unforked, InOrder, Confirmed, SameBut
<1>4. OfTheWindow'
  BY <1>2 DEF Held, OfTheWindow, SameBut
<1>5. ASSUME NEW s \in alive' \cap Locals PROVE KeepsPane(s)
  BY <1>2, ShellPane DEF KeepsPane, SameBut
<1>6. QED
  BY <1>3, <1>4, <1>5 DEF Held

\* One step of the system.
LEMMA HeldNext ==
  ASSUME Inv, Held, [Next]_vars, ~disturbed'
  PROVE  Held' /\ \A s \in alive' \cap Locals : KeepsPane(s)
<1>1. CASE UserNext
  BY <1>1, UserHolds
<1>2. CASE \E q \in w.spawns : HostForks(q) \/ SpawnFails(q) \/ SpawnReturns(q)
  BY <1>2, ForkHolds, AnswerHolds
<1>3. CASE \E s \in Locals : HostCloses(s) \/ ShellExits(s)
  BY <1>3, EndHolds
<1>4. CASE HostLists
  BY <1>4, ListHolds
<1>5. CASE ApplyLocalSessions
  BY <1>5, ApplyHolds
<1>6. CASE \/ \E S \in SUBSET Remotes : ApplyRemoteSessions(S)
           \/ GraceElapses \/ RelayReconfigured \/ UNCHANGED vars
  BY <1>6, RelayHolds
<1>7. QED
  BY <1>1, <1>2, <1>3, <1>4, <1>5, <1>6, NextSplit

\* The panes of the local host that show a shell are those on the screen.
LEMMA LocalOnScreen ==
  ASSUME NEW s \in Locals
  PROVE  LocalPane(s) \in LocalPanes <=> LocalPane(s) \in OnScreen(w.tabs)
<1>1. LocalPane(s) \in Pane /\ LocalPane(s).sid # None /\ ~LocalPane(s).rem
  BY ShellPane
<1> DEFINE x == LocalPane(s)
           Stands(T) == \E k \in DOMAIN T : \E i \in DOMAIN T[k].panes : T[k].panes[i] = x
<1> HIDE DEF x
<1>2. x \in OnScreen(w.tabs) <=> Stands(w.tabs)
  <2>2. x \in OnScreen(w.tabs) <=> \E k \in DOMAIN w.tabs : x \in Filled(w.tabs[k].panes)
    BY Zenon DEF OnScreen
  <2>3. \A k \in DOMAIN w.tabs : x \in Filled(w.tabs[k].panes) <=> \E i \in DOMAIN w.tabs[k].panes : w.tabs[k].panes[i] = x
    BY <1>1 DEF Filled, x
  <2>4. QED
    BY <2>2, <2>3
<1>3. x \in LocalPanes <=> Stands(w.tabs)
  <2>1. x \in LocalPanes <=> \E t \in Range(w.tabs) : x \in Range(t.panes)
    BY <1>1 DEF LocalPanes, x
  <2>2. QED
    BY <2>1 DEF Range
<1>5. QED
  BY <1>2, <1>3 DEF x

\* As long as the user has not disturbed what waits for a shell being started: a
\* running shell in a pane of the local host stays on the screen through every
\* list however stale, every move, merge and tab close, unless the window asks for
\* it to be closed, and then it leaves the screen in that step.
THEOREM WorkspaceKeepsShells ==
  Spec => ShellsKeepTheirPane
<1> DEFINE Safe == disturbed \/ (Inv /\ Held)
           Step == ~disturbed' =>
                     \A s \in alive' :
                       LocalPane(s) \in LocalPanes =>
                         /\ s \in w'.kill \/ s \in ShownBy(w')
                         /\ s \in w'.kill \ w.kill => s \notin ShownBy(w')
<1>1. Init => Safe
  <2>1. ASSUME Init PROVE Held
    <3>1. /\ w.spawns = {} /\ w.local = alive /\ w.pend = alive /\ lists = << >>
      BY <2>1 DEF Init
    <3>2. DOMAIN lists = {}
      BY <3>1
    <3>3. QED
      BY <3>1, <3>2 DEF Held, Unforked, InOrder, Confirmed, OfTheWindow
  <2>2. QED
    BY <2>1, InvInit
<1>2. Safe /\ [Next]_vars => Safe'
  BY InvNext, HeldNext, DisturbedStays
<1>3. Safe /\ [Next]_vars => Step
  <2>1. SUFFICES ASSUME Inv, Held, [Next]_vars, ~disturbed', NEW s \in alive', LocalPane(s) \in LocalPanes
                 PROVE  /\ s \in w'.kill \/ s \in ShownBy(w')
                        /\ s \in w'.kill \ w.kill => s \notin ShownBy(w')
    BY DisturbedStays
  <2>2. ScreenOK(w') /\ s \in Locals
    <3>1. Inv'
      BY <2>1, InvNext
    <3>2. WindowOK(w') /\ alive' \subseteq 1..w'.asked
      BY <3>1, InvParts DEF RestOK, ListsOK
    <3>3. w'.asked \in 0..MaxSpawn /\ ScreenOK(w')
      BY <3>2 DEF WindowOK, ScreenOK, Window
    <3>4. QED
      BY <2>1, <3>2, <3>3, WorkspaceAssumption DEF Locals
  <2>3. KeepsPane(s)
    BY <2>1, <2>2, HeldNext
  <2>4. LocalPane(s) \in OnScreen(w.tabs)
    BY <2>1, <2>2, LocalOnScreen
  <2>5. ShownBy(w') = {p.sid : p \in OnScreen(w'.tabs)}
    BY <2>2, ShownOnScreen
  <2>6. QED
    BY <2>3, <2>4, <2>5 DEF KeepsPane
<1>4. QED
  BY <1>1, <1>2, <1>3, PTL DEF Spec, ShellsKeepTheirPane
=============================================================================
