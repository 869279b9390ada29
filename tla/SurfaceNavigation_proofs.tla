----------------------- MODULE SurfaceNavigation_proofs -----------------------
(***************************************************************************)
(* The surface of one tab for any dashboards, any length of its history    *)
(* and any number of writes under way.                                     *)
(*                                                                         *)
(* The handlers are functions from tabs to tabs, so each of their parts    *)
(* has a lemma of its own about what it makes of any tab, and a step is    *)
(* the composition of a few of them.                                       *)
(***************************************************************************)
EXTENDS SurfaceNavigation, SequenceTheorems, WellFoundedInduction, TLAPS

Current(t) == t.entries[t.at]

\* Back to entry e selects d: it was stamped with d, or what it was stamped with is gone and
\* d is the oldest dashboard there is.
Returns(e, d, known, st) ==
    e.dash = d \/ (e.dash \notin known /\ \A c \in known \cup st : d <= c)

EntryOK(e, known, st, m) ==
    /\ e.dash \in (1..m) \cup {None} /\ e.seen \in (1..m) \cup {None}
    /\ e.dash \in st => e.dash \in known
    /\ e.seen # None /\ ~e.kept => e.route = "dashboard" /\ Returns(e, e.seen, known, st)

Alternates(es) ==
    \A i \in 1..(Len(es) - 1) : es[i].route = "query" \/ es[i+1].route = "query"

\* Where the tab is: selection, history and what it knows of the dashboards st, of which m
\* were ever created.
BaseOK(t, st, m) ==
    /\ t.known \subseteq 1..m
    /\ \A d \in st \ t.known, e \in t.known : e < d
    /\ t.surface \in t.known \cup {None}
    /\ Alternates(t.entries)
    /\ \A i \in 1..Len(t.entries) : EntryOK(t.entries[i], t.known, st, m)

\* Coming back to the entry would find the selection.
NotableOK(t, st) ==
    t.surface # None => /\ Route(t) = "dashboard"
                        /\ Current(t).kept \/ Returns(Current(t), t.surface, t.known, st)

PlaceOK(t, st, m) == BaseOK(t, st, m) /\ NotableOK(t, st)

\* What is on screen.
ShownOK(t) ==
    /\ Mounted(t) =>
         IF t.surface # None
         THEN Route(t) = "dashboard" /\ t.screen.host = "dashboard"
              /\ t.screen.dash = t.surface
         ELSE IF Route(t) = "query" THEN t.screen.host = "query"
         ELSE t.screen.host \in {"dashboard", "missing"}
    /\ ~Mounted(t) => t.surface = None

\* A command that is not stale was given on the dashboard that is shown still, a creation on
\* a surface of the shell.
LiveOK(t) ==
    \A i \in 1..Len(t.writes) : ~t.writes[i].stale =>
        /\ t.writes[i].kind = "command" => t.screen.host = "dashboard"
        /\ t.writes[i].kind = "placeholder" => Mounted(t)

OwedOK(t) == t.screen.rebuild => LivePending(t)

NotedOK(t) == Current(t).seen = t.surface

IInv ==
    /\ TypeOK
    /\ PlaceOK(tab, store, minted)
    /\ ShownOK(tab) /\ LiveOK(tab) /\ OwedOK(tab) /\ NotedOK(tab)
    /\ session = "in" => Mounted(tab)

-----------------------------------------------------------------------------
(* Types *)

\* The types of a tab with sequences for functions on intervals.
SeqTab == [known: SUBSET Dashboards, surface: Dashboards \cup {None},
           entries: Seq(Entry), at: 1..MaxEntries,
           screen: Screen, hook: Hook, writes: Seq(Write)]

TabOK(t) ==
    /\ t \in SeqTab
    /\ Len(t.entries) \in 1..MaxEntries /\ t.at \in 1..Len(t.entries)
    /\ Len(t.writes) \in 0..MaxWrites

LEMMA SameInterval ==
  ASSUME NEW a \in Nat, NEW b \in Nat, 1..a = 1..b
  PROVE  a = b
<1>1. a < b => b \in 1..b /\ b \notin 1..a
  OBVIOUS
<1>2. b < a => a \in 1..a /\ a \notin 1..b
  OBVIOUS
<1> QED BY <1>1, <1>2

LEMMA BoundedSequences ==
  ASSUME NEW S, NEW lo \in Nat, NEW hi \in Nat, NEW s
  PROVE  s \in UNION {[1..n -> S] : n \in lo..hi} <=> s \in Seq(S) /\ Len(s) \in lo..hi
<1>1. ASSUME s \in UNION {[1..n -> S] : n \in lo..hi}
      PROVE  s \in Seq(S) /\ Len(s) \in lo..hi
  <2>1. PICK n \in lo..hi : s \in [1..n -> S]
    BY <1>1
  <2>2. n \in Nat
    OBVIOUS
  <2>3. s \in Seq(S)
    BY <2>1, <2>2, SeqDef
  <2>4. Len(s) \in Nat /\ DOMAIN s = 1..Len(s) /\ DOMAIN s = 1..n
    BY <2>1, <2>3, LenProperties
  <2>5. Len(s) = n
    BY <2>2, <2>4, SameInterval
  <2> QED BY <2>1, <2>3, <2>5
<1>2. ASSUME s \in Seq(S), Len(s) \in lo..hi
      PROVE  s \in UNION {[1..n -> S] : n \in lo..hi}
  BY <1>2, LenProperties
<1> QED BY <1>1, <1>2

LEMMA TabTypes ==
  ASSUME NEW t
  PROVE  t \in Tab /\ t.at \in DOMAIN t.entries <=> TabOK(t)
<1>1. /\ MaxEntries \in Nat /\ MaxWrites \in Nat /\ 0 \in Nat /\ 1 \in Nat
  BY NavigationAssumption
<1>2. \A s : s \in UNION {[1..n -> Entry] : n \in 1..MaxEntries}
               <=> s \in Seq(Entry) /\ Len(s) \in 1..MaxEntries
  BY <1>1, BoundedSequences
<1>3. \A s : s \in UNION {[1..n -> Write] : n \in 0..MaxWrites}
               <=> s \in Seq(Write) /\ Len(s) \in 0..MaxWrites
  BY <1>1, BoundedSequences
<1> DEFINE E == UNION {[1..n -> Entry] : n \in 1..MaxEntries}
           W == UNION {[1..n -> Write] : n \in 0..MaxWrites}
<1>4. Tab = [known: SUBSET Dashboards, surface: Dashboards \cup {None}, entries: E,
             at: 1..MaxEntries, screen: Screen, hook: Hook, writes: W]
  BY DEF Tab
<1> HIDE DEF E, W
<1>5. t \in Tab <=> t \in SeqTab /\ t.entries \in E /\ t.writes \in W
  <2>1. E \subseteq Seq(Entry) /\ W \subseteq Seq(Write)
    BY <1>2, <1>3 DEF E, W
  <2> QED BY <1>4, <2>1 DEF SeqTab
<1>6. t \in SeqTab => DOMAIN t.entries = 1..Len(t.entries)
  BY LenProperties DEF SeqTab
<1>7. t \in SeqTab => t.entries \in Seq(Entry) /\ t.writes \in Seq(Write)
  BY DEF SeqTab
<1> QED BY <1>2, <1>3, <1>5, <1>6, <1>7 DEF TabOK, E, W

LEMMA Oldest ==
  ASSUME NEW T \in SUBSET Nat, T # {}
  PROVE  First(T) \in T /\ \A e \in T : First(T) <= e
<1> DEFINE R == OpToRel(<, Nat)
<1>1. \A d, e \in Nat : <<e, d>> \in R <=> e < d
  BY DEF OpToRel
<1>2. IsWellFoundedOn(R, Nat)
  BY NatLessThanWellFounded
<1> HIDE DEF R
<1>3. PICK d \in T : \A e \in T : ~(<<e, d>> \in R)
  <2>1. T \subseteq Nat /\ T # {}
    OBVIOUS
  <2>2. \E d \in T : \A e \in T : ~(<<e, d>> \in R)
    BY <1>2, <2>1, WFMin, ZenonT(30)
  <2> QED BY <2>2
<1>4. ASSUME NEW e \in T
      PROVE  d <= e
  <2>1. d \in Nat /\ e \in Nat
    OBVIOUS
  <2>2. ~(e < d)
    BY <1>1, <1>3, <2>1, Zenon
  <2> QED BY <2>1, <2>2
<1> QED BY <1>4 DEF First

LEMMA FirstOfDashboards ==
  ASSUME NEW T \in SUBSET Dashboards
  PROVE  /\ First(T) \in T \cup {None}
         /\ First(T) # None => First(T) \in T /\ \A e \in T : First(T) <= e
         /\ First(T) = None => T = {}
<1>1. T \in SUBSET Nat /\ None \notin Nat
  BY NavigationAssumption DEF Dashboards
<1>2. CASE T = {}
  BY <1>2 DEF First
<1>3. CASE T # {}
  BY <1>1, <1>3, Oldest
<1> QED BY <1>2, <1>3

\* The parts of a tab.
LEMMA TabParts ==
  ASSUME NEW t, TabOK(t)
  PROVE  /\ t.known \subseteq Dashboards /\ t.surface \in Dashboards \cup {None}
         /\ t.entries \in Seq(Entry) /\ t.writes \in Seq(Write)
         /\ t.at \in 1..Len(t.entries) /\ Len(t.entries) \in Nat /\ Len(t.writes) \in Nat
         /\ t.screen \in Screen /\ t.hook \in Hook
         /\ Current(t) \in Entry
         /\ DOMAIN t.writes = 1..Len(t.writes) /\ DOMAIN t.entries = 1..Len(t.entries)
         /\ None \notin Dashboards
<1>1. /\ t.known \subseteq Dashboards /\ t.surface \in Dashboards \cup {None}
      /\ t.entries \in Seq(Entry) /\ t.writes \in Seq(Write)
      /\ t.at \in 1..Len(t.entries)
      /\ t.screen \in Screen /\ t.hook \in Hook
  BY DEF TabOK, SeqTab
<1>2. /\ Len(t.entries) \in Nat /\ Len(t.writes) \in Nat
      /\ DOMAIN t.writes = 1..Len(t.writes) /\ DOMAIN t.entries = 1..Len(t.entries)
  BY <1>1, LenProperties
<1>3. Current(t) \in Entry
  BY <1>1, ElementOfSeq DEF Current
<1>4. None \notin Dashboards
  BY NavigationAssumption DEF Dashboards
<1> QED BY <1>1, <1>2, <1>3, <1>4

-----------------------------------------------------------------------------
(* The renderers *)

SamePlace(t, u) ==
    u.known = t.known /\ u.surface = t.surface /\ u.entries = t.entries /\ u.at = t.at

\* The same writes are under way; one that has seen its surface go stays stale.
Older(t, u) ==
    /\ Len(u.writes) = Len(t.writes)
    /\ \A i \in 1..Len(t.writes) :
         /\ u.writes[i].kind = t.writes[i].kind /\ u.writes[i].dash = t.writes[i].dash
         /\ t.writes[i].kind \in Captures /\ t.writes[i].stale => u.writes[i].stale

ScreenOK(t) == ShownOK(t) /\ LiveOK(t) /\ OwedOK(t)

Rendered(t, u) ==
    TabOK(u) /\ SamePlace(t, u) /\ Older(t, u) /\ ScreenOK(u) /\ Mounted(u)

LEMMA OvertakenDoes ==
  ASSUME NEW w \in Write
  PROVE  /\ Overtaken(w) \in Write
         /\ Overtaken(w).kind = w.kind /\ Overtaken(w).dash = w.dash
         /\ Overtaken(w).stale <=> w.kind \in Captures
<1>1. "gone" \in Hook /\ (w.kind \in Captures) \in BOOLEAN
  BY DEF Hook
<1> QED BY <1>1 DEF Overtaken, Write

LEMMA AdvancedDoes ==
  ASSUME NEW t, TabOK(t)
  PROVE  /\ Advanced(t) \in SeqTab
         /\ SamePlace(t, Advanced(t)) /\ Older(t, Advanced(t))
         /\ \A i \in 1..Len(t.writes) :
              Advanced(t).writes[i].stale <=> t.writes[i].kind \in Captures
<1> DEFINE ws == [i \in DOMAIN t.writes |-> Overtaken(t.writes[i])]
<1>1. t \in SeqTab /\ t.writes \in Seq(Write) /\ DOMAIN t.writes = 1..Len(t.writes)
      /\ Len(t.writes) \in Nat
  BY TabParts DEF TabOK
<1>2. \A i \in 1..Len(t.writes) : t.writes[i] \in Write
  BY <1>1, ElementOfSeq
<1>3. \A i \in 1..Len(t.writes) :
        /\ ws[i] \in Write /\ ws[i].kind = t.writes[i].kind /\ ws[i].dash = t.writes[i].dash
        /\ ws[i].stale <=> t.writes[i].kind \in Captures
  BY <1>1, <1>2, OvertakenDoes
<1>4. DOMAIN ws = 1..Len(t.writes) /\ ws = [i \in 1..Len(t.writes) |-> ws[i]]
  BY <1>1
<1> HIDE DEF ws
<1>5. ws \in [1..Len(t.writes) -> Write]
  BY <1>3, <1>4
<1>6. ws \in Seq(Write)
  BY <1>1, <1>5, SeqDef
<1>7. Len(ws) = Len(t.writes)
  BY <1>1, <1>4, <1>6, LenProperties, SameInterval
<1>8. Advanced(t) = [t EXCEPT !.writes = ws]
  BY DEF Advanced, ws
<1>9. /\ Advanced(t) \in SeqTab /\ Advanced(t).writes = ws
      /\ SamePlace(t, Advanced(t))
  BY <1>1, <1>6, <1>8 DEF SeqTab, SamePlace
<1> QED BY <1>3, <1>7, <1>9 DEF Older

\* u shows host and dash where t was.
Shows(t, u, host, dash) ==
    /\ TabOK(u) /\ SamePlace(t, u) /\ Older(t, u) /\ LiveOK(u) /\ OwedOK(u)
    /\ u.screen.host = host /\ u.screen.dash = dash

\* Whatever is rendered, no command and no creation is live any more.
LEMMA Renders ==
  ASSUME NEW t, TabOK(t), NEW hook \in Hook,
         NEW host \in {"query", "dashboard", "missing", "login"},
         NEW dash \in Dashboards \cup {None}
  PROVE  Shows(t, [Advanced(t) EXCEPT !.hook = hook, !.screen = Show(host, dash)], host, dash)
<1> DEFINE a == Advanced(t)
<1>1. /\ a \in SeqTab /\ SamePlace(t, a) /\ Older(t, a)
      /\ \A i \in 1..Len(t.writes) : a.writes[i].stale <=> t.writes[i].kind \in Captures
  BY AdvancedDoes
<1> HIDE DEF a
<1> DEFINE s == Show(host, dash)
<1>2. s \in Screen /\ s.host = host /\ s.dash = dash /\ s.rebuild = FALSE
  BY DEF Show, Screen
<1> HIDE DEF s
<1> DEFINE u == [a EXCEPT !.hook = hook, !.screen = s]
<1>3. /\ u \in SeqTab /\ u.writes = a.writes /\ u.screen = s
      /\ u.known = a.known /\ u.surface = a.surface /\ u.entries = a.entries /\ u.at = a.at
  BY <1>1, <1>2 DEF SeqTab
<1> HIDE DEF u
<1>4. SamePlace(t, u) /\ Older(t, u)
  BY <1>1, <1>3 DEF SamePlace, Older
<1>5. TabOK(u)
  BY <1>3, <1>4 DEF TabOK, SamePlace, Older
<1>6. LiveOK(u)
  BY <1>1, <1>3, <1>4 DEF LiveOK, Older, Captures
<1>7. OwedOK(u)
  BY <1>2, <1>3 DEF OwedOK
<1>8. u.screen.host = host /\ u.screen.dash = dash
  BY <1>2, <1>3
<1> QED BY <1>4, <1>5, <1>6, <1>7, <1>8 DEF Shows, u, a, s

LEMMA RenderQueryDoes ==
  ASSUME NEW t, TabOK(t), t.surface = None, Route(t) = "query"
  PROVE  Rendered(t, RenderQuery(t))
<1> DEFINE u == RenderQuery(t)
<1>1. "ignore" \in Hook /\ "query" \in {"query", "dashboard", "missing", "login"}
      /\ None \in Dashboards \cup {None}
  BY DEF Hook
<1>2. u = [Advanced(t) EXCEPT !.hook = "ignore", !.screen = Show("query", None)]
  BY DEF RenderQuery
<1> HIDE DEF u
<1>3. Shows(t, u, "query", None)
  BY <1>1, <1>2, Renders
<1>4. ShownOK(u) /\ Mounted(u)
  BY <1>3 DEF Shows, ShownOK, SamePlace, Route, Mounted
<1> QED BY <1>3, <1>4 DEF Shows, Rendered, ScreenOK, u

LEMMA RenderDashboardDoes ==
  ASSUME NEW t, TabOK(t), Route(t) = "dashboard"
  PROVE  Rendered(t, RenderDashboard(t))
<1> DEFINE d == IF t.surface = None THEN First(t.known) ELSE t.surface
           u == RenderDashboard(t)
<1>1. /\ t.known \in SUBSET Dashboards /\ t.surface \in Dashboards \cup {None}
      /\ None \notin Dashboards
  BY TabParts
<1>2. d \in Dashboards \cup {None} /\ (d # t.surface => t.surface = None)
  BY <1>1, FirstOfDashboards
<1>3. CASE d = None
  <2>1. "missing" \in Hook /\ "missing" \in {"query", "dashboard", "missing", "login"}
        /\ None \in Dashboards \cup {None}
    BY DEF Hook
  <2>2. u = [Advanced(t) EXCEPT !.hook = "missing", !.screen = Show("missing", None)]
    BY <1>3 DEF RenderDashboard
  <2> HIDE DEF u
  <2>3. Shows(t, u, "missing", None)
    BY <2>1, <2>2, Renders
  <2>4. ShownOK(u) /\ Mounted(u)
    BY <1>2, <1>3, <2>3 DEF Shows, ShownOK, SamePlace, Route, Mounted
  <2> QED BY <2>3, <2>4 DEF Shows, Rendered, ScreenOK, u
<1>4. CASE d # None
  <2>1. "renderer" \in Hook /\ "dashboard" \in {"query", "dashboard", "missing", "login"}
    BY DEF Hook
  <2>2. u = [Advanced(t) EXCEPT !.hook = "renderer", !.screen = Show("dashboard", d)]
    BY <1>4 DEF RenderDashboard
  <2> HIDE DEF u, d
  <2>3. Shows(t, u, "dashboard", d)
    BY <1>2, <2>1, <2>2, Renders
  <2>4. ShownOK(u) /\ Mounted(u)
    BY <1>1, <1>2, <1>4, <2>3 DEF Shows, ShownOK, SamePlace, Route, Mounted
  <2> QED BY <2>3, <2>4 DEF Shows, Rendered, ScreenOK, u
<1> QED BY <1>3, <1>4

\* The selection of a dashboard and the route of the editor exclude each other.
Agrees(t) == t.surface # None => Route(t) = "dashboard"

LEMMA RenderDoes ==
  ASSUME NEW t, TabOK(t), Agrees(t)
  PROVE  Rendered(t, Render(t))
<1>1. Route(t) \in {"query", "dashboard"}
  BY TabParts DEF Route, Current, Entry
<1>2. CASE Route(t) = "dashboard"
  BY <1>2, RenderDashboardDoes DEF Render
<1>3. CASE Route(t) = "query"
  BY <1>3, RenderQueryDoes DEF Render, Agrees
<1> QED BY <1>1, <1>2, <1>3

\* What rebuilding, telling a hook and refreshing do to a tab whose screen is in order.
Kept(t, u) ==
    /\ TabOK(u) /\ SamePlace(t, u) /\ Older(t, u) /\ ScreenOK(u)
    /\ Mounted(t) => Mounted(u)

LEMMA KeptAsIs ==
  ASSUME NEW t, TabOK(t), ScreenOK(t)
  PROVE  Kept(t, t)
BY DEF Kept, SamePlace, Older

LEMMA RenderedIsKept ==
  ASSUME NEW t, NEW u, Rendered(t, u)
  PROVE  Kept(t, u)
BY DEF Kept, Rendered

LEMMA RebuildRouteDoes ==
  ASSUME NEW t, TabOK(t), ShownOK(t), LiveOK(t), Route(t) = "dashboard"
  PROVE  Kept(t, RebuildRoute(t))
<1>1. CASE ~LivePending(t)
  <2>1. RebuildRoute(t) = RenderDashboard(t)
    BY <1>1 DEF RebuildRoute
  <2> QED BY <2>1, RenderDashboardDoes, RenderedIsKept
<1>2. CASE LivePending(t)
  <2> DEFINE s == [t.screen EXCEPT !.rebuild = TRUE]
             u == RebuildRoute(t)
  <2>1. t.screen \in Screen /\ t \in SeqTab
    BY TabParts DEF TabOK
  <2>2. s \in Screen /\ s.host = t.screen.host /\ s.dash = t.screen.dash
    BY <2>1 DEF Screen
  <2>3. u = [t EXCEPT !.screen = s]
    BY <1>2, <2>1 DEF RebuildRoute, SeqTab
  <2> HIDE DEF s, u
  <2>4. /\ u \in SeqTab /\ SamePlace(t, u) /\ u.writes = t.writes /\ u.screen = s
    BY <2>1, <2>2, <2>3 DEF SeqTab, SamePlace
  <2>5. TabOK(u) /\ Older(t, u)
    BY <2>4 DEF TabOK, SamePlace, Older
  <2>6. ShownOK(u) /\ (Mounted(t) => Mounted(u))
    BY <2>2, <2>4 DEF ShownOK, SamePlace, Mounted, Route
  <2>7. LiveOK(u) /\ OwedOK(u)
    BY <1>2, <2>2, <2>4 DEF LiveOK, OwedOK, LivePending, Mounted
  <2> QED BY <2>4, <2>5, <2>6, <2>7 DEF Kept, ScreenOK, u
<1> QED BY <1>1, <1>2

LEMMA NotifiedDoes ==
  ASSUME NEW t, TabOK(t), ScreenOK(t), NEW h
  PROVE  Kept(t, Notified(t, h))
<1>1. CASE Route(t) # "dashboard" \/ h \in {"ignore", "gone"}
  BY <1>1, KeptAsIs DEF Notified
<1>2. CASE Route(t) = "dashboard" /\ h \notin {"ignore", "gone"}
  <2>1. Notified(t, h) = RenderDashboard(t) \/ Notified(t, h) = RebuildRoute(t)
    BY <1>2 DEF Notified
  <2> QED BY <1>2, <2>1, RenderDashboardDoes, RenderedIsKept, RebuildRouteDoes DEF ScreenOK
<1> QED BY <1>1, <1>2

-----------------------------------------------------------------------------
(* History *)

LEMMA ReplacedEntry ==
  ASSUME NEW es \in Seq(Entry), NEW at \in 1..Len(es), NEW e \in Entry
  PROVE  LET fs == [es EXCEPT ![at] = e]
         IN  /\ fs \in Seq(Entry) /\ Len(fs) = Len(es) /\ fs[at] = e
             /\ \A i \in 1..Len(fs) : fs[i] = IF i = at THEN e ELSE es[i]
             /\ Alternates(es) /\ (e.route = "query" \/ es[at].route = "dashboard")
                  => Alternates(fs)
<1> DEFINE fs == [es EXCEPT ![at] = e]
<1>1. /\ fs \in Seq(Entry) /\ Len(fs) = Len(es) /\ Len(es) \in Nat
      /\ \A i \in 1..Len(es) : fs[i] = IF i = at THEN e ELSE es[i]
  BY ExceptSeq, LenProperties
<1> HIDE DEF fs
<1>2. ASSUME Alternates(es), e.route = "query" \/ es[at].route = "dashboard",
             NEW i \in 1..(Len(fs) - 1)
      PROVE  fs[i].route = "query" \/ fs[i+1].route = "query"
  <2>1. /\ i \in 1..Len(es) /\ i + 1 \in 1..Len(es) /\ i \in 1..(Len(es) - 1) /\ i # i + 1
        /\ es[i].route = "query" \/ es[i+1].route = "query"
    BY <1>1, <1>2 DEF Alternates
  <2> QED BY <1>1, <1>2, <2>1
<1>3. Alternates(es) /\ (e.route = "query" \/ es[at].route = "dashboard") => Alternates(fs)
  BY <1>2 DEF Alternates
<1> QED BY <1>1, <1>3 DEF fs

LEMMA PushedEntry ==
  ASSUME NEW es \in Seq(Entry), NEW at \in 1..Len(es), NEW e \in Entry
  PROVE  LET fs == Append(SubSeq(es, 1, at), e)
         IN  /\ fs \in Seq(Entry) /\ Len(fs) = at + 1 /\ fs[at + 1] = e
             /\ \A i \in 1..at : fs[i] = es[i]
             /\ Alternates(es) /\ (e.route = "query" \/ es[at].route = "query")
                  => Alternates(fs)
<1> DEFINE gs == SubSeq(es, 1, at)
           fs == Append(gs, e)
<1>1. Len(es) \in Nat /\ at \in Nat /\ at \in Int /\ 1 \in Int /\ 1 <= at
  BY LenProperties
<1>2. \A i \in 1..at : es[i] \in Entry
  BY <1>1, ElementOfSeq
<1>3. gs \in Seq(Entry) /\ Len(gs) = at /\ \A i \in 1..at : gs[i] = es[i]
  <2>1. /\ SubSeq(es, 1, at) \in Seq(Entry)
        /\ Len(SubSeq(es, 1, at)) = (IF 1 <= at THEN at - 1 + 1 ELSE 0)
        /\ \A i \in 1..(at - 1 + 1) : SubSeq(es, 1, at)[i] = es[1 + i - 1]
    BY <1>1, <1>2, SubSeqProperties
  <2>2. at - 1 + 1 = at /\ \A i \in 1..at : 1 + i - 1 = i
    BY <1>1
  <2> QED BY <1>1, <2>1, <2>2
<1> HIDE DEF gs
<1>4. /\ fs \in Seq(Entry) /\ Len(fs) = at + 1 /\ fs[at + 1] = e
      /\ \A i \in 1..at : fs[i] = gs[i]
  BY <1>3, AppendProperties
<1> HIDE DEF fs
<1>5. ASSUME Alternates(es), e.route = "query" \/ es[at].route = "query",
             NEW i \in 1..(Len(fs) - 1)
      PROVE  fs[i].route = "query" \/ fs[i+1].route = "query"
  <2>1. i \in 1..at /\ fs[i] = es[i]
    BY <1>1, <1>3, <1>4
  <2>2. CASE i = at
    BY <1>4, <1>5, <2>1, <2>2
  <2>3. CASE i # at
    <3>1. i \in 1..(Len(es) - 1) /\ i + 1 \in 1..at
      BY <1>1, <2>1, <2>3
    <3>2. fs[i+1] = es[i+1] /\ (es[i].route = "query" \/ es[i+1].route = "query")
      BY <1>3, <1>4, <1>5, <3>1 DEF Alternates
    <3> QED BY <2>1, <3>2
  <2> QED BY <2>2, <2>3
<1> QED BY <1>3, <1>4, <1>5 DEF Alternates, fs, gs

LEMMA PushedAtBound ==
  ASSUME NEW es \in Seq(Entry), Len(es) # 0, NEW e \in Entry
  PROVE  LET fs == Append(Tail(es), e)
         IN  /\ fs \in Seq(Entry) /\ Len(fs) = Len(es) /\ fs[Len(es)] = e
             /\ \A i \in 1..(Len(es) - 1) : fs[i] = es[i+1]
             /\ Alternates(es) /\ (e.route = "query" \/ es[Len(es)].route = "query")
                  => Alternates(fs)
<1> DEFINE gs == Tail(es)
           fs == Append(gs, e)
<1>1. Len(es) \in Nat /\ Len(es) - 1 + 1 = Len(es) /\ es # <<>>
  BY LenProperties, EmptySeq
<1>2. /\ gs \in Seq(Entry) /\ Len(gs) = Len(es) - 1
      /\ \A i \in 1..Len(gs) : gs[i] = es[i+1]
  BY <1>1, HeadTailProperties
<1> HIDE DEF gs
<1>3. /\ fs \in Seq(Entry) /\ Len(fs) = Len(gs) + 1 /\ fs[Len(gs) + 1] = e
      /\ \A i \in 1..Len(gs) : fs[i] = gs[i]
  BY <1>2, AppendProperties
<1> HIDE DEF fs
<1>4. ASSUME Alternates(es), e.route = "query" \/ es[Len(es)].route = "query",
             NEW i \in 1..(Len(fs) - 1)
      PROVE  fs[i].route = "query" \/ fs[i+1].route = "query"
  <2>1. i \in 1..Len(gs) /\ fs[i] = es[i+1] /\ i \in Nat
    BY <1>1, <1>2, <1>3
  <2>2. CASE i = Len(gs)
    <3>1. i + 1 = Len(es) /\ fs[i+1] = e
      BY <1>1, <1>2, <1>3, <2>2
    <3>2. fs[i] = es[Len(es)]
      BY <2>1, <3>1
    <3> QED BY <1>4, <3>1, <3>2
  <2>3. CASE i # Len(gs)
    <3>1. i + 1 \in 1..(Len(es) - 1) /\ i + 1 \in 1..Len(gs)
      <4>1. Len(gs) = Len(es) - 1
        BY <1>2
      <4>2. Len(es) \in Int
        BY <1>1
      <4>3. i \in 1..Len(gs) /\ i # Len(gs)
        BY <2>1, <2>3
      <4> QED BY <4>1, <4>2, <4>3
    <3>2. fs[i+1] = es[(i+1)+1] /\ (es[i+1].route = "query" \/ es[(i+1)+1].route = "query")
      BY <1>2, <1>3, <1>4, <3>1 DEF Alternates
    <3> QED BY <2>1, <3>2
  <2> QED BY <2>2, <2>3
<1> QED BY <1>1, <1>2, <1>3, <1>4 DEF Alternates, fs, gs

-----------------------------------------------------------------------------
(* Selection and history of a tab *)

\* u is t but for the entry it is at, which is e now.
Reentered(t, u, e) ==
    /\ TabOK(u)
    /\ u.known = t.known /\ u.surface = t.surface /\ u.at = t.at
    /\ u.screen = t.screen /\ u.hook = t.hook /\ u.writes = t.writes
    /\ Len(u.entries) = Len(t.entries) /\ Current(u) = e
    /\ \A i \in 1..Len(t.entries) : u.entries[i] = IF i = t.at THEN e ELSE t.entries[i]
    /\ Alternates(t.entries) /\ (e.route = "query" \/ Route(t) = "dashboard")
         => Alternates(u.entries)

LEMMA Reenters ==
  ASSUME NEW t, TabOK(t), NEW e \in Entry
  PROVE  Reentered(t, [t EXCEPT !.entries = [t.entries EXCEPT ![t.at] = e]], e)
<1> DEFINE fs == [t.entries EXCEPT ![t.at] = e]
<1>1. t \in SeqTab /\ t.entries \in Seq(Entry) /\ t.at \in 1..Len(t.entries)
  BY TabParts DEF TabOK
<1>2. /\ fs \in Seq(Entry) /\ Len(fs) = Len(t.entries) /\ fs[t.at] = e
      /\ \A i \in 1..Len(fs) : fs[i] = IF i = t.at THEN e ELSE t.entries[i]
      /\ Alternates(t.entries) /\ (e.route = "query" \/ t.entries[t.at].route = "dashboard")
           => Alternates(fs)
  BY <1>1, ReplacedEntry
<1> HIDE DEF fs
<1> DEFINE u == [t EXCEPT !.entries = fs]
<1>3. /\ u \in SeqTab /\ u.entries = fs
      /\ u.known = t.known /\ u.surface = t.surface /\ u.at = t.at
      /\ u.screen = t.screen /\ u.hook = t.hook /\ u.writes = t.writes
  BY <1>1, <1>2 DEF SeqTab
<1> HIDE DEF u
<1>4. TabOK(u)
  BY <1>1, <1>2, <1>3 DEF TabOK
<1> QED BY <1>2, <1>3, <1>4 DEF Reentered, Current, Route, u, fs

LEMMA NewEntryIs ==
  ASSUME NEW route \in {"query", "dashboard"}
  PROVE  /\ NewEntry(route) \in Entry /\ NewEntry(route).route = route
         /\ NewEntry(route).dash = None /\ NewEntry(route).seen = None
BY DEF NewEntry, Entry

\* A route was written: the tab is at a new entry, and the others are some of those before.
Written(t, u, route) ==
    /\ TabOK(u)
    /\ u.known = t.known /\ u.surface = t.surface
    /\ u.screen = t.screen /\ u.hook = t.hook /\ u.writes = t.writes
    /\ Current(u) = NewEntry(route)
    /\ \A i \in 1..Len(u.entries) :
         \/ u.entries[i] = NewEntry(route)
         \/ \E j \in 1..Len(t.entries) : u.entries[i] = t.entries[j]

LEMMA WriteRouteDoes ==
  ASSUME NEW t, TabOK(t), NEW route \in {"query", "dashboard"}, NEW push \in BOOLEAN
  PROVE  /\ Written(t, WriteRoute(t, route, push), route)
         /\ Alternates(t.entries) /\ (route = "query" \/ push = (Route(t) = "query"))
              => Alternates(WriteRoute(t, route, push).entries)
         /\ ~push => /\ WriteRoute(t, route, push).at = t.at
                     /\ Len(WriteRoute(t, route, push).entries) = Len(t.entries)
<1> DEFINE e == NewEntry(route)
           es == t.entries
<1>1. /\ t \in SeqTab /\ es \in Seq(Entry) /\ t.at \in 1..Len(es) /\ Len(es) \in Nat
      /\ Len(es) \in 1..MaxEntries /\ MaxEntries \in Nat
      /\ Len(t.writes) \in 0..MaxWrites
      /\ Route(t) \in {"query", "dashboard"} /\ Route(t) = es[t.at].route
  BY TabParts, NavigationAssumption DEF TabOK, Route, Current, Entry
<1>2. e \in Entry /\ e.route = route
  BY NewEntryIs
<1> HIDE DEF e
<1>3. CASE ~push
  <2>1. WriteRoute(t, route, push) = [t EXCEPT !.entries = [t.entries EXCEPT ![t.at] = e]]
    BY <1>1, <1>3 DEF WriteRoute, e, SeqTab
  <2>2. Reentered(t, WriteRoute(t, route, push), e)
    BY <1>2, <2>1, Reenters
  <2> QED BY <1>1, <1>2, <1>3, <2>2 DEF Reentered, Written, e
<1>4. CASE push
  <2> DEFINE full == t.at = MaxEntries
             fs == IF full THEN Append(Tail(es), e) ELSE Append(SubSeq(es, 1, t.at), e)
             to == IF full THEN t.at ELSE t.at + 1
             u == WriteRoute(t, route, push)
  <2>1. /\ fs \in Seq(Entry) /\ Len(fs) = to /\ to \in 1..MaxEntries /\ fs[to] = e
        /\ \A i \in 1..Len(fs) : fs[i] = e \/ \E j \in 1..Len(es) : fs[i] = es[j]
        /\ Alternates(es) /\ (e.route = "query" \/ es[t.at].route = "query")
             => Alternates(fs)
    <3>1. CASE full
      <4>1. t.at = Len(es) /\ Len(es) # 0
        BY <1>1, <3>1
      <4>2. /\ fs \in Seq(Entry) /\ Len(fs) = Len(es) /\ fs[Len(es)] = e
            /\ \A i \in 1..(Len(es) - 1) : fs[i] = es[i+1]
            /\ Alternates(es) /\ (e.route = "query" \/ es[Len(es)].route = "query")
                 => Alternates(fs)
        BY <1>1, <1>2, <3>1, <4>1, PushedAtBound
      <4> HIDE DEF fs
      <4>3. ASSUME NEW i \in 1..Len(fs)
            PROVE  fs[i] = e \/ \E j \in 1..Len(es) : fs[i] = es[j]
        <5>1. i = Len(es) \/ (i \in 1..(Len(es) - 1) /\ i + 1 \in 1..Len(es))
          BY <1>1, <4>2
        <5> QED BY <4>2, <5>1
      <4> QED BY <1>1, <3>1, <4>1, <4>2, <4>3
    <3>2. CASE ~full
      <4>1. t.at < MaxEntries /\ t.at + 1 \in 1..MaxEntries /\ t.at \in Nat
        BY <1>1, <3>2
      <4>2. /\ fs \in Seq(Entry) /\ Len(fs) = t.at + 1 /\ fs[t.at + 1] = e
            /\ \A i \in 1..t.at : fs[i] = es[i]
            /\ Alternates(es) /\ (e.route = "query" \/ es[t.at].route = "query")
                 => Alternates(fs)
        BY <1>1, <1>2, <3>2, PushedEntry
      <4> HIDE DEF fs
      <4>3. ASSUME NEW i \in 1..Len(fs)
            PROVE  fs[i] = e \/ \E j \in 1..Len(es) : fs[i] = es[j]
        <5>1. i = t.at + 1 \/ (i \in 1..t.at /\ i \in 1..Len(es))
          BY <1>1, <4>1, <4>2
        <5> QED BY <4>2, <5>1
      <4> QED BY <3>2, <4>1, <4>2, <4>3
    <3> QED BY <3>1, <3>2
  <2>2. u = [t EXCEPT !.entries = fs, !.at = to]
    <3>1. t.at < MaxEntries <=> ~full
      BY <1>1
    <3> QED BY <1>1, <1>4, <3>1 DEF WriteRoute, e, SeqTab
  <2> HIDE DEF fs, to, u
  <2>3. /\ u \in SeqTab /\ u.entries = fs /\ u.at = to
        /\ u.known = t.known /\ u.surface = t.surface
        /\ u.screen = t.screen /\ u.hook = t.hook /\ u.writes = t.writes
    BY <1>1, <2>1, <2>2 DEF SeqTab
  <2>4. TabOK(u) /\ Current(u) = e
    BY <1>1, <2>1, <2>3 DEF TabOK, Current
  <2>5. Written(t, u, route)
    BY <2>1, <2>3, <2>4 DEF Written, e
  <2> QED BY <1>1, <1>2, <1>4, <2>1, <2>3, <2>5 DEF u
<1> QED BY <1>3, <1>4

StoreOK(st, m) == m \in 0..MaxDashboards /\ st \subseteq 1..m

LEMMA StoreIsNatural ==
  ASSUME NEW st, NEW m, StoreOK(st, m)
  PROVE  m \in Nat /\ st \subseteq Nat /\ None \notin st
<1>1. m \in Nat /\ st \subseteq 1..m
  BY NavigationAssumption DEF StoreOK
<1>2. st \subseteq Nat
  BY <1>1
<1> QED BY <1>1, <1>2, NavigationAssumption

LEMMA NewEntryOK ==
  ASSUME NEW st, NEW m, StoreOK(st, m), NEW known, NEW route \in {"query", "dashboard"}
  PROVE  EntryOK(NewEntry(route), known, st, m)
<1>1. None \notin st
  BY StoreIsNatural
<1> QED BY <1>1, NewEntryIs DEF EntryOK

\* The entry that is left carries the selection.
LEMMA StampDoes ==
  ASSUME NEW t, TabOK(t), NEW st, NEW m, StoreOK(st, m), BaseOK(t, st, m), Agrees(t),
         Current(t).seen \in {None, t.surface}
  PROVE  /\ Reentered(t, Stamp(t), Current(Stamp(t)))
         /\ BaseOK(Stamp(t), st, m)
         /\ Current(Stamp(t)).dash = t.surface /\ Current(Stamp(t)).seen = Current(t).seen
         /\ Route(Stamp(t)) = Route(t)
<1> DEFINE e == [Current(t) EXCEPT !.dash = t.surface, !.kept = FALSE]
<1>1. /\ t \in SeqTab /\ t.entries \in Seq(Entry) /\ t.at \in 1..Len(t.entries)
      /\ Current(t) \in Entry /\ t.surface \in Dashboards \cup {None}
      /\ t.entries[t.at] = Current(t)
  BY TabParts DEF TabOK, Current
<1>2. /\ e \in Entry /\ e.route = Current(t).route /\ e.dash = t.surface
      /\ e.seen = Current(t).seen
  BY <1>1 DEF Entry
<1>3. Stamp(t) = [t EXCEPT !.entries = [t.entries EXCEPT ![t.at] = e]]
  <2>1. t.entries \in [1..Len(t.entries) -> Entry]
    BY <1>1, LenProperties
  <2> QED BY <1>1, <2>1 DEF Stamp, SeqTab, Entry
<1> HIDE DEF e
<1>4. Reentered(t, Stamp(t), e)
  BY <1>2, <1>3, Reenters
<1>5. Current(Stamp(t)) = e /\ Route(t) = Current(t).route /\ Route(Stamp(t)) = e.route
  BY <1>4 DEF Reentered, Route, Current
<1>6. EntryOK(e, t.known, st, m)
  <2>1. t.surface \in (1..m) \cup {None} /\ (t.surface \in st => t.surface \in t.known)
    BY StoreIsNatural DEF BaseOK
  <2>2. e.seen \in {None, e.dash} /\ (e.seen # None => e.route = "dashboard")
    BY <1>2, <1>5 DEF Agrees
  <2> QED BY <1>2, <2>1, <2>2 DEF EntryOK, Returns
<1>7. Alternates(Stamp(t).entries)
  <2>1. e.route \in {"query", "dashboard"}
    BY <1>2 DEF Entry
  <2> QED BY <1>2, <1>4, <1>5, <2>1 DEF BaseOK, Reentered
<1>8. BaseOK(Stamp(t), st, m)
  BY <1>4, <1>6, <1>7 DEF BaseOK, Reentered
<1> QED BY <1>2, <1>4, <1>5, <1>8

SeenOK(t) == Current(t).seen \in {None, t.surface}

\* The screen, the hook and the writes are left alone.
SameScreen(t, u) == u.screen = t.screen /\ u.hook = t.hook /\ u.writes = t.writes

LEMMA SelectedDoes ==
  ASSUME NEW t, TabOK(t), NEW st, NEW m, StoreOK(st, m), BaseOK(t, st, m),
         NEW s \in t.known \cup {None}, NEW push \in BOOLEAN,
         s = None \/ push = (Route(t) = "query")
  PROVE  LET u == Selected(t, s, push)
         IN  /\ TabOK(u) /\ PlaceOK(u, st, m) /\ SeenOK(u) /\ SameScreen(t, u)
             /\ u.known = t.known /\ u.surface = s
<1> DEFINE r == [t EXCEPT !.surface = s]
           route == IF s = None THEN "query" ELSE "dashboard"
           w == WriteRoute(r, route, push)
           u == Selected(t, s, push)
<1>1. t \in SeqTab /\ t.known \subseteq Dashboards
  BY TabParts DEF TabOK
<1>2. /\ r \in SeqTab /\ r.known = t.known /\ r.surface = s /\ r.entries = t.entries
      /\ r.at = t.at /\ SameScreen(t, r)
  BY <1>1 DEF SeqTab, SameScreen
<1>3. TabOK(r) /\ Route(r) = Route(t) /\ BaseOK(r, st, m)
  BY <1>2 DEF TabOK, SameScreen, Route, BaseOK
<1>4. route \in {"query", "dashboard"} /\ (route = "query" \/ push = (Route(r) = "query"))
  BY <1>3
<1>5. u = IF s = None THEN w ELSE Stamp(w)
  BY DEF Selected
<1> HIDE DEF r, route, u
<1>6. /\ Written(r, w, route)
      /\ Alternates(w.entries)
  BY <1>3, <1>4, WriteRouteDoes DEF BaseOK
<1> HIDE DEF w
<1>7. /\ TabOK(w) /\ Current(w) = NewEntry(route) /\ w.known = t.known /\ w.surface = s
      /\ SameScreen(t, w)
  BY <1>2, <1>6 DEF Written, SameScreen
<1>8. EntryOK(NewEntry(route), t.known, st, m)
  BY <1>4, NewEntryOK
<1>9. BaseOK(w, st, m)
  BY <1>2, <1>3, <1>6, <1>7, <1>8 DEF BaseOK, Written
<1>10. Current(w).seen = None /\ Route(w) = route
  BY <1>4, <1>7, NewEntryIs DEF Route, Current
<1>11. CASE s = None
  BY <1>5, <1>7, <1>9, <1>10, <1>11 DEF PlaceOK, NotableOK, SeenOK, u
<1>12. CASE s # None
  <2>1. Agrees(w)
    BY <1>10, <1>12 DEF Agrees, route
  <2>2. /\ Reentered(w, Stamp(w), Current(Stamp(w))) /\ BaseOK(Stamp(w), st, m)
        /\ Current(Stamp(w)).dash = w.surface /\ Current(Stamp(w)).seen = None
        /\ Route(Stamp(w)) = "dashboard"
    BY <1>7, <1>9, <1>10, <1>12, <2>1, StampDoes DEF route
  <2>3. u = Stamp(w)
    BY <1>5, <1>12
  <2>4. /\ TabOK(u) /\ SameScreen(w, u) /\ u.known = w.known /\ u.surface = w.surface
    BY <2>2, <2>3 DEF Reentered, SameScreen
  <2>5. PlaceOK(u, st, m) /\ SeenOK(u)
    BY <1>7, <2>2, <2>3, <2>4 DEF PlaceOK, NotableOK, SeenOK, Returns
  <2> QED BY <1>7, <2>4, <2>5 DEF SameScreen, u
<1> QED BY <1>11, <1>12

-----------------------------------------------------------------------------
(* Handlers *)

\* What a handler finds and leaves.
Fit(t, st, m) == TabOK(t) /\ PlaceOK(t, st, m) /\ SeenOK(t) /\ ScreenOK(t)

Follows(t, u) == Older(t, u) /\ (Mounted(t) => Mounted(u))

LEMMA OlderTransitive ==
  ASSUME NEW t, NEW u, NEW v, Older(t, u), Older(u, v)
  PROVE  Older(t, v)
BY DEF Older

LEMMA FollowsTransitive ==
  ASSUME NEW t, NEW u, NEW v, Follows(t, u), Follows(u, v)
  PROVE  Follows(t, v)
BY OlderTransitive DEF Follows

LEMMA PlaceKept ==
  ASSUME NEW t, NEW u, SamePlace(t, u), NEW st, NEW m, PlaceOK(t, st, m)
  PROVE  PlaceOK(u, st, m) /\ (SeenOK(t) => SeenOK(u))
BY DEF SamePlace, PlaceOK, BaseOK, NotableOK, SeenOK, Route, Current

LEMMA KeptFits ==
  ASSUME NEW t, NEW u, Kept(t, u), NEW st, NEW m, Fit(t, st, m)
  PROVE  Fit(u, st, m) /\ Follows(t, u)
BY PlaceKept DEF Kept, Fit, Follows

LEMMA FitAgrees ==
  ASSUME NEW t, NEW st, NEW m, Fit(t, st, m)
  PROVE  Agrees(t) /\ TabOK(t) /\ BaseOK(t, st, m) /\ Current(t).seen \in {None, t.surface}
BY DEF Fit, PlaceOK, NotableOK, Agrees, SeenOK

LEMMA RenderFits ==
  ASSUME NEW t, NEW st, NEW m, Fit(t, st, m)
  PROVE  Fit(Render(t), st, m) /\ Follows(t, Render(t)) /\ SamePlace(t, Render(t))
<1>1. Rendered(t, Render(t))
  BY FitAgrees, RenderDoes
<1>2. Kept(t, Render(t))
  BY <1>1, RenderedIsKept
<1> QED BY <1>2, KeptFits DEF Kept

LEMMA ApplyFits ==
  ASSUME NEW t, NEW st, NEW m, StoreOK(st, m), Fit(t, st, m),
         NEW s \in t.known \cup {None}, NEW push \in BOOLEAN,
         s = None \/ push = (Route(t) = "query")
  PROVE  /\ Fit(ApplyMainSurface(t, s, push), st, m)
         /\ Follows(t, ApplyMainSurface(t, s, push))
         /\ Mounted(ApplyMainSurface(t, s, push))
<1> DEFINE a == Stamp(t)
<1>1. Reentered(t, a, Current(a)) /\ BaseOK(a, st, m) /\ Route(a) = Route(t)
  BY FitAgrees, StampDoes
<1>2. TabOK(a) /\ a.known = t.known /\ a.writes = t.writes /\ a.screen = t.screen
  BY <1>1 DEF Reentered
<1> HIDE DEF a
<1> DEFINE b == Selected(a, s, push)
<1>3. /\ TabOK(b) /\ PlaceOK(b, st, m) /\ SeenOK(b) /\ SameScreen(a, b)
  BY <1>1, <1>2, SelectedDoes
<1> HIDE DEF b
<1>4. Agrees(b)
  BY <1>3 DEF PlaceOK, NotableOK, Agrees
<1> DEFINE c == Render(b)
<1>5. Rendered(b, c)
  BY <1>3, <1>4, RenderDoes
<1>6. c = ApplyMainSurface(t, s, push)
  BY DEF ApplyMainSurface, a, b
<1> HIDE DEF c
<1>7. Fit(c, st, m) /\ Mounted(c)
  BY <1>3, <1>5, PlaceKept DEF Rendered, Fit
<1>8. Older(t, c)
  BY <1>2, <1>3, <1>5 DEF Rendered, Older, SameScreen
<1> QED BY <1>6, <1>7, <1>8 DEF Follows

LEMMA OpenFits ==
  ASSUME NEW t, NEW st, NEW m, StoreOK(st, m), Fit(t, st, m), NEW d \in t.known
  PROVE  Fit(Open(t, d), st, m) /\ Follows(t, Open(t, d)) /\ Mounted(Open(t, d))
BY ApplyFits DEF Open

LEMMA ShowQueryFits ==
  ASSUME NEW t, NEW st, NEW m, StoreOK(st, m), Fit(t, st, m)
  PROVE  Fit(ShowQuery(t), st, m) /\ Follows(t, ShowQuery(t))
<1>1. CASE t.surface = None /\ Route(t) = "query"
  <2>1. ShowQuery(t) = t
    BY <1>1 DEF ShowQuery
  <2> QED BY <2>1 DEF Follows, Older
<1>2. CASE ~(t.surface = None /\ Route(t) = "query")
  <2>1. ShowQuery(t) = ApplyMainSurface(t, None, Route(t) = "dashboard")
    BY <1>2 DEF ShowQuery
  <2>2. None \in t.known \cup {None} /\ (Route(t) = "dashboard") \in BOOLEAN
    OBVIOUS
  <2> QED BY <2>1, <2>2, ApplyFits
<1> QED BY <1>1, <1>2

-----------------------------------------------------------------------------
(* What becomes of the dashboards *)

\* Dashboards are created above those there were; any may be deleted.
Grows(st0, m0, st, m) ==
    /\ StoreOK(st0, m0) /\ StoreOK(st, m) /\ m0 <= m
    /\ \A d \in st : d \in st0 \/ m0 < d

LEMMA GrowsFrom ==
  ASSUME NEW st0, NEW m0, NEW st, NEW m, Grows(st0, m0, st, m)
  PROVE  /\ m0 \in Nat /\ m \in Nat /\ 1..m0 \subseteq 1..m
         /\ \A d \in st : d \in Nat
         /\ \A d \in 1..m0 : d \in st => d \in st0
         /\ \A d \in 1..m0, c \in st : c \in st0 \/ (d <= c /\ d # c)
         /\ None \notin st /\ None \notin st0
<1>1. /\ m0 \in Nat /\ m \in Nat /\ st \subseteq Nat /\ None \notin st /\ None \notin st0
      /\ m0 <= m
  BY StoreIsNatural DEF Grows
<1>2. \A d \in 1..m0 : d \in Nat /\ d <= m0 /\ ~(m0 < d)
  BY <1>1
<1>3. \A d \in 1..m0 : d \in st => d \in st0
  BY <1>2 DEF Grows
<1>4. ASSUME NEW d \in 1..m0, NEW c \in st, c \notin st0
      PROVE  d <= c /\ d # c
  <2>1. m0 < c /\ c \in Nat
    BY <1>1, <1>4 DEF Grows
  <2> QED BY <1>1, <1>2, <2>1
<1>5. 1..m0 \subseteq 1..m
  BY <1>1
<1> QED BY <1>1, <1>3, <1>4, <1>5

\* An entry that is in order stays so, whether the tab has read the change or not.
LEMMA EntryGrows ==
  ASSUME NEW st0, NEW m0, NEW st, NEW m, Grows(st0, m0, st, m), NEW e, NEW known,
         EntryOK(e, known, st0, m0)
  PROVE  EntryOK(e, known, st, m) /\ EntryOK(e, st, st, m)
<1>1. /\ e.dash \in (1..m0) \cup {None} /\ e.seen \in (1..m0) \cup {None}
      /\ e.dash \in st0 => e.dash \in known
  BY DEF EntryOK
<1>2. e.dash \in st => e.dash \in st0
  BY <1>1, GrowsFrom
<1>3. e.dash \in (1..m) \cup {None} /\ e.seen \in (1..m) \cup {None}
  BY <1>1, GrowsFrom
<1>4. ASSUME e.seen # None, ~e.kept
      PROVE  e.route = "dashboard" /\ Returns(e, e.seen, known, st) /\ Returns(e, e.seen, st, st)
  <2>1. e.route = "dashboard" /\ Returns(e, e.seen, known, st0)
    BY <1>4 DEF EntryOK
  <2>2. \A c \in st : c \in st0 \/ e.seen <= c
    BY <1>1, <1>4, GrowsFrom
  <2>3. e.dash \notin known => e.dash \notin st
    BY <1>1, <1>2
  <2> QED BY <2>1, <2>2, <2>3 DEF Returns
<1> QED BY <1>1, <1>2, <1>3, <1>4 DEF EntryOK

\* A change made elsewhere leaves the place of the tab in order.
LEMMA PlaceGrows ==
  ASSUME NEW st0, NEW m0, NEW st, NEW m, Grows(st0, m0, st, m), NEW t, PlaceOK(t, st0, m0)
  PROVE  PlaceOK(t, st, m)
<1>1. /\ t.known \subseteq 1..m0 /\ t.surface \in t.known \cup {None}
      /\ \A d \in st0 \ t.known, e \in t.known : e < d
      /\ Alternates(t.entries)
      /\ \A i \in 1..Len(t.entries) : EntryOK(t.entries[i], t.known, st0, m0)
  BY DEF PlaceOK, BaseOK
<1>2. t.known \subseteq 1..m
  BY <1>1, GrowsFrom
<1>3. ASSUME NEW d \in st \ t.known, NEW e \in t.known
      PROVE  e < d
  <2>1. CASE d \in st0
    BY <1>1, <2>1
  <2>2. CASE d \notin st0
    <3>1. e \in 1..m0 /\ e <= d /\ e # d /\ d \in Nat
      BY <1>1, <2>2, GrowsFrom
    <3>2. e \in Nat
      BY <3>1, GrowsFrom
    <3> QED BY <3>1, <3>2
  <2> QED BY <2>1, <2>2
<1>4. \A i \in 1..Len(t.entries) : EntryOK(t.entries[i], t.known, st, m)
  BY <1>1, EntryGrows
<1>5. NotableOK(t, st)
  <2>1. ASSUME t.surface # None, ~Current(t).kept, Returns(Current(t), t.surface, t.known, st0)
        PROVE  Returns(Current(t), t.surface, t.known, st)
    <3>1. t.surface \in 1..m0
      BY <1>1, <2>1
    <3>2. \A c \in st : c \in st0 \/ t.surface <= c
      BY <3>1, GrowsFrom
    <3> QED BY <2>1, <3>2 DEF Returns
  <2> QED BY <2>1 DEF PlaceOK, NotableOK
<1> QED BY <1>1, <1>2, <1>3, <1>4, <1>5 DEF PlaceOK, BaseOK

\* Reading the store: u is t but for what it knows.
LEMMA PlaceRead ==
  ASSUME NEW st0, NEW m0, NEW st, NEW m, Grows(st0, m0, st, m), NEW t, TabOK(t),
         PlaceOK(t, st0, m0), NEW u, u.known = st, u.entries = t.entries, u.at = t.at,
         u.surface = IF t.surface \in st THEN t.surface ELSE None
  PROVE  BaseOK(u, st, m) /\ (t.surface \in st => NotableOK(u, st))
<1>1. /\ t.known \subseteq 1..m0 /\ t.surface \in t.known \cup {None}
      /\ Alternates(t.entries)
      /\ \A i \in 1..Len(t.entries) : EntryOK(t.entries[i], t.known, st0, m0)
  BY DEF PlaceOK, BaseOK
<1>2. \A i \in 1..Len(u.entries) : EntryOK(u.entries[i], u.known, st, m)
  BY <1>1, EntryGrows
<1>3. BaseOK(u, st, m)
  BY <1>1, <1>2 DEF BaseOK, Grows, StoreOK
<1>4. ASSUME t.surface \in st
      PROVE  NotableOK(u, st)
  <2>1. /\ t.surface # None /\ u.surface = t.surface /\ t.surface \in 1..m0
        /\ Route(u) = Route(t) /\ Current(u) = Current(t)
    BY <1>1, <1>4, GrowsFrom DEF Route, Current
  <2>2. /\ Current(t).dash \in (1..m0) \cup {None}
        /\ Current(t).dash \in st0 => Current(t).dash \in t.known
    <3>1. t.at \in 1..Len(t.entries)
      BY TabParts
    <3> QED BY <1>1, <3>1 DEF EntryOK, Current
  <2>3. ASSUME Returns(Current(t), t.surface, t.known, st0)
        PROVE  Returns(Current(t), t.surface, st, st)
    <3>1. \A c \in st : c \in st0 \/ t.surface <= c
      BY <2>1, GrowsFrom
    <3>2. Current(t).dash \in st => Current(t).dash \in st0
      BY <2>2, GrowsFrom
    <3> QED BY <2>2, <2>3, <3>1, <3>2 DEF Returns
  <2> QED BY <2>1, <2>3 DEF PlaceOK, NotableOK
<1> QED BY <1>3, <1>4

\* The surface is the one it was, unless its dashboard is gone.
Stays(t, u) ==
    /\ u.at = t.at /\ Len(u.entries) = Len(t.entries)
    /\ u.surface = IF t.surface \in u.known THEN t.surface ELSE None

Projected(t, u, st, m) ==
    /\ Fit(u, st, m) /\ Follows(t, u) /\ Stays(t, u)
    /\ u.known = st /\ (Mounted(u) <=> Mounted(t))

\* The first half of Project: the collection is read, a lost selection dropped.
Read(t, st, changes) ==
    [t EXCEPT !.known = st,
              !.surface = IF t.surface \notin st \cup {None} THEN None ELSE @,
              !.screen.behind = IF t.screen.host \in {"dashboard", "missing"}
                                THEN @ \cup changes ELSE @]

LEMMA ReadDoes ==
  ASSUME NEW st0, NEW m0, NEW st, NEW m, Grows(st0, m0, st, m), NEW t, TabOK(t),
         PlaceOK(t, st0, m0), NEW changes, changes \subseteq Changes
  PROVE  LET u == Read(t, st, changes)
         IN  /\ TabOK(u) /\ BaseOK(u, st, m) /\ (t.surface \in st => NotableOK(u, st))
             /\ u.known = st /\ u.entries = t.entries /\ u.at = t.at /\ u.writes = t.writes
             /\ u.surface = IF t.surface \in st THEN t.surface ELSE None
             /\ u.screen.host = t.screen.host /\ u.screen.dash = t.screen.dash
             /\ u.screen.rebuild = t.screen.rebuild
<1> DEFINE s == [t.screen EXCEPT !.behind = IF t.screen.host \in {"dashboard", "missing"}
                                            THEN @ \cup changes ELSE @]
           sur == IF t.surface \in st THEN t.surface ELSE None
           u == Read(t, st, changes)
<1>1. t.screen \in Screen /\ t \in SeqTab
  BY TabParts DEF TabOK
<1>2. /\ s \in Screen /\ s.host = t.screen.host /\ s.dash = t.screen.dash
      /\ s.rebuild = t.screen.rebuild
  BY <1>1 DEF Screen
<1>3. st \subseteq Dashboards /\ sur \in Dashboards \cup {None}
  <2>1. st \subseteq Dashboards
    <3>1. m \in 0..MaxDashboards /\ MaxDashboards \in Nat /\ st \subseteq 1..m
      BY NavigationAssumption DEF Grows, StoreOK
    <3>2. 1..m \subseteq 1..MaxDashboards
      BY <3>1
    <3> QED BY <3>1, <3>2 DEF Dashboards
  <2> QED BY <2>1
<1>4. u = [t EXCEPT !.known = st, !.surface = sur, !.screen = s]
  <2>1. sur = IF t.surface \notin st \cup {None} THEN None ELSE t.surface
    OBVIOUS
  <2> QED BY <1>1, <2>1 DEF Read, SeqTab
<1> HIDE DEF s, u
<1>5. sur = IF t.surface \in st THEN t.surface ELSE None
  OBVIOUS
<1> HIDE DEF sur
<1>6. /\ u \in SeqTab /\ u.known = st /\ u.entries = t.entries /\ u.at = t.at
      /\ u.writes = t.writes /\ u.surface = sur /\ u.screen = s
  BY <1>1, <1>2, <1>3, <1>4 DEF SeqTab
<1>7. TabOK(u)
  BY <1>6 DEF TabOK
<1>8. BaseOK(u, st, m) /\ (t.surface \in st => NotableOK(u, st))
  BY <1>5, <1>6, PlaceRead
<1> QED BY <1>2, <1>5, <1>6, <1>7, <1>8 DEF u

\* A change committed here or read from the store.
LEMMA ProjectFits ==
  ASSUME NEW st0, NEW m0, NEW st, NEW m, Grows(st0, m0, st, m), NEW t, Fit(t, st0, m0),
         NEW changes, changes \subseteq Changes
  PROVE  Projected(t, Project(t, st, changes), st, m)
<1> DEFINE r == Read(t, st, changes)
           u == Project(t, st, changes)
<1>1. TabOK(t) /\ PlaceOK(t, st0, m0) /\ SeenOK(t) /\ ShownOK(t) /\ LiveOK(t) /\ OwedOK(t)
  BY DEF Fit, ScreenOK
<1>2. /\ TabOK(r) /\ BaseOK(r, st, m) /\ (t.surface \in st => NotableOK(r, st))
      /\ r.known = st /\ r.entries = t.entries /\ r.at = t.at /\ r.writes = t.writes
      /\ r.surface = IF t.surface \in st THEN t.surface ELSE None
      /\ r.screen.host = t.screen.host /\ r.screen.dash = t.screen.dash
      /\ r.screen.rebuild = t.screen.rebuild
  BY <1>1, ReadDoes
<1>3. /\ Route(r) = Route(t) /\ Current(r) = Current(t) /\ (Mounted(r) <=> Mounted(t))
      /\ Older(t, r)
  BY <1>2 DEF Route, Current, Mounted, Older
<1>4. u = IF t.surface \in st \cup {None} THEN r
          ELSE Render(IF Route(t) = "dashboard" THEN WriteRoute(r, "query", FALSE) ELSE r)
  <2>1. u = IF ~(t.surface \notin st \cup {None}) THEN r
            ELSE Render(IF Route(t) = "dashboard" THEN WriteRoute(r, "query", FALSE) ELSE r)
    BY Zenon DEF Project, Read
  <2> HIDE DEF r, u
  <2> QED BY <2>1
<1> HIDE DEF r, u
<1>5. CASE t.surface \in st \cup {None}
  <2>1. r.surface = t.surface
    BY <1>2, <1>5
  <2>2. PlaceOK(r, st, m) /\ SeenOK(r)
    BY <1>1, <1>2, <1>3, <1>5, <2>1 DEF PlaceOK, NotableOK, SeenOK
  <2>3. ScreenOK(r)
    <3>1. LivePending(r) <=> LivePending(t)
      BY <1>2 DEF LivePending
    <3>2. ShownOK(r)
      BY <1>1, <1>2, <1>3, <2>1 DEF ShownOK
    <3>3. LiveOK(r)
      BY <1>1, <1>2, <1>3 DEF LiveOK
    <3>4. OwedOK(r)
      BY <1>1, <1>2, <3>1 DEF OwedOK
    <3> QED BY <3>2, <3>3, <3>4 DEF ScreenOK
  <2>4. u = r
    BY <1>4, <1>5
  <2>5. Fit(u, st, m) /\ Follows(t, u)
    BY <1>2, <1>3, <2>2, <2>3, <2>4 DEF Fit, Follows
  <2>6. Stays(t, u)
    BY <1>2, <2>4 DEF Stays
  <2> QED BY <1>2, <1>3, <2>4, <2>5, <2>6 DEF Projected, u
<1>6. CASE t.surface \notin st \cup {None}
  <2>1. Route(r) = "dashboard" /\ Mounted(t) /\ r.surface = None
    BY <1>1, <1>2, <1>3, <1>6 DEF PlaceOK, NotableOK, ShownOK
  <2> DEFINE w == WriteRoute(r, "query", FALSE)
  <2>2. /\ Written(r, w, "query") /\ Alternates(w.entries)
        /\ w.at = r.at /\ Len(w.entries) = Len(r.entries)
    BY <1>2, WriteRouteDoes DEF BaseOK
  <2>3. u = Render(w)
    BY <1>3, <1>4, <1>6, <2>1
  <2> HIDE DEF w
  <2>4. /\ TabOK(w) /\ Current(w) = NewEntry("query") /\ w.known = st /\ w.surface = None
        /\ w.writes = t.writes
    BY <1>2, <2>1, <2>2 DEF Written
  <2>5. EntryOK(NewEntry("query"), st, st, m)
    BY NewEntryOK DEF Grows
  <2>6. BaseOK(w, st, m)
    BY <1>2, <2>2, <2>4, <2>5 DEF BaseOK, Written
  <2>7. PlaceOK(w, st, m) /\ SeenOK(w) /\ Agrees(w)
    BY <2>4, <2>6, NewEntryIs DEF PlaceOK, NotableOK, SeenOK, Agrees
  <2>8. Rendered(w, u)
    BY <2>3, <2>4, <2>7, RenderDoes
  <2>9. Fit(u, st, m) /\ Mounted(u)
    BY <2>7, <2>8, PlaceKept DEF Rendered, Fit
  <2>10. Follows(t, u)
    BY <2>4, <2>8, <2>9 DEF Rendered, Older, Follows
  <2>11. u.known = st /\ u.surface = None /\ u.at = t.at /\ Len(u.entries) = Len(t.entries)
    BY <1>2, <2>2, <2>4, <2>8 DEF Rendered, SamePlace
  <2>12. Stays(t, u)
    BY <1>6, <2>11 DEF Stays
  <2> QED BY <2>1, <2>9, <2>10, <2>11, <2>12 DEF Projected, u
<1> QED BY <1>5, <1>6

-----------------------------------------------------------------------------
(* Coming to an entry, and leaving a handler *)

LEMMA OldestKnown ==
  ASSUME NEW t, TabOK(t), NEW st, NEW m, StoreOK(st, m), BaseOK(t, st, m), First(t.known) # None
  PROVE  First(t.known) \in t.known /\ \A c \in t.known \cup st : First(t.known) <= c
<1>1. First(t.known) \in t.known /\ \A c \in t.known : First(t.known) <= c
  BY TabParts, FirstOfDashboards
<1>2. ASSUME NEW c \in st, c \notin t.known
      PROVE  First(t.known) <= c
  <2>1. First(t.known) < c
    BY <1>1, <1>2 DEF BaseOK
  <2>2. First(t.known) \in Nat /\ c \in Nat
    <3>1. t.known \subseteq 1..m /\ m \in Nat /\ st \subseteq Nat
      BY StoreIsNatural DEF BaseOK
    <3>2. First(t.known) \in 1..m
      BY <1>1, <3>1
    <3> QED BY <3>1, <3>2
  <2> QED BY <2>1, <2>2
<1> QED BY <1>1, <1>2

\* The route decides, unless a dashboard is selected and stays.
LEMMA AdoptDoes ==
  ASSUME NEW t, TabOK(t), NEW st, NEW m, StoreOK(st, m), BaseOK(t, st, m),
         t.surface = None \/ Route(t) = "query" \/ Current(t).kept
  PROVE  LET u == Adopt(t)
         IN  /\ TabOK(u) /\ PlaceOK(u, st, m) /\ SameScreen(t, u)
             /\ u.known = t.known /\ u.entries = t.entries /\ u.at = t.at
<1> DEFINE snapshot == t.entries[t.at].dash
           chosen == IF Route(t) = "query" THEN None
                     ELSE IF t.surface # None THEN t.surface
                     ELSE IF snapshot \in t.known THEN snapshot ELSE First(t.known)
           u == Adopt(t)
<1>1. /\ t \in SeqTab /\ t.known \subseteq Dashboards /\ t.surface \in t.known \cup {None}
      /\ Route(t) \in {"query", "dashboard"} /\ snapshot = Current(t).dash
  BY TabParts DEF TabOK, BaseOK, Route, Current, Entry
<1>2. First(t.known) \in t.known \cup {None}
  BY <1>1, FirstOfDashboards
<1>3. chosen \in t.known \cup {None}
  BY <1>1, <1>2
<1>4. u = [t EXCEPT !.surface = chosen]
  BY DEF Adopt
<1>5. chosen # None =>
        /\ Route(t) = "dashboard"
        /\ Current(t).kept \/ Returns(Current(t), chosen, t.known, st)
  <2> SUFFICES ASSUME chosen # None
               PROVE  /\ Route(t) = "dashboard"
                      /\ Current(t).kept \/ Returns(Current(t), chosen, t.known, st)
    OBVIOUS
  <2>1. Route(t) = "dashboard"
    BY <1>1
  <2>2. CASE t.surface # None
    BY <2>1, <2>2
  <2>3. CASE t.surface = None /\ snapshot \in t.known
    BY <1>1, <2>1, <2>3 DEF Returns
  <2>4. CASE t.surface = None /\ snapshot \notin t.known
    <3>1. chosen = First(t.known)
      BY <2>1, <2>4
    <3>2. \A c \in t.known \cup st : First(t.known) <= c
      BY <3>1, OldestKnown
    <3> QED BY <1>1, <2>1, <2>4, <3>1, <3>2 DEF Returns
  <2> QED BY <2>2, <2>3, <2>4
<1> HIDE DEF chosen, u
<1>6. /\ u \in SeqTab /\ u.known = t.known /\ u.surface = chosen /\ u.entries = t.entries
      /\ u.at = t.at /\ SameScreen(t, u)
  BY <1>1, <1>3, <1>4 DEF SeqTab, SameScreen
<1>7. TabOK(u)
  BY <1>6 DEF TabOK, SameScreen
<1>8. Route(u) = Route(t) /\ Current(u) = Current(t)
  BY <1>6 DEF Route, Current
<1>9. BaseOK(u, st, m)
  BY <1>3, <1>6 DEF BaseOK
<1>10. NotableOK(u, st)
  BY <1>5, <1>6, <1>8 DEF NotableOK
<1> QED BY <1>6, <1>7, <1>9, <1>10 DEF PlaceOK, u

\* What the steps leave.
Rest(t, st, m) == TabOK(t) /\ PlaceOK(t, st, m) /\ ScreenOK(t) /\ NotedOK(t)

LEMMA RestFits ==
  ASSUME NEW t, NEW st, NEW m, Rest(t, st, m)
  PROVE  Fit(t, st, m)
BY DEF Rest, Fit, NotedOK, SeenOK

\* u is t but for what the entry it is at remembers.
Alike(t, u) ==
    /\ u.known = t.known /\ u.surface = t.surface /\ u.at = t.at /\ Route(u) = Route(t)
    /\ Len(u.entries) = Len(t.entries)
    /\ SameScreen(t, u)

LEMMA NotedDoes ==
  ASSUME NEW t, TabOK(t), NEW st, NEW m, StoreOK(st, m), PlaceOK(t, st, m)
  PROVE  /\ TabOK(Noted(t)) /\ PlaceOK(Noted(t), st, m) /\ NotedOK(Noted(t))
         /\ Alike(t, Noted(t))
<1> DEFINE e == [Current(t) EXCEPT !.seen = t.surface]
           u == Noted(t)
<1>1. /\ t \in SeqTab /\ t.entries \in Seq(Entry) /\ t.at \in 1..Len(t.entries)
      /\ Current(t) \in Entry /\ t.surface \in Dashboards \cup {None}
      /\ t.entries[t.at] = Current(t)
  BY TabParts DEF TabOK, Current
<1>2. /\ e \in Entry /\ e.route = Current(t).route /\ e.dash = Current(t).dash
      /\ e.seen = t.surface /\ e.kept = Current(t).kept
  BY <1>1 DEF Entry
<1>3. u = [t EXCEPT !.entries = [t.entries EXCEPT ![t.at] = e]]
  <2>1. t.entries \in [1..Len(t.entries) -> Entry]
    BY <1>1, LenProperties
  <2> QED BY <1>1, <2>1 DEF Noted, SeqTab, Entry
<1> HIDE DEF e, u
<1>4. Reentered(t, u, e)
  BY <1>2, <1>3, Reenters
<1>5. /\ TabOK(u) /\ u.known = t.known /\ u.surface = t.surface /\ u.at = t.at
      /\ Len(u.entries) = Len(t.entries) /\ SameScreen(t, u) /\ Current(u) = e
  BY <1>4 DEF Reentered, SameScreen
<1>6. Route(u) = Route(t) /\ Route(t) = Current(t).route
  BY <1>2, <1>5 DEF Route, Current
<1>7. Returns(Current(t), t.surface, t.known, st) => Returns(e, t.surface, t.known, st)
  BY <1>2 DEF Returns
<1>8. EntryOK(e, t.known, st, m)
  <2>1. t.surface \in (1..m) \cup {None}
    BY DEF PlaceOK, BaseOK
  <2>2. EntryOK(Current(t), t.known, st, m)
    BY <1>1 DEF PlaceOK, BaseOK
  <2>3. t.surface # None /\ ~e.kept
          => e.route = "dashboard" /\ Returns(e, t.surface, t.known, st)
    BY <1>2, <1>6, <1>7 DEF PlaceOK, NotableOK
  <2> QED BY <1>2, <2>1, <2>2, <2>3 DEF EntryOK
<1>9. Alternates(u.entries)
  <2>1. e.route = "query" \/ Route(t) = "dashboard"
    BY <1>1, <1>2, <1>6 DEF Entry
  <2> QED BY <1>4, <2>1 DEF Reentered, PlaceOK, BaseOK
<1>10. BaseOK(u, st, m)
  BY <1>4, <1>5, <1>8, <1>9 DEF PlaceOK, BaseOK, Reentered
<1>11. NotableOK(u, st)
  BY <1>2, <1>5, <1>6, <1>7 DEF PlaceOK, NotableOK
<1> QED BY <1>2, <1>5, <1>6, <1>10, <1>11 DEF PlaceOK, NotedOK, Alike, u

LEMMA AlikeScreen ==
  ASSUME NEW t, NEW u, Alike(t, u), ScreenOK(t)
  PROVE  ScreenOK(u)
<1>1. ShownOK(u)
  BY DEF Alike, SameScreen, ScreenOK, ShownOK, Mounted
<1>2. LiveOK(u)
  BY DEF Alike, SameScreen, ScreenOK, LiveOK, Mounted
<1>3. OwedOK(u)
  BY DEF Alike, SameScreen, ScreenOK, OwedOK, LivePending
<1> QED BY <1>1, <1>2, <1>3 DEF ScreenOK

LEMMA NotedRests ==
  ASSUME NEW t, TabOK(t), NEW st, NEW m, StoreOK(st, m), PlaceOK(t, st, m), ScreenOK(t)
  PROVE  Rest(Noted(t), st, m) /\ Alike(t, Noted(t))
BY NotedDoes, AlikeScreen DEF Rest

LEMMA RenderRests ==
  ASSUME NEW t, TabOK(t), NEW st, NEW m, StoreOK(st, m), PlaceOK(t, st, m)
  PROVE  LET u == Noted(Render(t))
         IN  /\ Rest(u, st, m) /\ Mounted(u) /\ u.surface = t.surface
             /\ Len(u.writes) = Len(t.writes)
<1> DEFINE r == Render(t)
<1>1. Agrees(t)
  BY DEF PlaceOK, NotableOK, Agrees
<1>2. Rendered(t, r)
  BY <1>1, RenderDoes
<1> HIDE DEF r
<1>3. TabOK(r) /\ PlaceOK(r, st, m) /\ ScreenOK(r) /\ Mounted(r) /\ r.surface = t.surface
  BY <1>2, PlaceKept DEF Rendered, SamePlace
<1>4. Rest(Noted(r), st, m) /\ Alike(r, Noted(r))
  BY <1>3, NotedRests
<1>5. Len(r.writes) = Len(t.writes)
  BY <1>2 DEF Rendered, Older
<1>6. Mounted(Noted(r)) /\ Noted(r).surface = t.surface /\ Len(Noted(r).writes) = Len(t.writes)
  BY <1>3, <1>4, <1>5 DEF Alike, SameScreen, Mounted
<1> QED BY <1>4, <1>6 DEF r

\* A handler that comes to an entry ends by rendering what the route asks for.
LEMMA AdoptRests ==
  ASSUME NEW t, TabOK(t), NEW st, NEW m, StoreOK(st, m), BaseOK(t, st, m),
         t.surface = None \/ Route(t) = "query" \/ Current(t).kept
  PROVE  LET u == Noted(Render(Adopt(t)))
         IN  /\ Rest(u, st, m) /\ Mounted(u) /\ u.surface = Adopt(t).surface
             /\ Len(u.writes) = Len(t.writes)
<1>1. TabOK(Adopt(t)) /\ PlaceOK(Adopt(t), st, m) /\ SameScreen(t, Adopt(t))
  BY AdoptDoes
<1>2. Len(Adopt(t).writes) = Len(t.writes)
  BY <1>1 DEF SameScreen
<1> QED BY <1>1, <1>2, RenderRests

\* u is t without the write at the head of the queue.
Shorter(t, u) ==
    /\ TabOK(u) /\ SamePlace(t, u) /\ u.screen = t.screen
    /\ Len(u.writes) = Len(t.writes) - 1
    /\ \A i \in 1..Len(u.writes) : i + 1 \in 1..Len(t.writes) /\ u.writes[i] = t.writes[i+1]

LEMMA DequeuedDoes ==
  ASSUME NEW t, TabOK(t), t.writes # <<>>
  PROVE  Shorter(t, Dequeued(t)) /\ 1 \in 1..Len(t.writes) /\ Landing(t) = t.writes[1]
<1> DEFINE ws == Tail(t.writes)
           u == Dequeued(t)
<1>1. /\ t \in SeqTab /\ t.writes \in Seq(Write) /\ Len(t.writes) \in Nat
      /\ Len(t.writes) \in 0..MaxWrites
  BY TabParts DEF TabOK
<1>2. Len(t.writes) # 0
  BY <1>1, EmptySeq
<1>3. 1 \in 1..Len(t.writes) /\ Landing(t) = t.writes[1]
  BY <1>1, <1>2 DEF Landing
<1>4. /\ ws \in Seq(Write) /\ Len(ws) = Len(t.writes) - 1
      /\ \A i \in 1..Len(ws) : ws[i] = t.writes[i+1]
  BY <1>1, HeadTailProperties
<1>5. u = [t EXCEPT !.writes = ws]
  BY DEF Dequeued
<1> HIDE DEF ws, u
<1>6. u \in SeqTab /\ u.writes = ws /\ SamePlace(t, u) /\ u.screen = t.screen
  BY <1>1, <1>4, <1>5 DEF SeqTab, SamePlace
<1>7. Len(ws) \in 0..MaxWrites
  BY <1>1, <1>2, <1>4, NavigationAssumption
<1>8. \A i \in 1..Len(ws) : i + 1 \in 1..Len(t.writes)
  BY <1>1, <1>4
<1> QED BY <1>1, <1>3, <1>4, <1>6, <1>7, <1>8 DEF Shorter, TabOK, SamePlace, u

LEMMA ShorterScreen ==
  ASSUME NEW t, NEW u, TabOK(t), Shorter(t, u)
  PROVE  /\ ShownOK(t) => ShownOK(u)
         /\ LiveOK(t) => LiveOK(u)
         /\ OwedOK(t) /\ (t.writes[1].kind = "command" => t.writes[1].stale) => OwedOK(u)
<1>1. ShownOK(t) => ShownOK(u)
  BY DEF Shorter, SamePlace, ShownOK, Mounted, Route
<1>2. LiveOK(t) => LiveOK(u)
  BY DEF Shorter, LiveOK, Mounted
<1>3. ASSUME OwedOK(t), t.writes[1].kind = "command" => t.writes[1].stale, u.screen.rebuild
      PROVE  LivePending(u)
  <2>1. DOMAIN t.writes = 1..Len(t.writes) /\ DOMAIN u.writes = 1..Len(u.writes)
        /\ Len(t.writes) \in Nat
    BY TabParts DEF Shorter
  <2>2. PICK i \in 1..Len(t.writes) : t.writes[i].kind = "command" /\ ~t.writes[i].stale
    BY <1>3, <2>1 DEF Shorter, OwedOK, LivePending
  <2>3. i # 1
    BY <1>3, <2>2
  <2>4. Len(u.writes) = Len(t.writes) - 1
    BY DEF Shorter
  <2>5. i - 1 \in 1..Len(u.writes) /\ (i - 1) + 1 = i
    BY <2>1, <2>2, <2>3, <2>4
  <2>6. u.writes[i - 1] = t.writes[i]
    BY <2>5 DEF Shorter
  <2> QED BY <2>1, <2>2, <2>5, <2>6 DEF LivePending
<1> QED BY <1>1, <1>2, <1>3 DEF OwedOK

\* What a step that takes the write at the head from the queue leaves of u.
Taken(u, v, st, m) ==
    /\ Rest(v, st, m)
    /\ v.known = u.known /\ v.surface = u.surface /\ v.at = u.at
    /\ Len(v.entries) = Len(u.entries) /\ Len(v.writes) = Len(u.writes) - 1

\* The write is no command of the surface that is shown.
LEMMA LeaveRests ==
  ASSUME NEW u, NEW st, NEW m, StoreOK(st, m), Fit(u, st, m), u.writes # <<>>,
         Landing(u).kind = "command" => Landing(u).stale
  PROVE  /\ Taken(u, Noted(Dequeued(u)), st, m)
         /\ Mounted(Noted(Dequeued(u))) <=> Mounted(u)
<1> DEFINE d == Dequeued(u)
           v == Noted(d)
<1>1. TabOK(u) /\ PlaceOK(u, st, m) /\ ShownOK(u) /\ LiveOK(u) /\ OwedOK(u)
  BY DEF Fit, ScreenOK
<1>2. Shorter(u, d) /\ Landing(u) = u.writes[1]
  BY <1>1, DequeuedDoes
<1> HIDE DEF d
<1>3. ScreenOK(d)
  BY <1>1, <1>2, ShorterScreen DEF ScreenOK
<1>4. TabOK(d) /\ SamePlace(u, d)
  BY <1>2 DEF Shorter
<1>5. PlaceOK(d, st, m)
  BY <1>1, <1>4, PlaceKept
<1>6. Rest(v, st, m) /\ Alike(d, v)
  BY <1>3, <1>4, <1>5, NotedRests
<1> HIDE DEF v
<1>7. Taken(u, v, st, m)
  BY <1>2, <1>4, <1>6 DEF Taken, Alike, SameScreen, SamePlace, Shorter
<1>8. Mounted(v) <=> Mounted(u)
  BY <1>2, <1>6 DEF Alike, SameScreen, Mounted, Shorter
<1> QED BY <1>7, <1>8 DEF v, d

\* A command of the surface that is shown settles.
LEMMA SettleRests ==
  ASSUME NEW u, NEW st, NEW m, StoreOK(st, m), Fit(u, st, m), u.writes # <<>>,
         Landing(u).kind = "command", ~Landing(u).stale,
         NEW rebased \in BOOLEAN, NEW restored \in BOOLEAN
  PROVE  /\ Taken(u, Noted(Settled(Dequeued(u), rebased, restored)), st, m)
         /\ Mounted(Noted(Settled(Dequeued(u), rebased, restored)))
         /\ Mounted(u)
<1> DEFINE d == Dequeued(u)
           w == Settled(d, rebased, restored)
           v == Noted(w)
<1>1. TabOK(u) /\ PlaceOK(u, st, m) /\ ShownOK(u) /\ LiveOK(u)
  BY DEF Fit, ScreenOK
<1>2. Shorter(u, d) /\ Landing(u) = u.writes[1] /\ 1 \in 1..Len(u.writes)
  BY <1>1, DequeuedDoes
<1>3. w = IF d.screen.dash \notin d.known \/ restored \/ d.screen.rebuild
          THEN RebuildRoute([d EXCEPT !.screen.rebuild = TRUE])
          ELSE [d EXCEPT !.screen.behind = IF rebased THEN @ \ Document ELSE @]
  BY DEF Settled
<1> HIDE DEF d, w
<1>4. u.screen.host = "dashboard"
  BY <1>1, <1>2 DEF LiveOK
<1>5. Mounted(u) /\ Route(u) = "dashboard"
  <2>1. Route(u) \in {"query", "dashboard"}
    BY <1>1, TabParts DEF Route, Current, Entry
  <2>2. Mounted(u)
    BY <1>4 DEF Mounted
  <2> QED BY <1>1, <1>4, <2>1, <2>2 DEF ShownOK
<1>6. /\ TabOK(d) /\ SamePlace(u, d) /\ d.screen = u.screen /\ Route(d) = "dashboard"
      /\ ShownOK(d) /\ LiveOK(d) /\ Mounted(d)
  BY <1>1, <1>2, <1>5, ShorterScreen DEF Shorter, SamePlace, Route, Mounted
<1>7. d \in SeqTab /\ d.screen \in Screen
  BY <1>6, TabParts DEF TabOK
<1>8. TabOK(w) /\ SamePlace(d, w) /\ Older(d, w) /\ ScreenOK(w) /\ Mounted(w)
  <2>1. CASE d.screen.dash \notin d.known \/ restored \/ d.screen.rebuild
    <3> DEFINE s == [d.screen EXCEPT !.rebuild = TRUE]
               o == [d EXCEPT !.screen.rebuild = TRUE]
    <3>1. s \in Screen /\ s.host = d.screen.host /\ s.dash = d.screen.dash
      BY <1>7 DEF Screen
    <3>2. o = [d EXCEPT !.screen = s]
      BY <1>7 DEF SeqTab
    <3>3. w = RebuildRoute(o)
      BY <1>3, <2>1
    <3> HIDE DEF s, o
    <3>4. o \in SeqTab /\ SamePlace(d, o) /\ o.writes = d.writes /\ o.screen = s
      BY <1>7, <3>1, <3>2 DEF SeqTab, SamePlace
    <3>5. TabOK(o) /\ Older(d, o) /\ Route(o) = "dashboard" /\ Mounted(o)
      BY <1>6, <3>1, <3>4 DEF TabOK, SamePlace, Older, Route, Mounted
    <3>6. ShownOK(o)
      BY <1>6, <3>1, <3>4 DEF ShownOK, SamePlace, Mounted, Route
    <3>7. LiveOK(o)
      BY <1>6, <3>1, <3>4 DEF LiveOK, Mounted
    <3>8. Kept(o, w)
      BY <3>3, <3>5, <3>6, <3>7, RebuildRouteDoes
    <3>9. SamePlace(d, w)
      BY <3>4, <3>8 DEF Kept, SamePlace
    <3>10. Older(d, w)
      BY <3>5, <3>8, OlderTransitive DEF Kept
    <3> QED BY <3>5, <3>8, <3>9, <3>10 DEF Kept
  <2>2. CASE ~(d.screen.dash \notin d.known \/ restored \/ d.screen.rebuild)
    <3> DEFINE s == [d.screen EXCEPT !.behind = IF rebased THEN @ \ Document ELSE @]
    <3>1. /\ s \in Screen /\ s.host = d.screen.host /\ s.dash = d.screen.dash
          /\ s.rebuild = d.screen.rebuild
      BY <1>7 DEF Screen
    <3>2. w = [d EXCEPT !.screen = s]
      BY <1>3, <1>7, <2>2 DEF SeqTab
    <3> HIDE DEF s
    <3>3. w \in SeqTab /\ SamePlace(d, w) /\ w.writes = d.writes /\ w.screen = s
      BY <1>7, <3>1, <3>2 DEF SeqTab, SamePlace
    <3>4. TabOK(w) /\ Older(d, w) /\ Mounted(w)
      BY <1>6, <3>1, <3>3 DEF TabOK, SamePlace, Older, Mounted
    <3>5. ShownOK(w)
      BY <1>6, <3>1, <3>3 DEF ShownOK, SamePlace, Mounted, Route
    <3>6. LiveOK(w)
      BY <1>6, <3>1, <3>3 DEF LiveOK, Mounted
    <3>7. OwedOK(w)
      BY <2>2, <3>1, <3>3 DEF OwedOK
    <3> QED BY <3>3, <3>4, <3>5, <3>6, <3>7 DEF ScreenOK
  <2> QED BY <2>1, <2>2
<1>9. SamePlace(u, w)
  BY <1>6, <1>8 DEF SamePlace
<1>10. PlaceOK(w, st, m)
  BY <1>1, <1>9, PlaceKept
<1>11. Rest(v, st, m) /\ Alike(w, v)
  BY <1>8, <1>10, NotedRests
<1> HIDE DEF v
<1>12. Len(v.writes) = Len(u.writes) - 1
  BY <1>2, <1>8, <1>11 DEF Alike, SameScreen, Older, Shorter
<1>13. Taken(u, v, st, m)
  BY <1>9, <1>11, <1>12 DEF Taken, Alike, SamePlace
<1>14. Mounted(v)
  BY <1>8, <1>11 DEF Alike, SameScreen, Mounted
<1> QED BY <1>5, <1>13, <1>14 DEF v, w, d

-----------------------------------------------------------------------------
(* Steps *)

Good(st, m, news, in, t) ==
    /\ StoreOK(st, m) /\ news \in SUBSET Changes /\ in \in {"in", "lost", "out"}
    /\ Rest(t, st, m)
    /\ in = "in" => Mounted(t)

LEMMA GoodHere == IInv <=> Good(store, minted, unread, session, tab)
<1>1. tab \in Tab /\ tab.at \in DOMAIN tab.entries <=> TabOK(tab)
  BY TabTypes
<1>2. TypeOK <=> /\ StoreOK(store, minted) /\ unread \in SUBSET Changes
                 /\ session \in {"in", "lost", "out"} /\ TabOK(tab)
  BY <1>1 DEF TypeOK, StoreOK
<1> QED BY <1>2 DEF IInv, Good, Rest, ScreenOK

LEMMA GoodNext == IInv' <=> Good(store', minted', unread', session', tab')
<1>1. tab' \in Tab /\ tab'.at \in DOMAIN tab'.entries <=> TabOK(tab')
  BY TabTypes
<1>2. TypeOK' <=> /\ StoreOK(store', minted') /\ unread' \in SUBSET Changes
                  /\ session' \in {"in", "lost", "out"} /\ TabOK(tab')
  BY <1>1 DEF TypeOK, StoreOK
<1>3. IInv' <=> /\ TypeOK'
                /\ PlaceOK(tab', store', minted')
                /\ ShownOK(tab') /\ LiveOK(tab') /\ OwedOK(tab') /\ NotedOK(tab')
                /\ session' = "in" => Mounted(tab')
  BY DEF IInv, PlaceOK, BaseOK, Alternates, EntryOK, Returns, NotableOK, ShownOK, LiveOK,
         OwedOK, LivePending, NotedOK, Mounted, Route, Current
<1> QED BY <1>2, <1>3 DEF Good, Rest, ScreenOK

\* What every step finds.
LEMMA Found ==
  ASSUME IInv
  PROVE  /\ StoreOK(store, minted) /\ unread \subseteq Changes
         /\ session \in {"in", "lost", "out"} /\ (session = "in" => Mounted(tab))
         /\ Rest(tab, store, minted) /\ Fit(tab, store, minted)
         /\ TabOK(tab) /\ PlaceOK(tab, store, minted) /\ BaseOK(tab, store, minted)
         /\ ShownOK(tab) /\ LiveOK(tab) /\ OwedOK(tab) /\ NotedOK(tab)
         /\ Len(tab.writes) \in Nat
<1>1. Good(store, minted, unread, session, tab)
  BY GoodHere
<1>2. Rest(tab, store, minted) /\ Fit(tab, store, minted) /\ TabOK(tab)
  BY <1>1, RestFits DEF Good, Rest
<1> QED BY <1>1, <1>2, TabParts DEF Good, Rest, PlaceOK, ScreenOK

\* What a step leaves is in order.
Sound == Good(store', minted', unread', session', tab')

\* No write lands.
Quiet == Len(tab'.writes) >= Len(tab.writes) \/ session' # session

LEMMA QuietIsNoLanding ==
  ASSUME IInv, Len(tab'.writes) \in Nat, Quiet
  PROVE  ~Lands
<1>1. Len(tab.writes) \in Nat
  BY Found
<1> QED BY <1>1 DEF Quiet, Lands

LEMMA FitRests ==
  ASSUME NEW t, NEW u, NEW st, NEW m, StoreOK(st, m), Fit(u, st, m), Follows(t, u)
  PROVE  /\ Rest(Noted(u), st, m) /\ Alike(u, Noted(u))
         /\ Mounted(t) => Mounted(Noted(u))
         /\ Len(Noted(u).writes) = Len(t.writes)
<1>1. Rest(Noted(u), st, m) /\ Alike(u, Noted(u))
  BY NotedRests DEF Fit
<1> QED BY <1>1 DEF Follows, Older, Alike, SameScreen, Mounted

LEMMA OpenDashboardStep ==
  ASSUME IInv, NEW d \in Dashboards, OpenDashboard(d)
  PROVE  Sound /\ Quiet
<1> DEFINE u == Open(tab, d)
<1>1. Fit(u, store, minted) /\ Follows(tab, u)
  BY Found, OpenFits DEF OpenDashboard
<1>2. tab' = Noted(u) /\ Mounted(tab)
  BY DEF OpenDashboard
<1> HIDE DEF u
<1>3. Rest(tab', store, minted) /\ Mounted(tab') /\ Len(tab'.writes) = Len(tab.writes)
  BY <1>1, <1>2, Found, FitRests
<1> QED BY <1>3, Found DEF OpenDashboard, Sound, Good, Quiet

LEMMA ShowQuerySurfaceStep ==
  ASSUME IInv, ShowQuerySurface
  PROVE  Sound /\ Quiet
<1> DEFINE u == ShowQuery(tab)
<1>1. Fit(u, store, minted) /\ Follows(tab, u)
  BY Found, ShowQueryFits
<1>2. tab' = Noted(u) /\ Mounted(tab)
  BY DEF ShowQuerySurface
<1> HIDE DEF u
<1>3. Rest(tab', store, minted) /\ Mounted(tab') /\ Len(tab'.writes) = Len(tab.writes)
  BY <1>1, <1>2, Found, FitRests
<1> QED BY <1>3, Found DEF ShowQuerySurface, Sound, Good, Quiet

LEMMA ShowDashboardSurfaceStep ==
  ASSUME IInv, ShowDashboardSurface
  PROVE  Sound /\ Quiet
<1> DEFINE push == Route(tab) = "query"
           w == WriteRoute(tab, "dashboard", push)
<1>1. tab.surface = None /\ tab' = Noted(Render(w))
  BY Found DEF ShowDashboardSurface, BaseOK
<1>2. push \in BOOLEAN /\ Alternates(tab.entries) /\ TabOK(tab)
  BY Found DEF BaseOK
<1>3. Written(tab, w, "dashboard") /\ Alternates(w.entries)
  BY <1>2, WriteRouteDoes
<1> HIDE DEF w
<1>4. TabOK(w) /\ w.known = tab.known /\ w.surface = None /\ w.writes = tab.writes
  BY <1>1, <1>3 DEF Written
<1>5. EntryOK(NewEntry("dashboard"), tab.known, store, minted)
  BY Found, NewEntryOK
<1>6. PlaceOK(w, store, minted)
  BY <1>3, <1>4, <1>5, Found DEF PlaceOK, BaseOK, NotableOK, Written
<1>7. Rest(tab', store, minted) /\ Mounted(tab') /\ Len(tab'.writes) = Len(tab.writes)
  BY <1>1, <1>4, <1>6, Found, RenderRests
<1> QED BY <1>7, Found DEF ShowDashboardSurface, Sound, Good, Quiet

\* The tab comes to entry k, which may keep the selection from now on.
Arrived(t, k) ==
    [t EXCEPT !.at = k,
              !.entries[k].kept = @ \/ (t.surface # None /\ t.entries[k].route = "dashboard")]

LEMMA ArrivedDoes ==
  ASSUME NEW t, TabOK(t), NEW st, NEW m, StoreOK(st, m), BaseOK(t, st, m),
         NEW k \in 1..Len(t.entries)
  PROVE  LET u == Arrived(t, k)
         IN  /\ TabOK(u) /\ BaseOK(u, st, m)
             /\ u.surface = None \/ Route(u) = "query" \/ Current(u).kept
             /\ u.known = t.known /\ u.surface = t.surface /\ SameScreen(t, u)
             /\ Current(u).dash = t.entries[k].dash /\ Route(u) = t.entries[k].route
<1> DEFINE keep == t.surface # None /\ t.entries[k].route = "dashboard"
           a == [t EXCEPT !.at = k]
           e == [Current(a) EXCEPT !.kept = @ \/ keep]
           u == Arrived(t, k)
<1>1. /\ t \in SeqTab /\ t.entries \in Seq(Entry) /\ k \in 1..MaxEntries
      /\ Len(t.entries) \in 1..MaxEntries
  BY NavigationAssumption DEF TabOK, SeqTab
<1>2. /\ a \in SeqTab /\ a.known = t.known /\ a.surface = t.surface
      /\ a.entries = t.entries /\ a.at = k /\ SameScreen(t, a)
  BY <1>1 DEF SeqTab, SameScreen
<1>3. TabOK(a) /\ BaseOK(a, st, m) /\ Current(a) = t.entries[k]
  BY <1>1, <1>2 DEF TabOK, BaseOK, SameScreen, Current
<1>4. t.entries \in [1..Len(t.entries) -> Entry]
  BY <1>1, LenProperties
<1>5. u = [a EXCEPT !.entries = [a.entries EXCEPT ![a.at] = e]]
  BY <1>1, <1>2, <1>3, <1>4 DEF Arrived, SeqTab, Entry
<1> HIDE DEF a, u
<1>6. Current(a) \in Entry /\ keep \in BOOLEAN
  BY <1>3, TabParts
<1>7. keep <=> t.surface # None /\ t.entries[k].route = "dashboard"
  OBVIOUS
<1> HIDE DEF keep
<1>8. /\ e \in Entry /\ e.route = Current(a).route /\ e.dash = Current(a).dash
      /\ e.seen = Current(a).seen /\ (e.kept <=> Current(a).kept \/ keep)
  BY <1>6 DEF Entry
<1> HIDE DEF e
<1>9. Reentered(a, u, e)
  BY <1>3, <1>5, <1>8, Reenters
<1>10. EntryOK(e, a.known, st, m)
  <2>1. EntryOK(Current(a), a.known, st, m)
    BY <1>3, TabParts DEF BaseOK, Current
  <2> QED BY <1>8, <2>1 DEF EntryOK, Returns
<1>11. Alternates(u.entries)
  <2>1. Route(a) = Current(a).route /\ e.route \in {"query", "dashboard"}
    BY <1>8 DEF Route, Current, Entry
  <2> QED BY <1>3, <1>8, <1>9, <2>1 DEF Reentered, BaseOK
<1>12. BaseOK(u, st, m)
  BY <1>3, <1>9, <1>10, <1>11 DEF BaseOK, Reentered
<1>13. /\ TabOK(u) /\ u.known = t.known /\ u.surface = t.surface /\ SameScreen(t, u)
       /\ Current(u) = e
  BY <1>2, <1>9 DEF Reentered, SameScreen
<1>14. Route(u) = e.route
  BY <1>13 DEF Route, Current
<1>15. e.route \in {"query", "dashboard"}
  BY <1>8 DEF Entry
<1> QED BY <1>3, <1>7, <1>8, <1>12, <1>13, <1>14, <1>15 DEF u

LEMMA TraverseFinds ==
  ASSUME IInv, NEW k, Traverse(k)
  PROVE  k \in 1..Len(tab.entries) /\ tab' = Noted(Render(Adopt(Arrived(tab, k))))
<1>1. DOMAIN tab.entries = 1..Len(tab.entries)
  BY Found, TabParts
<1> QED BY <1>1 DEF Traverse, Arrived

LEMMA TraverseStep ==
  ASSUME IInv, NEW k, Traverse(k)
  PROVE  /\ Sound /\ Quiet
         /\ tab'.surface = Adopt(Arrived(tab, k)).surface
<1> DEFINE a == Arrived(tab, k)
<1>1. k \in 1..Len(tab.entries) /\ tab' = Noted(Render(Adopt(a)))
  BY TraverseFinds
<1>2. /\ TabOK(a) /\ BaseOK(a, store, minted) /\ SameScreen(tab, a)
      /\ a.surface = None \/ Route(a) = "query" \/ Current(a).kept
  BY <1>1, Found, ArrivedDoes
<1> HIDE DEF a
<1>3. /\ Rest(tab', store, minted) /\ Mounted(tab') /\ Len(tab'.writes) = Len(a.writes)
      /\ tab'.surface = Adopt(a).surface
  BY <1>1, <1>2, Found, AdoptRests
<1>4. Len(tab'.writes) = Len(tab.writes)
  BY <1>2, <1>3 DEF SameScreen
<1> QED BY <1>3, <1>4, Found DEF Traverse, Sound, Good, Quiet, a

\* A neighbour of the entry the tab is at.
LEMMA Neighbours ==
  ASSUME NEW t, TabOK(t), Alternates(t.entries), NEW k \in 1..Len(t.entries),
         k = t.at - 1 \/ k = t.at + 1, t.entries[k].route = "dashboard"
  PROVE  Route(t) = "query"
<1>1. /\ t.at \in 1..Len(t.entries) /\ Len(t.entries) \in Nat /\ t.at \in Nat /\ k \in Nat
  BY TabParts
<1>2. CASE k = t.at - 1
  <2>1. k \in 1..(Len(t.entries) - 1) /\ k + 1 = t.at
    BY <1>1, <1>2
  <2> QED BY <2>1 DEF Alternates, Route
<1>3. CASE k = t.at + 1
  <2>1. t.at \in 1..(Len(t.entries) - 1)
    BY <1>1, <1>3
  <2> QED BY <1>3, <2>1 DEF Alternates, Route
<1> QED BY <1>2, <1>3

\* What Back and Forward come to by one entry is what the entry was left with.
LEMMA TraverseRestores ==
  ASSUME IInv, NEW k \in DOMAIN tab.entries \cap {tab.at - 1, tab.at + 1}, Traverse(k),
         tab.entries[k].seen \in tab.known, ~tab.entries[k].kept
  PROVE  tab'.surface = tab.entries[k].seen
<1> DEFINE a == Arrived(tab, k)
           e == tab.entries[k]
<1>1. k \in 1..Len(tab.entries) /\ tab'.surface = Adopt(a).surface
  BY TraverseFinds, TraverseStep
<1>2. /\ TabOK(a) /\ a.known = tab.known /\ a.surface = tab.surface
      /\ Current(a).dash = e.dash /\ Route(a) = e.route
  BY <1>1, Found, ArrivedDoes
<1>3. /\ EntryOK(e, tab.known, store, minted)
      /\ tab.known \subseteq Dashboards /\ None \notin tab.known
  BY <1>1, Found, TabParts DEF BaseOK
<1>4. e.route = "dashboard" /\ Returns(e, e.seen, tab.known, store)
  BY <1>3 DEF EntryOK
<1>5. tab.surface = None
  <2>1. Route(tab) = "query"
    BY <1>1, <1>4, Found, Neighbours DEF BaseOK
  <2> QED BY <2>1, Found DEF PlaceOK, NotableOK
<1>6. Adopt(a).surface = IF e.dash \in tab.known THEN e.dash ELSE First(tab.known)
  <2>1. a \in SeqTab /\ a.entries[a.at].dash = e.dash
    BY <1>2 DEF TabOK, Current
  <2> QED BY <1>2, <1>4, <1>5, <2>1 DEF Adopt, SeqTab
<1>7. CASE e.dash \in tab.known
  BY <1>1, <1>4, <1>6, <1>7 DEF Returns
<1>8. CASE e.dash \notin tab.known
  <2>1. \A c \in tab.known : e.seen <= c
    BY <1>4, <1>8 DEF Returns
  <2>2. First(tab.known) \in tab.known /\ \A c \in tab.known : First(tab.known) <= c
    BY <1>3, FirstOfDashboards
  <2>3. First(tab.known) \in Nat /\ e.seen \in Nat
    BY <1>3, <2>2 DEF Dashboards
  <2>4. First(tab.known) <= e.seen /\ e.seen <= First(tab.known)
    BY <2>1, <2>2
  <2> QED BY <1>1, <1>6, <1>8, <2>3, <2>4
<1> QED BY <1>7, <1>8

LEMMA SignOutStep ==
  ASSUME IInv, SignOut
  PROVE  Sound /\ Quiet
<1> DEFINE hook == IF tab.hook = "renderer" THEN "gone" ELSE tab.hook
           s == [Advanced(tab) EXCEPT !.hook = hook, !.screen = Show("login", None)]
           u == [s EXCEPT !.surface = None]
<1>1. hook \in Hook /\ None \in Dashboards \cup {None} /\ TabOK(tab)
  BY Found, TabParts DEF Hook
<1>2. Shows(tab, s, "login", None)
  BY <1>1, Renders
<1>3. tab' = Noted(u)
  <2>1. Advanced(tab) \in SeqTab /\ Advanced(tab).hook = tab.hook
    <3>1. Advanced(tab) \in SeqTab /\ tab \in SeqTab
      BY <1>1, AdvancedDoes DEF TabOK
    <3> QED BY <3>1 DEF Advanced, SeqTab
  <2>2. u = [Advanced(tab) EXCEPT
                 !.surface = None, !.screen = Show("login", None),
                 !.hook = IF @ = "renderer" THEN "gone" ELSE @]
    BY <2>1 DEF SeqTab
  <2> QED BY <2>2 DEF SignOut
<1> HIDE DEF hook, s, u
<1>4. s \in SeqTab /\ TabOK(s)
  BY <1>2 DEF Shows, TabOK
<1>5. /\ u \in SeqTab /\ u.known = s.known /\ u.surface = None /\ u.entries = s.entries
      /\ u.at = s.at /\ SameScreen(s, u)
  BY <1>4 DEF u, SeqTab, SameScreen
<1>6. TabOK(u)
  BY <1>4, <1>5 DEF TabOK, SameScreen
<1>7. PlaceOK(u, store, minted)
  BY <1>2, <1>5, Found DEF Shows, SamePlace, PlaceOK, BaseOK, NotableOK
<1>8. u.screen.host = "login" /\ Len(u.writes) = Len(tab.writes)
  BY <1>2, <1>5 DEF Shows, SameScreen, Older
<1>9. ScreenOK(u)
  <2>1. ShownOK(u)
    BY <1>5, <1>8 DEF ShownOK, Mounted
  <2>2. LiveOK(u)
    BY <1>2, <1>5 DEF Shows, LiveOK, SameScreen, Mounted
  <2>3. OwedOK(u)
    BY <1>2, <1>5 DEF Shows, OwedOK, SameScreen, LivePending
  <2> QED BY <2>1, <2>2, <2>3 DEF ScreenOK
<1>10. Rest(tab', store, minted) /\ Alike(u, tab')
  BY <1>3, <1>6, <1>7, <1>9, Found, NotedRests
<1>11. Len(tab'.writes) = Len(tab.writes)
  BY <1>8, <1>10 DEF Alike, SameScreen
<1> QED BY <1>10, <1>11, Found DEF SignOut, Sound, Good, Quiet

\* What runs renders anew: nothing is put off any more.
LEMMA RenderOwesNothing ==
  ASSUME NEW t, TabOK(t)
  PROVE  ~Render(t).screen.rebuild
<1>1. Advanced(t) \in SeqTab
  BY AdvancedDoes
<1>2. ~RenderQuery(t).screen.rebuild
  BY <1>1 DEF RenderQuery, Show, SeqTab
<1>3. ~RenderDashboard(t).screen.rebuild
  BY <1>1 DEF RenderDashboard, Show, SeqTab
<1> QED BY <1>2, <1>3 DEF Render

LEMMA ForgetsWrites ==
  ASSUME NEW t, NEW st, NEW m, Rest(t, st, m), ~t.screen.rebuild
  PROVE  LET u == [t EXCEPT !.writes = <<>>]
         IN  Rest(u, st, m) /\ (Mounted(t) => Mounted(u))
<1> DEFINE u == [t EXCEPT !.writes = <<>>]
<1>1. t \in SeqTab /\ TabOK(t)
  BY DEF Rest, TabOK
<1>2. <<>> \in Seq(Write) /\ Len(<<>>) = 0
  BY EmptySeq
<1>3. u \in SeqTab /\ SamePlace(t, u) /\ u.writes = <<>> /\ u.screen = t.screen
  BY <1>1, <1>2 DEF SeqTab, SamePlace
<1> HIDE DEF u
<1>4. TabOK(u)
  <2>1. 0 \in 0..MaxWrites
    BY NavigationAssumption
  <2> QED BY <1>1, <1>2, <1>3, <2>1 DEF TabOK, SamePlace
<1>5. PlaceOK(u, st, m)
  BY <1>3, PlaceKept DEF Rest
<1>6. ScreenOK(u)
  <2>1. ShownOK(u)
    BY <1>3 DEF Rest, ScreenOK, ShownOK, SamePlace, Mounted, Route
  <2>2. LiveOK(u)
    BY <1>2, <1>3 DEF LiveOK
  <2>3. OwedOK(u)
    BY <1>3 DEF OwedOK
  <2> QED BY <2>1, <2>2, <2>3 DEF ScreenOK
<1>7. NotedOK(u) /\ (Mounted(t) => Mounted(u))
  BY <1>3 DEF Rest, NotedOK, SamePlace, Current, Mounted
<1> QED BY <1>4, <1>5, <1>6, <1>7 DEF Rest, u

LEMMA Unchanged ==
  ASSUME NEW st, NEW m, StoreOK(st, m)
  PROVE  Grows(st, m, st, m)
BY StoreIsNatural DEF Grows

LEMMA ConnectStep ==
  ASSUME IInv, Connect
  PROVE  Sound /\ Quiet
<1>1. CASE Mounted(tab)
  BY <1>1, Found DEF Connect, Sound, Good, Quiet
<1>2. CASE ~Mounted(tab)
  <2> DEFINE p == Project(tab, store, {})
  <2>1. Projected(tab, p, store, minted)
    BY Found, Unchanged, ProjectFits
  <2> HIDE DEF p
  <2>2. TabOK(p) /\ BaseOK(p, store, minted) /\ p.surface = None
    <3>1. tab.surface = None
      BY <1>2, Found DEF ShownOK
    <3>2. p.surface = None
      BY <2>1, <3>1 DEF Projected, Stays
    <3> QED BY <2>1, <3>2 DEF Projected, Fit, PlaceOK
  <2> DEFINE a == Adopt(p)
             r == Render(a)
             n == Noted(r)
  <2>3. Rest(n, store, minted) /\ Mounted(n)
    BY <2>2, Found, AdoptRests
  <2>4. TabOK(a) /\ PlaceOK(a, store, minted)
    BY <2>2, Found, AdoptDoes
  <2> HIDE DEF a
  <2>5. ~r.screen.rebuild
    BY <2>4, RenderOwesNothing
  <2>6. TabOK(r) /\ PlaceOK(r, store, minted)
    <3>1. Rendered(a, r)
      BY <2>4, RenderDoes DEF PlaceOK, NotableOK, Agrees
    <3> QED BY <2>4, <3>1, PlaceKept DEF Rendered
  <2> HIDE DEF r
  <2>7. n.screen = r.screen
    BY <2>6, Found, NotedDoes DEF Alike, SameScreen
  <2> HIDE DEF n
  <2>8. Rest([n EXCEPT !.writes = <<>>], store, minted) /\ Mounted([n EXCEPT !.writes = <<>>])
    BY <2>3, <2>5, <2>7, ForgetsWrites
  <2>9. tab' = [n EXCEPT !.writes = <<>>] /\ unread' = {} /\ session' = "in" /\ session # "in"
    BY <1>2 DEF Connect, p, a, r, n
  <2>10. store' = store /\ minted' = minted
    BY DEF Connect
  <2> QED BY <2>8, <2>9, <2>10, Found DEF Sound, Good, Quiet
<1> QED BY <1>1, <1>2

LEMMA AuthLostStep ==
  ASSUME IInv, AuthLost
  PROVE  Sound /\ Quiet
BY Found DEF AuthLost, Sound, Good, Quiet

\* Another tab commits: this one knows nothing of it yet.
LEMMA ElsewhereStep ==
  ASSUME IInv, Grows(store, minted, store', minted'), unread' \subseteq Changes,
         UNCHANGED <<session, tab>>
  PROVE  Sound /\ Quiet
<1>1. PlaceOK(tab, store', minted')
  BY Found, PlaceGrows
<1>2. Rest(tab, store', minted')
  BY <1>1, Found DEF Rest
<1> QED BY <1>2, Found DEF Sound, Good, Quiet, Grows

LEMMA OneMore ==
  ASSUME NEW st, NEW m, StoreOK(st, m), m < MaxDashboards
  PROVE  Grows(st, m, st \cup {m + 1}, m + 1) /\ m + 1 \in Dashboards
<1>1. m \in Nat /\ st \subseteq 1..m /\ MaxDashboards \in Nat
  BY StoreIsNatural, NavigationAssumption DEF StoreOK
<1>2. m + 1 \in 0..MaxDashboards /\ m <= m + 1 /\ m < m + 1 /\ m + 1 \in 1..MaxDashboards
  BY <1>1
<1>3. 1..m \subseteq 1..(m + 1) /\ m + 1 \in 1..(m + 1)
  BY <1>1
<1> QED BY <1>1, <1>2, <1>3 DEF Grows, StoreOK, Dashboards

LEMMA OneLess ==
  ASSUME NEW st, NEW m, StoreOK(st, m), NEW d
  PROVE  Grows(st, m, st \ {d}, m)
<1>1. Grows(st, m, st, m)
  BY Unchanged
<1>2. StoreOK(st \ {d}, m)
  BY DEF StoreOK
<1> QED BY <1>1, <1>2 DEF Grows

LEMMA ExternalStep ==
  ASSUME IInv, External
  PROVE  Sound /\ Quiet
<1>1. CASE \E changes \in SUBSET Changes : ExternalEdit(changes)
  <2>1. Grows(store, minted, store', minted')
    BY <1>1, Found, Unchanged DEF ExternalEdit
  <2> QED BY <1>1, <2>1, Found, ElsewhereStep DEF ExternalEdit
<1>2. CASE ExternalCreate
  <2>1. Grows(store, minted, store', minted')
    BY <1>2, Found, OneMore DEF ExternalCreate
  <2>2. unread' \subseteq Changes
    BY <1>2, Found DEF ExternalCreate, Document
  <2> QED BY <1>2, <2>1, <2>2, ElsewhereStep DEF ExternalCreate
<1>3. CASE \E d \in Dashboards : ExternalDelete(d)
  <2>1. PICK d \in Dashboards : ExternalDelete(d)
    BY <1>3
  <2>2. Grows(store, minted, store', minted')
    BY <2>1, Found, OneLess DEF ExternalDelete
  <2> QED BY <2>1, <2>2, ElsewhereStep DEF ExternalDelete
<1> QED BY <1>1, <1>2, <1>3 DEF External

\* A write is queued from the surface that is shown.
LEMMA StartStep ==
  ASSUME IInv, NEW kind, NEW d \in Dashboards \cup {None}, NEW stale \in BOOLEAN,
         kind \in {"command", "save", "duplicate", "drop", "tree", "delete", "assign",
                   "file", "new", "placeholder", "refresh"},
         Start(kind, d, stale),
         ~stale => /\ kind = "command" => tab.screen.host = "dashboard"
                   /\ kind = "placeholder" => Mounted(tab)
  PROVE  Sound /\ Quiet
<1> DEFINE w == [kind |-> kind, dash |-> d,
                 hook |-> IF kind \in {"duplicate", "drop"} THEN tab.hook ELSE "ignore",
                 stale |-> stale]
           ws == Append(tab.writes, w)
           u == [tab EXCEPT !.writes = ws]
<1>1. /\ tab \in SeqTab /\ tab.writes \in Seq(Write) /\ tab.hook \in Hook
      /\ Len(tab.writes) \in Nat /\ MaxWrites \in Nat
      /\ DOMAIN tab.writes = 1..Len(tab.writes)
  BY Found, TabParts, NavigationAssumption DEF TabOK
<1>2. w \in Write /\ w.kind = kind /\ w.stale = stale
  BY <1>1 DEF Write, Hook
<1>3. tab' = u /\ Len(tab.writes) < MaxWrites
  BY <1>1 DEF Start, SeqTab
<1> HIDE DEF w
<1>4. /\ ws \in Seq(Write) /\ Len(ws) = Len(tab.writes) + 1 /\ ws[Len(tab.writes) + 1] = w
      /\ \A i \in 1..Len(tab.writes) : ws[i] = tab.writes[i]
      /\ DOMAIN ws = 1..Len(ws)
  BY <1>1, <1>2, AppendProperties, LenProperties
<1> HIDE DEF ws
<1>5. u \in SeqTab /\ SamePlace(tab, u) /\ u.screen = tab.screen /\ u.writes = ws
  BY <1>1, <1>4 DEF SeqTab, SamePlace
<1> HIDE DEF u
<1>6. TabOK(u)
  <2>1. Len(ws) \in 0..MaxWrites
    BY <1>1, <1>3, <1>4
  <2> QED BY <1>5, <2>1, Found DEF TabOK, SamePlace
<1>7. PlaceOK(u, store, minted)
  BY <1>5, Found, PlaceKept
<1>8. ShownOK(u) /\ (Mounted(u) <=> Mounted(tab))
  BY <1>5, Found DEF ShownOK, SamePlace, Mounted, Route
<1>9. LiveOK(u)
  <2> SUFFICES ASSUME NEW i \in 1..Len(ws), ~ws[i].stale
               PROVE  /\ ws[i].kind = "command" => tab.screen.host = "dashboard"
                      /\ ws[i].kind = "placeholder" => Mounted(tab)
    BY <1>5, <1>8 DEF LiveOK
  <2>1. CASE i \in 1..Len(tab.writes)
    BY <1>4, <2>1, Found DEF LiveOK
  <2>2. CASE i \notin 1..Len(tab.writes)
    <3>1. i = Len(tab.writes) + 1
      BY <1>1, <1>4, <2>2
    <3> QED BY <1>2, <1>4, <3>1
  <2> QED BY <2>1, <2>2
<1>10. OwedOK(u)
  <2>1. \A i \in 1..Len(tab.writes) : i \in 1..Len(ws)
    BY <1>1, <1>4
  <2>2. LivePending(tab) => LivePending(u)
    BY <1>1, <1>4, <1>5, <2>1 DEF LivePending
  <2> QED BY <1>5, <2>2, Found DEF OwedOK
<1>11. NotedOK(u)
  BY <1>5, Found DEF NotedOK, SamePlace, Current
<1>12. Rest(tab', store, minted)
  BY <1>3, <1>6, <1>7, <1>8, <1>9, <1>10, <1>11 DEF Rest, ScreenOK
<1>13. Quiet
  BY <1>1, <1>3, <1>4, <1>5 DEF Quiet
<1> QED BY <1>3, <1>8, <1>12, <1>13, Found DEF Start, Sound, Good

LEMMA BeginStep ==
  ASSUME IInv, Begin
  PROVE  Sound /\ Quiet
<1>1. CASE StartRefresh
  BY <1>1, StartStep DEF StartRefresh
<1>2. CASE StartOnDashboard
  <2>1. tab.screen.host = "dashboard" /\ tab.screen.dash \in Dashboards \cup {None}
    BY <1>2, Found, TabParts DEF StartOnDashboard, Screen
  <2>2. CASE Start("command", tab.screen.dash, FALSE)
    BY <2>1, <2>2, StartStep
  <2>3. CASE Start("duplicate", tab.screen.dash, FALSE)
    BY <2>1, <2>3, StartStep
  <2> QED BY <1>2, <2>2, <2>3 DEF StartOnDashboard
<1>3. CASE StartSave
  BY <1>3, StartStep DEF StartSave
<1>4. CASE StartCreate
  <2>1. Mounted(tab)
    BY <1>4 DEF StartCreate, Mounted
  <2> QED BY <1>4, <2>1, StartStep DEF StartCreate
<1>5. CASE StartInShell
  <2>1. CASE \E kind \in {"drop", "assign", "file", "new", "tree"} : Start(kind, None, FALSE)
    BY <2>1, StartStep
  <2>2. CASE \E d \in tab.known : Start("delete", d, FALSE)
    <3>1. PICK d \in tab.known : Start("delete", d, FALSE)
      BY <2>2
    <3>2. d \in Dashboards \cup {None}
      BY Found, TabParts
    <3> QED BY <3>1, <3>2, StartStep
  <2> QED BY <1>5, <2>1, <2>2 DEF StartInShell
<1> QED BY <1>1, <1>2, <1>3, <1>4, <1>5 DEF Begin

\* What a step that lets a write land does to the place of the user and to the login screen.
Discreet ==
    /\ ~Reveals(Landing(tab)) => Stays(tab, tab')
    /\ ~Mounted(tab) /\ Landing(tab).kind \in {"command", "save", "placeholder"}
         => ~Mounted(tab')

Onward(t, u, st, m) == Fit(u, st, m) /\ Follows(t, u)

LEMMA Heads ==
  ASSUME NEW t, NEW u, TabOK(t), TabOK(u), Older(t, u), t.writes # <<>>
  PROVE  /\ u.writes # <<>>
         /\ Landing(u).kind = Landing(t).kind
         /\ Landing(t).kind \in Captures /\ Landing(t).stale => Landing(u).stale
<1>1. 1 \in 1..Len(t.writes) /\ Landing(t) = t.writes[1]
  BY DequeuedDoes
<1>2. u.writes \in Seq(Write) /\ Len(u.writes) = Len(t.writes) /\ Len(u.writes) # 0
  BY <1>1, TabParts DEF Older
<1>3. u.writes # <<>>
  BY <1>2, EmptySeq
<1>4. Landing(u) = u.writes[1]
  BY <1>3, DequeuedDoes
<1> QED BY <1>1, <1>3, <1>4 DEF Older

LEMMA StaysTaken ==
  ASSUME NEW t, NEW u, NEW v, NEW st, NEW m, Stays(t, u), Taken(u, v, st, m)
  PROVE  Stays(t, v)
BY DEF Stays, Taken

LEMMA StaysThere ==
  ASSUME NEW t, NEW u, NEW v, Stays(t, u), SamePlace(u, v)
  PROVE  Stays(t, v)
BY DEF Stays, SamePlace

\* The store and the news as a landing write leaves them.
Settles ==
    /\ StoreOK(store', minted') /\ unread' \subseteq Changes /\ session' = session

\* A write of which the surface expects nothing is done with.
LEMMA LeaveStep ==
  ASSUME IInv, Settles, tab.writes # <<>>,
         Landing(tab).kind = "command" => Landing(tab).stale,
         NEW u, Onward(tab, u, store', minted'), Leave(u)
  PROVE  /\ Sound /\ Taken(u, tab', store', minted')
         /\ Mounted(tab') <=> Mounted(u)
<1>1. /\ TabOK(u) /\ Older(tab, u) /\ Fit(u, store', minted') /\ StoreOK(store', minted')
      /\ Mounted(tab) => Mounted(u)
  BY DEF Onward, Fit, Follows, Settles
<1>2. /\ u.writes # <<>>
      /\ Landing(u).kind = "command" => Landing(u).stale
  BY <1>1, Found, Heads DEF Captures
<1>3. tab' = Noted(Dequeued(u))
  BY DEF Leave
<1>4. Taken(u, tab', store', minted') /\ (Mounted(tab') <=> Mounted(u))
  BY <1>1, <1>2, <1>3, LeaveRests
<1>5. Sound
  BY <1>1, <1>4, Found DEF Sound, Good, Settles, Taken
<1> QED BY <1>4, <1>5

\* The projection and what the callers do with it.
LEMMA ProjectStep ==
  ASSUME IInv, NEW st, NEW m, Grows(store, minted, st, m),
         NEW changes, changes \subseteq Changes
  PROVE  LET p == Project(tab, st, changes)
         IN  /\ Projected(tab, p, st, m) /\ Onward(tab, p, st, m) /\ TabOK(p)
             /\ tab.writes # <<>> =>
                  /\ Landing(p).kind = Landing(tab).kind
                  /\ Landing(tab).kind \in Captures /\ Landing(tab).stale => Landing(p).stale
<1> DEFINE p == Project(tab, st, changes)
<1>1. Projected(tab, p, st, m)
  BY Found, ProjectFits
<1> HIDE DEF p
<1>2. Onward(tab, p, st, m) /\ TabOK(p) /\ Older(tab, p)
  BY <1>1 DEF Projected, Onward, Fit, Follows
<1> QED BY <1>1, <1>2, Found, Heads DEF p

LEMMA NotifiedStep ==
  ASSUME NEW t, NEW p, NEW st, NEW m, Onward(t, p, st, m), Stays(t, p), NEW h
  PROVE  Onward(t, Notified(p, h), st, m) /\ Stays(t, Notified(p, h))
<1>1. Kept(p, Notified(p, h))
  BY NotifiedDoes DEF Onward, Fit
<1>2. Fit(Notified(p, h), st, m) /\ Follows(p, Notified(p, h))
  BY <1>1, KeptFits DEF Onward
<1>3. SamePlace(p, Notified(p, h))
  BY <1>1 DEF Kept
<1> QED BY <1>2, <1>3, FollowsTransitive, StaysThere DEF Onward

LEMMA RenderedStep ==
  ASSUME NEW t, NEW p, NEW st, NEW m, Onward(t, p, st, m), Stays(t, p)
  PROVE  Onward(t, Render(p), st, m) /\ Stays(t, Render(p))
<1>1. Fit(Render(p), st, m) /\ Follows(p, Render(p)) /\ SamePlace(p, Render(p))
  BY RenderFits DEF Onward
<1> QED BY <1>1, FollowsTransitive, StaysThere DEF Onward

\* Nobody is shown a surface who is signed out.
LEMMA RefreshedStep ==
  ASSUME IInv, NEW p, NEW st, NEW m, Projected(tab, p, st, m), Onward(tab, p, st, m)
  PROVE  LET r == RefreshAfterStale(p)
         IN  Onward(tab, r, st, m) /\ Stays(tab, r) /\ (~Mounted(tab) => ~Mounted(r))
<1>1. Stays(tab, p) /\ (Mounted(p) <=> Mounted(tab))
  BY DEF Projected
<1>2. CASE session = "in"
  BY <1>1, <1>2, Found, RenderedStep DEF RefreshAfterStale
<1>3. CASE session # "in"
  BY <1>1, <1>3 DEF RefreshAfterStale
<1> QED BY <1>2, <1>3

\* A command that is live has a dashboard on screen, a creation a shell.
LEMMA LiveIsMounted ==
  ASSUME IInv, tab.writes # <<>>, ~Landing(tab).stale,
         Landing(tab).kind \in {"command", "placeholder"}
  PROVE  Mounted(tab)
<1>1. 1 \in 1..Len(tab.writes) /\ Landing(tab) = tab.writes[1]
  BY Found, DequeuedDoes
<1> QED BY <1>1, Found DEF LiveOK, Mounted

\* Most writes are done with once what they committed has been read; the surface is told.
LEMMA QuietLanding ==
  ASSUME IInv, Settles, tab.writes # <<>>,
         Landing(tab).kind = "command" => Landing(tab).stale,
         NEW u, Onward(tab, u, store', minted'), Leave(u),
         ~Reveals(Landing(tab)) => Stays(tab, u),
         ~Mounted(tab) /\ Landing(tab).kind \in {"command", "save", "placeholder"}
           => ~Mounted(u)
  PROVE  Sound /\ Discreet
<1>1. /\ Sound /\ Taken(u, tab', store', minted') /\ (Mounted(tab') <=> Mounted(u))
  BY LeaveStep
<1>2. Stays(tab, u) => Stays(tab, tab')
  BY <1>1, StaysTaken
<1> QED BY <1>1, <1>2 DEF Discreet

LEMMA Steady ==
  ASSUME IInv, UNCHANGED <<store, minted, session>>, unread' = {} \/ unread' = unread
  PROVE  Settles /\ Grows(store, minted, store', minted') /\ Grows(store, minted, store, minted)
BY Found, Unchanged DEF Settles

LEMMA RefuseStep ==
  ASSUME IInv, Refuse
  PROVE  Sound /\ Discreet
<1>1. Settles /\ store' = store /\ minted' = minted
  BY Steady DEF Refuse
<1>2. Onward(tab, tab, store', minted') /\ Stays(tab, tab)
  BY <1>1, Found DEF Onward, Follows, Older, Stays, BaseOK
<1> QED BY <1>1, <1>2, QuietLanding DEF Refuse

LEMMA LandRefreshStep ==
  ASSUME IInv, LandRefresh
  PROVE  Sound /\ Discreet
<1> DEFINE p == Project(tab, store, unread)
           n == Notified(p, p.hook)
<1>1. Settles /\ store' = store /\ minted' = minted /\ Grows(store, minted, store, minted)
  BY Steady DEF LandRefresh
<1>2. Projected(tab, p, store, minted) /\ Onward(tab, p, store, minted)
  BY <1>1, Found, ProjectStep
<1>3. tab.writes # <<>> /\ Landing(tab).kind = "refresh" /\ Leave(n)
  BY DEF LandRefresh, Landed
<1> HIDE DEF p
<1>4. Onward(tab, n, store, minted) /\ Stays(tab, n)
  BY <1>2, NotifiedStep DEF Projected
<1> HIDE DEF n
<1> QED BY <1>1, <1>3, <1>4, QuietLanding

LEMMA LandStaleCommandStep ==
  ASSUME IInv, LandStaleCommand
  PROVE  Sound /\ Discreet
<1> DEFINE p == Project(tab, store, unread \cup Document)
           r == RefreshAfterStale(p)
<1>1. Settles /\ store' = store /\ minted' = minted /\ Grows(store, minted, store, minted)
  BY Steady DEF LandStaleCommand
<1>2. Projected(tab, p, store, minted) /\ Onward(tab, p, store, minted)
  <2>1. unread \cup Document \subseteq Changes
    BY Found DEF Document
  <2> QED BY <1>1, <2>1, ProjectStep
<1>3. /\ tab.writes # <<>> /\ Landing(tab).kind = "command" /\ Landing(tab).stale
      /\ Leave(r)
  BY DEF LandStaleCommand, Landed
<1> HIDE DEF p
<1>4. Onward(tab, r, store, minted) /\ Stays(tab, r) /\ (~Mounted(tab) => ~Mounted(r))
  BY <1>2, RefreshedStep
<1> HIDE DEF r
<1> QED BY <1>1, <1>3, <1>4, QuietLanding

LEMMA LandCommandStep ==
  ASSUME IInv, LandCommand
  PROVE  Sound /\ Discreet
<1>1. tab.writes # <<>> /\ Landing(tab).kind = "command" /\ ~Landing(tab).stale
  BY DEF LandCommand, Landed
<1>2. PICK read \in BOOLEAN, restored \in BOOLEAN :
          LET t == IF read THEN Project(tab, store, unread) ELSE tab
          IN /\ tab' = Noted(IF Landing(t).stale THEN Dequeued(t)
                             ELSE Settled(Dequeued(t), read, restored))
             /\ unread' = IF read THEN {} ELSE unread
  BY DEF LandCommand
<1> DEFINE t == IF read THEN Project(tab, store, unread) ELSE tab
<1>3. /\ tab' = Noted(IF Landing(t).stale THEN Dequeued(t)
                      ELSE Settled(Dequeued(t), read, restored))
      /\ unread' = {} \/ unread' = unread
  BY <1>2
<1>4. Settles /\ store' = store /\ minted' = minted /\ Grows(store, minted, store, minted)
  BY <1>3, Steady DEF LandCommand
<1>5. Onward(tab, t, store, minted) /\ Stays(tab, t)
  <2>1. CASE read
    BY <1>4, <2>1, Found, ProjectStep DEF Projected
  <2>2. CASE ~read
    BY <2>2, Found DEF Onward, Follows, Older, Stays, BaseOK
  <2> QED BY <2>1, <2>2
<1> HIDE DEF t
<1>6. TabOK(t) /\ Older(tab, t) /\ Fit(t, store, minted)
  BY <1>5 DEF Onward, Fit, Follows
<1>7. t.writes # <<>> /\ Landing(t).kind = "command"
  BY <1>1, <1>6, Found, Heads
<1>8. Mounted(tab)
  BY <1>1, LiveIsMounted
<1>9. Taken(t, tab', store, minted) /\ Mounted(tab')
  <2>1. CASE Landing(t).stale
    BY <1>3, <1>5, <1>6, <1>7, <1>8, <2>1, Found, LeaveRests DEF Onward, Follows
  <2>2. CASE ~Landing(t).stale
    BY <1>3, <1>6, <1>7, <2>2, Found, SettleRests
  <2> QED BY <2>1, <2>2
<1>10. Stays(tab, tab')
  BY <1>5, <1>9, StaysTaken
<1>11. Sound
  BY <1>4, <1>9, Found DEF Sound, Good, Settles, Taken
<1> QED BY <1>8, <1>10, <1>11 DEF Discreet

LEMMA LandSaveStep ==
  ASSUME IInv, LandSave
  PROVE  Sound /\ Discreet
<1> DEFINE p == Project(tab, store, unread \cup Queries)
           u == IF Landing(p).stale THEN RefreshAfterStale(p) ELSE p
<1>1. Settles /\ store' = store /\ minted' = minted /\ Grows(store, minted, store, minted)
  BY Steady DEF LandSave
<1>2. Projected(tab, p, store, minted) /\ Onward(tab, p, store, minted)
  <2>1. unread \cup Queries \subseteq Changes
    BY Found DEF Queries
  <2> QED BY <1>1, <2>1, ProjectStep
<1>3. tab.writes # <<>> /\ Landing(tab).kind = "save" /\ Leave(u)
  BY DEF LandSave, Landed
<1> HIDE DEF p
<1>4. Onward(tab, u, store, minted) /\ Stays(tab, u) /\ (~Mounted(tab) => ~Mounted(u))
  BY <1>2, RefreshedStep DEF Projected
<1> HIDE DEF u
<1> QED BY <1>1, <1>3, <1>4, QuietLanding

LEMMA LandDuplicateStep ==
  ASSUME IInv, LandDuplicate
  PROVE  Sound /\ Discreet
<1> DEFINE p == Project(tab, store, Changes)
           n == Notified(p, Landing(p).hook)
<1>1. Settles /\ store' = store /\ minted' = minted /\ Grows(store, minted, store, minted)
  BY Steady DEF LandDuplicate
<1>2. Projected(tab, p, store, minted) /\ Onward(tab, p, store, minted)
  BY <1>1, ProjectStep
<1>3. tab.writes # <<>> /\ Landing(tab).kind = "duplicate" /\ Leave(n)
  BY DEF LandDuplicate, Landed
<1> HIDE DEF p
<1>4. Onward(tab, n, store, minted) /\ Stays(tab, n)
  BY <1>2, NotifiedStep DEF Projected
<1> HIDE DEF n
<1> QED BY <1>1, <1>3, <1>4, QuietLanding

LEMMA LandDropStep ==
  ASSUME IInv, LandDrop
  PROVE  Sound /\ Discreet
<1> DEFINE p == Project(tab, store, Changes)
           n == Notified(p, Landing(p).hook)
           q == ShowQuery(n)
<1>1. Settles /\ store' = store /\ minted' = minted /\ Grows(store, minted, store, minted)
  BY Steady DEF LandDrop
<1>2. Projected(tab, p, store, minted) /\ Onward(tab, p, store, minted)
  BY <1>1, ProjectStep
<1>3. tab.writes # <<>> /\ Landing(tab).kind = "drop" /\ Leave(q)
  BY DEF LandDrop, Landed
<1> HIDE DEF p
<1>4. Onward(tab, n, store, minted)
  BY <1>2, NotifiedStep DEF Projected
<1> HIDE DEF n
<1>5. Onward(tab, q, store, minted)
  BY <1>4, Found, ShowQueryFits, FollowsTransitive DEF Onward
<1> HIDE DEF q
<1> QED BY <1>1, <1>3, <1>5, QuietLanding DEF Reveals

LEMMA DeclineDropStep ==
  ASSUME IInv, DeclineDrop
  PROVE  Sound /\ Discreet
<1> DEFINE q == ShowQuery(tab)
<1>1. Settles /\ UNCHANGED <<store, minted>>
  BY Steady DEF DeclineDrop
<1>2. tab.writes # <<>> /\ Landing(tab).kind = "drop" /\ Leave(q)
  BY DEF DeclineDrop, Landed
<1>3. Onward(tab, q, store', minted')
  BY <1>1, Found, ShowQueryFits DEF Onward
<1> HIDE DEF q
<1> QED BY <1>1, <1>2, <1>3, QuietLanding DEF Reveals

LEMMA LandTreeStep ==
  ASSUME IInv, LandTree
  PROVE  Sound /\ Discreet
<1> DEFINE p == Project(tab, store, Changes)
           n == Notified(p, p.hook)
<1>1. Settles /\ store' = store /\ minted' = minted /\ Grows(store, minted, store, minted)
  BY Steady DEF LandTree
<1>2. Projected(tab, p, store, minted) /\ Onward(tab, p, store, minted)
  BY <1>1, ProjectStep
<1>3. tab.writes # <<>> /\ Landing(tab).kind = "tree" /\ Leave(n)
  BY DEF LandTree, Landed
<1> HIDE DEF p
<1>4. Onward(tab, n, store, minted) /\ Stays(tab, n)
  BY <1>2, NotifiedStep DEF Projected
<1> HIDE DEF n
<1> QED BY <1>1, <1>3, <1>4, QuietLanding

LEMMA LandDeleteStep ==
  ASSUME IInv, LandDelete
  PROVE  Sound /\ Discreet
<1> DEFINE p == Project(tab, store', Changes)
           n == Notified(p, p.hook)
<1>1. Settles /\ Grows(store, minted, store', minted')
  BY Found, OneLess DEF LandDelete, Settles, Grows
<1>2. Projected(tab, p, store', minted') /\ Onward(tab, p, store', minted')
  BY <1>1, ProjectStep
<1>3. tab.writes # <<>> /\ Landing(tab).kind = "delete" /\ Leave(n)
  BY DEF LandDelete, Landed
<1> HIDE DEF p
<1>4. Onward(tab, n, store', minted') /\ Stays(tab, n)
  BY <1>2, NotifiedStep DEF Projected
<1> HIDE DEF n
<1> QED BY <1>1, <1>3, <1>4, QuietLanding

LEMMA LandAssignStep ==
  ASSUME IInv, LandAssign
  PROVE  Sound /\ Discreet
<1> DEFINE p == Project(tab, store, Changes)
           n == Notified(p, p.hook)
           u == IF Landing(p).stale THEN n ELSE ShowQuery(n)
<1>1. Settles /\ store' = store /\ minted' = minted /\ Grows(store, minted, store, minted)
  BY Steady DEF LandAssign
<1>2. tab.writes # <<>> /\ Landing(tab).kind = "assign" /\ Leave(u)
  BY DEF LandAssign, Landed
<1>3. /\ Projected(tab, p, store, minted) /\ Onward(tab, p, store, minted)
      /\ Landing(tab).stale => Landing(p).stale
  BY <1>1, <1>2, ProjectStep DEF Captures
<1> HIDE DEF p
<1>4. Onward(tab, n, store, minted) /\ Stays(tab, n)
  BY <1>3, NotifiedStep DEF Projected
<1> HIDE DEF n
<1>5. Onward(tab, u, store, minted) /\ (Landing(p).stale => Stays(tab, u))
  BY <1>4, Found, ShowQueryFits, FollowsTransitive DEF Onward
<1>6. ~Reveals(Landing(tab)) => Stays(tab, u)
  BY <1>2, <1>3, <1>5 DEF Reveals
<1> HIDE DEF u
<1> QED BY <1>1, <1>2, <1>5, <1>6, QuietLanding

LEMMA AfterLibraryChangeStep ==
  ASSUME NEW t, NEW p, NEW st, NEW m, Onward(t, p, st, m), Stays(t, p)
  PROVE  /\ Onward(t, AfterLibraryChange(p), st, m) /\ Stays(t, AfterLibraryChange(p))
         /\ AfterLibraryChange(p).known = p.known
<1>1. SamePlace(p, Render(p))
  BY RenderFits DEF Onward
<1> QED BY <1>1, RenderedStep DEF AfterLibraryChange, SamePlace

LEMMA LandFileStep ==
  ASSUME IInv, LandFile
  PROVE  Sound /\ Discreet
<1> DEFINE p == Project(tab, store, Changes)
           u == AfterLibraryChange(p)
<1>1. Settles /\ store' = store /\ minted' = minted /\ Grows(store, minted, store, minted)
  BY Steady DEF LandFile
<1>2. Projected(tab, p, store, minted) /\ Onward(tab, p, store, minted)
  BY <1>1, ProjectStep
<1>3. tab.writes # <<>> /\ Landing(tab).kind = "file" /\ Leave(u)
  BY DEF LandFile, Landed
<1> HIDE DEF p
<1>4. Onward(tab, u, store, minted) /\ Stays(tab, u)
  BY <1>2, AfterLibraryChangeStep DEF Projected
<1> HIDE DEF u
<1> QED BY <1>1, <1>3, <1>4, QuietLanding

LEMMA Created ==
  ASSUME IInv, minted < MaxDashboards, minted' = minted + 1, store' = store \cup {minted'},
         unread' = {}, session' = session
  PROVE  Settles /\ Grows(store, minted, store', minted') /\ minted' \in store'
BY Found, OneMore DEF Settles, Grows

LEMMA LandNewStep ==
  ASSUME IInv, LandNew
  PROVE  Sound /\ Discreet
<1> DEFINE p == Project(tab, store', unread \cup Document)
           a == AfterLibraryChange(p)
           u == Open(a, minted')
<1>1. Settles /\ Grows(store, minted, store', minted') /\ minted' \in store'
  BY Created DEF LandNew
<1>2. Projected(tab, p, store', minted') /\ Onward(tab, p, store', minted')
  <2>1. unread \cup Document \subseteq Changes
    BY Found DEF Document
  <2> QED BY <1>1, <2>1, ProjectStep
<1>3. tab.writes # <<>> /\ Landing(tab).kind = "new" /\ Leave(u)
  BY DEF LandNew, Landed
<1> HIDE DEF p
<1>4. Onward(tab, a, store', minted') /\ a.known = store'
  BY <1>2, AfterLibraryChangeStep DEF Projected
<1> HIDE DEF a
<1>5. Onward(tab, u, store', minted')
  BY <1>1, <1>4, OpenFits, FollowsTransitive DEF Onward, Grows
<1> HIDE DEF u
<1> QED BY <1>1, <1>3, <1>5, QuietLanding DEF Reveals

LEMMA LandPlaceholderStep ==
  ASSUME IInv, LandPlaceholder
  PROVE  Sound /\ Discreet
<1> DEFINE p == Project(tab, store', unread \cup Document)
           u == IF Landing(p).stale THEN RefreshAfterStale(p) ELSE Open(p, minted')
<1>1. Settles /\ Grows(store, minted, store', minted') /\ minted' \in store'
  BY Created DEF LandPlaceholder
<1>2. tab.writes # <<>> /\ Landing(tab).kind = "placeholder" /\ Leave(u)
  BY DEF LandPlaceholder, Landed
<1>3. /\ Projected(tab, p, store', minted') /\ Onward(tab, p, store', minted')
      /\ Landing(tab).stale => Landing(p).stale
  <2>1. unread \cup Document \subseteq Changes
    BY Found DEF Document
  <2> QED BY <1>1, <1>2, <2>1, ProjectStep DEF Captures
<1> HIDE DEF p
<1>4. CASE Landing(p).stale
  <2>1. Onward(tab, u, store', minted') /\ Stays(tab, u) /\ (~Mounted(tab) => ~Mounted(u))
    BY <1>3, <1>4, RefreshedStep
  <2> HIDE DEF u
  <2> QED BY <1>1, <1>2, <2>1, QuietLanding
<1>5. CASE ~Landing(p).stale
  <2>1. ~Landing(tab).stale
    BY <1>3, <1>5
  <2>2. Mounted(tab) /\ Reveals(Landing(tab))
    BY <1>2, <2>1, LiveIsMounted DEF Reveals
  <2>3. u = Open(p, minted') /\ p.known = store'
    BY <1>3, <1>5 DEF Projected
  <2>4. Onward(tab, u, store', minted')
    BY <1>1, <1>3, <2>3, OpenFits, FollowsTransitive DEF Onward, Grows
  <2> HIDE DEF u
  <2> QED BY <1>1, <1>2, <2>2, <2>4, QuietLanding
<1> QED BY <1>4, <1>5

-----------------------------------------------------------------------------
(* Behaviours *)

LEMMA InitInv == Init => IInv
<1> SUFFICES ASSUME Init PROVE IInv
  OBVIOUS
<1>1. PICK route \in {"query", "dashboard"} : tab = Boot(route, store)
  BY DEF Init
<1> DEFINE b == [known |-> store, surface |-> None,
                 entries |-> <<NewEntry(route)>>, at |-> 1,
                 screen |-> Show("login", None), hook |-> "ignore", writes |-> <<>>]
<1>2. StoreOK(store, minted)
  <2>1. minted \in Dashboards \cup {0} /\ store = 1..minted /\ MaxDashboards \in Nat
    BY NavigationAssumption DEF Init
  <2>2. minted \in 0..MaxDashboards
    BY <2>1 DEF Dashboards
  <2> QED BY <2>1, <2>2 DEF StoreOK
<1>3. NewEntry(route) \in Entry /\ NewEntry(route).seen = None
  BY NewEntryIs
<1> DEFINE es == <<NewEntry(route)>>
<1>4. es \in Seq(Entry) /\ Len(es) = 1 /\ es[1] = NewEntry(route)
  BY <1>3
<1> HIDE DEF es
<1>5. Show("login", None) \in Screen /\ "ignore" \in Hook /\ <<>> \in Seq(Write) /\ Len(<<>>) = 0
  BY EmptySeq DEF Show, Screen, Hook
<1>6. store \in SUBSET Dashboards /\ 1 \in 1..MaxEntries /\ 0 \in 0..MaxWrites
  <2>1. MaxDashboards \in Nat /\ minted \in 0..MaxDashboards /\ store \subseteq 1..minted
        /\ MaxEntries \in Nat \ {0} /\ MaxWrites \in Nat
    BY <1>2, NavigationAssumption DEF StoreOK
  <2>2. 1..minted \subseteq 1..MaxDashboards
    BY <2>1
  <2> QED BY <2>1, <2>2 DEF Dashboards
<1>7. b = [known |-> store, surface |-> None, entries |-> es, at |-> 1,
           screen |-> Show("login", None), hook |-> "ignore", writes |-> <<>>]
  BY DEF es
<1> HIDE DEF b
<1>8. /\ b \in SeqTab /\ b.known = store /\ b.surface = None /\ b.entries = es /\ b.at = 1
      /\ b.writes = <<>>
  BY <1>4, <1>5, <1>6, <1>7 DEF SeqTab
<1>9. TabOK(b)
  <2>1. Len(b.entries) = 1 /\ Len(b.writes) = 0 /\ 1 \in 1..1
    BY <1>4, <1>5, <1>8
  <2> QED BY <1>6, <1>8, <2>1 DEF TabOK
<1>10. EntryOK(NewEntry(route), store, store, minted)
  BY <1>2, NewEntryOK
<1>11. BaseOK(b, store, minted)
  <2>1. Alternates(es)
    BY <1>4 DEF Alternates
  <2>2. \A i \in 1..Len(es) : i = 1
    BY <1>4
  <2> QED BY <1>2, <1>4, <1>8, <1>10, <2>1, <2>2 DEF BaseOK, StoreOK
<1>12. tab = Noted(Render(Adopt(b)))
  BY <1>1 DEF Boot, b
<1>13. Rest(tab, store, minted) /\ Mounted(tab)
  BY <1>2, <1>8, <1>9, <1>11, <1>12, AdoptRests
<1>14. unread \in SUBSET Changes /\ session = "in"
  BY DEF Init
<1> QED BY <1>2, <1>13, <1>14, GoodHere DEF Good

LEMMA QuietSteps ==
  ASSUME IInv, Navigate \/ Authenticate \/ External \/ Begin
  PROVE  Sound /\ Quiet
<1>1. CASE \E d \in Dashboards : OpenDashboard(d)
  BY <1>1, OpenDashboardStep
<1>2. CASE ShowQuerySurface
  BY <1>2, ShowQuerySurfaceStep
<1>3. CASE ShowDashboardSurface
  BY <1>3, ShowDashboardSurfaceStep
<1>4. CASE \E k \in 1..MaxEntries : Traverse(k)
  BY <1>4, TraverseStep
<1>5. CASE SignOut
  BY <1>5, SignOutStep
<1>6. CASE AuthLost
  BY <1>6, AuthLostStep
<1>7. CASE Connect
  BY <1>7, ConnectStep
<1>8. CASE External
  BY <1>8, ExternalStep
<1>9. CASE Begin
  BY <1>9, BeginStep
<1> QED BY <1>1, <1>2, <1>3, <1>4, <1>5, <1>6, <1>7, <1>8, <1>9 DEF Navigate, Authenticate

LEMMA LandSteps ==
  ASSUME IInv, Land
  PROVE  Sound /\ Discreet
<1>1. CASE Refuse
  BY <1>1, RefuseStep
<1>2. CASE LandRefresh
  BY <1>2, LandRefreshStep
<1>3. CASE LandStaleCommand
  BY <1>3, LandStaleCommandStep
<1>4. CASE LandCommand
  BY <1>4, LandCommandStep
<1>5. CASE LandSave
  BY <1>5, LandSaveStep
<1>6. CASE LandDuplicate
  BY <1>6, LandDuplicateStep
<1>7. CASE LandDrop
  BY <1>7, LandDropStep
<1>8. CASE LandTree
  BY <1>8, LandTreeStep
<1>9. CASE LandDelete
  BY <1>9, LandDeleteStep
<1>10. CASE LandAssign
  BY <1>10, LandAssignStep
<1>11. CASE LandFile
  BY <1>11, LandFileStep
<1>12. CASE LandNew
  BY <1>12, LandNewStep
<1>13. CASE LandPlaceholder
  BY <1>13, LandPlaceholderStep
<1>14. CASE DeclineDrop
  BY <1>14, DeclineDropStep
<1> QED BY <1>1, <1>2, <1>3, <1>4, <1>5, <1>6, <1>7, <1>8, <1>9, <1>10, <1>11, <1>12, <1>13,
           <1>14
        DEF Land

LEMMA StepInv == IInv /\ [Next]_vars => IInv'
<1> SUFFICES ASSUME IInv, [Next]_vars PROVE IInv'
  OBVIOUS
<1>1. CASE Next
  <2>1. Sound
    BY <1>1, QuietSteps, LandSteps DEF Next
  <2> QED BY <2>1, GoodNext DEF Sound
<1>2. CASE UNCHANGED vars
  <2>1. Good(store', minted', unread', session', tab')
    BY <1>2, GoodHere DEF vars
  <2> QED BY <2>1, GoodNext
<1> QED BY <1>1, <1>2

LEMMA Invariance == Spec => []IInv
BY InitInv, StepInv, PTL DEF Spec

(* The tab that src/application/surface-navigation.ts and the renderers of   *)
(* src/ui/app.ts and src/ui/dashboard.ts work on has its type whatever the   *)
(* user, the other tabs and the writes under way do.                         *)
THEOREM NavigationTypes == Spec => []TypeOK
<1>1. IInv => TypeOK
  BY DEF IInv
<1> QED BY <1>1, Invariance, PTL

(* Whatever handler ran last, the selection, the route of the history entry  *)
(* and what is on screen agree (ApplyMainSurface of src/application/         *)
(* surface-navigation.ts, the projection of src/ui/app.ts).                  *)
THEOREM ScreenShowsTheSelection == Spec => []SurfaceIsShown
<1>1. IInv => SurfaceIsShown
  BY DEF IInv, ShownOK, SurfaceIsShown
<1> QED BY <1>1, Invariance, PTL

(* A rebuild that rebuildRouteFromCommitted of src/ui/dashboard.ts has put   *)
(* off always has a command under way that is going to make it.              *)
THEOREM RebuildsAreMade == Spec => []RebuildIsOwed
<1>1. IInv => RebuildIsOwed
  BY DEF IInv, OwedOK, RebuildIsOwed
<1> QED BY <1>1, Invariance, PTL

LEMMA LandsIsLand ==
  ASSUME IInv, Next, Lands
  PROVE  Discreet
<1>1. Land \/ Navigate \/ Authenticate \/ External \/ Begin
  BY DEF Next
<1>2. CASE Land
  BY <1>2, LandSteps
<1>3. CASE Navigate \/ Authenticate \/ External \/ Begin
  <2>1. Sound /\ Quiet
    BY <1>3, QuietSteps
  <2>2. Len(tab'.writes) \in Nat
    BY <2>1, TabParts DEF Sound, Good, Rest
  <2> QED BY <2>1, <2>2, QuietIsNoLanding
<1> QED BY <1>1, <1>2, <1>3

(* A write that lands leaves the user where he is, whatever he has done      *)
(* since it began: the surface changes only when its dashboard is gone       *)
(* (applyCommittedWorkspace of src/ui/app.ts, the staleness checks of the    *)
(* callers).                                                                 *)
THEOREM WritesStayInPlace == Spec => WritesDoNotNavigate
<1>1. IInv /\ [Next]_vars
        => [Lands /\ ~Reveals(Landing(tab))
              => /\ tab'.at = tab.at /\ Len(tab'.entries) = Len(tab.entries)
                 /\ tab'.surface = IF tab.surface \in tab'.known THEN tab.surface ELSE None]_vars
  BY LandsIsLand DEF Discreet, Stays
<1> QED BY <1>1, Invariance, PTL DEF Spec, WritesDoNotNavigate

(* No command, save or creation that settles after sign-out covers the login *)
(* screen (refreshCurrentSurfaceAfterStale of src/application/               *)
(* surface-navigation.ts).                                                   *)
THEOREM LoginStays == Spec => LoginIsKept
<1>1. IInv /\ [Next]_vars
        => [Lands /\ ~Mounted(tab) /\ Landing(tab).kind \in {"command", "save", "placeholder"}
              => ~Mounted(tab')]_vars
  BY LandsIsLand DEF Discreet
<1> QED BY <1>1, Invariance, PTL DEF Spec, LoginIsKept

(* One step Back or Forward comes to the dashboard that was selected at the  *)
(* entry, unless it has been deleted (handleSqlPopState and                  *)
(* adoptRouteMainSurface of src/application/surface-navigation.ts).          *)
THEOREM HistoryRestores == Spec => BackRestores
<1>1. IInv /\ [Next]_vars
        => [\A k \in DOMAIN tab.entries \cap {tab.at - 1, tab.at + 1} :
              tab'.at = k /\ Traverse(k) /\ tab.entries[k].seen \in tab.known
                /\ ~tab.entries[k].kept
                => tab'.surface = tab.entries[k].seen]_vars
  BY TraverseRestores
<1> QED BY <1>1, Invariance, PTL DEF Spec, BackRestores
===============================================================================
