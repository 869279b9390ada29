-------------------------- MODULE SurfaceNavigation --------------------------
(***************************************************************************)
(* What one signed-in tab shows of its workspace: the query editor, one of *)
(* the workspace's dashboards, the placeholder of an empty workspace or    *)
(* the login screen (src/application/surface-navigation.ts, the renderers  *)
(* of src/ui/app.ts and src/ui/dashboard.ts).                              *)
(*                                                                         *)
(* Four things have to agree: the selection (mainSurface), the history     *)
(* entry of the browser with its route, what is on screen, and the         *)
(* committed workspace.  Each handler runs to its end without interruption *)
(* and is one function from the tab it finds to the tab it leaves; what    *)
(* interrupts it are the writes it started: they wait in the tab's queue,  *)
(* and when one lands the user may be somewhere else.  Some callers        *)
(* remember the surface generation they began under; the model keeps       *)
(* whether it has moved since, the flag stale.                             *)
(***************************************************************************)
EXTENDS Integers, Sequences

CONSTANTS
    MaxDashboards, \* bound on the dashboards ever created
    MaxEntries,    \* bound on the history: the oldest entry is forgotten beyond it
    MaxWrites,     \* bound on the writes under way
    MaxOthers,     \* bound on those that are no dashboard commands
    Changes,       \* the changes of content told apart
    None

ASSUME NavigationAssumption ==
    /\ MaxDashboards \in Nat /\ MaxEntries \in Nat \ {0} /\ MaxWrites \in Nat
    /\ MaxOthers \in Nat
    /\ Changes \subseteq {"document", "queries"}
    /\ None \notin Nat

VARIABLES
    store,   \* the committed dashboards; the collection lists them oldest first
    minted,  \* the dashboards created so far
    unread,  \* what other tabs changed and this tab has not read
    session, \* "in", "lost" (the shell stays) or "out" (signed out)
    tab

vars == <<store, minted, unread, session, tab>>

Dashboards == 1..MaxDashboards
Document   == Changes \cap {"document"}
Queries    == Changes \cap {"queries"}

(* seen and kept are no state of the code: the dashboard last selected at    *)
(* the entry, and whether it is one kept over a jump between two dashboards, *)
(* which the entry itself knows nothing of.                                  *)
Entry == [route: {"query", "dashboard"}, dash: Dashboards \cup {None},
          seen: Dashboards \cup {None}, kept: BOOLEAN]

NewEntry(route) == [route |-> route, dash |-> None, seen |-> None, kept |-> FALSE]

(* What runs when the workspace changed under the surface: nothing, render   *)
(* the Dashboard surface again (left by the placeholder), the live renderer, *)
(* or a renderer that is gone.                                               *)
Hook == {"ignore", "missing", "renderer", "gone"}

(* The writes whose callers compare the surface generation when they settle. *)
Captures == {"command", "save", "assign", "placeholder"}

Write == [kind: {"command", "save", "duplicate", "drop", "tree", "delete", "assign",
                 "file", "new", "placeholder", "refresh"},
          dash: Dashboards \cup {None}, hook: Hook, stale: BOOLEAN]

(* behind: the changes projected since what is on screen was built.          *)
Screen == [host: {"query", "dashboard", "missing", "login"},
           dash: Dashboards \cup {None}, behind: SUBSET Changes, rebuild: BOOLEAN]

Tab == [known: SUBSET Dashboards, surface: Dashboards \cup {None},
        entries: UNION {[1..n -> Entry] : n \in 1..MaxEntries}, at: 1..MaxEntries,
        screen: Screen, hook: Hook,
        writes: UNION {[1..n -> Write] : n \in 0..MaxWrites}]

TypeOK ==
    /\ store \in SUBSET (1..minted) /\ minted \in 0..MaxDashboards
    /\ unread \in SUBSET Changes
    /\ session \in {"in", "lost", "out"}
    /\ tab \in Tab /\ tab.at \in DOMAIN tab.entries

First(dashes) ==
    IF dashes = {} THEN None ELSE CHOOSE d \in dashes : \A e \in dashes : d <= e

Route(t)   == t.entries[t.at].route
Mounted(t) == t.screen.host # "login"
Landing(t) == Head(t.writes)
LivePending(t) == \E i \in DOMAIN t.writes :
                     t.writes[i].kind = "command" /\ ~t.writes[i].stale

-----------------------------------------------------------------------------
(* The renderers.  Each begins a surface transition, which moves the surface *)
(* generation on.                                                            *)

Overtaken(write) ==
    [write EXCEPT !.stale = write.kind \in Captures,
                  !.hook = IF @ = "renderer" THEN "gone" ELSE @]

Advanced(t) == [t EXCEPT !.writes = [i \in DOMAIN t.writes |-> Overtaken(t.writes[i])]]

Show(host, dash) == [host |-> host, dash |-> dash, behind |-> {}, rebuild |-> FALSE]

RenderQuery(t) ==
    [Advanced(t) EXCEPT !.hook = "ignore", !.screen = Show("query", None)]

(* Without a selection the oldest dashboard stands in.                       *)
RenderDashboard(t) ==
    LET d == IF t.surface = None THEN First(t.known) ELSE t.surface
    IN IF d = None
       THEN [Advanced(t) EXCEPT !.hook = "missing", !.screen = Show("missing", None)]
       ELSE [Advanced(t) EXCEPT !.hook = "renderer", !.screen = Show("dashboard", d)]

Render(t) == IF Route(t) = "dashboard" THEN RenderDashboard(t) ELSE RenderQuery(t)

RebuildRoute(t) ==
    IF LivePending(t) THEN [t EXCEPT !.screen.rebuild = TRUE] ELSE RenderDashboard(t)

(* The hook h is told that the workspace changed.  A renderer that is gone   *)
(* compares generations and does nothing.                                    *)
Notified(t, h) ==
    IF Route(t) # "dashboard" \/ h \in {"ignore", "gone"} THEN t
    ELSE IF h = "missing" THEN RenderDashboard(t) ELSE RebuildRoute(t)

-----------------------------------------------------------------------------
(* History and selection.                                                    *)

(* Mutant of WriteRoute: what lay ahead in the history is not forgotten.     *)
WriteRouteKeepsForward(t, route, push) ==
    LET entry == NewEntry(route)
    IN IF push THEN [t EXCEPT !.entries = Append(t.entries, entry), !.at = t.at + 1]
       ELSE [t EXCEPT !.entries[t.at] = entry]

WriteRoute(t, route, push) ==
    LET entry == NewEntry(route)
    IN IF ~push THEN [t EXCEPT !.entries[t.at] = entry]
       ELSE IF t.at < MaxEntries
       THEN [t EXCEPT !.entries = Append(SubSeq(t.entries, 1, t.at), entry), !.at = t.at + 1]
       ELSE [t EXCEPT !.entries = Append(Tail(t.entries), entry)]

Stamp(t) == [t EXCEPT !.entries[t.at].dash = t.surface, !.entries[t.at].kept = FALSE]

(* Mutant of Selected: the new entry does not say which dashboard it shows.  *)
SelectedUnstamped(t, s, push) ==
    WriteRoute([t EXCEPT !.surface = s], IF s = None THEN "query" ELSE "dashboard", push)

(* A new route written, which carries the selection when it is a dashboard.  *)
Selected(t, s, push) ==
    LET written == WriteRoute([t EXCEPT !.surface = s],
                              IF s = None THEN "query" ELSE "dashboard", push)
    IN IF s = None THEN written ELSE Stamp(written)

ApplyMainSurface(t, s, push) == Render(Selected(Stamp(t), s, push))

Open(t, d) == ApplyMainSurface(t, d, Route(t) = "query")

ShowQuery(t) ==
    IF t.surface = None /\ Route(t) = "query" THEN t
    ELSE ApplyMainSurface(t, None, Route(t) = "dashboard")

(* The route decides the surface: at boot, on Back and Forward, at sign-in.  *)
Adopt(t) ==
    LET snapshot == t.entries[t.at].dash
        chosen == IF Route(t) = "query" THEN None
                  ELSE IF t.surface # None THEN t.surface
                  ELSE IF snapshot \in t.known THEN snapshot ELSE First(t.known)
    IN [t EXCEPT !.surface = chosen]

(* Mutant of Project: the fallback of a lost selection is recorded, not shown. *)
ProjectRecordsOnly(t, committed, changes) ==
    LET lost == t.surface \notin committed \cup {None}
        read == [t EXCEPT !.known = committed, !.surface = IF lost THEN None ELSE @,
                          !.screen.behind = @ \cup changes]
    IN IF lost /\ Route(t) = "dashboard" THEN WriteRoute(read, "query", FALSE) ELSE read

(* applyCommittedWorkspace: the selection follows the committed collection,  *)
(* and a lost one falls back to the editor, with its route.                  *)
Project(t, committed, changes) ==
    LET lost == t.surface \notin committed \cup {None}
        read == [t EXCEPT !.known = committed,
                          !.surface = IF lost THEN None ELSE @,
                          !.screen.behind = IF t.screen.host \in {"dashboard", "missing"}
                                            THEN @ \cup changes ELSE @]
    IN IF ~lost THEN read
       ELSE Render(IF Route(t) = "dashboard" THEN WriteRoute(read, "query", FALSE) ELSE read)

Noted(t) == [t EXCEPT !.entries[t.at].seen = t.surface]

Boot(route, committed) ==
    Noted(Render(Adopt(
        [known |-> committed, surface |-> None,
         entries |-> <<NewEntry(route)>>, at |-> 1,
         screen |-> Show("login", None), hook |-> "ignore", writes |-> <<>>])))

Init ==
    /\ minted \in Dashboards \cup {0} /\ store = 1..minted
    /\ unread = {} /\ session = "in"
    /\ \E route \in {"query", "dashboard"} : tab = Boot(route, store)

-----------------------------------------------------------------------------
(* The user moves between the surfaces.                                      *)

(* The surface controls are in the shell.  Opening what is open already      *)
(* renders it again when the mode differs or a member is to be focused that  *)
(* the live surface cannot reach yet.                                        *)
OpenDashboard(d) ==
    /\ Mounted(tab) /\ d \in tab.known
    /\ tab' = Noted(Open(tab, d))
    /\ UNCHANGED <<store, minted, unread, session>>

ShowQuerySurface ==
    /\ Mounted(tab) /\ (tab.surface # None \/ Route(tab) = "dashboard")
    /\ tab' = Noted(ShowQuery(tab))
    /\ UNCHANGED <<store, minted, unread, session>>

(* Dashboard without a name: with one selected, or any to select, it is an   *)
(* OpenDashboard.                                                            *)
ShowDashboardSurface ==
    /\ Mounted(tab) /\ tab.known = {}
    /\ tab' = Noted(Render(WriteRoute(tab, "dashboard", Route(tab) = "query")))
    /\ UNCHANGED <<store, minted, unread, session>>

(* Back and Forward, by one entry or several.  The listener is on the window *)
(* and hears them on the login screen too.                                   *)
Traverse(k) ==
    /\ k \in DOMAIN tab.entries \ {tab.at}
    /\ LET kept == tab.surface # None /\ tab.entries[k].route = "dashboard"
       IN tab' = Noted(Render(Adopt([tab EXCEPT
                     !.at = k, !.entries[k].kept = @ \/ kept])))
    /\ UNCHANGED <<store, minted, unread, session>>

SignOut ==
    /\ session # "out" \/ Mounted(tab)
    /\ session' = "out"
    /\ tab' = Noted([Advanced(tab) EXCEPT
                        !.surface = None, !.screen = Show("login", None),
                        !.hook = IF @ = "renderer" THEN "gone" ELSE @])
    /\ UNCHANGED <<store, minted, unread>>

AuthLost ==
    /\ session = "in"
    /\ session' = "lost"
    /\ UNCHANGED <<store, minted, unread, tab>>

(* A mounted shell keeps its document.  From the login screen the workspace  *)
(* is loaded and the route decides; the load supersedes the writes still     *)
(* under way, which can no longer commit or show anything.                   *)
Connect ==
    /\ session # "in"
    /\ session' = "in"
    /\ IF Mounted(tab) THEN UNCHANGED <<tab, unread>>
       ELSE /\ tab' = [Noted(Render(Adopt(Project(tab, store, {})))) EXCEPT !.writes = <<>>]
            /\ unread' = {}
    /\ UNCHANGED <<store, minted>>

-----------------------------------------------------------------------------
(* Other tabs.                                                               *)

ExternalEdit(changes) ==
    /\ changes # {} /\ unread' = unread \cup changes
    /\ UNCHANGED <<store, minted, session, tab>>

ExternalCreate ==
    /\ minted < MaxDashboards
    /\ minted' = minted + 1 /\ store' = store \cup {minted'}
    /\ unread' = unread \cup Document
    /\ UNCHANGED <<session, tab>>

ExternalDelete(d) ==
    /\ d \in store
    /\ store' = store \ {d} /\ unread' = Changes
    /\ UNCHANGED <<minted, session, tab>>

-----------------------------------------------------------------------------
(* Writes are queued with what they captured: a duplication and a drop read  *)
(* the hook when they begin, the others when they have committed.            *)

IsOther(write) == write.kind # "command"

Start(kind, d, stale) ==
    /\ Len(tab.writes) < MaxWrites
    /\ kind # "command" => Len(SelectSeq(tab.writes, IsOther)) < MaxOthers
    /\ LET hook == IF kind \in {"duplicate", "drop"} THEN tab.hook ELSE "ignore"
       IN tab' = [tab EXCEPT !.writes = Append(@, [kind |-> kind, dash |-> d,
                                                   hook |-> hook, stale |-> stale])]
    /\ UNCHANGED <<store, minted, unread, session>>

StartRefresh ==
    /\ \A i \in DOMAIN tab.writes : tab.writes[i].kind # "refresh"
    /\ Start("refresh", None, FALSE)

StartOnDashboard ==
    /\ tab.screen.host = "dashboard"
    /\ \/ Start("command", tab.screen.dash, FALSE)
       \/ Start("duplicate", tab.screen.dash, FALSE)

(* The saved list captures the generation when it is painted, the editor     *)
(* when the save begins.                                                     *)
StartSave ==
    /\ tab.screen.host = "query"
    /\ \E stale \in BOOLEAN : Start("save", None, stale)

StartCreate ==
    /\ tab.screen.host = "missing"
    /\ Start("placeholder", None, FALSE)

StartInShell ==
    /\ Mounted(tab)
    /\ \/ \E kind \in {"drop", "assign", "file", "new", "tree"} : Start(kind, None, FALSE)
       \/ \E d \in tab.known : Start("delete", d, FALSE)

-----------------------------------------------------------------------------
(* The write at the head of the queue lands: its commit, the projection, and *)
(* what its caller does then.                                                *)

Dequeued(t) == [t EXCEPT !.writes = Tail(@)]

Leave(t) == tab' = Noted(Dequeued(t))

(* Mutant of RefreshAfterStale: whether anybody is signed in is not asked.   *)
RefreshAfterStaleAlways(t) == Render(t)

(* refreshCurrentSurfaceAfterStale.                                          *)
RefreshAfterStale(t) == IF session = "in" THEN Render(t) ELSE t

Landed(kind) == tab.writes # <<>> /\ Landing(tab).kind = kind

(* Nothing is committed and nothing shown; the queue goes on.                *)
Refuse ==
    /\ tab.writes # <<>>
    /\ Landing(tab).kind = "command" => Landing(tab).stale
    /\ Leave(tab)
    /\ UNCHANGED <<store, minted, unread, session>>

(* A commit that leaves the collection as it is: the tab has read the store. *)
Committed(changes) ==
    /\ unread' = {}
    /\ UNCHANGED <<store, minted, session>>

LandRefresh ==
    /\ Landed("refresh")
    /\ store # tab.known \/ unread # {}
    /\ LET t == Project(tab, store, unread) IN Leave(Notified(t, t.hook))
    /\ unread' = {}
    /\ UNCHANGED <<store, minted, session>>

LandStaleCommand ==
    /\ Landed("command") /\ Landing(tab).stale /\ Landing(tab).dash \in store
    /\ Leave(RefreshAfterStale(Project(tab, store, unread \cup Document)))
    /\ unread' = {}
    /\ UNCHANGED <<store, minted, session>>

(* Mutant of Settled: a rebuild put off by the hook is not looked for.       *)
SettledForgets(t, rebased, restored) ==
    LET owed == [t EXCEPT !.screen.rebuild = TRUE]
    IN IF t.screen.dash \notin t.known \/ restored THEN RebuildRoute(owed) ELSE t

(* settleCommand: the document is made again from what was committed; a      *)
(* document the surface cannot take in place is rebuilt, once no other       *)
(* command is pending.                                                       *)
Settled(t, rebased, restored) ==
    LET synced == [t EXCEPT !.screen.behind = IF rebased THEN @ \ Document ELSE @]
        owed   == [t EXCEPT !.screen.rebuild = TRUE]
    IN IF t.screen.dash \notin t.known \/ restored \/ t.screen.rebuild
       THEN RebuildRoute(owed) ELSE synced

LandCommand ==
    /\ Landed("command") /\ ~Landing(tab).stale
    /\ \E read, restored \in BOOLEAN :
          LET t == IF read THEN Project(tab, store, unread) ELSE tab
          IN /\ tab' = Noted(IF Landing(t).stale THEN Dequeued(t)
                             ELSE Settled(Dequeued(t), read, restored))
             /\ unread' = IF read THEN {} ELSE unread
    /\ UNCHANGED <<store, minted, session>>

LandSave ==
    /\ Landed("save")
    /\ LET t == Project(tab, store, unread \cup Queries)
       IN Leave(IF Landing(t).stale THEN RefreshAfterStale(t) ELSE t)
    /\ unread' = {}
    /\ UNCHANGED <<store, minted, session>>

(* It tells the hook it read at the start, whose renderer may be gone.       *)
LandDuplicate ==
    /\ Landed("duplicate") /\ Landing(tab).dash \in store
    /\ LET t == Project(tab, store, Changes) IN Leave(Notified(t, Landing(t).hook))
    /\ unread' = {}
    /\ UNCHANGED <<store, minted, session>>

LandDrop ==
    /\ Landed("drop")
    /\ LET t == Project(tab, store, Changes) IN Leave(ShowQuery(Notified(t, Landing(t).hook)))
    /\ unread' = {}
    /\ UNCHANGED <<store, minted, session>>

(* A drop that unsaved changes of the variable's tab forbid is declined, and *)
(* that tab is shown.                                                        *)
DeclineDrop ==
    /\ Landed("drop")
    /\ Leave(ShowQuery(tab))
    /\ UNCHANGED <<store, minted, unread, session>>

LandTree ==
    /\ Landed("tree")
    /\ LET t == Project(tab, store, Changes) IN Leave(Notified(t, t.hook))
    /\ unread' = {}
    /\ UNCHANGED <<store, minted, session>>

LandDelete ==
    /\ Landed("delete") /\ Landing(tab).dash \in store
    /\ store' = store \ {Landing(tab).dash}
    /\ LET t == Project(tab, store', Changes) IN Leave(Notified(t, t.hook))
    /\ unread' = {}
    /\ UNCHANGED <<minted, session>>

(* Mutant of LandAssign: the new panel is opened wherever the user is.       *)
LandAssignAnywhere ==
    /\ Landed("assign")
    /\ LET t == Project(tab, store, Changes) IN Leave(ShowQuery(Notified(t, t.hook)))
    /\ unread' = {}
    /\ UNCHANGED <<store, minted, session>>

(* Whether the surface is still the one the command was given on is noted    *)
(* before the hook, which may rebuild it.                                    *)
LandAssign ==
    /\ Landed("assign")
    /\ LET t == Project(tab, store, Changes)
           told == Notified(t, t.hook)
       IN Leave(IF Landing(t).stale THEN told ELSE ShowQuery(told))
    /\ unread' = {}
    /\ UNCHANGED <<store, minted, session>>

AfterLibraryChange(t) == IF Route(t) = "dashboard" THEN Render(t) ELSE t

LandFile ==
    /\ Landed("file")
    /\ Leave(AfterLibraryChange(Project(tab, store, Changes)))
    /\ unread' = {}
    /\ UNCHANGED <<store, minted, session>>

LandNew ==
    /\ Landed("new") /\ minted < MaxDashboards
    /\ minted' = minted + 1 /\ store' = store \cup {minted'}
    /\ Leave(Open(AfterLibraryChange(Project(tab, store', unread \cup Document)), minted'))
    /\ unread' = {}
    /\ UNCHANGED session

LandPlaceholder ==
    /\ Landed("placeholder") /\ minted < MaxDashboards
    /\ minted' = minted + 1 /\ store' = store \cup {minted'}
    /\ LET t == Project(tab, store', unread \cup Document)
       IN Leave(IF Landing(t).stale THEN RefreshAfterStale(t) ELSE Open(t, minted'))
    /\ unread' = {}
    /\ UNCHANGED session

-----------------------------------------------------------------------------
Navigate ==
    \/ \E d \in Dashboards : OpenDashboard(d)
    \/ ShowQuerySurface \/ ShowDashboardSurface
    \/ \E k \in 1..MaxEntries : Traverse(k)

Authenticate == SignOut \/ AuthLost \/ Connect

External ==
    \/ \E changes \in SUBSET Changes : ExternalEdit(changes)
    \/ ExternalCreate
    \/ \E d \in Dashboards : ExternalDelete(d)

Begin == StartRefresh \/ StartOnDashboard \/ StartSave \/ StartCreate \/ StartInShell

Land ==
    \/ Refuse \/ LandRefresh \/ LandStaleCommand \/ LandCommand \/ LandSave
    \/ LandDuplicate \/ LandDrop \/ DeclineDrop \/ LandTree \/ LandDelete
    \/ LandAssign \/ LandFile \/ LandNew \/ LandPlaceholder

Next == Navigate \/ Authenticate \/ External \/ Begin \/ Land

Spec == Init /\ [][Next]_vars

-----------------------------------------------------------------------------
(* The selection, the route and the screen agree whenever the shell is up,   *)
(* whatever handler ran last: "the URL is always derived from the session    *)
(* surface, never the other way round, and the two can never disagree"       *)
(* (src/application/surface-navigation.ts:394-397), and a lost selection     *)
(* leaves no dead dashboard on screen (src/ui/app.ts:1676-1683).             *)
SurfaceIsShown ==
    Mounted(tab) =>
        IF tab.surface # None
        THEN Route(tab) = "dashboard" /\ tab.screen.host = "dashboard"
             /\ tab.screen.dash = tab.surface
        ELSE IF Route(tab) = "query" THEN tab.screen.host = "query"
        ELSE tab.screen.host \in {"dashboard", "missing"}

(* A rebuild that was put off because commands are pending is not forgotten: *)
(* there is always a pending command of this renderer that will make it      *)
(* (src/ui/dashboard.ts:1209-1211, rebuildRouteFromCommitted).               *)
RebuildIsOwed == tab.screen.rebuild => LivePending(tab)

(* One step Back or Forward returns to the dashboard that was selected at    *)
(* that entry, unless it has been deleted (src/application/main-surface.ts:  *)
(* 128-134), through pushes, replacements, lost selections and sign-outs.  A *)
(* jump over the editor between two dashboards keeps the one it comes from.  *)
BackRestores ==
    [][\A k \in DOMAIN tab.entries \cap {tab.at - 1, tab.at + 1} :
          tab'.at = k /\ Traverse(k) /\ tab.entries[k].seen \in tab.known /\ ~tab.entries[k].kept
              => tab'.surface = tab.entries[k].seen]_vars

Lands == tab.writes # <<>> /\ Len(tab'.writes) < Len(tab.writes) /\ session' = session

(* A write that lands does not navigate: the surface stays what the user has *)
(* chosen, unless its dashboard is gone.  A drop on the tree and New         *)
(* dashboard open what they made in any case; an assignment and the          *)
(* placeholder only when the user has stayed ("a slow command must not       *)
(* navigate or toast over a surface the user chose afterwards",              *)
(* src/ui/library-assign-menu.ts:48-50).                                     *)
Reveals(write) ==
    \/ write.kind \in {"drop", "new"}
    \/ write.kind \in {"assign", "placeholder"} /\ ~write.stale

WritesDoNotNavigate ==
    [][Lands /\ ~Reveals(Landing(tab))
          => /\ tab'.at = tab.at /\ Len(tab'.entries) = Len(tab.entries)
             /\ tab'.surface = IF tab.surface \in tab'.known THEN tab.surface ELSE None]_vars

(* A command, save or creation that settles after sign-out leaves the login  *)
(* screen alone (src/application/surface-navigation.ts:237-242).             *)
LoginIsKept ==
    [][Lands /\ ~Mounted(tab) /\ Landing(tab).kind \in {"command", "save", "placeholder"}
          => ~Mounted(tab')]_vars

(* After sign-out the login screen is what is shown: "no route-scoped        *)
(* listeners or generation-matching command port may remain dispatchable     *)
(* from the full-screen login" (src/ui/app.ts:1486-1488).                    *)
LoginIsNotCovered == session = "out" => ~Mounted(tab)

(* Once nothing is under way and nothing unread, what is on screen was built *)
(* from the committed workspace (src/ui/dashboard.ts:1201-1206: the rebuild  *)
(* repairs "an external query-only change").                                 *)
ShownIsCommitted ==
    session = "in" /\ tab.writes = <<>> /\ unread = {} => tab.screen.behind = {}
=============================================================================
