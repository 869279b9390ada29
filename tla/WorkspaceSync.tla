--------------------------- MODULE WorkspaceSync ----------------------------
(***************************************************************************)
(* Browser tabs that edit workspaces in one shared store: the write queue, *)
(* mutateWorkspace and the refresh of application/workspace-session.ts, the *)
(* workspace loads of application/surface-navigation.ts, the projections    *)
(* and retirements of ui/app.ts and the "reload" pokes between tabs.        *)
(*                                                                         *)
(* An action is one stretch of JavaScript between two awaits.  A behaviour *)
(* starts after every tab has opened a workspace.                          *)
(***************************************************************************)
EXTENDS WorkspaceStore, Sequences, SequencesExt

CONSTANTS NoWorkspace,     \* an operation that has not captured a workspace yet
          MaxNavigations,  \* bound on the navigations of each tab
          MaxQueue         \* bound on the operations a user puts into each tab's queue

ASSUME SyncAssumption ==
  /\ NoWorkspace \notin Workspaces
  /\ MaxNavigations \in [Tabs -> Nat]
  /\ MaxQueue \in [Tabs -> Nat]

VARIABLES
  tab,       \* the route and the projection of each tab
  queue,     \* writeChain: the operations accepted and not yet settled
  pending,   \* refreshPending
  loads,     \* the loadWorkspaceOnBoot calls in flight
  pokes,     \* pokes[t][w]: invalidations of w posted and not yet delivered to t
  owed       \* an invalidation was accepted and no read has been started since

vars == <<storeVars, tab, queue, pending, loads, pokes, owed>>

Tab == [gen: Nat,                 \* routeLoadGeneration
        route: Workspaces,        \* sqlRoute.workspaceKey
        status: {"loading", "ready", "not-found", "error"},
        ws: Workspaces,           \* state.workspaceId and state.workspaceKey
        shown: Nat,               \* currentWorkspace; Absent is null
        token: Workspaces \X Nat] \* lastCommittedToken

\* `ws`, `gen` and `got` are the fences an operation has captured and what it has read.
Operation == [kind: {"mutate", "refresh", "create"},
              pc: {"queued", "loaded", "committed", "shown"},
              ws: Workspaces \cup {NoWorkspace}, gen: Nat, got: Nat]

RouteLoad == [gen: Nat, ws: Workspaces, got: Nat, pc: {"reading", "opening"}]

TypeOK ==
  /\ StoreTypeOK
  /\ tab \in [Tabs -> Tab]
  /\ queue \in [Tabs -> Seq(Operation)]
  /\ pending \in [Tabs -> BOOLEAN]
  /\ loads \in [Tabs -> SUBSET RouteLoad]
  /\ pokes \in [Tabs -> [Workspaces -> Nat]]
  /\ owed \in [Tabs -> BOOLEAN]

Opened(w) == [gen |-> 1, route |-> w, status |-> "ready", ws |-> w,
              shown |-> Load(w), token |-> <<w, Load(w)>>]

Init ==
  /\ StoreInit
  /\ tab \in [Tabs -> {Opened(w) : w \in {w \in Workspaces : Load(w) # Absent}}]
  /\ queue = [t \in Tabs |-> <<>>]
  /\ pending = [t \in Tabs |-> FALSE]
  /\ loads = [t \in Tabs |-> {}]
  /\ pokes = [t \in Tabs |-> [w \in Workspaces |-> 0]]
  /\ owed = [t \in Tabs |-> FALSE]

-----------------------------------------------------------------------------
(* What a tab shows *)

\* applyCommittedWorkspace, the one way a workspace comes on screen.
Projected(s, w, stamp) ==
  [s EXCEPT !.status = "ready", !.ws = w, !.shown = stamp, !.token = <<w, stamp>>]

\* retireToWorkspaceLoading, retireToWorkspaceMissing, retireToWorkspaceFailure
Retired(s, status) == [s EXCEPT !.status = status, !.shown = Absent]

\* The fence of mutateWorkspace, evaluated at the request, at the start, before the
\* commit and after it.
RouteIsCurrent(t, o) ==
  /\ tab[t].status = "ready"
  /\ tab[t].gen = o.gen
  /\ tab[t].ws = o.ws
  /\ tab[t].route = o.ws

-----------------------------------------------------------------------------
(* The write queue *)

\* Mutant: operations run as they come.
MayRun_Unchained(t, i) == TRUE

\* serializeWrite: an operation starts when the one before it has settled.
MayRun(t, i) == i = 1

Enqueue(t, o) == queue' = [queue EXCEPT ![t] = Append(@, o)]

\* A settled operation, fulfilled or rejected, lets the next one start.
Settle(t, i) == queue' = [queue EXCEPT ![t] = RemoveAt(@, i)]

Advance(t, i, o) == queue' = [queue EXCEPT ![t][i] = o]

At(t, i, kind, pc) ==
  /\ MayRun(t, i)
  /\ queue[t][i].kind = kind /\ queue[t][i].pc = pc

Queued(kind) == [kind |-> kind, pc |-> "queued", ws |-> NoWorkspace, gen |-> 0,
                 got |-> Absent]

-----------------------------------------------------------------------------
(* mutateWorkspace *)

RequestMutation(t) ==
  /\ Len(queue[t]) < MaxQueue[t]
  /\ tab[t].status = "ready" /\ tab[t].route = tab[t].ws
  /\ Enqueue(t, [Queued("mutate") EXCEPT !.ws = tab[t].ws, !.gen = tab[t].gen])
  /\ UNCHANGED <<storeVars, tab, pending, loads, pokes, owed>>

\* Dequeued: reload the record, unless the route has moved.
StartMutation(t, i) ==
  LET o == queue[t][i] IN
  /\ At(t, i, "mutate", "queued")
  /\ IF RouteIsCurrent(t, o)
       THEN Advance(t, i, [o EXCEPT !.pc = "loaded", !.got = Load(o.ws)])
       ELSE Settle(t, i)
  /\ UNCHANGED <<storeVars, tab, pending, loads, pokes, owed>>

MutationFindsNothing(t, i) ==
  /\ At(t, i, "mutate", "loaded") /\ queue[t][i].got = Absent
  /\ tab' = [tab EXCEPT ![t] = Retired(@, "not-found")]
  /\ Settle(t, i)
  /\ UNCHANGED <<storeVars, pending, loads, pokes, owed>>

\* The transform has answered with a candidate and the route has not moved meanwhile.
CommitMutation(t, i) ==
  LET o == queue[t][i] IN
  /\ At(t, i, "mutate", "loaded") /\ o.got # Absent
  /\ RouteIsCurrent(t, o)
  /\ commits < MaxCommits
  /\ Replace(t, o.ws, o.got)
  /\ Advance(t, i, [o EXCEPT !.pc = "committed", !.got = commits'])
  /\ UNCHANGED <<tab, pending, loads, pokes, owed>>

\* A corrupt record, a transform that declines or throws, a moved route, a rejected
\* commit, a record that is gone, a failing database.
MutationEndsWithoutCommit(t, i) ==
  /\ At(t, i, "mutate", "loaded")
  /\ Settle(t, i)
  /\ UNCHANGED <<storeVars, tab, pending, loads, pokes, owed>>

\* The other tabs hear of the commit even when this one has navigated away.
MutationSettles(t, i) ==
  LET o == queue[t][i] IN
  /\ At(t, i, "mutate", "committed")
  /\ tab' = IF RouteIsCurrent(t, o)
              THEN [tab EXCEPT ![t] = Projected(@, o.ws, o.got)] ELSE tab
  /\ pokes' = [u \in Tabs |-> IF u = t THEN pokes[u]
                                       ELSE [pokes[u] EXCEPT ![o.ws] = @ + 1]]
  /\ Settle(t, i)
  /\ UNCHANGED <<storeVars, pending, loads, owed>>

-----------------------------------------------------------------------------
(* New workspace and Import workspace, in the same queue *)

RequestCreation(t) ==
  /\ Len(queue[t]) < MaxQueue[t]
  /\ tab[t].status = "ready"
  /\ Enqueue(t, Queued("create"))
  /\ UNCHANGED <<storeVars, tab, pending, loads, pokes, owed>>

StartCreation(t, i) ==
  /\ At(t, i, "create", "queued")
  /\ commits < MaxCommits
  /\ \E w \in Workspaces :
       /\ Create(t, w)
       /\ Advance(t, i, [queue[t][i] EXCEPT !.pc = "committed", !.ws = w, !.got = commits'])
  /\ UNCHANGED <<tab, pending, loads, pokes, owed>>

\* The key was taken meanwhile, the record is invalid, the database fails.
CreationFails(t, i) ==
  /\ At(t, i, "create", "queued")
  /\ Settle(t, i)
  /\ UNCHANGED <<storeVars, tab, pending, loads, pokes, owed>>

\* The new workspace is shown and the route follows it.
CreationShows(t, i) ==
  LET o == queue[t][i] IN
  /\ At(t, i, "create", "committed")
  /\ tab' = [tab EXCEPT ![t] = [Projected(@, o.ws, o.got) EXCEPT !.route = o.ws]]
  /\ Advance(t, i, [o EXCEPT !.pc = "shown"])
  /\ UNCHANGED <<storeVars, pending, loads, pokes, owed>>

\* Its opening has been recorded.
CreationSettles(t, i) ==
  /\ At(t, i, "create", "shown")
  /\ Settle(t, i)
  /\ UNCHANGED <<storeVars, tab, pending, loads, pokes, owed>>

-----------------------------------------------------------------------------
(* The refresh *)

\* scheduleRefresh: one queued refresh answers for every invalidation before it.
ScheduleRefresh(t) ==
  /\ owed' = [owed EXCEPT ![t] = TRUE]
  /\ pending' = [pending EXCEPT ![t] = TRUE]
  /\ queue' = IF pending[t] THEN queue
                            ELSE [queue EXCEPT ![t] = Append(@, Queued("refresh"))]

\* The window gets the focus, or the tab becomes visible.
Focus(t) ==
  /\ ScheduleRefresh(t)
  /\ UNCHANGED <<storeVars, tab, loads, pokes>>

\* A poke is delivered, which a suspended tab may miss: only one for the workspace of
\* this tab counts.
Poke(t, w) ==
  /\ pokes[t][w] > 0
  /\ pokes' = [pokes EXCEPT ![t][w] = @ - 1]
  /\ IF w = tab[t].ws THEN ScheduleRefresh(t) ELSE UNCHANGED <<queue, pending, owed>>
  /\ UNCHANGED <<storeVars, tab, loads>>

\* Mutant: the refresh counts as pending until it has settled.
StartRefresh_StillPending(t, i) ==
  /\ At(t, i, "refresh", "queued")
  /\ owed' = [owed EXCEPT ![t] = FALSE]
  /\ Advance(t, i, [queue[t][i] EXCEPT !.pc = "loaded", !.ws = tab[t].ws,
                                       !.gen = tab[t].gen, !.got = Load(tab[t].ws)])
  /\ UNCHANGED <<storeVars, tab, pending, loads, pokes>>

\* Mutant: the refresh waits for the route to be ready.
StartRefresh_WhenReady(t, i) ==
  /\ At(t, i, "refresh", "queued") /\ tab[t].status = "ready"
  /\ pending' = [pending EXCEPT ![t] = FALSE]
  /\ owed' = [owed EXCEPT ![t] = FALSE]
  /\ Advance(t, i, [queue[t][i] EXCEPT !.pc = "loaded", !.ws = tab[t].ws,
                                       !.gen = tab[t].gen, !.got = Load(tab[t].ws)])
  /\ UNCHANGED <<storeVars, tab, loads, pokes>>

\* Dequeued: a later invalidation needs a refresh of its own.
StartRefresh(t, i) ==
  /\ At(t, i, "refresh", "queued")
  /\ pending' = [pending EXCEPT ![t] = FALSE]
  /\ owed' = [owed EXCEPT ![t] = FALSE]
  /\ Advance(t, i, [queue[t][i] EXCEPT !.pc = "loaded", !.ws = tab[t].ws,
                                       !.gen = tab[t].gen, !.got = Load(tab[t].ws)])
  /\ UNCHANGED <<storeVars, tab, loads, pokes>>

\* Mutant: the reload is fenced by the workspace alone.
RefreshIsCurrent_AnyGeneration(t, o) == tab[t].ws = o.ws

RefreshIsCurrent(t, o) == tab[t].ws = o.ws /\ tab[t].gen = o.gen

RefreshHasNews(t, o) == <<o.ws, o.got>> # tab[t].token

\* The database fails, the record is corrupt, the tab has moved on, nothing has changed.
RefreshKeepsProjection(t, i) ==
  /\ At(t, i, "refresh", "loaded")
  /\ Settle(t, i)
  /\ UNCHANGED <<storeVars, tab, pending, loads, pokes, owed>>

RefreshProjects(t, i) ==
  LET o == queue[t][i] IN
  /\ At(t, i, "refresh", "loaded")
  /\ RefreshIsCurrent(t, o)
  /\ RefreshHasNews(t, o)
  /\ tab' = [tab EXCEPT ![t] = IF o.got = Absent THEN Retired(@, "not-found")
                                                 ELSE Projected(@, o.ws, o.got)]
  /\ Settle(t, i)
  /\ UNCHANGED <<storeVars, pending, loads, pokes, owed>>

-----------------------------------------------------------------------------
(* Navigation to another workspace, or to one that is not on screen *)

Navigate(t, w) ==
  LET gen == tab[t].gen + 1 IN
  /\ tab[t].gen <= MaxNavigations[t]
  /\ w # tab[t].route \/ tab[t].shown = Absent
  /\ tab' = [tab EXCEPT ![t] = [Retired(@, "loading") EXCEPT !.route = w, !.gen = gen]]
  /\ loads' = [loads EXCEPT ![t] = @ \cup
                 {[gen |-> gen, ws |-> w, got |-> Load(w), pc |-> "reading"]}]
  /\ UNCHANGED <<storeVars, queue, pending, pokes, owed>>

LoadIsCurrent(t, l) == tab[t].gen = l.gen

LoadSuperseded(t, l) ==
  /\ ~LoadIsCurrent(t, l)
  /\ loads' = [loads EXCEPT ![t] = @ \ {l}]
  /\ UNCHANGED <<storeVars, tab, queue, pending, pokes, owed>>

LoadFinds(t, l) ==
  /\ l.pc = "reading" /\ LoadIsCurrent(t, l) /\ l.got # Absent
  /\ loads' = [loads EXCEPT ![t] = (@ \ {l}) \cup {[l EXCEPT !.pc = "opening"]}]
  /\ UNCHANGED <<storeVars, tab, queue, pending, pokes, owed>>

\* No such workspace, or one that cannot be read.
LoadFails(t, l) ==
  /\ l.pc = "reading" /\ LoadIsCurrent(t, l)
  /\ tab' = [tab EXCEPT ![t] = Retired(@, IF l.got = Absent THEN "not-found" ELSE "error")]
  /\ loads' = [loads EXCEPT ![t] = @ \ {l}]
  /\ UNCHANGED <<storeVars, queue, pending, pokes, owed>>

\* The database rejects the read and nobody catches it: the loading screen stays.
LoadRejects(t, l) ==
  /\ l.pc = "reading"
  /\ loads' = [loads EXCEPT ![t] = @ \ {l}]
  /\ UNCHANGED <<storeVars, tab, queue, pending, pokes, owed>>

\* The opening has been recorded, or could not be, which only warns.
LoadProjects(t, l) ==
  /\ l.pc = "opening" /\ LoadIsCurrent(t, l)
  /\ tab' = [tab EXCEPT ![t] = [Projected(@, l.ws, l.got) EXCEPT !.route = l.ws]]
  /\ loads' = [loads EXCEPT ![t] = @ \ {l}]
  /\ UNCHANGED <<storeVars, queue, pending, pokes, owed>>

-----------------------------------------------------------------------------

RecordRemoved(w) == DeleteRecord(w) /\ UNCHANGED <<tab, queue, pending, loads, pokes, owed>>

\* A started operation of the queue comes to its next await or to its end.
QueueStep(t) == \E i \in 1..Len(queue[t]) :
  \/ StartMutation(t, i) \/ MutationFindsNothing(t, i) \/ CommitMutation(t, i)
  \/ MutationEndsWithoutCommit(t, i) \/ MutationSettles(t, i)
  \/ StartCreation(t, i) \/ CreationFails(t, i) \/ CreationShows(t, i) \/ CreationSettles(t, i)
  \/ StartRefresh(t, i) \/ RefreshKeepsProjection(t, i) \/ RefreshProjects(t, i)

LoadStep(t) == \E l \in loads[t] :
  \/ LoadSuperseded(t, l) \/ LoadFinds(t, l) \/ LoadFails(t, l) \/ LoadRejects(t, l)
  \/ LoadProjects(t, l)

UserStep(t) ==
  \/ RequestMutation(t) \/ RequestCreation(t) \/ Focus(t)
  \/ \E w \in Workspaces : Navigate(t, w)

Next ==
  \/ \E t \in Tabs : UserStep(t) \/ QueueStep(t) \/ LoadStep(t)
  \/ \E t \in Tabs, w \in Workspaces : Poke(t, w)
  \/ \E w \in Workspaces : RecordRemoved(w)

Spec == Init /\ [][Next]_vars

(* The store answers every call and does not fail every read for ever, what a  *)
(* transform awaits comes, and the user comes back to the tab.  A poke may     *)
(* never arrive.                                                               *)
Fairness == \A t \in Tabs :
  /\ WF_vars(QueueStep(t)) /\ WF_vars(LoadStep(t)) /\ WF_vars(Focus(t))
  /\ SF_vars(\E i \in 1..Len(queue[t]) : RefreshProjects(t, i))

FairSpec == Spec /\ Fairness
-----------------------------------------------------------------------------
(* Properties *)

\* A commit that replaces a version this tab wrote was built from that version: the
\* operations of one tab never overwrite each other, however they interleave with its
\* navigations and with other tabs (workspace-session.ts:101-108).
OwnCommitNotOverwritten ==
  [][\A w \in Workspaces :
       /\ store'[w] # store[w]
       /\ store[w].by \in Tabs
       /\ store'[w].by = store[w].by
       => store'[w].base = store[w].stamp]_vars

\* A workspace that was deleted, by whichever tab, is never written again by a tab that
\* still has it open (workspace-session.ts:152-154).
DeletedStaysDeleted == \A w \in removed : Load(w) = Absent

\* While a tab stays on a workspace, neither a refresh nor a mutation puts an older
\* version of it on screen than the one it replaces, in whatever order reads, commits
\* and navigations settle (workspace-session.ts:226-230).
ShownNeverGoesBack ==
  [][\A t \in Tabs :
       /\ queue[t] # <<>> /\ queue[t][1].kind # "create"
       /\ queue'[t] = Tail(queue[t])
       /\ tab'[t].ws = tab[t].ws
       /\ tab[t].shown # Absent /\ tab'[t].shown # Absent
       => tab'[t].shown >= tab[t].shown]_vars

\* No invalidation is coalesced away: one that was accepted is followed by a read that
\* has not started yet, also when it arrives during a read (workspace-session.ts:271-276).
InvalidationIsFollowedByRead ==
  \A t \in Tabs : owed[t] =>
    \E i \in 1..Len(queue[t]) : queue[t][i].kind = "refresh" /\ queue[t][i].pc = "queued"

\* The read of an accepted invalidation does start: nothing before it in the queue wedges it.
InvalidationIsServed == \A t \in Tabs : owed[t] ~> ~owed[t]

\* A tab does not keep showing what is no longer in the store, whatever was missed or
\* failed in between.
Behind(t) == tab[t].status = "ready" /\ tab[t].shown # Load(tab[t].ws)
TabsCatchUp == \A t \in Tabs : Behind(t) ~> ~Behind(t)

\* A mutation that settles after its tab has navigated on leaves what the tab shows alone:
\* "do not let its route-local caller repaint/toast against the new URL"
\* (workspace-session.ts:214-215).
StaleMutationIsInert ==
  [][\A t \in Tabs : \A i \in 1..Len(queue[t]) :
       queue[t][i].kind = "mutate" /\ queue'[t] # queue[t] /\ MutationFindsNothing(t, i)
         => RouteIsCurrent(t, queue[t][i])]_vars

\* An explicit workspace in the URL "resolves exactly that workspace key. Failure renders
\* Workspace not found and never falls back" (docs/ADR-0003-dashboard-viewing.md:46-47).
NotFoundNeverFallsBack ==
  [][\A t \in Tabs :
       tab[t].status = "not-found" /\ tab'[t].status = "ready" => tab'[t].ws = tab'[t].route]_vars
=============================================================================
