# Altinity SQL Browser: TLA+ models and proofs

The SQL browser is a single-page application without a backend of its own. One
browser tab holds a session with an identity provider or a Basic credential, sends
queries to ClickHouse over HTTP, and keeps "workspaces" (saved queries and
dashboards) in an IndexedDB database that it shares with the other tabs of the
profile. Everything runs on one JavaScript thread per tab, so nothing is ever
interrupted inside a stretch of code, and everything that is hard happens at an
`await`: what was read before it may no longer hold after it.

This directory models the parts where that matters, checks them with TLC and
proves their safety with TLAPS. All paths below are relative to the repository;
`src/x.ts` is the application's source file.

## Inventory

| Component | State | Operations | What makes it correct |
|---|---|---|---|
| Connection lifecycle (`src/core/connection-lifecycle.ts`) | kind, credential epoch | reducer events | each event changes the epoch exactly when the credential scope changes |
| Connection session (`src/application/connection-session.ts`) | tokens, Basic credential, refresh slot, auth-confirmed flag, lifecycle | `getToken`, `refresh`, `requireAuthentication`, `connectBasic`, `signOut`, leases, OAuth redirect | late answers never touch a newer session; one refresh per refresh token; no status hangs |
| Authenticated request (`src/net/authenticated-clickhouse-request.ts`) | request epoch, attempt | send, retry after a refresh, classify the answer | a request carries only a credential of its own session |
| Execution scope (`src/application/authenticated-execution-scope.ts`) | registrations, closed latch | register, release, close with a lease | closing stops everything, also what registers late; KILLs are authorised by the session that ends |
| Shell (`src/ui/app.ts`, `src/main.ts`, `src/ui/login.ts`) | surface, active scope | bootstrap, connect, sign out, auth loss, projections | each loss reported once |
| Workspace session (`src/application/workspace-session.ts`) | write chain, last committed token, refresh flag | `mutateWorkspace`, refresh, invalidation, boot resolution | no lost own write, nothing resurrected, no stale projection, tabs catch up |
| Workspace store (`src/workspace/workspace-repository.ts`, `indexeddb-workspace-store.ts`) | records, last-used key | load, create, commit, delete, list, mark opened | commits replace and never create |
| Change channel (`src/workspace/workspace-sync.ts`) | none | pokes between tabs | losing one delays and never corrupts |
| Surface navigation (`src/application/surface-navigation.ts`, `main-surface.ts`) | route, load generation, main surface, history entries | navigate, popstate, boot load, open dashboards and queries, what a write does when it lands | the latest navigation wins; selection, route and screen agree; a late write does not navigate |
| Query execution (`src/application/query-execution-service.ts`) | none | read, script, retry, kill | nothing that changes data is sent twice |
| Workbench session (`src/ui/workbench/workbench-session.ts`) | the active run and its query id | run, runScript, runVariableSql, cancel, destroy | one owner per run; cancel in any phase; no late answer counts |
| Schema graph (`src/application/schema-graph-session.ts`) | the load in flight, the result it draws in | show, cancel, suspend | one load at a time; a superseded load draws nothing |
| Schema catalog (`src/application/schema-catalog-service.ts`) | two generations, lazy loads, capability probes, documentation caches | load, look up, probe, invalidate | what is held was asked of this connection; what is kept was confirmed; requests are shared |
| Tree click arbiter (`src/core/tree-click-arbiter.ts`) | one timer | click, double click, cancel | exactly one action per gesture |
| Open query tabs and saved queries (`src/state.ts`, `ui/tabs.ts`, `ui/workbench/save-controller.ts`) | tabs, links to saved queries, baselines, conflict flags | open, edit, save, star, delete, resolve a conflict, reconcile with a projection | no silent loss of an edit, no link to nothing, no resurrection |
| OAuth document recovery (`src/application/oauth-document-recovery-session.ts`) | checkpoint in storage | save, restore, retain | the document survives the redirect at most once |
| Export (`src/application/export-service.ts`) | one export | start, cancel, write | one at a time, never a truncated file taken for a whole one |
| Dashboard viewer (`src/dashboard/application/dashboard-viewer-session.ts`) | waves, tiles, pool, variables, option request | refresh, tile refresh, commit, cancel, suspend, destroy | a panel is filled only for the values committed now; nothing spins for ever; no orphan queries |
| Pure algorithms (dashboard removal, import planner, key derivation, variables) | none | functions | reference definitions |
| HTTP client, layouts, charts, editor adapters, generated schemas | rendering and encoding | | below the level of the properties |

**How they interact.** An operation (a query, a schema load, a tile) asks the shell
for the execution scope, registers with it, and calls `authenticatedRequest`, which
asks the session for a token, may start or join a refresh, and tells the session and
through it the shell when authentication is lost. The shell then closes the scope,
which aborts the operations and sends best-effort `KILL QUERY` requests with a lease
captured before the loss. Edits of a workspace go through one write queue per tab to
IndexedDB; the committing tab projects the result and pokes the others, which reload
through their own queues. Navigations reload the workspace outside the queue and are
fenced by a load generation. A run takes the one claim of the workbench, registers in
the scope, publishes the query id of each attempt for cancel and for the scope, and
puts its result in a query tab, where it may replace a lineage graph that is loading.
A projection also reconciles the open query tabs with the saved queries they are linked
to, and moves the surface when the dashboard on screen is gone. The waves of a dashboard
and the reads of the catalog are operations like any other: they register with the
scope, wait for a token and are cut off when it closes.

**What is hard.** Every `await` is a place where the session is replaced, the user
navigates, another tab writes or deletes, a timer fires or a message arrives. The
code answers with fences (epochs, generations, tokens, promise identity) that are
read before an await and compared after it. Each missing or misplaced fence is a
fault that no unit test reaches unless its author thought of that very interleaving.
The list of these places, with their lines and the properties that cover them, is
`hazards` in `PROJECT.json`.

## Modules

| Module | Models |
|---|---|
| `ConnectionLifecycle` | the reducer, event for event |
| `ConnectionSession` | the session's state and each synchronous stretch of its methods, as operators over its variables |
| `AuthenticatedExecution` | the composition: bootstrap, sign-in attempts, operations, scopes, refreshes, sign-out |
| `SessionFence` | the abstract specification: at most one session is open, and a request goes out only with a credential obtained for it |
| `AuthenticatedExecution_proofs` | the inductive invariant and the safety theorems |
| `AuthenticatedExecution_refinement` | the step simulation of `SessionFence`, and that stale requests are inert |
| `WorkspaceStore` | the records shared by the tabs |
| `WorkspaceSync` | per tab: route, projection, write queue, refresh, route loads; between tabs: pokes |
| `WorkspaceSync_proofs` | the inductive invariants and the safety theorems |
| `QueryExecution` | what an attempt can come to, what the server has done by then, and which statements are retried |
| `SchemaGraph` | query tabs, their results, and the lineage loads that draw in them |
| `Workbench` | the runs of the workbench over both, with cancel, disposal and the end of the scope |
| `Workbench_proofs` | the inductive invariant, the safety theorems and the action properties |
| `DashboardViewer` | the waves of one mounted dashboard: refreshes, commits, the option request and its rerun, the pool |
| `DashboardViewer_proofs` | the inductive invariant and the four invariants of the viewer |
| `SchemaCatalog` | what is known of the connected server: loads, probes, documentation lookups and their caches |
| `SchemaCatalog_proofs` | the inductive invariant and the three invariants of the catalog |
| `SurfaceNavigation` | selection, history, route and screen of one tab, and what every write does when it lands |
| `SurfaceNavigation_proofs` | the inductive invariant, three invariants and three action properties |
| `SavedQueryTabs` | the open query tabs over the write queue: drafts, links, baselines, conflicts |
| `SavedQueryTabs_proofs` | the inductive invariant, two invariants and four action properties |
| `MCAuthenticatedExecution`, `MCWorkspaceSync`, `MCWorkbench`, `MCDashboardViewer`, `MCSchemaCatalog`, `MCSurfaceNavigation`, `MCSavedQueryTabs` | instances for TLC |

`Workbench` composes `QueryExecution` and `SchemaGraph`; `AuthenticatedExecution` composes
`ConnectionSession` (over `ConnectionLifecycle`) with requests and scopes and implements
`SessionFence`; `WorkspaceSync` runs over `WorkspaceStore`. `SavedQueryTabs` and
`SurfaceNavigation` each take one side of the write queue of `WorkspaceSync`, which has its
whole protocol, and refine what it does to what the user sees: the tabs and the surface.

An action is one stretch of JavaScript between two awaits, or the whole handler of a
user event. Microtask order is over-approximated: any promise that is ready may
resume next.

### Authentication

`life` is the lifecycle state; `cred` and `refreshTok` are the credential and the refresh
token. Each carries two ghosts, since the code compares epochs and never looks into a
token: `epoch`, the epoch of the session it was obtained for, and `login`, the epoch of
the login it derives from. They differ in one case, which the code allows: an OAuth
callback whose response has no refresh token leaves the one the page load has restored
(connection-session.ts:239-245), and the new session redeems it. `Belongs(c, epoch)` says
that `c` is a credential of the session of that epoch, and what login it may derive from.
`promise[f]` is one refresh, with
the generation it captured; `slot` is `refreshSlot`. `op[q]` is one operation inside
`authenticatedRequest`, at one of its awaits (`pc`). `attempt[a]` is one `connectBasic`
call. `scope` is the epoch of `activeExecutionScope`, `closedWith` and `kills`
remember the leases of closed scopes and the KILLs that were sent, `reports` the
losses that the shell was told of.

Simplifications, each of which keeps the order of state changes:

- OAuth tokens come only from the bootstrap callback, since the code installs them
  after a page load; sign-in inside the page is Basic. The OAuth redirect and its
  rollback are left for their own module.
- Clocks are one action, `Age`: a bearer that has aged is expired for `getToken` and
  for `isSignedIn`, which use different margins in the code.
- `ensureConfig` and the header policy are left out.
- What follows a successful `connectBasic` in the shell is atomic with the commit of
  the attempt.
- A token response with a rotated refresh token is stored as the one that was redeemed,
  because it derives from the same login.
- A callback may or may not bring a refresh token (`RefreshTokensAfterLogin`); the
  properties hold in both cases. What does not hold is that a refresh redeems the token of
  its own login: `RefreshRedeemsOwnGeneration`, in the table of disagreements below.

### Workspaces

`store[w]` is the record of a workspace: the number of the commit that wrote it
(`stamp`), the tab that did (`by`, a ghost) and the commit its content was built from
(`base`, a ghost). A workspace stands for its id and its key, both immutable.
`tab[t]` holds what the tab shows and the route it shows it under; `queue[t]` is
`writeChain`, the accepted operations with the fences they have captured and what
they have read; `pending[t]` is `refreshPending`; `loads[t]` are the
`loadWorkspaceOnBoot` calls in flight; `pokes` are undelivered messages. `owed[t]` is a
ghost: an invalidation was accepted after the last read was started.

- IndexedDB runs transactions with overlapping scopes in the order of their creation,
  one of them being a write. So a transaction takes effect in the action that creates
  it and the caller's continuation is a later action; the order in which outcomes
  arrive is not constrained.
- The whole content of a workspace is its stamp, so the token comparison of
  `workspaceToken` is a comparison of stamps.
- Deletion comes from a tab that cannot read the record and resets it
  (`resetCorruptWorkspace`); what that tab then shows is left for a boot module, like
  the resolution of a URL without a workspace. A behaviour starts after every tab has
  opened one.
- New and Import workspace are one operation, `create`. Listing the keys and creating
  the record is one step: a key taken in between fails it, as `CreationFails`.
- Reconciling query tabs, the unload guard, dashboard observers and the last-opened
  time are left out; none of them feeds back into the modelled state.

### Workbench

`active` and `running` are `activeRun` and `state.running`. A *wave* is one call of
`run`, `runScript` or `runVariableSql` that was admitted; `wave[w]` is its `ActiveRun`
together with the progress of its transport: at which await it is (`pc`), the statement
and attempt last sent (`at`), the query id that is published (`query`), the status of its
result, how many statements have succeeded (`acked`) and, a ghost, how often the server
has run each one (`ran`). `history` and `reloads` are the waves that were recorded in
the history and those after which the schema was loaded again. `abandoned` (a ghost) and
`kills` are the attempts whose request was aborted and those a KILL QUERY has named.
`result[t]` is the identity of the object in `tab.result`, a run's or a graph's;
`show[s]` is one call of `show()` with what it has drawn, and `inflight` is the one that
owns the abort controller.

- A statement is what the run does with it: it reads rows, changes data, or changes the
  schema. A lost or failed answer leaves open whether the server has run it; an answer
  and a locked session do not.
- The preflight is one await: `ensureConfig` and `getToken` are followed by the same
  check. Preparing the next statement is one step with the settling of the one before,
  since nothing is awaited between them.
- The scope is open or closed; a lease is always there when it closes, so that each KILL
  is sent. Which credential it carries is what `AuthenticatedExecution` is about.
- A signal that has fired does not decide the outcome: the answer may have come first.
- Streamed rows, EXPLAIN views, parameters, timings and the previews are left out, and of
  the graph the expansion of a node and the detail pane.
- `runScript` takes its tab after the preflight, `run` before it; the model follows the
  code in that (`Begin`).

### Dashboard viewer

`run[r]` is one wave with its kind, where it is (`phase`), the tiles no worker has reached
(`queue`), the queries under way (`sent`) and which of them were aborted, the values its
queries were built with (`used`), and for a refresh the state of the option request.
`tile[t]` is the status of a tile, whether it has rows, the wave that holds its current
generation (`gen`) and the wave whose controller would be aborted (`controller`).

- Generations are compared only for equality, so a tile remembers which wave holds the
  current one. Taking the place of a settled wave is one step with the next event
  (`Next`), because no event can come in between.
- The generation of the option request is reserved after the preflight, as the code does;
  a comment above it says before. The option request of an overtaken refresh is not
  aborted by `destroy`, a commit without a scope leaves a tile ready with its older rows,
  and losing the scope while a failed tile loads again leaves it ready: all three follow
  the code.
- Whether a query can be built from the values, and whether it chooses its own FORMAT, is a
  choice of the model (`rejected` in `Workers`): such a tile shows an error and its worker
  goes on.
- Left out: tiles that have no query to run, text tiles, how options are
  displayed, truncation, layout, search and edits of the mounted document.

### Schema catalog

`load[i]` is a read of version, schema, columns or reference data at one of its two
awaits; `lookup[l]` a documentation lookup with the source it asks and the probe it waits
for. `schema`, `version`, `reference`, `capability` and `cache` are what is stored, each
with the login under which it was asked for (a ghost; `Sent` is what the code compares by
its generations). A cache holds an answer or the lookup that is under way.

- `ensureConfig` never rejects, so the first await of a probe cannot fail.
- Loads of one connection are not fenced against each other: columns that were asked for
  before a reload of the schema are written into the reloaded tree, in the model too.
- Completions, the rendering hooks and the synchronous read `docKindAvailable` are left
  out: they derive from this state and keep none.

### Surface navigation

`tab.surface` is `mainSurface`, `tab.entries` and `tab.at` the browser history with the
snapshot each entry carries (`dash`); `tab.screen` is what is rendered, with the changes
projected since (`behind`) and the rebuild that was put off (`rebuild`); `tab.hook` is the
external-change hook that is installed; `tab.writes` the queue. `seen` and `kept` are
ghosts of the history.

- A handler is one function from tab to tab, composed of the functions the code calls
  (`Project`, `Notified`, `Render`, `Selected`, ...), since none of them awaits anything.
- Writes are what their callers do after the commit; how they get there is in
  `WorkspaceSync`. Only the commits that change the set of dashboards change `store`.
- Connect from the login screen is atomic with the load it starts; the writes still under
  way then are dropped, since that load supersedes them.
- The history forgets its oldest entry beyond `MaxEntries`, instead of growing.
- A jump over the editor between two dashboards keeps the one it comes from, whatever
  main-surface.ts:133-134 says of Back; `BackRestores` therefore speaks of single steps and
  of entries that no such jump has passed (`kept`).
- Left out: the focused member, View and Edit mode, scroll offsets, and operations on the
  library list while a dashboard is on screen.

### Query tabs

`doc[d]` is an open tab: `link` is `savedId`, `base` its `lastCommittedQueryToken`, `ext`
its `externalState`, and a dirty flag for each document. `stored` are the saved queries of
each workspace, `shown` is `state.savedQueries`, `queue` the write queue, whose head goes
from *queued* over *built* to *committed*. `gen` counts the workspaces shown; an operation
remembers the one it was requested under.

- A saved query is its SQL, the rest of its Spec and the star, so that a content is its own
  token. A rename is a star on another field.
- A commit is projected and applied to the tabs in one step: the caller's continuation
  runs in a microtask behind it.
- Text typed while a save of the same tab is under way is marked clean by its settlement
  (`Saved`, state.ts:1194), and Enter pressed twice in the save popover creates two
  queries (save-controller.ts:340). The model contains both; no document rules them out.
- A navigation may bring the same workspace on screen again; its tabs keep their links and are
  projected without being reconciled (`Switch`).
- Tabs on variable documents and Specs that are no valid JSON are left out.

## Runs

| Run | Question | Bounds |
|---|---|---|
| `auth_safety` | does any late answer reach a newer session; does the code implement `SessionFence` | 2 operations, 3 refreshes, 1 attempt, 4 epochs, no step after 3 different KILLs |
| `auth_liveness` | does every operation and every transient status end | overlapping attempts, fewer epochs |
| `sync_queue` | the write queue: own commits, coalescing | 2 tabs, 2 operations each, 3 versions, no navigation |
| `sync_navigation` | the same tabs with one that leaves a workspace and returns, and deletions | 2 tabs, 1 operation each, 2 navigations, 2 versions |
| `sync_liveness` | does every invalidation get its read, does every tab catch up | 2 tabs, 1 operation, 1 navigation |
| `workbench_runs` | the claim, retries, kills, schema reloads, late answers; does cancel always give the claim back | 1 tab, 2 waves, single statements and scripts of 2 |
| `workbench_graphs` | runs and lineage loads that compete for the results of the tabs | 2 tabs, 1 wave, 2 loads |
| `dashboard_viewer` | is a panel filled only for the values committed now; does anything spin for ever; is every query that nobody waits for aborted | 2 tiles, 2 waves, 1 variable, pool of 1 |
| `schema_catalog` | does anything asked of one connection reach another; is a negative answer confirmed; are requests shared | 2 lookups, 2 spellings, 2 sources, 1 load of 2, 2 logins |
| `navigation` | do selection, route and screen agree; does Back restore; does a late write navigate | 2 dashboards, 3 entries, 2 writes (1 once the history is full), 1 of them no dashboard command |
| `saved_query_tabs` | are links, drafts and conflicts kept through saves, stars, deletions, refreshes and a change of workspace | 2 tabs, 2 queries, 2 workspaces, 2 queued operations, 3 acts of the user, 1 write elsewhere |
| `tabs_conflict` | a conflict can be resolved (**violated**) | as `saved_query_tabs` |

The invariant `TypeOK` is checked in `dashboard_viewer` and `navigation`; it is a theorem
for every module that has proofs.

Why the bounds are enough for the cases they are for. Four epochs give a login, its
loss, a replacement and a loss of the replacement, so that everything in flight can be
one and two sessions late; two operations can share a refresh or supersede each
other's; the third refresh is one more than can be unsettled for two epochs. `kills` is a history
that no step reads; `FewKills` of `MCAuthenticatedExecution` ends a behaviour when it holds
more than two, after the state with the third has been checked. A tab
overwrites its own commit only with two operations of its own and three versions.
A stale read is unfenced by the workspace only when the tab leaves it and returns,
which takes two navigations; the other tab then needs only to write. Refreshes and
pokes are not bounded: a queue holds at most one unstarted refresh by the code, and
pokes are bounded by commits.

Two waves are a run and its successor, which is all that a late settlement can disturb; a
script of two statements has a first, a last, and one after a schema change, and each
statement has its retry. Two loads and a run on two tabs let a load be superseded in its
own tab and from the other one.

Two waves of the viewer are one that is overtaken and the one that overtakes it, and a
pool of one makes the second tile wait behind the first; the one variable is read by both
tiles and needed by one, so that a commit leaves the other runnable. Two lookups share the
probe of a source and a key through its canonical spelling, and each key has two sources,
so that one can be absent; two logins let everything arrive one connection late.
Two dashboards and three entries are the smallest history in which Back, Forward and a
jump lead to different dashboards; two writes are a command and a write that overtakes or
deletes its dashboard. `FewAtOnce` of `MCSurfaceNavigation` allows the second only while the
history is not full; the one change of content that other tabs make is of a document
(`NavigationFreshness.cfg` tells queries apart as well). In the tabs, three acts are an edit, the request that races it and a
change of workspace or a close; one write elsewhere makes a stale baseline; the symmetry
exchanges tabs, queries and texts, not the workspaces.

`CHECK_DEADLOCK FALSE` is set in these runs because the user may simply stop, and
because the bounds end a behaviour.

`FairSpecFromFirst` restricts the initial states of `sync_liveness` to representatives
under the exchange of the two workspace names, in which the specification is symmetric.
`workbench_graphs` checks safety only, under the permutations of tabs and of loads
(`Symmetric` in `MCWorkbench`).

### Fairness

Authentication: weak fairness on the steps of attempts, operations and refreshes
(the network answers, or its call is rejected); none on the user, on clocks or on
sign-out. Workspaces: weak fairness on the queue and on loads (IndexedDB answers; the
dialog that a transform awaits is answered), weak fairness on `Focus` (the user comes back to
the tab) and strong fairness on the success of a refresh that has news (the database
does not fail every read for ever). Nothing is assumed of pokes: they may all be lost.
Workbench: weak fairness on the steps after a preflight (a token and a configuration
arrive or fail), on a fetch *once its signal has fired* (the browser rejects it), and on
the retry timer. A query that nobody cancels may run for ever, so that `CancelSettles`
is a statement about cancel and not about the server. The viewer, the catalog, the navigation
and the tabs are checked for safety only: that nothing spins for ever is stated as an
invariant there (`SpinnersAreOwned`, `RebuildIsOwed`), which needs no fairness.

## Proofs

`AuthenticatedExecution_proofs` proves seven safety properties and type correctness
for any set of operations, refreshes and attempts and any `MaxEpoch`, from the two
assumptions on identities and the bound alone: nothing is assumed of the tokens a login
returns. None of the properties is inductive: that a request carries a credential of its
own session depends on what a token returned by `getToken` was worth when it was read,
which depends on what every unsettled refresh will store, which depends on the fences
of the refresh. `IInv` says this for each value in flight: a promise of the live epoch
is the one in the slot and the session is OAuth; a credential returned to an operation
of the live epoch is one of the live epoch; a lease is of the epoch of its scope;
outside the login page the credential, the lifecycle kind and the scope agree
(`Mounted => (scope = NoEpoch <=> cred = NoCred)`). A step that ends an epoch makes all
of these vacuous for what is still in flight, which is what the epoch is for. The refresh
token needs an argument of its own, since a login may leave an older one: `Redeemable` says
that it comes from the login of the live epoch, or from the page load when the callback of
that page opened the session. Every refresh whose promise is
kept while the session is OAuth is of the live epoch, and of two unsettled ones at most one
holds a token, which is why none is redeemed twice.

`AuthenticatedExecution_refinement` proves, from the same invariant,
that the session implements `SessionFence` and that a stale request is inert. The
simulation maps each action to what it does to generation, holder and wire: a login opens
the fence, what ends it closes it, an attempt that takes over an empty session ticks, a
fetch sends, its answer settles, and every other step stutters. What it needs of `IInv` is that an
operation that has left its start knows the epoch it was started under, and that a
credential returned to an operation of the live epoch is the one that is held.

`WorkspaceSync_proofs` proves type correctness and four properties for any tabs,
workspaces and bounds. `StepShape` reduces every action to what it does to the store,
the queues and the invalidations: the head of one queue settles or advances, an
operation is appended, a record is deleted, or nothing. `IInv` adds to the types that
only the head of a queue has started, that what a loaded mutation has read is still
the latest version of its own tab (`ReadIsLatestOwn`), that an unwritten record has no writer, and that
a pending flag has an unstarted refresh in the queue. `OwnCommitNotOverwritten` follows:
the only step that replaces a record of tab `t` by `t` is the commit at the head of its
queue, and it has read what it replaces.
`ShownNeverGoesBack` needs a second invariant, `ShownInv`, about what is on a screen and what
is on its way there: every version a tab shows, has loaded or has read was committed, and
the record is no older unless it is gone (`Past`); and what the head of the queue may put on
screen is at least as new as what the tab shows or is still loading in the same generation
(`Fresh`). A refresh has it because it reads after all of these, a mutation because it
commits after all of these, and a navigation makes it vacuous. Without the generation in
`RefreshIsCurrent` the last step of the argument fails.

`Workbench_proofs` proves type correctness, six invariants and both action properties
for any tabs, waves, loads and programs, from `ProgramsAssumption` and
`OwnersAssumption`. `IInv` is a conjunction of what each wave's record keeps to itself
(`RecordOK`) and of what ties the records to the shared state. The heart of `RecordOK` is
`Position`: the statements before the current attempt have succeeded and have been run,
those after it are untouched, and the current one has been run before only if it reads.
Without it neither `EffectsRunOnce` nor `HistoryIsComplete` is inductive, since a retry
looks at the outcome and not at what the server did. `Published` says that the id a live
request has published is that of its latest attempt, which gives `AbandonedIsKilled`
together with `OneRunAtATime`. The steps are proved in two layers: what ending, stopping
and sending do to one record (`DoneIsOK`, `StoppedIsOK`, `AttemptIsOK`, `SettledIsOK`), and
then one lemma per action. A violation of the two action properties would be a step of a
wave that is not current or a load that is not shown, which `StepIsInert` and
`StepIsGraphInert` exclude action by action.

`SavedQueryTabs_proofs` proves type correctness, `LinksAreLive` and the four action
properties for any tabs, queries, workspaces and bounds, from `DocsAssumption`. `IInv` says
what the head of the queue knows: what it was built from is still current or it belongs to
an earlier workspace (`Aged`), what it will add is a creation (`StartedOK`, the reason why
nothing is resurrected), and a Spec that a star has read belongs to a tab that still has
the link. `StoreInv` bounds the record by what is shown, but for a creation that is
committed and not yet applied, and `TabsInv` keeps the treatment of a deleted query apart
from links. `AdoptedTab`, `ProjectedTab`, `ReconciledTab`, `SavedTab` and `PatchedTab` say what
becomes of one tab; the action properties follow from them and from `TabIsKept`, which
lists the steps that touch a tab at all.

`SchemaCatalog_proofs` proves type correctness and the three properties of `schema_catalog`
for any tables, keys, sources, lookups and bounds, from `CatalogAssumption` (two spellings
of a name have the same sources; no answer is itself a lookup). `HeldIsCurrent` is not
inductive: what is stored depends on what every request in flight will store. `LoadOK` and
`Progress` say it of each load and lookup that was not forgotten: what it carries was asked
under the login in force, the sources it has passed over were probed absent, and the one it
asks was probed present. `DocsInv` ties the lookups to the shared slots: whoever probes owns
the slot of its source, whoever waits does so for a probe that is under way, and a key in the
cache that is not answered belongs to the one lookup that is not forgotten. `OneLookup`
reduces the steps of one lookup to what they do to its record and its own slots;
`ProbeSettlesDocs` treats the one step that tells several, and `NoDocsDocs` the reset, after
which nothing is left to be wrong about.

`DashboardViewer_proofs` proves type correctness and the three other invariants of
`dashboard_viewer` for any tiles, variables and items, any number of overlapping waves and
any `PoolSize`, from `ViewerAssumption`. `IInv` is stronger than the three in four places: a
query that is still queued is as good as one under way, since it will be sent with the
values its wave has read (`ValuesOK`); a query that counts is the one its tile's controller
would abort, or the next wave that takes the tile could not stop it (`QueriesOK`); only a
wave that has its token owns what is loading (`LoadingOK`); and `WaveOK` says what each
phase has not done yet. The parts are predicates of values, not of the state, because
most steps do two things: a wave overtakes others (`Superseded`, one lemma for refresh, commit,
cancel and rerun) and then its workers run (`WorkersKeep`), from a batch that is never
a state of its own.

`SurfaceNavigation_proofs` proves type correctness and the five other properties of
`navigation` for any dashboards, any length of the history and any number of writes under
way, from `NavigationAssumption`. None of them is inductive alone; `IInv` has three parts
more. `PlaceOK` is about the history: no two neighbouring entries are dashboards, and Back
to an entry would find what was selected there, because the entry carries it (`dash`) or
because what it carries is gone and the selection is the oldest dashboard there is
(`Returns`). This needs the order in which dashboards are created: what the tab has not read
yet is younger than all it knows. `LiveOK` says that a command which is not stale was given
on the dashboard that is on screen and a creation on a surface of the shell, without which
neither `RebuildIsOwed` nor `LoginIsKept` survives a write that lands. `NotedOK` ties the ghost
of the current entry to the selection. Handlers are functions, so every function of the
module has one lemma about any tab (`RenderDoes`, `NotifiedDoes`, `WriteRouteDoes`,
`SelectedDoes`, `ProjectFits`, `AdoptDoes`, ...) and a step is a chain of them; `Fit` is what
each finds and leaves, `Rest` what holds between steps. The writes that land are treated by
`LeaveRests`, where nothing waits for the write, and `SettleRests`, where a live command pays
the rebuild it may be the last to owe.

Every invariant and action property of the passing runs is a theorem, and so is the
refinement. Only model-checked: the liveness properties (`TransientStatusEnds`,
`OperationsSettle`, `InvalidationIsServed`, `TabsCatchUp`, `CancelSettles`), which are out of
the prover's reach.

## Where code and documents disagree

`tabs_conflict`: `reconcileTabsWithSavedQueries` drops the link of a tab whose query is gone
and leaves its conflict flag (state.ts:965-976). A tab in conflict whose query is deleted by
a write of its own browser tab is then a conflict without a link: Save opens the chooser,
"Keep my draft" answers at once because there is no `savedId`, and "Reload saved version"
asks for a refresh whose reconciliation does nothing for an unlinked tab. The comment at
save-controller.ts:294-296 promises the deleted-elsewhere treatment.

The following properties are written from comments and documents too, and the code keeps
none of them. Each has a configuration that produces the behaviour; they are no runs.

| Property | Configuration | What happens |
|---|---|---|
| `DenialOnlyBeforeConfirmation` | `AuthDenial.cfg` | `authConfirmed` is read before two awaits and acted on after them, so a session that another request has confirmed meanwhile is still signed out |
| `RefreshRedeemsOwnGeneration` | `AuthRetainedToken.cfg` | a new login whose response has no refresh token keeps the refresh token of the login before it |
| `StaleMutationIsInert` | `SyncStaleMutation.cfg` | a mutation that finds its record gone shows Workspace not found without asking whether its tab has navigated on |
| `NotFoundNeverFallsBack` | `SyncNotFound.cfg` | a refresh checks the workspace and the generation but not the route, so it can bring the former workspace on screen under a URL that was not found |
| `AbortedIsClean` | `WorkbenchAborted.cfg` | `cancel()` of the graph session aborts the load in flight without settling the result it draws in; in a tab that is not active the graph keeps loading for ever |
| `SuccessMeansFinished` | `DashboardFreshness.cfg` | a refresh that a newer one has overtaken is recorded as the last success while the tiles still load for the newer one |
| `LoginIsNotCovered` | `NavigationLogin.cfg` | after sign-out a Back or Forward, an external-change hook, a drop that settles or New dashboard mounts the shell over the login screen |
| `ShownIsCommitted` | `NavigationFreshness.cfg` | a write that projects what another tab changed need not rebuild what is on screen, and the refresh that follows finds nothing new |

Behaviours that the models contain and no document rules out are in the hazards with a
note: a creation that settles after a navigation takes over the URL; a load may project
an older version than a refresh that came before it; a rejected load leaves the
loading screen; a script shows its result in the tab that is active after its preflight;
an own write that reads an external change projects it, so that the refresh finds nothing
new and the linked tabs are never compared with it.

## Not modelled

- The OAuth redirect with its rollback, and the recovery of documents over it: they span
  page loads and need a module of their own over session storage.
- Workspace boot without a key (implicit resolution, provisioning, the last-used key).
- Export: streams into a file, one at a time; cancel and partial writes.
- The tree click arbiter: one timer that a single click starts and a double click stops.
- Pure edits: dashboard commands and removal, import planning, parameters and variables.
- Rendering, layout, charts, editor adapters, request building and stream decoding, and
  generated code: no property of this kind is about them.

## Plan

Next, in this order, each with its runs and proofs where the state allows it:

1. Workspace boot; the OAuth redirect and document recovery.
2. The workbench over the real scope: `Workbench` composed with the leases of
   `AuthenticatedExecution` instead of an open or closed scope.
3. Export, the expansion of the graph, and the tree click arbiter as a small timed module.
4. Pure algorithms as functions: dashboard removal, import remapping, key derivation.
