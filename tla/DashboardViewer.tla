-------------------------- MODULE DashboardViewer --------------------------
(***************************************************************************)
(* The session behind one mounted dashboard                                *)
(* (src/dashboard/application/dashboard-viewer-session.ts).  Its entry     *)
(* points start waves of tile queries: a refresh runs every tile and one   *)
(* request for the options of the variables, a commit of variables runs    *)
(* the tiles that read them, a tile refresh runs one.  A wave registers in *)
(* the authenticated scope, waits for a fresh token, reserves a generation *)
(* of each of its tiles and sends at most PoolSize queries at a time.      *)
(*                                                                         *)
(* Waves overlap freely.  The code tells them apart by comparing the       *)
(* generation a wave reserved with the one the tile has now; the model     *)
(* keeps only the outcome of that comparison, the wave that holds the      *)
(* current generation of a tile.                                           *)
(***************************************************************************)
EXTENDS Integers, FiniteSets

CONSTANTS
    Tiles,      \* the runnable tiles, numbered in the order of the document
    Variables,  \* the bindable variables; each is offered a list of options
    Items,      \* what can be selected; a value is a set of items, {} is unset
    Reads,      \* the variables the query of a tile declares
    Needs,      \* those of them without which it cannot run
    Runs,       \* the waves that may be under way at once
    PoolSize,   \* VIEWER_TILE_CONCURRENCY
    None

ASSUME ViewerAssumption ==
    /\ Tiles \subseteq Nat /\ IsFiniteSet(Tiles)
    /\ Reads \in [Tiles -> SUBSET Variables]
    /\ Needs \in [Tiles -> SUBSET Variables]
    /\ PoolSize \in Nat \ {0}
    /\ None \notin Runs

VARIABLES
    open,       \* the authenticated execution scope is mounted and open
    destroyed,
    value,      \* the committed value of each variable
    tile,       \* per tile: status, rows or none, holder of its generation, controller
    run,        \* per wave
    optionsGen, \* the refresh that holds the generation of the option request
    optionsController, \* the refresh whose option request destroy would abort
    running     \* the refresh control shows that a refresh is running

vars == <<open, destroyed, value, tile, run, optionsGen, optionsController, running>>

Values == [Variables -> SUBSET Items]

Tile == [status: {"idle", "loading", "unfilled", "error", "ready"},
         hasRows: BOOLEAN,
         gen: Runs \cup {None}, controller: Runs \cup {None}]

(* queue: tiles of the wave no worker has reached; sent: queries under way. *)
Run == [kind: {"refresh", "tile", "commit", "rerun"},
        phase: {"idle", "preflight", "wave"}, live: BOOLEAN,
        queue: SUBSET Tiles, sent: SUBSET Tiles, aborted: SUBSET Tiles,
        used: Values,
        options: {"none", "asked", "aborted", "done"}, reconciled: SUBSET Variables]

Unset == [v \in Variables |-> {}]

IdleRun == [kind |-> "tile", phase |-> "idle", live |-> FALSE, queue |-> {},
            sent |-> {}, aborted |-> {}, used |-> Unset,
            options |-> "none", reconciled |-> {}]

Init ==
    /\ open \in BOOLEAN
    /\ destroyed = FALSE
    /\ value \in Values
    /\ tile = [t \in Tiles |-> [status |-> "idle", hasRows |-> FALSE,
                                gen |-> None, controller |-> None]]
    /\ run = [r \in Runs |-> IdleRun]
    /\ optionsGen = None
    /\ optionsController = None
    /\ running = FALSE

-----------------------------------------------------------------------------
(* What the handlers are made of. *)

IsCurrent(r) == run[r].live /\ ~destroyed

Affected(vs) == {t \in Tiles : Reads[t] \cap vs # {}}

(* A new generation for the tiles of S, held by wave h. *)
Supersede(S, h) ==
    [t \in Tiles |-> IF t \in S THEN [tile[t] EXCEPT !.gen = h, !.controller = None]
                                ELSE tile[t]]

(* Mutant of Reserve: it invents a status that no renderer knows. *)
ReserveAsReserved(S, h) ==
    [t \in Tiles |-> IF t \in S THEN [Supersede(S, h)[t] EXCEPT !.status = "reserved"]
                     ELSE tile[t]]

(* A commit also takes the loading sign off the tiles it supersedes. *)
Reserve(S, h) ==
    [t \in Tiles |->
        IF t \in S /\ tile[t].status = "loading"
        THEN [Supersede(S, h)[t] EXCEPT !.status = "idle"]
        ELSE Supersede(S, h)[t]]

(* Mutant of AbortTiles: the generation moves on and the query is left to run. *)
AbortNothing(S) == run

(* The queries of the tiles of S that their tile's controller aborts. *)
AbortTiles(S) ==
    [r \in Runs |-> [run[r] EXCEPT
        !.aborted = @ \cup {t \in S \cap run[r].sent : tile[t].controller = r}]]

AbortOptions(runs) ==
    [r \in Runs |-> IF r = optionsController /\ runs[r].options = "asked"
                    THEN [runs[r] EXCEPT !.options = "aborted"]
                    ELSE runs[r]]

Fillable(t, used) == \A v \in Needs[t] : used[v] # {}

(* Workers take tiles in order until PoolSize queries are under way; a tile   *)
(* that was superseded, lacks a value or has a query that is rejected here    *)
(* (it cannot be built from the values, or chooses its own FORMAT) does not   *)
(* keep its worker.                                                           *)
Sendable(r, runs, tiles, rejected) ==
    {t \in runs[r].queue \ rejected :
        IsCurrent(r) /\ tiles[t].gen = r /\ Fillable(t, runs[r].used)}

Reached(r, runs, tiles, rejected) ==
    {t \in runs[r].queue :
        Cardinality({u \in Sendable(r, runs, tiles, rejected) : u < t})
            < PoolSize - Cardinality(runs[r].sent)}

Workers(r, runs, tiles, rejected) ==
    LET reached == Reached(r, runs, tiles, rejected)
        send == reached \cap Sendable(r, runs, tiles, rejected)
    IN  /\ run' = [runs EXCEPT ![r].queue = @ \ reached, ![r].sent = @ \cup send]
        /\ tile' = [t \in Tiles |->
                CASE t \in send ->
                        [tiles[t] EXCEPT !.status = "loading", !.controller = r]
                  [] t \in reached \ send /\ IsCurrent(r) /\ tiles[t].gen = r ->
                        [tiles[t] EXCEPT !.status =
                            IF Fillable(t, runs[r].used) THEN "error" ELSE "unfilled"]
                  [] OTHER -> tiles[t]]

(* Mutant of SettledTile: a panel that was loading for the first time stays so. *)
SettledTileStaysLoading(t) ==
    [tile[t] EXCEPT !.gen = None, !.controller = None,
        !.status = IF @ = "loading" /\ tile[t].hasRows THEN "ready" ELSE @]

(* settleAuthenticatedWork: every wave is cut off, nothing stays loading, and *)
(* what was shown before is shown again.                                      *)
SettledTile(t) ==
    [tile[t] EXCEPT !.gen = None, !.controller = None,
        !.status = IF @ # "loading" THEN @
                   ELSE IF tile[t].hasRows THEN "ready" ELSE "idle"]

CloseScope ==
    /\ open' = FALSE
    /\ IF \E r \in Runs : run[r].live
       THEN /\ tile' = [t \in Tiles |-> SettledTile(t)]
            /\ optionsGen' = None
            /\ optionsController' = None
            /\ running' = FALSE
       ELSE UNCHANGED <<tile, optionsGen, optionsController, running>>
    /\ UNCHANGED <<destroyed, value>>

CutOff == [r \in Runs |-> [AbortTiles(Tiles)[r] EXCEPT
            !.live = FALSE,
            !.aborted = @ \cup run[r].sent,
            !.options = IF @ = "asked" /\ run[r].live THEN "aborted" ELSE @]]

-----------------------------------------------------------------------------
(* Entry points. *)

Begin(r, kind, queue) ==
    [IdleRun EXCEPT !.kind = kind, !.phase = "preflight", !.live = TRUE, !.queue = queue]

(* The refresh button, the shortcut, and the first load of the dashboard. *)
Refresh(r) ==
    /\ open /\ ~destroyed
    /\ run[r].phase = "idle"
    /\ run' = [run EXCEPT ![r] = Begin(r, "refresh", Tiles)]
    /\ UNCHANGED <<open, destroyed, value, tile, optionsGen, optionsController, running>>

RefreshTile(r, t) ==
    /\ open /\ ~destroyed
    /\ run[r].phase = "idle"
    /\ run' = [run EXCEPT ![r] = Begin(r, "tile", {t})]
    /\ UNCHANGED <<open, destroyed, value, tile, optionsGen, optionsController, running>>

(* Mutant of Commit: the tiles are not reserved before the token is awaited. *)
CommitReservesLater(r, new, changed) ==
    /\ ~destroyed /\ open
    /\ run[r].phase = "idle"
    /\ changed = {v \in Variables : new[v] # value[v]} /\ changed # {}
    /\ value' = new
    /\ run' = [run EXCEPT ![r] = Begin(r, "tile", Affected(changed))]
    /\ UNCHANGED <<open, destroyed, tile, optionsGen, optionsController, running>>

(* One variable is set, whatever it was, or several that differ at once.  The *)
(* tiles that read them are reserved before the wave asks for a token; with   *)
(* no scope to run in there is no wave.                                       *)
Commit(r, new, changed) ==
    /\ ~destroyed
    /\ run[r].phase = "idle"
    /\ {v \in Variables : new[v] # value[v]} \subseteq changed
    /\ Cardinality(changed) = 1 \/ changed = {v \in Variables : new[v] # value[v]}
    /\ changed # {}
    /\ value' = new
    /\ tile' = Reserve(Affected(changed), IF open THEN r ELSE None)
    /\ run' = IF open
              THEN [AbortTiles(Affected(changed)) EXCEPT
                        ![r] = Begin(r, "commit", Affected(changed))]
              ELSE AbortTiles(Affected(changed))
    /\ UNCHANGED <<open, destroyed, optionsGen, optionsController, running>>

CancelTile(t) ==
    /\ tile' = Reserve({t}, None)
    /\ run' = AbortTiles({t})
    /\ UNCHANGED <<open, destroyed, value, optionsGen, optionsController, running>>

Destroy ==
    /\ ~destroyed
    /\ destroyed' = TRUE
    /\ tile' = Supersede(Tiles, None)
    /\ run' = AbortOptions(AbortTiles(Tiles))
    /\ optionsGen' = None
    /\ optionsController' = None
    /\ UNCHANGED <<open, value, running>>

-----------------------------------------------------------------------------
(* The token is fresh: the wave prepares its batch with the values committed  *)
(* now.  A refresh and a tile refresh reserve their tiles only here.          *)
PreflightSucceeds(r) ==
    LET begun == [run[r] EXCEPT !.phase = "wave", !.used = value]
        late == run[r].kind \in {"refresh", "tile"}
        queue == run[r].queue
    IN  /\ run[r].phase = "preflight"
        /\ IsCurrent(r)
        /\ IF run[r].kind = "refresh"
           THEN /\ \E rejected \in SUBSET queue :
                     Workers(r, [AbortTiles(queue) EXCEPT ![r] = [begun EXCEPT !.options = "asked"]],
                             Supersede(queue, r), rejected)
                /\ optionsGen' = r
                /\ optionsController' = r
                /\ running' = TRUE
           ELSE /\ \E rejected \in SUBSET queue :
                     Workers(r, [(IF late THEN AbortTiles(queue) ELSE run) EXCEPT ![r] = begun],
                             IF late THEN Supersede(queue, r) ELSE tile, rejected)
                /\ UNCHANGED <<optionsGen, optionsController, running>>
        /\ UNCHANGED <<open, destroyed, value>>

(* No token: the session is reported lost, which closes the scope. *)
PreflightFails(r) ==
    /\ run[r].phase = "preflight"
    /\ IsCurrent(r)
    /\ run' = [CutOff EXCEPT ![r] = IdleRun]
    /\ CloseScope

(* The wave was cut off while it waited for the token. *)
PreflightIsMoot(r) ==
    /\ run[r].phase = "preflight"
    /\ ~IsCurrent(r)
    /\ run' = [run EXCEPT ![r] = IdleRun]
    /\ UNCHANGED <<open, destroyed, value, tile, optionsGen, optionsController, running>>

(* The answer to the query of a tile, or its cancellation. *)
Answered(r, t, tiles) ==
    /\ t \in run[r].sent
    /\ \E rejected \in SUBSET run[r].queue :
         Workers(r, [run EXCEPT ![r].sent = @ \ {t}, ![r].aborted = @ \ {t}], tiles, rejected)
    /\ UNCHANGED <<open, destroyed, value, optionsGen, optionsController, running>>

Accepts(r, t) == IsCurrent(r) /\ tile[t].gen = r

TileAnswers(r, t) ==
    /\ Accepts(r, t)
    /\ \E ok \in BOOLEAN :
        Answered(r, t, [tile EXCEPT ![t] =
            [@ EXCEPT !.controller = None,
                      !.status = IF ok THEN "ready" ELSE "error",
                      !.hasRows = @ \/ ok]])

TileAnswerIsStale(r, t) ==
    /\ ~Accepts(r, t)
    /\ Answered(r, t, tile)

(* The answer to the option request.  A selection keeps only the items that   *)
(* are still offered; the tiles that read it are rerun when the wave is over. *)
OptionsAnswer(r, listed) ==
    LET kept == [v \in Variables |-> value[v] \cap listed[v]]
    IN  /\ run[r].options \in {"asked", "aborted"}
        /\ IsCurrent(r) /\ optionsGen = r
        /\ value' = kept
        /\ optionsController' = IF optionsController = r THEN None ELSE optionsController
        /\ run' = [run EXCEPT ![r].options = "done",
                              ![r].reconciled = {v \in Variables : kept[v] # value[v]}]
        /\ UNCHANGED <<open, destroyed, tile, optionsGen, running>>

OptionsFail(r) ==
    /\ run[r].options \in {"asked", "aborted"}
    /\ optionsController' = IF optionsController = r THEN None ELSE optionsController
    /\ run' = [run EXCEPT ![r].options = "done"]
    /\ UNCHANGED <<open, destroyed, value, tile, optionsGen, running>>

Quiet(r) ==
    /\ run[r].phase = "wave"
    /\ run[r].queue = {} /\ run[r].sent = {}
    /\ run[r].options \in {"none", "done"}

(* recordRefreshOutcome: a finished refresh counts as a success, and sets the *)
(* time of the last good one, by what its tiles show now.                     *)
RecordsSuccess(r) == IsCurrent(r) /\ \A t \in Tiles : tile[t].status # "error"

(* Both halves of a refresh are over; dropped selections start a wave of      *)
(* their own.                                                                 *)
RefreshSettles(r) ==
    LET again == run[r].reconciled
    IN  /\ Quiet(r) /\ run[r].kind = "refresh"
        /\ IF IsCurrent(r)
           THEN /\ tile' = Reserve(Affected(again), r)
                /\ run' = [AbortTiles(Affected(again)) EXCEPT
                              ![r] = IF again = {} THEN IdleRun
                                     ELSE Begin(r, "rerun", Affected(again))]
                /\ running' = (again # {} /\ running)
           ELSE /\ run' = [run EXCEPT ![r] = IdleRun]
                /\ UNCHANGED <<tile, running>>
        /\ UNCHANGED <<open, destroyed, value, optionsGen, optionsController>>

WaveSettles(r) ==
    /\ Quiet(r) /\ run[r].kind # "refresh"
    /\ run' = [run EXCEPT ![r] = IdleRun]
    /\ running' = (running /\ ~(run[r].kind = "rerun" /\ IsCurrent(r)))
    /\ UNCHANGED <<open, destroyed, value, tile, optionsGen, optionsController>>

-----------------------------------------------------------------------------
(* The scope, of which the shell disposes. *)

ScopeLost ==
    /\ open
    /\ run' = CutOff
    /\ CloseScope

ScopeResumes ==
    /\ ~open
    /\ open' = TRUE
    /\ UNCHANGED <<destroyed, value, tile, run, optionsGen, optionsController, running>>

(* Results of a wave, and the events that come from outside. *)
Result(r) ==
    \/ PreflightSucceeds(r) \/ PreflightFails(r) \/ PreflightIsMoot(r)
    \/ \E t \in Tiles : TileAnswers(r, t) \/ TileAnswerIsStale(r, t)
    \/ \E listed \in Values : OptionsAnswer(r, listed)
    \/ OptionsFail(r)

Event ==
    \/ \E r \in Runs :
        \/ Refresh(r)
        \/ \E t \in Tiles : RefreshTile(r, t)
        \/ \E new \in Values, changed \in SUBSET Variables : Commit(r, new, changed)
        \/ Result(r)
    \/ \E t \in Tiles : CancelTile(t)
    \/ Destroy
    \/ ScopeLost
    \/ ScopeResumes

(* What continues a wave once its last answer is in needs no further event,   *)
(* so it comes before the next one.                                           *)
Next ==
    \/ \E r \in Runs : RefreshSettles(r) \/ WaveSettles(r)
    \/ (\A r \in Runs : ~Quiet(r)) /\ Event

Spec == Init /\ [][Next]_vars

-----------------------------------------------------------------------------
(* Properties. *)

(* Every variable keeps its type. *)
TypeOK ==
    /\ open \in BOOLEAN /\ destroyed \in BOOLEAN /\ running \in BOOLEAN
    /\ value \in Values
    /\ tile \in [Tiles -> Tile]
    /\ run \in [Runs -> Run]
    /\ optionsGen \in Runs \cup {None}
    /\ optionsController \in Runs \cup {None}

(* An answer that will be shown was asked with the values that are committed  *)
(* now: however waves overlap, a panel is never filled from an older value of *)
(* its variables.  The one exception is a selection that the option request   *)
(* of a refresh has just shortened, whose panels that refresh reruns when it  *)
(* is over.                                                                   *)
Shortened(v) == \E r \in Runs : IsCurrent(r) /\ v \in run[r].reconciled

AnswersMatchValues ==
    \A r \in Runs : \A t \in run[r].sent :
        Accepts(r, t) =>
            \A v \in Reads[t] : run[r].used[v] = value[v] \/ Shortened(v)

(* A panel that says it is loading has a query, under way or queued, whose    *)
(* answer will be accepted: losing the scope, a failed token, a cancel or a   *)
(* wave that was overtaken leave no spinner behind.                           *)
LoadingIsOwned ==
    \A t \in Tiles :
        tile[t].status = "loading" /\ ~destroyed =>
            \E r \in Runs : /\ tile[t].gen = r /\ IsCurrent(r)
                            /\ run[r].phase = "wave"
                            /\ t \in run[r].queue \cup run[r].sent

(* A query nobody waits for any more is stopped: when a tile is superseded,   *)
(* cancelled, suspended or torn down, the query it had under way is aborted.  *)
NoOrphanQueries ==
    \A r \in Runs : \A t \in run[r].sent :
        Accepts(r, t) \/ t \in run[r].aborted

(* The refresh control does not turn for ever: while it turns there is a      *)
(* refresh, or the rerun it started, that is still to end.                    *)
RunningIsOwned ==
    running /\ ~destroyed =>
        \E r \in Runs : /\ IsCurrent(r) /\ run[r].kind \in {"refresh", "rerun"}
                        /\ run[r].phase # "idle"

(* No panel and no refresh control keeps turning: what turns has work under    *)
(* way, or queued, that will make it stop (settleAuthenticatedWork, cancelTile *)
(* and the ends of a wave, dashboard-viewer-session.ts:866).                   *)
SpinnersAreOwned == LoadingIsOwned /\ RunningIsOwned

(* The time of the last good refresh "never [advances] to a wave that never   *)
(* actually finished": a refresh that is recorded as a success leaves no tile *)
(* still loading.  The code judges the tiles as it finds them, and a refresh  *)
(* that a newer one overtook finds them loading for the newer one.            *)
SuccessMeansFinished ==
    [][\A r \in Runs :
         RefreshSettles(r) /\ RecordsSuccess(r) =>
             \A t \in Tiles : tile[t].status # "loading"]_vars
=============================================================================
