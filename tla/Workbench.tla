------------------------------ MODULE Workbench ------------------------------
(***************************************************************************)
(* The workbench session (ui/workbench/workbench-session.ts) over the      *)
(* query execution service, next to the lineage graph that writes to the   *)
(* same tabs, under the execution scope that ends with the session.        *)
(*                                                                         *)
(* A wave is one admitted call of run, runScript or runVariableSql.  Its   *)
(* preflight is one await: ensureConfig and getToken are followed by the   *)
(* same check.  Statements of a run are numbered from 1; what the editor   *)
(* holds is any program of Programs.                                       *)
(***************************************************************************)
EXTENDS SchemaGraph, QueryExecution, Sequences, FiniteSets

CONSTANTS Programs,        \* the statement sequences a user may run
          MaxStatements,   \* bound on their length
          NoWave

ASSUME ProgramsAssumption ==
  /\ MaxStatements \in Nat
  /\ \A p \in Programs : p \in Seq(Statement) /\ Len(p) \in 1..MaxStatements
  /\ NoWave \notin Waves

VARIABLES
  active,     \* activeRun
  running,    \* state.running
  wave,       \* every wave
  history,    \* the waves recorded in the history
  reloads,    \* the waves after which the schema was loaded again
  abandoned,  \* the attempts whose request was aborted before it settled
  kills       \* the attempts whose query id was sent with KILL QUERY

waveVars == <<active, running, wave, history, reloads, abandoned, kills>>
vars == <<graphVars, waveVars>>

Query == [stmt: Nat, attempt: 0..2]

NoQuery == [stmt |-> 0, attempt |-> 0]

Wave == [pc: {"idle", "preflight", "request", "sleep", "done"},
         kind: {"run", "option", "script"},
         prog: Programs \cup {<<>>},
         tab: Tabs \cup {NoTab},       \* the tab that gets the result
         live: BOOLEAN,                \* its registration is current
         cancelled: BOOLEAN,           \* cancelled is set and its signal has fired
         at: Query,                    \* the latest attempt
         sent: BOOLEAN,                \* it went out before the signal fired
         query: Query,                 \* queryId
         status: {"none", "open", "ok", "error", "cancelled"},   \* of the result
         acked: Nat,                   \* statements that have succeeded
         ran: [1..MaxStatements -> Nat]]   \* how often the server ran each statement

IdleWave == [pc |-> "idle", kind |-> "run", prog |-> <<>>, tab |-> NoTab, live |-> FALSE,
             cancelled |-> FALSE, at |-> NoQuery, sent |-> FALSE, query |-> NoQuery,
             status |-> "none", acked |-> 0, ran |-> [i \in 1..MaxStatements |-> 0]]

TypeOK ==
  /\ GraphTypeOK
  /\ active \in Waves \cup {NoWave}
  /\ running \in BOOLEAN
  /\ wave \in [Waves -> Wave]
  /\ history \subseteq Waves
  /\ reloads \subseteq Waves
  /\ abandoned \subseteq Waves \X Query
  /\ kills \subseteq Waves \X Query

Init ==
  /\ GraphInit
  /\ active = NoWave
  /\ running = FALSE
  /\ wave = [w \in Waves |-> IdleWave]
  /\ history = {}
  /\ reloads = {}
  /\ abandoned = {}
  /\ kills = {}

-----------------------------------------------------------------------------
(* The claim on the one run and its end *)

IsWaveCurrent(w) == active = w /\ wave[w].live

IsWaveRunnable(w) == IsWaveCurrent(w) /\ ~wave[w].cancelled

\* Whoever ends gives up the claim.
Settle_Anyone(w) == active' = NoWave /\ running' = FALSE

\* settleWave: only the owner of the claim gives it up.
Settle(w) ==
  IF active = w THEN active' = NoWave /\ running' = FALSE
                ELSE UNCHANGED <<active, running>>

\* retireWave, and the call returns: r is what else has become of the wave.
Retire(w, r) ==
  /\ wave' = [wave EXCEPT ![w] = [r EXCEPT !.pc = "done", !.live = FALSE,
                                           !.query = NoQuery]]
  /\ Settle(w)

\* The attempts of a set of waves that an abort interrupts, and the queries it kills.
Interrupted(ws) == {<<w, wave[w].at>> : w \in {v \in ws : wave[v].pc = "request"
                                                          /\ wave[v].sent}}

Queries(ws) == {<<w, wave[w].query>> : w \in {v \in ws : wave[v].query # NoQuery}}

\* cancel: the abort first, then KILL QUERY for the id that is published.
Cancel ==
  /\ active # NoWave
  /\ wave' = [wave EXCEPT ![active].cancelled = TRUE]
  /\ abandoned' = abandoned \cup Interrupted({active})
  /\ kills' = kills \cup Queries({active})
  /\ UNCHANGED <<graphVars, active, running, history, reloads>>

\* destroy: the surface is disposed of.  The call itself has yet to return.
Destroy ==
  /\ active # NoWave
  /\ wave' = [wave EXCEPT ![active].cancelled = TRUE, ![active].live = FALSE,
                          ![active].query = NoQuery]
  /\ abandoned' = abandoned \cup Interrupted({active})
  /\ kills' = kills \cup Queries({active})
  /\ Settle(active)
  /\ UNCHANGED <<graphVars, history, reloads>>

\* The scope closes, by sign-out or because authentication is lost: each registered
\* owner is aborted; its query id is read before, since the abort clears it.
Closed == [w \in Waves |->
  IF wave[w].live THEN [wave[w] EXCEPT !.cancelled = TRUE, !.live = FALSE,
                                       !.query = NoQuery]
                  ELSE wave[w]]

LiveWaves == {w \in Waves : wave[w].live}

CloseScope(waves, shows) ==
  /\ open
  /\ open' = FALSE
  /\ wave' = waves
  /\ show' = shows
  /\ inflight' = NoShow
  /\ abandoned' = abandoned \cup Interrupted(LiveWaves)
  /\ kills' = kills \cup Queries(LiveWaves)
  /\ IF active \in LiveWaves THEN Settle(active) ELSE UNCHANGED <<active, running>>
  /\ UNCHANGED <<activeTab, result, history, reloads>>

LoseSession == CloseScope(Closed, Suspended)

SignIn ==
  /\ ~open
  /\ open' = TRUE
  /\ UNCHANGED <<activeTab, result, show, inflight, waveVars>>

-----------------------------------------------------------------------------
(* Starting *)

\* run and runVariableSql take the tab now; runScript takes it after the preflight.
Start(w) ==
  \E kind \in {"run", "option", "script"}, p \in Programs :
    /\ kind = "script" <=> Len(p) > 1
    /\ kind = "option" => RowReturning(p[1])
    /\ open
    /\ wave[w].pc = "idle"
    /\ active = NoWave /\ ~running
    /\ active' = w
    /\ running' = TRUE
    /\ wave' = [wave EXCEPT ![w].pc = "preflight", ![w].kind = kind, ![w].prog = p,
                            ![w].tab = IF kind = "script" THEN NoTab ELSE activeTab,
                            ![w].live = TRUE]
    /\ UNCHANGED <<graphVars, history, reloads, abandoned, kills>>

\* The SQL of a dashboard variable is not an option query: the error is the result, at
\* once and without a claim.
OptionIsRejected(w) ==
  /\ open
  /\ wave[w].pc = "idle"
  /\ active = NoWave /\ ~running
  /\ wave' = [wave EXCEPT ![w].pc = "done", ![w].kind = "option", ![w].tab = activeTab,
                          ![w].status = "error"]
  /\ result' = [result EXCEPT ![activeTab] = w]
  /\ UNCHANGED <<open, activeTab, show, inflight, active, running, history, reloads,
                 abandoned, kills>>

-----------------------------------------------------------------------------
(* The preflight *)

\* A preflight that stops leaves the claim to the end of a transport that never starts.
PreflightStops_KeepsClaim(w) ==
  /\ wave[w].pc = "preflight"
  /\ wave' = [wave EXCEPT ![w].pc = "done"]
  /\ UNCHANGED <<graphVars, active, running, history, reloads, abandoned, kills>>

\* It resolves too late, or it is rejected.
PreflightStops(w) ==
  /\ wave[w].pc = "preflight"
  /\ Retire(w, wave[w])
  /\ UNCHANGED <<graphVars, history, reloads, abandoned, kills>>

\* There is no credential: authentication is lost, which closes the scope.
PreflightLosesSession(w) ==
  /\ wave[w].pc = "preflight"
  /\ IsWaveRunnable(w)
  /\ CloseScope([Closed EXCEPT ![w].pc = "done"], Suspended)

\* The wave takes over the result of its tab, from a graph that is loading too.
Takes(w, tab) ==
  /\ wave[w].pc = "preflight"
  /\ IsWaveRunnable(w)
  /\ show' = Cancelled
  /\ inflight' = NoShow
  /\ result' = [result EXCEPT ![tab] = w]
  /\ UNCHANGED <<open, activeTab, history, reloads, abandoned, kills>>

\* The KPI panel of the tab cannot run this statement.
PanelRejects(w) ==
  /\ wave[w].kind = "run"
  /\ Takes(w, wave[w].tab)
  /\ Retire(w, [wave[w] EXCEPT !.status = "error"])

\* The query id of the retry is not published.
Attempt_FirstId(r, stmt, attempt) ==
  [r EXCEPT !.pc = "request",
            !.at = [stmt |-> stmt, attempt |-> attempt],
            !.query = IF attempt = 1 THEN [stmt |-> stmt, attempt |-> attempt] ELSE @,
            !.sent = ~r.cancelled]

\* The next attempt: its query id is published before it is sent, and under a signal
\* that has fired it is not sent.
Attempt(r, stmt, attempt) ==
  [r EXCEPT !.pc = "request",
            !.at = [stmt |-> stmt, attempt |-> attempt],
            !.query = [stmt |-> stmt, attempt |-> attempt],
            !.sent = ~r.cancelled]

Begin(w) ==
  LET tab == IF wave[w].kind = "script" THEN activeTab ELSE wave[w].tab
  IN  /\ Takes(w, tab)
      /\ wave' = [wave EXCEPT ![w] =
                    Attempt([wave[w] EXCEPT !.tab = tab, !.status = "open"], 1, 1)]
      /\ UNCHANGED <<active, running>>

-----------------------------------------------------------------------------
(* The transport *)

\* The statement of the latest attempt.
Current(w) == wave[w].prog[wave[w].at.stmt]

\* The latest attempt settles with an outcome; the server has run it n more times.
Settles(w, outcome, n) ==
  /\ wave[w].pc = "request"
  /\ outcome \in Outcomes(wave[w].sent, wave[w].cancelled)
  /\ n \in Executions(wave[w].sent, outcome)

Ran(w, n) == [wave[w] EXCEPT !.ran[wave[w].at.stmt] = @ + n]

Acked(r, outcome) == [r EXCEPT !.acked = IF outcome = "ok" THEN @ + 1 ELSE @]

\* The wave is not current any more: nothing comes of what has arrived.
StaleEnds(w) ==
  \E outcome \in Outcome, n \in 0..1 :
    /\ Settles(w, outcome, n)
    /\ ~IsWaveCurrent(w)
    /\ Retire(w, Ran(w, n))
    /\ UNCHANGED <<graphVars, history, reloads, abandoned, kills>>

\* Only a clean run reloads the schema.
Ends_CleanReloads(w, r, status) ==
  LET changed == \E i \in 1..r.acked : SchemaMutating(r.prog[i])
  IN  /\ Retire(w, [r EXCEPT !.status = status])
      /\ history' = IF status = "ok" THEN history \cup {w} ELSE history
      /\ reloads' = IF r.kind # "option" /\ changed /\ status = "ok"
                    THEN reloads \cup {w} ELSE reloads
      /\ UNCHANGED <<graphVars, abandoned, kills>>

\* The end of a wave that is current.  A statement that has changed the schema has the
\* schema loaded again even where a later one has failed; history is for clean runs.
Ends(w, r, status) ==
  LET changed == \E i \in 1..r.acked : SchemaMutating(r.prog[i])
  IN  /\ Retire(w, [r EXCEPT !.status = status])
      /\ history' = IF status = "ok" THEN history \cup {w} ELSE history
      /\ reloads' = IF r.kind # "option" /\ changed THEN reloads \cup {w} ELSE reloads
      /\ UNCHANGED <<graphVars, abandoned, kills>>

StatusOf(outcome) ==
  CASE outcome = "ok" -> "ok" [] outcome = "aborted" -> "cancelled" [] OTHER -> "error"

\* The end of a run does not ask whether the wave is current.
RunEnds_Unfenced(w) ==
  \E outcome \in Outcome, n \in 0..1 :
    /\ wave[w].kind # "script"
    /\ Settles(w, outcome, n)
    /\ Ends(w, Acked(Ran(w, n), outcome), StatusOf(outcome))

\* The answer to a single statement; that of an option query may have the wrong shape.
RunEnds(w) ==
  \E outcome \in Outcome, n \in 0..1 :
    /\ wave[w].kind # "script"
    /\ Settles(w, outcome, n)
    /\ IsWaveCurrent(w)
    /\ \/ Ends(w, Acked(Ran(w, n), outcome), StatusOf(outcome))
       \/ /\ wave[w].kind = "option" /\ outcome = "ok"
          /\ Ends(w, Acked(Ran(w, n), outcome), "error")

ScriptAdvances(w) ==
  \E n \in 0..1 :
    /\ wave[w].kind = "script"
    /\ Settles(w, "ok", n)
    /\ IsWaveCurrent(w)
    /\ wave[w].at.stmt < Len(wave[w].prog)
    /\ wave' = [wave EXCEPT ![w] = Attempt(Acked(Ran(w, n), "ok"), @.at.stmt + 1, 1)]
    /\ UNCHANGED <<graphVars, active, running, history, reloads, abandoned, kills>>

ScriptSleeps(w) ==
  \E outcome \in Outcome, n \in 0..1 :
    /\ wave[w].kind = "script"
    /\ Settles(w, outcome, n)
    /\ IsWaveCurrent(w)
    /\ Retries(Current(w), outcome, wave[w].at.attempt)
    /\ wave' = [wave EXCEPT ![w] = [Ran(w, n) EXCEPT !.pc = "sleep", !.sent = FALSE]]
    /\ UNCHANGED <<graphVars, active, running, history, reloads, abandoned, kills>>

\* The last statement has succeeded, or one has failed for good.
ScriptEnds(w) ==
  \E outcome \in Outcome, n \in 0..1 :
    /\ wave[w].kind = "script"
    /\ Settles(w, outcome, n)
    /\ IsWaveCurrent(w)
    /\ ~Retries(Current(w), outcome, wave[w].at.attempt)
    /\ outcome = "ok" => wave[w].at.stmt = Len(wave[w].prog)
    /\ Ends(w, Acked(Ran(w, n), outcome), StatusOf(outcome))

\* The delay is over: the second attempt, with a query id of its own.
RetryBegins(w) ==
  /\ wave[w].pc = "sleep"
  /\ IsWaveCurrent(w)
  /\ wave' = [wave EXCEPT ![w] = Attempt(wave[w], @.at.stmt, @.at.attempt + 1)]
  /\ UNCHANGED <<graphVars, active, running, history, reloads, abandoned, kills>>

RetryIsStale(w) ==
  /\ wave[w].pc = "sleep"
  /\ ~IsWaveCurrent(w)
  /\ Retire(w, wave[w])
  /\ UNCHANGED <<graphVars, history, reloads, abandoned, kills>>

-----------------------------------------------------------------------------

GraphStep(s) ==
  /\ StartShow(s) \/ ShowStops(s) \/ ShowBegins(s) \/ BaseArrives(s) \/ ShowEnds(s)
  /\ UNCHANGED waveVars

\* A show that finds no credential.
ShowLosesSession(s) ==
  /\ show[s].pc = "preflight"
  /\ ~show[s].stopped
  /\ CloseScope(Closed, [Suspended EXCEPT ![s].pc = "done"])

UserStep ==
  \/ Cancel \/ Destroy \/ LoseSession \/ SignIn
  \/ (CancelGraph \/ \E t \in Tabs : SelectTab(t)) /\ UNCHANGED waveVars

WaveStep(w) ==
  \/ PreflightStops(w) \/ PreflightLosesSession(w) \/ PanelRejects(w) \/ Begin(w)
  \/ StaleEnds(w) \/ RunEnds(w)
  \/ ScriptAdvances(w) \/ ScriptSleeps(w) \/ ScriptEnds(w)
  \/ RetryBegins(w) \/ RetryIsStale(w)

Next ==
  \/ UserStep
  \/ \E w \in Waves : Start(w) \/ OptionIsRejected(w) \/ WaveStep(w)
  \/ \E s \in Shows : GraphStep(s) \/ ShowLosesSession(s)

Spec == Init /\ [][Next]_vars

\* A preflight that is under way settles, and so does a fetch once its signal has fired;
\* timers fire.  A query that nobody cancels may run for ever.
Transport(w) ==
  StaleEnds(w) \/ RunEnds(w) \/ ScriptAdvances(w) \/ ScriptSleeps(w) \/ ScriptEnds(w)

Fairness ==
  \A w \in Waves :
    /\ WF_vars(PreflightStops(w) \/ PreflightLosesSession(w) \/ PanelRejects(w) \/ Begin(w))
    /\ WF_vars(wave[w].cancelled /\ Transport(w))
    /\ WF_vars(RetryBegins(w) \/ RetryIsStale(w))

FairSpec == Spec /\ Fairness

-----------------------------------------------------------------------------
(* Properties *)

Unfinished(w) == wave[w].pc \in {"preflight", "request", "sleep"}

\* The claim is held by the one wave that has not lost its registration, for as long as
\* it has not ended: a wave that ends late neither frees the claim of its successor nor
\* turns its Run button back on.
OneRunAtATime ==
  /\ running <=> active # NoWave
  /\ \A w \in Waves : Unfinished(w) /\ wave[w].live <=> active = w

\* No statement that changes data or the schema is run twice by one script, whatever is
\* retried after a connection that was reset or a session that was locked.
EffectsRunOnce ==
  \A w \in Waves : \A i \in 1..Len(wave[w].prog) :
    wave[w].ran[i] > 1 => RowReturning(wave[w].prog[i])

\* A run is in the history only if the server has run its every statement and every one
\* has succeeded.
HistoryIsComplete ==
  \A w \in history :
    /\ wave[w].acked = Len(wave[w].prog)
    /\ \A i \in 1..Len(wave[w].prog) : wave[w].ran[i] >= 1

\* A request that is aborted while the server may be working on it, by cancel, by a
\* disposed surface or by the end of the session, gets a KILL QUERY with its own id.
AbandonedIsKilled == abandoned \subseteq kills

\* A schema change that has succeeded is followed by a reload of the schema, even when a
\* later statement fails or is cancelled, unless the wave has lost its surface or session.
SchemaChangesAreReloaded ==
  \A w \in Waves :
    /\ wave[w].kind # "option"
    /\ wave[w].status \in {"ok", "error", "cancelled"}
    /\ \E i \in 1..wave[w].acked : SchemaMutating(wave[w].prog[i])
    => w \in reloads

\* One load at a time: a lineage load that nobody has stopped is the one in flight, which
\* is the one that cancel reaches.
OneLoadAtATime ==
  \A s \in Shows : show[s].pc = "lineage" /\ ~show[s].stopped => inflight = s

\* A wave that has lost its claim records no history, reloads nothing and does not change
\* its result any more.
StaleWavesAreInert ==
  [][\A w \in Waves :
       wave[w].pc # "idle" /\ ~IsWaveCurrent(w) =>
         /\ w \in history' => w \in history
         /\ w \in reloads' => w \in reloads
         /\ wave'[w].status = wave[w].status]_vars

\* A graph changes only while its tab shows it, and a result that a tab has let go does
\* not come back, to this tab or another.
SupersededIsInert ==
  [][/\ \A s \in Shows :
          show'[s].graph # show[s].graph => show[s].graph = "none" \/ IsShown(s)
     /\ \A t \in Tabs :
          /\ result'[t] # result[t] /\ result'[t] \in Shows =>
               show[result'[t]].graph = "none"
          /\ result'[t] # result[t] /\ result'[t] \in Waves =>
               wave[result'[t]].status = "none"]_vars

\* Cancel gives the claim back in every phase of a run, without help of the network.
CancelSettles ==
  \A w \in Waves : active = w /\ wave[w].cancelled ~> active # w

\* schema-graph-session.ts says of an aborted load that cancel() has left its pane in a
\* clean state, a partial graph or the empty placeholder.  It is not so for a tab that is
\* not active when the next graph or run stops its load.
AbortedIsClean ==
  \A s \in Shows : show[s].pc = "done" /\ show[s].stopped /\ IsShown(s) => ~Loading(s)
=============================================================================
