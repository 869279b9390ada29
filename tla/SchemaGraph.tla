----------------------------- MODULE SchemaGraph -----------------------------
(***************************************************************************)
(* The inline lineage graph (application/schema-graph-session.ts) and what *)
(* it shares with the workbench: the query tabs, each with one result, and *)
(* the open execution scope.                                               *)
(*                                                                         *)
(* A result is the identity of the object in tab.result: the show or the   *)
(* run that put it there.  What the object holds is kept with its owner,   *)
(* who can still write to it after the tab has moved on.                   *)
(***************************************************************************)
EXTENDS Naturals

CONSTANTS Tabs,    \* query tabs
          Shows,   \* calls of show()
          Waves,   \* calls of run, runScript and runVariableSql: see Workbench
          NoTab, NoShow, NoResult

ASSUME OwnersAssumption ==
  /\ NoTab \notin Tabs
  /\ NoShow \notin Shows
  /\ Shows \cap Waves = {}
  /\ NoResult \notin Shows \cup Waves

VARIABLES
  open,       \* is there an open execution scope
  activeTab,
  result,     \* tab.result of every tab
  show,       \* the calls of show()
  inflight    \* the one that owns abortController, showRegistration and activeShow

graphVars == <<open, activeTab, result, show, inflight>>

Show == [pc: {"idle", "preflight", "lineage", "done"},
         tab: Tabs \cup {NoTab},
         graph: {"none", "placeholder", "base", "complete", "partial", "error"},
         stopped: BOOLEAN]   \* its signal has fired or its registration is gone

IdleShow == [pc |-> "idle", tab |-> NoTab, graph |-> "none", stopped |-> FALSE]

GraphTypeOK ==
  /\ open \in BOOLEAN
  /\ activeTab \in Tabs
  /\ result \in [Tabs -> Shows \cup Waves \cup {NoResult}]
  /\ show \in [Shows -> Show]
  /\ inflight \in Shows \cup {NoShow}

GraphInit ==
  /\ open = TRUE
  /\ activeTab \in Tabs
  /\ result = [t \in Tabs |-> NoResult]
  /\ show = [s \in Shows |-> IdleShow]
  /\ inflight = NoShow

Loading(s) == show[s].graph \in {"placeholder", "base"}

IsShown(s) == show[s].tab \in Tabs /\ result[show[s].tab] = s

\* The identity of the result is not compared: only the signal tells.
Superseded_BySignal(s) == show[s].stopped

Superseded(s) == show[s].stopped \/ ~IsShown(s)

-----------------------------------------------------------------------------

\* cancel(): stop the load that is in flight, and leave its graph as it is.
Cancelled == [s \in Shows |-> IF s = inflight THEN [show[s] EXCEPT !.stopped = TRUE]
                                              ELSE show[s]]

\* The scope closes: every registered show is aborted, and one that is still loading
\* is settled as partial (settleSuspendedShow).
Suspended ==
  [s \in Shows |->
     IF show[s].stopped \/ show[s].pc \notin {"preflight", "lineage"} THEN show[s]
     ELSE [show[s] EXCEPT !.stopped = TRUE,
                          !.graph = IF IsShown(s) /\ Loading(s) THEN "partial" ELSE @]]

StartShow(s) ==
  /\ open
  /\ show[s].pc = "idle"
  /\ show' = [show EXCEPT ![s].pc = "preflight"]
  /\ UNCHANGED <<open, activeTab, result, inflight>>

\* The preflight of a stopped show resolves, or that of any show is rejected.
ShowStops(s) ==
  /\ show[s].pc = "preflight"
  /\ show' = [show EXCEPT ![s].pc = "done", ![s].stopped = TRUE]
  /\ UNCHANGED <<open, activeTab, result, inflight>>

\* The credential is ready: this show replaces the one in flight, and its placeholder
\* takes the result of the tab that is active by now.
ShowBegins(s) ==
  /\ show[s].pc = "preflight"
  /\ ~show[s].stopped
  /\ show' = [Cancelled EXCEPT ![s].pc = "lineage",
                               ![s].tab = activeTab,
                               ![s].graph = "placeholder"]
  /\ result' = [result EXCEPT ![activeTab] = s]
  /\ inflight' = s
  /\ UNCHANGED <<open, activeTab>>

\* onBase: the tables and their direct links are known.
BaseArrives(s) ==
  /\ show[s].pc = "lineage"
  /\ show[s].graph = "placeholder"
  /\ ~Superseded(s)
  /\ show' = [show EXCEPT ![s].graph = "base"]
  /\ UNCHANGED <<open, activeTab, result, inflight>>

\* The lineage is complete, or loading it has failed (an error takes the result).
ShowEnds(s) ==
  /\ show[s].pc = "lineage"
  /\ \E g \in IF Superseded(s) THEN {show[s].graph} ELSE {"complete", "error"} :
       show' = [show EXCEPT ![s].pc = "done", ![s].graph = g]
  /\ inflight' = IF inflight = s THEN NoShow ELSE inflight
  /\ UNCHANGED <<open, activeTab, result>>

\* The user cancels the loading graph that the active tab shows: a graph that has drawn
\* something stays as partial, a placeholder goes.
CancelGraph ==
  \E s \in Shows :
    /\ result[activeTab] = s
    /\ Loading(s)
    /\ inflight' = NoShow
    /\ \/ /\ show[s].graph = "base"
          /\ show' = [Cancelled EXCEPT ![s].graph = "partial"]
          /\ result' = result
       \/ /\ show' = Cancelled
          /\ result' = [result EXCEPT ![activeTab] = NoResult]
    /\ UNCHANGED <<open, activeTab>>

SelectTab(t) ==
  /\ t # activeTab
  /\ activeTab' = t
  /\ UNCHANGED <<open, result, show, inflight>>
=============================================================================
