------------------------ MODULE DashboardViewer_proofs ------------------------
(***************************************************************************)
(* The safety of DashboardViewer for any tiles, variables and items, any   *)
(* number of overlapping waves and any number of workers.                  *)
(*                                                                         *)
(* The parts of the invariant are written over the values of the           *)
(* variables, so that they can be stated of the batch a wave prepares      *)
(* before its workers take it up, which is no state of its own.            *)
(***************************************************************************)
EXTENDS DashboardViewer, TLAPS

\* The answer to a query of wave r for tile t would be accepted.
Holds(runs, tiles, d, r, t) == runs[r].live /\ ~d /\ tiles[t].gen = r

\* An idle wave keeps nothing, one that awaits its token has sent nothing, and only the
\* option request of a refresh, once answered, shortens selections.
WaveOK(w) ==
    /\ w.phase = "idle" => w = IdleRun
    /\ w.phase = "preflight" => w.sent = {} /\ w.options = "none"
    /\ w.options # "none" => w.kind = "refresh"
    /\ w.reconciled # {} => w.kind = "refresh" /\ w.options = "done"

WavesOK(runs) == \A r \in Runs : WaveOK(runs[r])

\* A query whose answer counts can be aborted through its tile; any other is aborted.
QueriesOK(runs, tiles, d) ==
    \A r \in Runs : \A t \in runs[r].sent :
        IF Holds(runs, tiles, d, r, t) THEN tiles[t].controller = r
                                       ELSE t \in runs[r].aborted

ShortenedIn(runs, d, v) == \E s \in Runs : runs[s].live /\ ~d /\ v \in runs[s].reconciled

\* Also a query that is still queued will be sent with the values committed now.
ValuesOK(runs, tiles, d, val) ==
    \A r \in Runs : runs[r].phase = "wave" =>
        \A t \in runs[r].queue \cup runs[r].sent : Holds(runs, tiles, d, r, t) =>
            \A v \in Reads[t] : runs[r].used[v] = val[v] \/ ShortenedIn(runs, d, v)

LoadingOK(runs, tiles, d) ==
    \A t \in Tiles : tiles[t].status = "loading" /\ ~d =>
        \E r \in Runs : /\ Holds(runs, tiles, d, r, t)
                        /\ runs[r].phase = "wave"
                        /\ t \in runs[r].queue \cup runs[r].sent

RunningOK(runs, d, on) ==
    on /\ ~d => \E r \in Runs : /\ runs[r].live
                                /\ runs[r].kind \in {"refresh", "rerun"}
                                /\ runs[r].phase # "idle"

Good(runs, tiles, d, val) ==
    /\ runs \in [Runs -> Run] /\ tiles \in [Tiles -> Tile]
    /\ WavesOK(runs)
    /\ QueriesOK(runs, tiles, d)
    /\ ValuesOK(runs, tiles, d, val)
    /\ LoadingOK(runs, tiles, d)

IInv == TypeOK /\ Good(run, tile, destroyed, value) /\ RunningOK(run, destroyed, running)

-----------------------------------------------------------------------------
(* Types *)

LEMMA IdleType == IdleRun \in Run /\ Unset \in Values
BY DEF IdleRun, Run, Unset, Values

LEMMA BeginType ==
  ASSUME NEW r \in Runs, NEW queue \in SUBSET Tiles,
         NEW kind \in {"refresh", "tile", "commit", "rerun"}
  PROVE  /\ Begin(r, kind, queue) \in Run
         /\ Begin(r, kind, queue).phase = "preflight" /\ Begin(r, kind, queue).live
         /\ Begin(r, kind, queue).kind = kind /\ Begin(r, kind, queue).queue = queue
         /\ Begin(r, kind, queue).sent = {} /\ Begin(r, kind, queue).aborted = {}
         /\ Begin(r, kind, queue).options = "none" /\ Begin(r, kind, queue).reconciled = {}
<1>1. /\ IdleRun.sent = {} /\ IdleRun.aborted = {} /\ IdleRun.options = "none"
      /\ IdleRun.reconciled = {}
  BY DEF IdleRun
<1>2. "preflight" \in {"idle", "preflight", "wave"} /\ TRUE \in BOOLEAN
  OBVIOUS
<1> QED BY <1>1, <1>2, IdleType DEF Begin, Run

LEMMA BeginOK ==
  ASSUME NEW r \in Runs, NEW queue \in SUBSET Tiles,
         NEW kind \in {"refresh", "tile", "commit", "rerun"}
  PROVE  WaveOK(Begin(r, kind, queue))
<1>1. /\ Begin(r, kind, queue).phase = "preflight" /\ Begin(r, kind, queue).sent = {}
      /\ Begin(r, kind, queue).options = "none" /\ Begin(r, kind, queue).reconciled = {}
  BY BeginType
<1> QED BY <1>1 DEF WaveOK

LEMMA IdleOK == WaveOK(IdleRun)
BY DEF WaveOK, IdleRun

-----------------------------------------------------------------------------
(* The workers of a wave *)

LEMMA WorkersKeep ==
  ASSUME NEW r \in Runs, NEW runs, NEW tiles, NEW rejected,
         Good(runs, tiles, destroyed, value),
         runs[r].live = run[r].live, runs[r].phase = "wave",
         Workers(r, runs, tiles, rejected)
  PROVE  /\ Good(run', tile', destroyed, value)
         /\ \A s \in Runs : /\ run'[s].live = runs[s].live /\ run'[s].kind = runs[s].kind
                            /\ run'[s].phase = runs[s].phase
<1> DEFINE reached == Reached(r, runs, tiles, rejected)
           send == reached \cap Sendable(r, runs, tiles, rejected)
           kept(t) == IF Fillable(t, runs[r].used) THEN "error" ELSE "unfilled"
           mine(t) == Holds(runs, tiles, destroyed, r, t)
<1>0. /\ runs \in [Runs -> Run] /\ tiles \in [Tiles -> Tile] /\ runs[r] \in Run
      /\ runs[r].queue \subseteq Tiles /\ runs[r].sent \subseteq Tiles
  BY DEF Good, Run
<1>1. /\ reached \subseteq runs[r].queue /\ send \subseteq reached
      /\ \A t \in send : mine(t)
  BY DEF Reached, Sendable, Holds, IsCurrent
<1>2. /\ run' = [runs EXCEPT ![r].queue = @ \ reached, ![r].sent = @ \cup send]
      /\ tile' = [t \in Tiles |->
                CASE t \in send ->
                        [tiles[t] EXCEPT !.status = "loading", !.controller = r]
                  [] t \in reached \ send /\ mine(t) ->
                        [tiles[t] EXCEPT !.status = kept(t)]
                  [] OTHER -> tiles[t]]
  BY DEF Workers, Holds, IsCurrent
<1> HIDE DEF reached, send
<1>3. /\ \A s \in Runs \ {r} : run'[s] = runs[s]
      /\ run'[r] = [runs[r] EXCEPT !.queue = @ \ reached, !.sent = @ \cup send]
  BY <1>0, <1>2
<1>4. /\ run'[r] \in Run
      /\ run'[r].queue = runs[r].queue \ reached
      /\ run'[r].sent = runs[r].sent \cup send
      /\ run'[r].kind = runs[r].kind /\ run'[r].phase = runs[r].phase
      /\ run'[r].live = runs[r].live /\ run'[r].aborted = runs[r].aborted
      /\ run'[r].used = runs[r].used /\ run'[r].options = runs[r].options
      /\ run'[r].reconciled = runs[r].reconciled
  <2>1. send \subseteq Tiles
    BY <1>0, <1>1
  <2> QED BY <1>0, <1>3, <2>1 DEF Run
<1>5. ASSUME NEW t \in Tiles
      PROVE  /\ tile'[t] \in Tile
             /\ tile'[t].gen = tiles[t].gen
             /\ t \in send => tile'[t].controller = r
             /\ t \notin send => /\ tile'[t].controller = tiles[t].controller
                                 /\ tile'[t].status = "loading" => tiles[t].status = "loading"
             /\ t \in reached \ send /\ mine(t) => tile'[t].status # "loading"
  <2>1. tiles[t] \in Tile
    BY <1>0
  <2>2. CASE t \in send
    <3>1. tile'[t] = [tiles[t] EXCEPT !.status = "loading", !.controller = r]
      BY <1>2, <2>2
    <3> QED BY <2>1, <2>2, <3>1 DEF Tile
  <2>3. CASE t \notin send /\ t \in reached \ send /\ mine(t)
    <3>1. tile'[t] = [tiles[t] EXCEPT !.status = kept(t)]
      BY <1>2, <2>3
    <3> QED BY <2>1, <2>3, <3>1 DEF Tile
  <2>4. CASE t \notin send /\ ~(t \in reached \ send /\ mine(t))
    <3>1. tile'[t] = tiles[t]
      BY <1>2, <2>4
    <3> QED BY <2>1, <2>4, <3>1
  <2> QED BY <2>2, <2>3, <2>4
<1>6. \A s \in Runs, t \in Tiles :
        Holds(run', tile', destroyed, s, t) <=> Holds(runs, tiles, destroyed, s, t)
  BY <1>3, <1>4, <1>5 DEF Holds
<1>7. \A s \in Runs : runs[s].sent \subseteq Tiles /\ runs[s].queue \subseteq Tiles
  BY <1>0 DEF Run
<1>8. run' \in [Runs -> Run] /\ tile' \in [Tiles -> Tile]
  BY <1>0, <1>2, <1>3, <1>4, <1>5
<1>9. WavesOK(run')
  <2>1. WaveOK(run'[r])
    BY <1>4 DEF Good, WavesOK, WaveOK
  <2> QED BY <1>3, <2>1 DEF Good, WavesOK
<1>10. QueriesOK(run', tile', destroyed)
  <2> SUFFICES ASSUME NEW s \in Runs, NEW t \in run'[s].sent
               PROVE  IF Holds(run', tile', destroyed, s, t) THEN tile'[t].controller = s
                                                             ELSE t \in run'[s].aborted
    BY DEF QueriesOK
  <2>1. CASE s = r /\ t \in send
    BY <1>0, <1>1, <1>5, <1>6, <2>1
  <2>2. CASE ~(s = r /\ t \in send)
    <3>1. t \in runs[s].sent /\ t \in Tiles /\ run'[s].aborted = runs[s].aborted
      BY <1>3, <1>4, <1>7, <2>2
    <3>2. IF Holds(runs, tiles, destroyed, s, t) THEN tiles[t].controller = s
                                                 ELSE t \in runs[s].aborted
      BY <3>1 DEF Good, QueriesOK
    <3>3. Holds(runs, tiles, destroyed, s, t) => t \notin send
      BY <1>1, <2>2 DEF Holds
    <3> QED BY <1>5, <1>6, <3>1, <3>2, <3>3
  <2> QED BY <2>1, <2>2
<1>11. ValuesOK(run', tile', destroyed, value)
  <2>1. \A v : ShortenedIn(run', destroyed, v) <=> ShortenedIn(runs, destroyed, v)
    BY <1>3, <1>4 DEF ShortenedIn
  <2>2. \A s \in Runs : /\ run'[s].queue \cup run'[s].sent \subseteq runs[s].queue \cup runs[s].sent
                        /\ run'[s].phase = runs[s].phase /\ run'[s].used = runs[s].used
    BY <1>1, <1>3, <1>4
  <2> QED BY <1>6, <1>7, <2>1, <2>2 DEF Good, ValuesOK
<1>12. LoadingOK(run', tile', destroyed)
  <2> SUFFICES ASSUME NEW t \in Tiles, tile'[t].status = "loading", ~destroyed
               PROVE  \E s \in Runs : /\ Holds(run', tile', destroyed, s, t)
                                      /\ run'[s].phase = "wave"
                                      /\ t \in run'[s].queue \cup run'[s].sent
    BY DEF LoadingOK
  <2>1. CASE t \in send
    BY <1>1, <1>4, <1>6, <2>1
  <2>2. CASE t \notin send
    <3>1. PICK s \in Runs : /\ Holds(runs, tiles, destroyed, s, t)
                            /\ runs[s].phase = "wave"
                            /\ t \in runs[s].queue \cup runs[s].sent
      BY <1>5, <2>2 DEF Good, LoadingOK
    <3>2. s = r => t \notin reached
      BY <1>5, <2>2, <3>1
    <3> QED BY <1>3, <1>4, <1>6, <3>1, <3>2
  <2> QED BY <2>1, <2>2
<1>13. Good(run', tile', destroyed, value)
  BY <1>8, <1>9, <1>10, <1>11, <1>12 DEF Good
<1> QED BY <1>3, <1>4, <1>13

-----------------------------------------------------------------------------
(* What supersedes tiles, starts a wave or ends one *)

\* w with those of its queries aborted that the tiles of S control.
Aborts(w, s, tiles, S) ==
    [w EXCEPT !.aborted = @ \cup {t \in S \cap w.sent : tiles[t].controller = s}]

LEMMA IdleAborts ==
  ASSUME NEW s, NEW tiles, NEW S
  PROVE  Aborts(IdleRun, s, tiles, S) = IdleRun
BY DEF Aborts, IdleRun

LEMMA AbortsDoes ==
  ASSUME NEW w \in Run, NEW s, NEW tiles, NEW S
  PROVE  /\ Aborts(w, s, tiles, S) \in Run
         /\ Aborts(w, s, tiles, S).live = w.live /\ Aborts(w, s, tiles, S).kind = w.kind
         /\ Aborts(w, s, tiles, S).phase = w.phase /\ Aborts(w, s, tiles, S).sent = w.sent
         /\ Aborts(w, s, tiles, S).options = w.options
         /\ Aborts(w, s, tiles, S).reconciled = w.reconciled
         /\ Aborts(w, s, tiles, S).aborted
              = w.aborted \cup {t \in S \cap w.sent : tiles[t].controller = s}
BY DEF Aborts, Run

\* A wave that holds no tile it could answer for.
Detached(w) == w.sent = {} /\ (w.phase = "wave" => w.queue = {})

\* The tiles of S move on to wave h, whose own record is replaced, or to nobody.  The other
\* waves lose their queries for these tiles and nothing else.
Overtaken(runs, tiles, d, val, S, h, runs2, tiles2, val2) ==
    /\ runs2 \in [Runs -> Run] /\ tiles2 \in [Tiles -> Tile]
    /\ \A s \in Runs \ {h} : runs2[s] = Aborts(runs[s], s, tiles, S)
    /\ \A t \in Tiles \ S : tiles2[t] = tiles[t]
    /\ \A t \in S : tiles2[t].gen = h
    /\ \A t \in Tiles \ S : \A v \in Reads[t] : val2[v] = val[v]
    /\ h \in Runs =>
         /\ Detached(runs[h])
         /\ WaveOK(runs2[h]) /\ runs2[h].sent = {}
         /\ runs2[h].phase = "wave" => runs2[h].used = val2
         /\ \A t \in Tiles \ S : \A v \in Reads[t] :
              v \in runs[h].reconciled => ~runs[h].live \/ d
    /\ \A t \in S : tiles2[t].status = "loading" /\ ~d =>
         /\ h \in Runs /\ runs2[h].live /\ runs2[h].phase = "wave"
         /\ t \in runs2[h].queue

LEMMA Superseded ==
  ASSUME NEW runs, NEW tiles, NEW d, NEW val, Good(runs, tiles, d, val),
         NEW S \in SUBSET Tiles, NEW h \in Runs \cup {None},
         NEW runs2, NEW tiles2, NEW val2,
         Overtaken(runs, tiles, d, val, S, h, runs2, tiles2, val2)
  PROVE  Good(runs2, tiles2, d, val2)
<1> USE DEF Overtaken
<1>0. /\ runs \in [Runs -> Run] /\ tiles \in [Tiles -> Tile]
      /\ \A s \in Runs : runs[s] \in Run /\ runs[s].sent \subseteq Tiles
                                         /\ runs[s].queue \subseteq Tiles
      /\ None \notin Runs
  BY ViewerAssumption DEF Good, Run
<1>1. ASSUME NEW s \in Runs, s # h
      PROVE  /\ runs2[s].kind = runs[s].kind /\ runs2[s].phase = runs[s].phase
             /\ runs2[s].live = runs[s].live /\ runs2[s].queue = runs[s].queue
             /\ runs2[s].sent = runs[s].sent /\ runs2[s].used = runs[s].used
             /\ runs2[s].options = runs[s].options
             /\ runs2[s].reconciled = runs[s].reconciled
             /\ runs[s].aborted \subseteq runs2[s].aborted
             /\ \A t \in S \cap runs[s].sent : tiles[t].controller = s => t \in runs2[s].aborted
  BY <1>0, <1>1 DEF Aborts, Run
<1>2. \A s \in Runs, t \in Tiles : s # h =>
        (Holds(runs2, tiles2, d, s, t) <=> Holds(runs, tiles, d, s, t) /\ t \notin S)
  BY <1>1 DEF Holds
<1>3. WavesOK(runs2)
  <2> SUFFICES ASSUME NEW s \in Runs
               PROVE  WaveOK(runs2[s])
    BY DEF WavesOK
  <2>1. CASE s = h
    BY <2>1
  <2>2. CASE s # h
    <3>1. WaveOK(runs[s])
      BY DEF Good, WavesOK
    <3>2. runs2[s].phase = "idle" => runs2[s] = IdleRun
      BY <1>0, <1>1, <2>2, <3>1, IdleAborts DEF WaveOK
    <3> QED BY <1>1, <2>2, <3>1, <3>2 DEF WaveOK
  <2> QED BY <2>1, <2>2
<1>4. QueriesOK(runs2, tiles2, d)
  <2> SUFFICES ASSUME NEW s \in Runs, NEW t \in runs2[s].sent
               PROVE  IF Holds(runs2, tiles2, d, s, t) THEN tiles2[t].controller = s
                                                       ELSE t \in runs2[s].aborted
    BY DEF QueriesOK
  <2>1. s # h
    OBVIOUS
  <2>2. t \in runs[s].sent /\ t \in Tiles
    BY <1>0, <1>1, <2>1
  <2>3. IF Holds(runs, tiles, d, s, t) THEN tiles[t].controller = s
                                       ELSE t \in runs[s].aborted
    BY <2>2 DEF Good, QueriesOK
  <2> QED BY <1>1, <1>2, <2>1, <2>2, <2>3
<1>5. ValuesOK(runs2, tiles2, d, val2)
  <2> SUFFICES ASSUME NEW s \in Runs, runs2[s].phase = "wave",
                      NEW t \in runs2[s].queue \cup runs2[s].sent,
                      Holds(runs2, tiles2, d, s, t), NEW v \in Reads[t]
               PROVE  runs2[s].used[v] = val2[v] \/ ShortenedIn(runs2, d, v)
    BY DEF ValuesOK
  <2>1. CASE s = h
    BY <2>1
  <2>2. CASE s # h
    <3>1. /\ t \in runs[s].queue \cup runs[s].sent /\ t \in Tiles \ S
          /\ Holds(runs, tiles, d, s, t) /\ runs[s].phase = "wave"
      BY <1>0, <1>1, <1>2, <2>2
    <3>2. runs[s].used[v] = val[v] \/ ShortenedIn(runs, d, v)
      BY <3>1 DEF Good, ValuesOK
    <3>3. ShortenedIn(runs, d, v) => ShortenedIn(runs2, d, v)
      <4> SUFFICES ASSUME NEW u \in Runs, runs[u].live, ~d, v \in runs[u].reconciled
                   PROVE  ShortenedIn(runs2, d, v)
        BY DEF ShortenedIn
      <4>1. u # h
        BY <3>1
      <4> QED BY <1>1, <4>1 DEF ShortenedIn
    <3> QED BY <1>1, <2>2, <3>1, <3>2, <3>3
  <2> QED BY <2>1, <2>2
<1>6. LoadingOK(runs2, tiles2, d)
  <2> SUFFICES ASSUME NEW t \in Tiles, tiles2[t].status = "loading", ~d
               PROVE  \E s \in Runs : /\ Holds(runs2, tiles2, d, s, t)
                                      /\ runs2[s].phase = "wave"
                                      /\ t \in runs2[s].queue \cup runs2[s].sent
    BY DEF LoadingOK
  <2>1. CASE t \in S
    BY <2>1 DEF Holds
  <2>2. CASE t \notin S
    <3>1. PICK s \in Runs : /\ Holds(runs, tiles, d, s, t)
                            /\ runs[s].phase = "wave"
                            /\ t \in runs[s].queue \cup runs[s].sent
      BY <2>2 DEF Good, LoadingOK
    <3>2. s # h
      BY <3>1 DEF Detached
    <3> QED BY <1>1, <1>2, <2>2, <3>1, <3>2
  <2> QED BY <2>1, <2>2
<1> QED BY <1>3, <1>4, <1>5, <1>6 DEF Good

-----------------------------------------------------------------------------
(* Each action keeps the invariant *)

\* Supersede and Reserve as they change one tile.
LEMMA SupersedeDoes ==
  ASSUME TypeOK, NEW S \in SUBSET Tiles, NEW h \in Runs \cup {None}
  PROVE  /\ Supersede(S, h) \in [Tiles -> Tile]
         /\ \A t \in Tiles :
              /\ t \notin S => Supersede(S, h)[t] = tile[t]
              /\ t \in S => /\ Supersede(S, h)[t].gen = h
                            /\ Supersede(S, h)[t].status = tile[t].status
<1>1. \A t \in Tiles : tile[t] \in Tile
  BY DEF TypeOK
<1>2. ASSUME NEW t \in Tiles
      PROVE  /\ Supersede(S, h)[t] \in Tile
             /\ t \notin S => Supersede(S, h)[t] = tile[t]
             /\ t \in S => /\ Supersede(S, h)[t].gen = h
                           /\ Supersede(S, h)[t].status = tile[t].status
  BY <1>1 DEF Supersede, Tile
<1>3. Supersede(S, h) = [t \in Tiles |-> Supersede(S, h)[t]]
  BY DEF Supersede
<1> QED BY <1>2, <1>3

LEMMA ReserveDoes ==
  ASSUME TypeOK, NEW S \in SUBSET Tiles, NEW h \in Runs \cup {None}
  PROVE  /\ Reserve(S, h) \in [Tiles -> Tile]
         /\ \A t \in Tiles :
              /\ t \notin S => Reserve(S, h)[t] = tile[t]
              /\ t \in S => Reserve(S, h)[t].gen = h /\ Reserve(S, h)[t].status # "loading"
<1>1. ASSUME NEW t \in Tiles
      PROVE  /\ Reserve(S, h)[t] \in Tile
             /\ t \notin S => Reserve(S, h)[t] = tile[t]
             /\ t \in S => Reserve(S, h)[t].gen = h /\ Reserve(S, h)[t].status # "loading"
  <2>1. /\ Supersede(S, h)[t] \in Tile
        /\ t \notin S => Supersede(S, h)[t] = tile[t]
        /\ t \in S => /\ Supersede(S, h)[t].gen = h
                      /\ Supersede(S, h)[t].status = tile[t].status
    BY SupersedeDoes
  <2>2. CASE t \in S /\ tile[t].status = "loading"
    <3>1. Reserve(S, h)[t] = [Supersede(S, h)[t] EXCEPT !.status = "idle"]
      BY <2>2 DEF Reserve
    <3> QED BY <2>1, <2>2, <3>1 DEF Tile
  <2>3. CASE ~(t \in S /\ tile[t].status = "loading")
    <3>1. Reserve(S, h)[t] = Supersede(S, h)[t]
      BY <2>3 DEF Reserve
    <3> QED BY <2>1, <2>3, <3>1
  <2> QED BY <2>2, <2>3
<1>2. Reserve(S, h) = [t \in Tiles |-> Reserve(S, h)[t]]
  BY DEF Reserve
<1> QED BY <1>1, <1>2

LEMMA AbortTilesDoes ==
  ASSUME TypeOK, NEW S \in SUBSET Tiles
  PROVE  /\ AbortTiles(S) \in [Runs -> Run]
         /\ \A s \in Runs : /\ AbortTiles(S)[s] = Aborts(run[s], s, tile, S)
                            /\ AbortTiles(S)[s].live = run[s].live
                            /\ AbortTiles(S)[s].kind = run[s].kind
                            /\ AbortTiles(S)[s].phase = run[s].phase
                            /\ AbortTiles(S)[s].sent = run[s].sent
                            /\ AbortTiles(S)[s].options = run[s].options
                            /\ AbortTiles(S)[s].reconciled = run[s].reconciled
<1>1. \A s \in Runs : run[s] \in Run
  BY DEF TypeOK
<1>2. \A s \in Runs : Aborts(run[s], s, tile, S) \in Run
  BY <1>1 DEF Aborts, Run
<1>3. \A s \in Runs : AbortTiles(S)[s] = Aborts(run[s], s, tile, S)
  BY DEF AbortTiles, Aborts
<1>4. AbortTiles(S) = [s \in Runs |-> AbortTiles(S)[s]]
  BY DEF AbortTiles
<1>5. \A s \in Runs : /\ Aborts(run[s], s, tile, S).live = run[s].live
                      /\ Aborts(run[s], s, tile, S).kind = run[s].kind
                      /\ Aborts(run[s], s, tile, S).phase = run[s].phase
                      /\ Aborts(run[s], s, tile, S).sent = run[s].sent
                      /\ Aborts(run[s], s, tile, S).options = run[s].options
                      /\ Aborts(run[s], s, tile, S).reconciled = run[s].reconciled
  BY <1>1 DEF Aborts, Run
<1> QED BY <1>2, <1>3, <1>4, <1>5

\* Nothing was under way in wave r: its record is replaced by n, and the tiles of S pass to it.
Replaces(r, n, S, new) ==
    /\ WaveOK(n) /\ n.sent = {} /\ n.phase # "wave"
    /\ Detached(run[r])
    /\ \A t \in Tiles \ S : \A v \in Reads[t] :
         new[v] = value[v] /\ (v \in run[r].reconciled => ~run[r].live \/ destroyed)

LEMMA TilesReserved ==
  ASSUME TypeOK, NEW h \in Runs \cup {None}, NEW S \in SUBSET Tiles, tile' = Reserve(S, h)
  PROVE  /\ tile' \in [Tiles -> Tile]
         /\ \A t \in Tiles \ S : tile'[t] = tile[t]
         /\ \A t \in S : tile'[t].gen = h /\ tile'[t].status # "loading"
BY ReserveDoes

LEMMA WaveReplaced ==
  ASSUME IInv, NEW r \in Runs, NEW n \in Run, NEW S \in SUBSET Tiles, NEW new \in Values,
         Replaces(r, n, S, new),
         run' = [AbortTiles(S) EXCEPT ![r] = n],
         tile' = Reserve(S, r)
  PROVE  Good(run', tile', destroyed, new) /\ run'[r] = n
         /\ \A s \in Runs \ {r} : /\ run'[s].live = run[s].live /\ run'[s].kind = run[s].kind
                                  /\ run'[s].phase = run[s].phase
<1>1. TypeOK /\ Good(run, tile, destroyed, value)
  BY DEF IInv
<1>2. /\ run' \in [Runs -> Run] /\ run'[r] = n
      /\ \A s \in Runs \ {r} : run'[s] = AbortTiles(S)[s]
  BY <1>1, AbortTilesDoes
<1>3. /\ tile' \in [Tiles -> Tile]
      /\ \A t \in Tiles \ S : tile'[t] = tile[t]
      /\ \A t \in S : tile'[t].gen = r /\ tile'[t].status # "loading"
  BY <1>1, TilesReserved
<1>4. \A s \in Runs \ {r} : run'[s] = Aborts(run[s], s, tile, S)
  BY <1>1, <1>2, AbortTilesDoes
<1>5. Overtaken(run, tile, destroyed, value, S, r, run', tile', new)
  BY <1>2, <1>3, <1>4 DEF Overtaken, Replaces
<1>6. Good(run', tile', destroyed, new)
  BY <1>1, <1>5, Superseded
<1> QED BY <1>1, <1>2, <1>6, AbortTilesDoes

\* The tiles of S pass to nobody.
LEMMA ReservedForNobody ==
  ASSUME IInv, NEW S \in SUBSET Tiles, NEW new,
         \A t \in Tiles \ S : \A v \in Reads[t] : new[v] = value[v],
         run' = AbortTiles(S),
         tile' = Reserve(S, None)
  PROVE  Good(run', tile', destroyed, new)
         /\ \A s \in Runs : /\ run'[s].live = run[s].live /\ run'[s].kind = run[s].kind
                            /\ run'[s].phase = run[s].phase
<1>1. TypeOK /\ Good(run, tile, destroyed, value) /\ None \notin Runs
  BY ViewerAssumption DEF IInv
<1>2. run' \in [Runs -> Run] /\ \A s \in Runs : run'[s] = Aborts(run[s], s, tile, S)
  BY <1>1, AbortTilesDoes
<1>3. /\ tile' \in [Tiles -> Tile]
      /\ \A t \in Tiles \ S : tile'[t] = tile[t]
      /\ \A t \in S : tile'[t].gen = None /\ tile'[t].status # "loading"
  BY <1>1, TilesReserved
<1>4. Overtaken(run, tile, destroyed, value, S, None, run', tile', new)
  BY <1>1, <1>2, <1>3 DEF Overtaken
<1>5. Good(run', tile', destroyed, new)
  BY <1>1, <1>4, Superseded
<1> QED BY <1>1, <1>5, AbortTilesDoes

LEMMA NothingAborts ==
  ASSUME NEW w \in Run, NEW s, NEW tiles
  PROVE  Aborts(w, s, tiles, {}) = w
<1>1. {t \in {} \cap w.sent : tiles[t].controller = s} = {}
  OBVIOUS
<1> QED BY <1>1 DEF Aborts, Run

LEMMA WaveSwapped ==
  ASSUME IInv, NEW r \in Runs, NEW n \in Run,
         Replaces(r, n, {}, value),
         run' = [run EXCEPT ![r] = n],
         tile' = tile
  PROVE  /\ Good(run', tile', destroyed, value) /\ run'[r] = n
         /\ \A s \in Runs \ {r} : run'[s] = run[s]
<1>1. TypeOK /\ Good(run, tile, destroyed, value)
  BY DEF IInv
<1>2. /\ run' \in [Runs -> Run] /\ run'[r] = n
      /\ \A s \in Runs \ {r} : run'[s] = run[s]
  BY <1>1 DEF TypeOK
<1>3. \A s \in Runs \ {r} : run'[s] = Aborts(run[s], s, tile, {})
  BY <1>1, <1>2, NothingAborts DEF TypeOK
<1>4. tile' \in [Tiles -> Tile]
  BY <1>1 DEF TypeOK
<1>5. Overtaken(run, tile, destroyed, value, {}, r, run', tile', value)
  BY <1>2, <1>3, <1>4 DEF Overtaken, Replaces
<1> QED BY <1>1, <1>2, <1>5, Superseded

Owner(w) == w.live /\ w.kind \in {"refresh", "rerun"} /\ w.phase # "idle"

LEMMA RunningStays ==
  ASSUME IInv, running' => running, ~destroyed' => ~destroyed,
         \A s \in Runs : Owner(run[s]) => Owner(run'[s])
  PROVE  RunningOK(run', destroyed', running')
BY DEF IInv, RunningOK, Owner

\* What an idle wave, or one that is over, allows.
LEMMA Replaceable ==
  ASSUME IInv, NEW r \in Runs, NEW n, WaveOK(n), n.sent = {}, n.phase # "wave",
         \/ run[r].phase = "idle"
         \/ run[r].phase = "preflight"
         \/ Quiet(r) /\ (run[r].kind # "refresh" \/ ~IsCurrent(r))
  PROVE  Replaces(r, n, {}, value)
<1>1. WaveOK(run[r])
  BY DEF IInv, Good, WavesOK
<1>2. Detached(run[r])
  BY <1>1 DEF Detached, WaveOK, IdleRun, Quiet
<1>3. run[r].reconciled = {} \/ ~IsCurrent(r)
  BY <1>1 DEF WaveOK, IdleRun, Quiet
<1> QED BY <1>2, <1>3 DEF Replaces, IsCurrent

LEMMA StartStep ==
  ASSUME IInv, NEW r \in Runs, Refresh(r) \/ \E t \in Tiles : RefreshTile(r, t)
  PROVE  IInv'
<1>1. PICK kind \in {"refresh", "tile"}, queue \in SUBSET Tiles :
        run' = [run EXCEPT ![r] = Begin(r, kind, queue)]
  BY DEF Refresh, RefreshTile
<1>2. /\ run[r].phase = "idle"
      /\ UNCHANGED <<open, destroyed, value, tile, optionsGen, optionsController, running>>
  BY DEF Refresh, RefreshTile
<1> DEFINE n == Begin(r, kind, queue)
<1>3. n \in Run /\ WaveOK(n) /\ n.sent = {} /\ n.phase = "preflight"
  BY BeginType, BeginOK
<1>4. run' = [run EXCEPT ![r] = n]
  BY <1>1
<1> HIDE DEF n
<1>5. Replaces(r, n, {}, value)
  BY <1>2, <1>3, Replaceable
<1>6. /\ Good(run', tile', destroyed, value)
      /\ \A s \in Runs \ {r} : run'[s] = run[s]
  BY <1>2, <1>3, <1>4, <1>5, WaveSwapped
<1>7. RunningOK(run', destroyed', running')
  BY <1>2, <1>6, RunningStays DEF Owner
<1> QED BY <1>2, <1>6, <1>7 DEF IInv, TypeOK, Good

LEMMA EndStep ==
  ASSUME IInv, NEW r \in Runs,
         PreflightIsMoot(r) \/ WaveSettles(r) \/ (RefreshSettles(r) /\ ~IsCurrent(r))
  PROVE  IInv'
<1>1. /\ run' = [run EXCEPT ![r] = IdleRun]
      /\ UNCHANGED <<open, destroyed, value, tile, optionsGen, optionsController>>
  BY DEF PreflightIsMoot, WaveSettles, RefreshSettles
<1>2. running' = running \/ (running' = FALSE /\ running \in BOOLEAN)
  BY DEF PreflightIsMoot, WaveSettles, RefreshSettles, IInv, TypeOK
<1>3. Replaces(r, IdleRun, {}, value)
  <2>1. IdleRun.sent = {} /\ IdleRun.phase # "wave"
    BY DEF IdleRun
  <2> QED BY <2>1, IdleOK, Replaceable DEF PreflightIsMoot, WaveSettles, RefreshSettles
<1>4. /\ Good(run', tile', destroyed, value)
      /\ \A s \in Runs \ {r} : run'[s] = run[s]
  BY <1>1, <1>3, IdleType, WaveSwapped
<1>5. RunningOK(run', destroyed', running')
  <2>1. CASE Owner(run[r]) /\ ~destroyed
    <3>1. WaveSettles(r) /\ run[r].kind = "rerun" /\ IsCurrent(r)
      BY <2>1 DEF PreflightIsMoot, WaveSettles, RefreshSettles, Owner, IsCurrent
    <3>2. running' = FALSE
      BY <3>1 DEF WaveSettles
    <3> QED BY <3>2 DEF RunningOK
  <2>2. CASE destroyed
    BY <1>1, <2>2 DEF RunningOK
  <2>3. CASE ~Owner(run[r])
    BY <1>1, <1>2, <1>4, <2>3, RunningStays
  <2> QED BY <2>1, <2>2, <2>3
<1> QED BY <1>1, <1>2, <1>4, <1>5 DEF IInv, TypeOK, Good

LEMMA CommitStep ==
  ASSUME IInv, NEW r \in Runs, NEW new \in Values, NEW changed \in SUBSET Variables,
         Commit(r, new, changed)
  PROVE  IInv'
<1> DEFINE S == Affected(changed)
<1>0. /\ TypeOK /\ S \in SUBSET Tiles
      /\ \A t \in Tiles \ S : \A v \in Reads[t] : new[v] = value[v]
  BY ViewerAssumption DEF IInv, Affected, Commit
<1> HIDE DEF S
<1>1. /\ run[r].phase = "idle" /\ value' = new
      /\ UNCHANGED <<open, destroyed, optionsGen, optionsController, running>>
  BY DEF Commit
<1>2. Good(run', tile', destroyed, new)
      /\ \A s \in Runs \ {r} : /\ run'[s].live = run[s].live /\ run'[s].kind = run[s].kind
                               /\ run'[s].phase = run[s].phase
  <2>1. CASE open
    <3> DEFINE n == Begin(r, "commit", S)
    <3>1. n \in Run /\ WaveOK(n) /\ n.sent = {} /\ n.phase # "wave"
      BY <1>0, BeginType, BeginOK
    <3>2. run' = [AbortTiles(S) EXCEPT ![r] = n] /\ tile' = Reserve(S, r)
      BY <2>1 DEF Commit, S
    <3> HIDE DEF n
    <3>3. Replaces(r, n, S, new)
      <4>1. Detached(run[r]) /\ run[r].reconciled = {}
        BY <1>1 DEF IInv, Good, WavesOK, WaveOK, IdleRun, Detached
      <4> QED BY <1>0, <3>1, <4>1 DEF Replaces
    <3> QED BY <1>0, <3>1, <3>2, <3>3, WaveReplaced
  <2>2. CASE ~open
    <3>1. run' = AbortTiles(S) /\ tile' = Reserve(S, None)
      BY <2>2 DEF Commit, S
    <3> QED BY <1>0, <3>1, ReservedForNobody
  <2> QED BY <2>1, <2>2
<1>3. ~Owner(run[r])
  BY <1>1 DEF Owner
<1>4. RunningOK(run', destroyed', running')
  BY <1>1, <1>2, <1>3, RunningStays DEF Owner
<1> QED BY <1>0, <1>1, <1>2, <1>4 DEF IInv, TypeOK, Good

LEMMA CancelTileStep ==
  ASSUME IInv, NEW t \in Tiles, CancelTile(t)
  PROVE  IInv'
<1>1. /\ run' = AbortTiles({t}) /\ tile' = Reserve({t}, None)
      /\ UNCHANGED <<open, destroyed, value, optionsGen, optionsController, running>>
  BY DEF CancelTile
<1>2. /\ Good(run', tile', destroyed, value)
      /\ \A s \in Runs : /\ run'[s].live = run[s].live /\ run'[s].kind = run[s].kind
                         /\ run'[s].phase = run[s].phase
  BY <1>1, ReservedForNobody
<1>3. RunningOK(run', destroyed', running')
  BY <1>1, <1>2, RunningStays DEF Owner
<1> QED BY <1>1, <1>2, <1>3 DEF IInv, TypeOK, Good

\* A refresh is over, and reruns the tiles whose selection its options shortened.
LEMMA RefreshSettlesStep ==
  ASSUME IInv, NEW r \in Runs, RefreshSettles(r), IsCurrent(r)
  PROVE  IInv'
<1> DEFINE again == run[r].reconciled
           S == Affected(again)
           n == IF again = {} THEN IdleRun ELSE Begin(r, "rerun", S)
<1>0. /\ TypeOK /\ S \in SUBSET Tiles /\ Quiet(r)
      /\ \A t \in Tiles \ S : \A v \in Reads[t] : v \notin again
  BY ViewerAssumption DEF IInv, Affected, RefreshSettles
<1>1. /\ run' = [AbortTiles(S) EXCEPT ![r] = n] /\ tile' = Reserve(S, r)
      /\ running' = (again # {} /\ running)
      /\ UNCHANGED <<open, destroyed, value, optionsGen, optionsController>>
  BY DEF RefreshSettles
<1>2. n \in Run /\ WaveOK(n) /\ n.sent = {} /\ n.phase # "wave"
  <2>1. CASE again = {}
    BY <2>1, IdleType, IdleOK DEF IdleRun
  <2>2. CASE again # {}
    <3>1. n = Begin(r, "rerun", S)
      BY <2>2
    <3> HIDE DEF n
    <3> QED BY <1>0, <3>1, BeginType, BeginOK
  <2> QED BY <2>1, <2>2
<1>3. again # {} => n.live /\ n.kind = "rerun" /\ n.phase # "idle"
  <2> SUFFICES ASSUME again # {}
               PROVE  n.live /\ n.kind = "rerun" /\ n.phase # "idle"
    OBVIOUS
  <2>1. n = Begin(r, "rerun", S)
    OBVIOUS
  <2> HIDE DEF n
  <2> QED BY <1>0, <2>1, BeginType
<1> HIDE DEF n, S
<1>4. Replaces(r, n, S, value)
  BY <1>0, <1>2 DEF Replaces, Detached, Quiet
<1>5. /\ Good(run', tile', destroyed, value) /\ run'[r] = n
      /\ \A s \in Runs \ {r} : /\ run'[s].live = run[s].live /\ run'[s].kind = run[s].kind
                               /\ run'[s].phase = run[s].phase
  BY <1>0, <1>1, <1>2, <1>4, WaveReplaced DEF TypeOK
<1>6. RunningOK(run', destroyed', running')
  <2>1. CASE again = {}
    BY <1>1, <2>1 DEF RunningOK
  <2>2. CASE again # {}
    BY <1>3, <1>5, <2>2 DEF RunningOK
  <2> QED BY <2>1, <2>2
<1>7. running' \in BOOLEAN
  BY <1>1
<1> QED BY <1>0, <1>1, <1>5, <1>6, <1>7 DEF IInv, TypeOK, Good

LEMMA DestroyStep ==
  ASSUME IInv, Destroy
  PROVE  IInv'
<1>0. /\ TypeOK /\ Good(run, tile, destroyed, value)
      /\ run' = AbortOptions(AbortTiles(Tiles)) /\ tile' = Supersede(Tiles, None)
      /\ destroyed' = TRUE /\ optionsGen' = None /\ optionsController' = None
      /\ UNCHANGED <<open, value, running>>
  BY DEF IInv, Destroy
<1>1. /\ AbortTiles(Tiles) \in [Runs -> Run]
      /\ \A s \in Runs : AbortTiles(Tiles)[s] = Aborts(run[s], s, tile, Tiles)
  BY <1>0, AbortTilesDoes
<1>2. tile' \in [Tiles -> Tile]
  <2>1. Tiles \in SUBSET Tiles /\ None \in Runs \cup {None}
    OBVIOUS
  <2> QED BY <1>0, <2>1, SupersedeDoes
<1>3. ASSUME NEW s \in Runs
      PROVE  /\ run'[s] \in Run /\ WaveOK(run'[s])
             /\ \A t \in run'[s].sent : t \in run'[s].aborted
  <2> DEFINE w == AbortTiles(Tiles)[s]
  <2>1. run[s] \in Run /\ WaveOK(run[s])
    BY <1>0 DEF TypeOK, Good, WavesOK
  <2>2. /\ w \in Run
        /\ w.sent = run[s].sent /\ w.phase = run[s].phase /\ w.options = run[s].options
        /\ w.kind = run[s].kind /\ w.reconciled = run[s].reconciled
        /\ run[s].aborted \subseteq w.aborted
        /\ \A t \in Tiles \cap run[s].sent : tile[t].controller = s => t \in w.aborted
        /\ run[s] = IdleRun => w = IdleRun
    BY <1>1, <2>1, IdleAborts, AbortsDoes
  <2>3. WaveOK(w)
    BY <2>1, <2>2 DEF WaveOK
  <2>4. \A t \in w.sent : t \in w.aborted
    BY <1>0, <2>1, <2>2 DEF Good, QueriesOK, Run
  <2>5. run'[s] = w \/ (w.options = "asked" /\ run'[s] = [w EXCEPT !.options = "aborted"])
    BY <1>0 DEF AbortOptions
  <2> HIDE DEF w
  <2>6. CASE run'[s] = w
    BY <2>2, <2>3, <2>4, <2>6
  <2>7. CASE w.options = "asked" /\ run'[s] = [w EXCEPT !.options = "aborted"]
    <3>1. /\ run'[s] \in Run /\ run'[s].options = "aborted"
          /\ run'[s].sent = w.sent /\ run'[s].aborted = w.aborted /\ run'[s].phase = w.phase
          /\ run'[s].kind = w.kind /\ run'[s].reconciled = w.reconciled
      BY <2>2, <2>7 DEF Run
    <3>2. w.phase # "idle" /\ w.phase # "preflight" /\ w.kind = "refresh" /\ w.reconciled = {}
      BY <2>3, <2>7 DEF WaveOK, IdleRun
    <3> QED BY <2>4, <3>1, <3>2 DEF WaveOK
  <2> QED BY <2>5, <2>6, <2>7
<1>4. run' \in [Runs -> Run]
  BY <1>0, <1>3 DEF AbortOptions
<1>5. Good(run', tile', TRUE, value)
  BY <1>2, <1>3, <1>4 DEF Good, WavesOK, QueriesOK, ValuesOK, LoadingOK, Holds
<1>6. RunningOK(run', destroyed', running')
  BY <1>0 DEF RunningOK
<1> QED BY <1>0, <1>2, <1>4, <1>5, <1>6 DEF IInv, TypeOK

\* What CloseScope and CutOff leave: no wave is live, every query is aborted.
LEMMA CutOffStep ==
  ASSUME IInv, NEW r \in Runs,
         CloseScope,
         run' = CutOff \/ run' = [CutOff EXCEPT ![r] = IdleRun]
  PROVE  IInv'
<1>0. /\ TypeOK /\ Good(run, tile, destroyed, value)
      /\ open' = FALSE /\ UNCHANGED <<destroyed, value>>
  BY DEF IInv, CloseScope
<1>1. /\ AbortTiles(Tiles) \in [Runs -> Run]
      /\ \A s \in Runs : AbortTiles(Tiles)[s] = Aborts(run[s], s, tile, Tiles)
  BY <1>0, AbortTilesDoes
<1>2. ASSUME NEW s \in Runs
      PROVE  /\ CutOff[s] \in Run /\ WaveOK(CutOff[s]) /\ ~CutOff[s].live
             /\ \A t \in CutOff[s].sent : t \in CutOff[s].aborted
  <2> DEFINE w == AbortTiles(Tiles)[s]
  <2>1. run[s] \in Run /\ WaveOK(run[s])
    BY <1>0 DEF TypeOK, Good, WavesOK
  <2>2. /\ w \in Run
        /\ w.sent = run[s].sent /\ w.phase = run[s].phase /\ w.options = run[s].options
        /\ w.kind = run[s].kind /\ w.reconciled = run[s].reconciled
        /\ run[s] = IdleRun => w = IdleRun
    BY <1>1, <2>1, IdleAborts, AbortsDoes
  <2>3. PICK o \in {w.options, "aborted"} :
          /\ CutOff[s] = [w EXCEPT !.live = FALSE, !.aborted = @ \cup run[s].sent,
                                   !.options = o]
          /\ w.options = "none" => o = "none"
          /\ w.options = "done" => o = "done"
    BY DEF CutOff
  <2> HIDE DEF w
  <2>4. /\ CutOff[s] \in Run /\ CutOff[s].live = FALSE
        /\ CutOff[s].sent = w.sent /\ CutOff[s].aborted = w.aborted \cup w.sent
        /\ CutOff[s].phase = w.phase /\ CutOff[s].kind = w.kind
        /\ CutOff[s].options = o /\ CutOff[s].reconciled = w.reconciled
    <3>1. o \in {"none", "asked", "aborted", "done"}
      BY <2>2, <2>3 DEF Run
    <3>2. w.aborted \cup run[s].sent \in SUBSET Tiles
      BY <2>1, <2>2 DEF Run
    <3> QED BY <2>1, <2>2, <2>3, <3>1, <3>2 DEF Run
  <2>5. CutOff[s].phase = "idle" => CutOff[s] = IdleRun
    <3> SUFFICES ASSUME CutOff[s].phase = "idle"
                 PROVE  CutOff[s] = IdleRun
      OBVIOUS
    <3>1. w = IdleRun /\ run[s] = IdleRun
      BY <2>1, <2>2, <2>4 DEF WaveOK
    <3>2. run[s].sent = {} /\ o = "none"
      BY <2>3, <3>1 DEF IdleRun
    <3>3. CutOff[s] = [IdleRun EXCEPT !.live = FALSE, !.aborted = @ \cup {}, !.options = "none"]
      BY <2>3, <3>1, <3>2
    <3> QED BY <3>3 DEF IdleRun
  <2>6. WaveOK(CutOff[s])
    BY <2>1, <2>2, <2>3, <2>4, <2>5 DEF WaveOK
  <2> QED BY <2>4, <2>6
<1>3. CutOff = [s \in Runs |-> CutOff[s]]
  BY DEF CutOff
<1>4. /\ run' \in [Runs -> Run]
      /\ \A s \in Runs : /\ WaveOK(run'[s]) /\ ~run'[s].live
                         /\ \A t \in run'[s].sent : t \in run'[s].aborted
  <2>1. IdleRun.live = FALSE /\ IdleRun.sent = {}
    BY DEF IdleRun
  <2> QED BY <1>2, <1>3, <2>1, IdleType, IdleOK
<1>5. /\ tile' \in [Tiles -> Tile]
      /\ \A t \in Tiles : tile'[t].status # "loading" \/ destroyed
      /\ running' \in BOOLEAN
      /\ running' = FALSE \/ destroyed
      /\ optionsGen' \in Runs \cup {None} /\ optionsController' \in Runs \cup {None}
  <2>1. CASE \E s \in Runs : run[s].live
    <3>1. \A t \in Tiles : SettledTile(t) \in Tile /\ SettledTile(t).status # "loading"
      BY <1>0 DEF TypeOK, SettledTile, Tile
    <3> QED BY <2>1, <3>1 DEF CloseScope
  <2>2. CASE ~\E s \in Runs : run[s].live
    <3>1. UNCHANGED <<tile, optionsGen, optionsController, running>>
      BY <2>2 DEF CloseScope
    <3>2. \A t \in Tiles : tile[t].status # "loading" \/ destroyed
      BY <1>0, <2>2 DEF Good, LoadingOK, Holds
    <3>3. running = FALSE \/ destroyed
      BY <2>2 DEF IInv, RunningOK, TypeOK
    <3> QED BY <1>0, <3>1, <3>2, <3>3 DEF TypeOK
  <2> QED BY <2>1, <2>2
<1>6. Good(run', tile', destroyed, value)
  BY <1>4, <1>5 DEF Good, WavesOK, QueriesOK, ValuesOK, LoadingOK, Holds
<1>7. RunningOK(run', destroyed', running')
  BY <1>0, <1>5 DEF RunningOK
<1> QED BY <1>0, <1>4, <1>5, <1>6, <1>7 DEF IInv, TypeOK

LEMMA ScopeStep ==
  ASSUME IInv, ScopeLost \/ ScopeResumes \/ \E r \in Runs : PreflightFails(r)
  PROVE  IInv'
<1>1. CASE ScopeResumes
  BY <1>1 DEF ScopeResumes, IInv, TypeOK
<1>2. ASSUME NEW r \in Runs, PreflightFails(r)
      PROVE  IInv'
  BY <1>2, CutOffStep DEF PreflightFails
<1>3. CASE ScopeLost
  <2>1. CASE Runs = {}
    <3>1. /\ open' = FALSE /\ run' = CutOff
          /\ UNCHANGED <<destroyed, value, tile, optionsGen, optionsController, running>>
      BY <1>3, <2>1 DEF ScopeLost, CloseScope
    <3>2. run' = run
      BY <2>1, <3>1 DEF CutOff, IInv, TypeOK
    <3> QED BY <3>1, <3>2 DEF IInv, TypeOK
  <2>2. ASSUME NEW r \in Runs
        PROVE  IInv'
    BY <1>3, CutOffStep DEF ScopeLost
  <2> QED BY <2>1, <2>2
<1> QED BY <1>1, <1>2, <1>3

\* A wave takes its batch up: its workers run from a state that keeps the invariant.
LEMMA PreflightSucceedsStep ==
  ASSUME IInv, NEW r \in Runs, PreflightSucceeds(r)
  PROVE  IInv'
<1> DEFINE queue == run[r].queue
           begun == [run[r] EXCEPT !.phase = "wave", !.used = value]
           asking == [begun EXCEPT !.options = "asked"]
<1>0. /\ TypeOK /\ Good(run, tile, destroyed, value)
      /\ run[r] \in Run /\ WaveOK(run[r]) /\ queue \in SUBSET Tiles
      /\ run[r].phase = "preflight" /\ IsCurrent(r)
      /\ UNCHANGED <<open, destroyed, value>>
  BY DEF IInv, Good, WavesOK, Run, PreflightSucceeds
<1>1. /\ run[r].sent = {} /\ run[r].options = "none" /\ run[r].reconciled = {}
      /\ Detached(run[r]) /\ run[r].live /\ ~destroyed
  BY <1>0 DEF WaveOK, Detached, IsCurrent
<1>2. ASSUME NEW n, n = begun \/ (n = asking /\ run[r].kind = "refresh")
      PROVE  /\ n \in Run /\ WaveOK(n) /\ n.sent = {} /\ n.live /\ n.phase = "wave"
             /\ n.queue = queue /\ n.used = value /\ n.kind = run[r].kind
             /\ n.reconciled = {}
  <2>1. /\ n \in Run /\ n.sent = {} /\ n.live /\ n.phase = "wave"
        /\ n.queue = queue /\ n.used = value /\ n.kind = run[r].kind
        /\ n.reconciled = {} /\ (n.options # "none" => run[r].kind = "refresh")
    BY <1>0, <1>1, <1>2 DEF Run, TypeOK
  <2> QED BY <2>1 DEF WaveOK
<1> HIDE DEF begun, asking
\* The wave reserves its tiles now.
<1>3. ASSUME NEW n, n = begun \/ (n = asking /\ run[r].kind = "refresh"), NEW rejected,
             Workers(r, [AbortTiles(queue) EXCEPT ![r] = n], Supersede(queue, r), rejected)
      PROVE  /\ Good(run', tile', destroyed, value)
             /\ run'[r].live /\ run'[r].kind = run[r].kind /\ run'[r].phase = "wave"
             /\ \A s \in Runs \ {r} : /\ run'[s].live = run[s].live
                                      /\ run'[s].kind = run[s].kind
                                      /\ run'[s].phase = run[s].phase
  <2> DEFINE runs == [AbortTiles(queue) EXCEPT ![r] = n]
             tiles == Supersede(queue, r)
  <2>1. /\ runs \in [Runs -> Run] /\ runs[r] = n
        /\ \A s \in Runs \ {r} : runs[s] = Aborts(run[s], s, tile, queue)
    BY <1>0, <1>2, <1>3, AbortTilesDoes
  <2>2. /\ tiles \in [Tiles -> Tile]
        /\ \A t \in Tiles \ queue : tiles[t] = tile[t]
        /\ \A t \in queue : tiles[t].gen = r
    <3>1. r \in Runs \cup {None}
      OBVIOUS
    <3> QED BY <1>0, <3>1, SupersedeDoes
  <2>3. Workers(r, runs, tiles, rejected)
    BY <1>3
  <2>4. \A s \in Runs \ {r} : runs[s].live = run[s].live /\ runs[s].kind = run[s].kind
                                /\ runs[s].phase = run[s].phase
    BY <1>0, <2>1, AbortsDoes DEF TypeOK
  <2> HIDE DEF runs, tiles
  <2>5. Overtaken(run, tile, destroyed, value, queue, r, runs, tiles, value)
    BY <1>1, <1>2, <1>3, <2>1, <2>2 DEF Overtaken
  <2>6. Good(runs, tiles, destroyed, value)
    BY <1>0, <2>5, Superseded
  <2>7. n.live /\ n.phase = "wave" /\ n.kind = run[r].kind
    BY <1>2, <1>3
  <2>8. runs[r].live = run[r].live /\ runs[r].phase = "wave" /\ runs[r].kind = run[r].kind
    BY <1>0, <1>1, <2>1, <2>7
  <2>9. /\ Good(run', tile', destroyed, value)
        /\ \A s \in Runs : /\ run'[s].live = runs[s].live /\ run'[s].kind = runs[s].kind
                           /\ run'[s].phase = runs[s].phase
    BY <2>3, <2>6, <2>8, WorkersKeep
  <2> QED BY <1>1, <2>4, <2>8, <2>9
\* The commit or the rerun has reserved them before.
<1>4. ASSUME NEW rejected, Workers(r, [run EXCEPT ![r] = begun], tile, rejected)
      PROVE  /\ Good(run', tile', destroyed, value)
             /\ run'[r].live /\ run'[r].kind = run[r].kind /\ run'[r].phase = "wave"
             /\ \A s \in Runs \ {r} : /\ run'[s].live = run[s].live
                                      /\ run'[s].kind = run[s].kind
                                      /\ run'[s].phase = run[s].phase
  <2> DEFINE runs == [run EXCEPT ![r] = begun]
  <2>1. /\ runs \in [Runs -> Run] /\ runs[r] = begun
        /\ \A s \in Runs \ {r} : runs[s] = run[s]
    BY <1>0, <1>2 DEF TypeOK
  <2>2. \A s \in Runs \ {r} : runs[s] = Aborts(run[s], s, tile, {})
    BY <1>0, <2>1, NothingAborts DEF TypeOK
  <2>3. Workers(r, runs, tile, rejected)
    BY <1>4
  <2> HIDE DEF runs
  <2>4. Overtaken(run, tile, destroyed, value, {}, r, runs, tile, value)
    BY <1>0, <1>1, <1>2, <2>1, <2>2 DEF Overtaken, TypeOK
  <2>5. Good(runs, tile, destroyed, value)
    BY <1>0, <2>4, Superseded
  <2>6. runs[r].live = run[r].live /\ runs[r].phase = "wave" /\ runs[r].kind = run[r].kind
    BY <1>1, <1>2, <2>1
  <2>7. /\ Good(run', tile', destroyed, value)
        /\ \A s \in Runs : /\ run'[s].live = runs[s].live /\ run'[s].kind = runs[s].kind
                           /\ run'[s].phase = runs[s].phase
    BY <2>3, <2>5, <2>6, WorkersKeep
  <2> QED BY <1>1, <2>1, <2>6, <2>7
<1>5. /\ Good(run', tile', destroyed, value)
      /\ run'[r].live /\ run'[r].kind = run[r].kind /\ run'[r].phase = "wave"
      /\ \A s \in Runs \ {r} : /\ run'[s].live = run[s].live /\ run'[s].kind = run[s].kind
                               /\ run'[s].phase = run[s].phase
  <2>1. CASE run[r].kind = "refresh"
    <3>1. \E rejected \in SUBSET queue :
            Workers(r, [AbortTiles(queue) EXCEPT ![r] = asking], Supersede(queue, r), rejected)
      BY <2>1 DEF PreflightSucceeds, begun, asking
    <3> QED BY <1>3, <2>1, <3>1
  <2>2. CASE run[r].kind = "tile"
    <3>1. \E rejected \in SUBSET queue :
            Workers(r, [AbortTiles(queue) EXCEPT ![r] = begun], Supersede(queue, r), rejected)
      BY <2>2 DEF PreflightSucceeds, begun
    <3> QED BY <1>3, <3>1
  <2>3. CASE run[r].kind \notin {"refresh", "tile"}
    <3>1. \E rejected \in SUBSET queue :
            Workers(r, [run EXCEPT ![r] = begun], tile, rejected)
      BY <2>3 DEF PreflightSucceeds, begun
    <3> QED BY <1>4, <3>1
  <2> QED BY <2>1, <2>2, <2>3
<1>6. /\ running' \in BOOLEAN
      /\ optionsGen' \in Runs \cup {None} /\ optionsController' \in Runs \cup {None}
      /\ running' => running \/ run[r].kind = "refresh"
  BY <1>0 DEF PreflightSucceeds, TypeOK
<1>7. RunningOK(run', destroyed', running')
  <2>1. CASE run[r].kind = "refresh"
    BY <1>5, <2>1 DEF RunningOK
  <2>2. CASE run[r].kind # "refresh"
    <3>1. \A s \in Runs : Owner(run[s]) => Owner(run'[s])
      BY <1>5 DEF Owner
    <3> QED BY <1>0, <1>6, <2>2, <3>1, RunningStays
  <2> QED BY <2>1, <2>2
<1> QED BY <1>0, <1>5, <1>6, <1>7 DEF IInv, TypeOK, Good

LEMMA AnsweredDoes ==
  ASSUME NEW w \in Run, NEW t \in Tiles
  PROVE  LET n == [w EXCEPT !.sent = @ \ {t}, !.aborted = @ \ {t}]
         IN  /\ n \in Run /\ n.sent = w.sent \ {t} /\ n.aborted = w.aborted \ {t}
             /\ n.kind = w.kind /\ n.phase = w.phase /\ n.live = w.live
             /\ n.queue = w.queue /\ n.used = w.used /\ n.options = w.options
             /\ n.reconciled = w.reconciled
BY DEF Run

\* The answer to a query, accepted or not: the worker goes on with the next tile.
LEMMA AnswerStep ==
  ASSUME IInv, NEW r \in Runs, NEW t \in Tiles, TileAnswers(r, t) \/ TileAnswerIsStale(r, t)
  PROVE  IInv'
<1> DEFINE runs == [run EXCEPT ![r].sent = @ \ {t}, ![r].aborted = @ \ {t}]
<1>1. PICK tiles :
        /\ Answered(r, t, tiles)
        /\ \/ /\ ~Accepts(r, t) /\ tiles = tile
           \/ /\ Accepts(r, t)
              /\ \E ok \in BOOLEAN : tiles = [tile EXCEPT ![t] =
                   [@ EXCEPT !.controller = None, !.status = IF ok THEN "ready" ELSE "error",
                             !.hasRows = @ \/ ok]]
  BY DEF TileAnswers, TileAnswerIsStale
<1>2. /\ TypeOK /\ Good(run, tile, destroyed, value)
      /\ run[r] \in Run /\ tile[t] \in Tile /\ WaveOK(run[r]) /\ t \in run[r].sent
      /\ \E rejected : Workers(r, runs, tiles, rejected)
      /\ UNCHANGED <<open, destroyed, value, optionsGen, optionsController, running>>
  BY <1>1 DEF IInv, TypeOK, Good, WavesOK, Answered
<1>3. run[r].phase = "wave"
  BY <1>2 DEF WaveOK, IdleRun, Run
<1>4. /\ runs \in [Runs -> Run]
      /\ \A s \in Runs \ {r} : runs[s] = run[s]
      /\ runs[r].sent = run[r].sent \ {t} /\ runs[r].aborted = run[r].aborted \ {t}
      /\ runs[r].kind = run[r].kind /\ runs[r].phase = run[r].phase
      /\ runs[r].live = run[r].live /\ runs[r].queue = run[r].queue
      /\ runs[r].used = run[r].used /\ runs[r].options = run[r].options
      /\ runs[r].reconciled = run[r].reconciled
  <2> DEFINE w == [run[r] EXCEPT !.sent = @ \ {t}, !.aborted = @ \ {t}]
  <2>1. /\ w \in Run /\ w.sent = run[r].sent \ {t} /\ w.aborted = run[r].aborted \ {t}
        /\ w.kind = run[r].kind /\ w.phase = run[r].phase /\ w.live = run[r].live
        /\ w.queue = run[r].queue /\ w.used = run[r].used /\ w.options = run[r].options
        /\ w.reconciled = run[r].reconciled
    BY <1>2, AnsweredDoes
  <2>2. runs = [run EXCEPT ![r] = w]
    BY <1>2 DEF TypeOK
  <2> HIDE DEF runs, w
  <2>3. run \in [Runs -> Run]
    BY <1>2 DEF TypeOK
  <2> QED BY <2>1, <2>2, <2>3
<1> HIDE DEF runs
<1>5. /\ tiles \in [Tiles -> Tile]
      /\ \A u \in Tiles \ {t} : tiles[u] = tile[u]
      /\ tiles[t].gen = tile[t].gen
      /\ Accepts(r, t) => tiles[t].status # "loading"
      /\ ~Accepts(r, t) => tiles = tile
  <2>1. CASE ~Accepts(r, t)
    BY <1>1, <1>2, <2>1 DEF TypeOK
  <2>2. CASE Accepts(r, t)
    <3>1. PICK st \in {"ready", "error"}, rows \in BOOLEAN :
            tiles = [tile EXCEPT ![t] = [tile[t] EXCEPT !.controller = None, !.status = st,
                                                        !.hasRows = rows]]
      BY <1>1, <1>2, <2>2 DEF Tile
    <3> DEFINE p == [tile[t] EXCEPT !.controller = None, !.status = st, !.hasRows = rows]
    <3>2. p \in Tile /\ p.gen = tile[t].gen /\ p.status = st
      BY <1>2 DEF Tile
    <3>3. tiles = [tile EXCEPT ![t] = p]
      BY <3>1
    <3> HIDE DEF p
    <3> QED BY <1>2, <2>2, <3>2, <3>3 DEF TypeOK
  <2> QED BY <2>1, <2>2
<1>6. \A s \in Runs, u \in Tiles :
        Holds(runs, tiles, destroyed, s, u) <=> Holds(run, tile, destroyed, s, u)
  BY <1>4, <1>5 DEF Holds
<1>7. Accepts(r, t) <=> Holds(run, tile, destroyed, r, t)
  BY DEF Accepts, Holds, IsCurrent
<1>8. \A s \in Runs : run[s].sent \subseteq Tiles /\ run[s].queue \subseteq Tiles
  BY <1>2 DEF TypeOK, Run
<1>9. WavesOK(runs)
  <2>1. WaveOK(runs[r])
    BY <1>2, <1>3, <1>4 DEF WaveOK
  <2> QED BY <1>2, <1>4, <2>1 DEF Good, WavesOK
<1>10. QueriesOK(runs, tiles, destroyed)
  <2> SUFFICES ASSUME NEW s \in Runs, NEW u \in runs[s].sent
               PROVE  IF Holds(runs, tiles, destroyed, s, u) THEN tiles[u].controller = s
                                                             ELSE u \in runs[s].aborted
    BY DEF QueriesOK
  <2>1. /\ u \in run[s].sent /\ u \in Tiles /\ (s = r => u # t)
        /\ u \in run[s].aborted => u \in runs[s].aborted
    BY <1>4, <1>8
  <2>2. IF Holds(run, tile, destroyed, s, u) THEN tile[u].controller = s
                                             ELSE u \in run[s].aborted
    BY <1>2, <2>1 DEF Good, QueriesOK
  <2>3. Holds(run, tile, destroyed, s, u) => tiles[u].controller = tile[u].controller
    BY <1>5, <1>7, <2>1 DEF Holds
  <2> QED BY <1>6, <2>1, <2>2, <2>3
<1>11. ValuesOK(runs, tiles, destroyed, value)
  <2>1. \A v : ShortenedIn(runs, destroyed, v) <=> ShortenedIn(run, destroyed, v)
    BY <1>4 DEF ShortenedIn
  <2>2. \A s \in Runs : /\ runs[s].queue \cup runs[s].sent \subseteq run[s].queue \cup run[s].sent
                        /\ runs[s].phase = run[s].phase /\ runs[s].used = run[s].used
    BY <1>4
  <2> QED BY <1>2, <1>6, <1>8, <2>1, <2>2 DEF Good, ValuesOK
<1>12. LoadingOK(runs, tiles, destroyed)
  <2> SUFFICES ASSUME NEW u \in Tiles, tiles[u].status = "loading", ~destroyed
               PROVE  \E s \in Runs : /\ Holds(runs, tiles, destroyed, s, u)
                                      /\ runs[s].phase = "wave"
                                      /\ u \in runs[s].queue \cup runs[s].sent
    BY DEF LoadingOK
  <2>1. tile[u].status = "loading" /\ (u = t => ~Accepts(r, t))
    BY <1>5
  <2>2. PICK s \in Runs : /\ Holds(run, tile, destroyed, s, u)
                          /\ run[s].phase = "wave"
                          /\ u \in run[s].queue \cup run[s].sent
    BY <1>2, <2>1 DEF Good, LoadingOK
  <2> QED BY <1>4, <1>6, <1>7, <2>1, <2>2
<1>13. Good(runs, tiles, destroyed, value)
  BY <1>4, <1>5, <1>9, <1>10, <1>11, <1>12 DEF Good
<1>14. /\ Good(run', tile', destroyed, value)
       /\ \A s \in Runs : /\ run'[s].live = run[s].live /\ run'[s].kind = run[s].kind
                          /\ run'[s].phase = run[s].phase
  <2>1. runs[r].live = run[r].live /\ runs[r].phase = "wave"
    BY <1>3, <1>4
  <2>2. /\ Good(run', tile', destroyed, value)
        /\ \A s \in Runs : /\ run'[s].live = runs[s].live /\ run'[s].kind = runs[s].kind
                           /\ run'[s].phase = runs[s].phase
    BY <1>2, <1>13, <2>1, WorkersKeep
  <2> QED BY <1>4, <2>2
<1>15. RunningOK(run', destroyed', running')
  BY <1>2, <1>14, RunningStays DEF Owner
<1> QED BY <1>2, <1>14, <1>15 DEF IInv, TypeOK, Good

LEMMA OptionsDone ==
  ASSUME NEW w \in Run, NEW S \in SUBSET Variables
  PROVE  LET n == [w EXCEPT !.options = "done", !.reconciled = S]
         IN  /\ n \in Run /\ n.options = "done" /\ n.reconciled = S
             /\ n.kind = w.kind /\ n.phase = w.phase /\ n.live = w.live
             /\ n.queue = w.queue /\ n.sent = w.sent /\ n.aborted = w.aborted
             /\ n.used = w.used
BY DEF Run

\* The option request of a refresh ends: val is what the selections become, shortened in S.
Shortens(r, S, val) ==
    /\ run[r].options \in {"asked", "aborted"}
    /\ \A v \in Variables \ S : val[v] = value[v]
    /\ S # {} => IsCurrent(r)

LEMMA OptionsEnd ==
  ASSUME IInv, NEW r \in Runs, NEW S \in SUBSET Variables, NEW val,
         Shortens(r, S, val),
         run' = [run EXCEPT ![r] = [@ EXCEPT !.options = "done", !.reconciled = S]],
         tile' = tile
  PROVE  /\ Good(run', tile', destroyed, val)
         /\ \A s \in Runs : /\ run'[s].live = run[s].live /\ run'[s].kind = run[s].kind
                            /\ run'[s].phase = run[s].phase
<1> DEFINE n == [run[r] EXCEPT !.options = "done", !.reconciled = S]
<1>1. /\ run \in [Runs -> Run] /\ run[r] \in Run /\ WaveOK(run[r])
      /\ Good(run, tile, destroyed, value)
      /\ \A t \in Tiles : Reads[t] \subseteq Variables
      /\ run' = [run EXCEPT ![r] = n]
  BY ViewerAssumption DEF IInv, TypeOK, Good, WavesOK
<1>2. /\ n \in Run /\ n.options = "done" /\ n.reconciled = S
      /\ n.kind = run[r].kind /\ n.phase = run[r].phase /\ n.live = run[r].live
      /\ n.queue = run[r].queue /\ n.sent = run[r].sent /\ n.aborted = run[r].aborted
      /\ n.used = run[r].used
  BY <1>1, OptionsDone
<1> HIDE DEF n
<1>3. /\ run[r].kind = "refresh" /\ run[r].phase \notin {"idle", "preflight"}
      /\ run[r].reconciled = {}
  BY <1>1 DEF WaveOK, IdleRun, Shortens
<1>4. /\ run' \in [Runs -> Run] /\ run'[r] = n
      /\ \A s \in Runs \ {r} : run'[s] = run[s]
  BY <1>1, <1>2
<1>5. \A s \in Runs : /\ run'[s].live = run[s].live /\ run'[s].kind = run[s].kind
                      /\ run'[s].phase = run[s].phase /\ run'[s].queue = run[s].queue
                      /\ run'[s].sent = run[s].sent /\ run'[s].aborted = run[s].aborted
                      /\ run'[s].used = run[s].used
                      /\ run'[s].sent \subseteq Tiles /\ run'[s].queue \subseteq Tiles
  <2>1. \A s \in Runs : run'[s] \in Run
    BY <1>4
  <2>2. \A s \in Runs : run'[s].sent \subseteq Tiles /\ run'[s].queue \subseteq Tiles
    BY <2>1 DEF Run
  <2> QED BY <1>2, <1>4, <2>2
<1>6. \A s \in Runs, t \in Tiles :
        Holds(run', tile', destroyed, s, t) <=> Holds(run, tile, destroyed, s, t)
  BY <1>5 DEF Holds
<1>7. WavesOK(run')
  <2>1. WaveOK(run'[r])
    BY <1>2, <1>3, <1>4 DEF WaveOK
  <2> QED BY <1>1, <1>4, <2>1 DEF Good, WavesOK
<1>8. QueriesOK(run', tile', destroyed)
  BY <1>1, <1>5, <1>6 DEF Good, QueriesOK
<1>9. ValuesOK(run', tile', destroyed, val)
  <2> SUFFICES ASSUME NEW s \in Runs, run'[s].phase = "wave",
                      NEW t \in run'[s].queue \cup run'[s].sent,
                      Holds(run', tile', destroyed, s, t), NEW v \in Reads[t]
               PROVE  run'[s].used[v] = val[v] \/ ShortenedIn(run', destroyed, v)
    BY DEF ValuesOK
  <2>1. t \in Tiles /\ v \in Variables
    BY <1>1, <1>5
  <2>2. run[s].used[v] = value[v] \/ ShortenedIn(run, destroyed, v)
    BY <1>1, <1>5, <1>6, <2>1 DEF Good, ValuesOK
  <2>3. v \in S => ShortenedIn(run', destroyed, v)
    BY <1>2, <1>4 DEF ShortenedIn, IsCurrent, Shortens
  <2>4. ShortenedIn(run, destroyed, v) => ShortenedIn(run', destroyed, v)
    BY <1>3, <1>4 DEF ShortenedIn
  <2> QED BY <1>5, <2>1, <2>2, <2>3, <2>4 DEF Shortens
<1>10. LoadingOK(run', tile', destroyed)
  BY <1>1, <1>5, <1>6 DEF Good, LoadingOK
<1> QED BY <1>1, <1>4, <1>5, <1>7, <1>8, <1>9, <1>10 DEF Good

LEMMA OptionsAnswerStep ==
  ASSUME IInv, NEW r \in Runs, NEW listed \in Values, OptionsAnswer(r, listed)
  PROVE  IInv'
<1> DEFINE kept == [v \in Variables |-> value[v] \cap listed[v]]
           S == {v \in Variables : kept[v] # value[v]}
<1>1. /\ TypeOK /\ run[r].options \in {"asked", "aborted"} /\ IsCurrent(r)
      /\ value' = kept
      /\ optionsController' \in {None, optionsController}
      /\ UNCHANGED <<open, destroyed, tile, optionsGen, running>>
  BY DEF IInv, OptionsAnswer
<1>2. run' = [run EXCEPT ![r] = [@ EXCEPT !.options = "done", !.reconciled = S]]
  BY <1>1 DEF OptionsAnswer, TypeOK, Run
<1>3. kept \in Values
  BY <1>1 DEF TypeOK, Values
<1>4. S \in SUBSET Variables /\ \A v \in Variables \ S : kept[v] = value[v]
  OBVIOUS
<1> HIDE DEF kept, S
<1>5. Shortens(r, S, kept)
  BY <1>1, <1>4 DEF Shortens
<1>6. /\ Good(run', tile', destroyed, kept)
      /\ \A s \in Runs : /\ run'[s].live = run[s].live /\ run'[s].kind = run[s].kind
                         /\ run'[s].phase = run[s].phase
  BY <1>1, <1>2, <1>4, <1>5, OptionsEnd
<1>7. RunningOK(run', destroyed', running')
  BY <1>1, <1>6, RunningStays DEF Owner
<1> QED BY <1>1, <1>3, <1>6, <1>7 DEF IInv, TypeOK, Good

LEMMA OptionsFailStep ==
  ASSUME IInv, NEW r \in Runs, OptionsFail(r)
  PROVE  IInv'
<1>1. /\ TypeOK /\ Good(run, tile, destroyed, value)
      /\ run[r] \in Run /\ WaveOK(run[r])
      /\ run[r].options \in {"asked", "aborted"}
      /\ optionsController' \in {None, optionsController}
      /\ UNCHANGED <<open, destroyed, value, tile, optionsGen, running>>
  BY DEF IInv, TypeOK, Good, WavesOK, OptionsFail
<1>2. run[r].reconciled = {}
  BY <1>1 DEF WaveOK
<1>3. run' = [run EXCEPT ![r] = [@ EXCEPT !.options = "done", !.reconciled = {}]]
  <2>1. [run[r] EXCEPT !.options = "done"]
          = [run[r] EXCEPT !.options = "done", !.reconciled = {}]
    BY <1>1, <1>2 DEF Run
  <2> QED BY <1>1, <2>1 DEF OptionsFail
<1>4. /\ Good(run', tile', destroyed, value)
      /\ \A s \in Runs : /\ run'[s].live = run[s].live /\ run'[s].kind = run[s].kind
                         /\ run'[s].phase = run[s].phase
  <2>1. {} \in SUBSET Variables /\ Shortens(r, {}, value)
    BY <1>1 DEF Shortens
  <2> QED BY <1>1, <1>3, <2>1, OptionsEnd
<1>5. RunningOK(run', destroyed', running')
  BY <1>1, <1>4, RunningStays DEF Owner
<1> QED BY <1>1, <1>4, <1>5 DEF IInv, TypeOK, Good

-----------------------------------------------------------------------------
(* The invariant and what follows from it *)

LEMMA InitInv == Init => IInv
<1> SUFFICES ASSUME Init
             PROVE  IInv
  OBVIOUS
<1>1. TypeOK
  BY IdleType DEF Init, TypeOK, Tile
<1>2. \A r \in Runs : run[r] = IdleRun
  BY DEF Init
<1>3. IdleRun.sent = {} /\ IdleRun.phase = "idle"
  BY DEF IdleRun
<1>4. \A t \in Tiles : tile[t].status # "loading"
  BY DEF Init
<1>5. Good(run, tile, destroyed, value)
  BY <1>1, <1>2, <1>3, <1>4, IdleOK
     DEF Good, WavesOK, QueriesOK, ValuesOK, LoadingOK, TypeOK
<1>6. RunningOK(run, destroyed, running)
  BY DEF Init, RunningOK
<1> QED BY <1>1, <1>5, <1>6 DEF IInv

LEMMA ResultStep ==
  ASSUME IInv, NEW r \in Runs, Result(r)
  PROVE  IInv'
<1>1. CASE PreflightSucceeds(r)
  BY <1>1, PreflightSucceedsStep
<1>2. CASE PreflightFails(r)
  BY <1>2, ScopeStep
<1>3. CASE PreflightIsMoot(r)
  BY <1>3, EndStep
<1>4. ASSUME NEW t \in Tiles, TileAnswers(r, t) \/ TileAnswerIsStale(r, t)
      PROVE  IInv'
  BY <1>4, AnswerStep
<1>5. ASSUME NEW listed \in Values, OptionsAnswer(r, listed)
      PROVE  IInv'
  BY <1>5, OptionsAnswerStep
<1>6. CASE OptionsFail(r)
  BY <1>6, OptionsFailStep
<1> QED BY <1>1, <1>2, <1>3, <1>4, <1>5, <1>6 DEF Result

LEMMA NextInv == IInv /\ [Next]_vars => IInv'
<1> SUFFICES ASSUME IInv, [Next]_vars
             PROVE  IInv'
  OBVIOUS
<1>1. ASSUME NEW r \in Runs, RefreshSettles(r)
      PROVE  IInv'
  BY <1>1, EndStep, RefreshSettlesStep
<1>2. ASSUME NEW r \in Runs, WaveSettles(r)
      PROVE  IInv'
  BY <1>2, EndStep
<1>3. ASSUME NEW r \in Runs, Refresh(r) \/ \E t \in Tiles : RefreshTile(r, t)
      PROVE  IInv'
  BY <1>3, StartStep
<1>4. ASSUME NEW r \in Runs, NEW new \in Values, NEW changed \in SUBSET Variables,
             Commit(r, new, changed)
      PROVE  IInv'
  BY <1>4, CommitStep
<1>5. ASSUME NEW r \in Runs, Result(r)
      PROVE  IInv'
  BY <1>5, ResultStep
<1>6. ASSUME NEW t \in Tiles, CancelTile(t)
      PROVE  IInv'
  BY <1>6, CancelTileStep
<1>7. CASE Destroy
  BY <1>7, DestroyStep
<1>8. CASE ScopeLost \/ ScopeResumes
  BY <1>8, ScopeStep
<1>9. CASE UNCHANGED vars
  BY <1>9 DEF vars, IInv, TypeOK
<1> QED BY <1>1, <1>2, <1>3, <1>4, <1>5, <1>6, <1>7, <1>8, <1>9 DEF Next, Event

LEMMA Invariance == Spec => []IInv
BY InitInv, NextInv, PTL DEF Spec

\* Every variable keeps its type, whatever the handlers of
\* dashboard-viewer-session.ts are called with and in whatever order they run.
THEOREM ViewerTypes == Spec => []TypeOK
<1>1. IInv => TypeOK
  BY DEF IInv
<1> QED BY <1>1, Invariance, PTL

\* No panel is filled from an older value of its variables: a commit supersedes the tiles that
\* read them before it asks for a token (commitVariables), a refresh when it prepares its
\* batch, and an answer whose generation has moved on is dropped.
THEOREM PanelsMatchTheirVariables == Spec => []AnswersMatchValues
<1>1. ASSUME IInv
      PROVE  AnswersMatchValues
  <2> SUFFICES ASSUME NEW r \in Runs, NEW t \in run[r].sent, Accepts(r, t), NEW v \in Reads[t]
               PROVE  run[r].used[v] = value[v] \/ Shortened(v)
    BY DEF AnswersMatchValues
  <2>1. Good(run, tile, destroyed, value) /\ run[r] \in Run /\ WaveOK(run[r])
    BY <1>1 DEF IInv, TypeOK, Good, WavesOK
  <2>2. Holds(run, tile, destroyed, r, t)
    BY DEF Accepts, IsCurrent, Holds
  <2>3. run[r].phase = "wave"
    BY <2>1 DEF WaveOK, IdleRun, Run
  <2>4. run[r].used[v] = value[v] \/ ShortenedIn(run, destroyed, v)
    BY <2>1, <2>2, <2>3 DEF Good, ValuesOK
  <2> QED BY <2>4 DEF ShortenedIn, Shortened, IsCurrent
<1> QED BY <1>1, Invariance, PTL

\* Losing the scope, a failed token, a cancel, a teardown or a wave that was overtaken leave
\* neither a panel nor the refresh control turning (settleAuthenticatedWork, cancelTile and
\* the ends of a wave).
THEOREM SpinnersStop == Spec => []SpinnersAreOwned
<1>1. IInv => LoadingIsOwned
  BY DEF IInv, Good, LoadingOK, LoadingIsOwned, Holds, IsCurrent
<1>2. IInv => RunningIsOwned
  BY DEF IInv, RunningOK, RunningIsOwned, IsCurrent
<1> QED BY <1>1, <1>2, Invariance, PTL DEF SpinnersAreOwned

\* Each query under way either counts or has been aborted through the controller of its tile
\* (abortTile, settleAuthenticatedWork and destroy).
THEOREM QueriesAreNotOrphaned == Spec => []NoOrphanQueries
<1>1. IInv => NoOrphanQueries
  BY DEF IInv, Good, QueriesOK, NoOrphanQueries, Accepts, IsCurrent, Holds
<1> QED BY <1>1, Invariance, PTL
=============================================================================
