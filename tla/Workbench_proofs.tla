-------------------------- MODULE Workbench_proofs --------------------------
(***************************************************************************)
(* The safety of Workbench for any tabs, waves, graphs and programs.       *)
(***************************************************************************)
EXTENDS Workbench, TLAPS

-----------------------------------------------------------------------------
(* The inductive invariant *)

Started == {"preflight", "request", "sleep"}

Final == {"ok", "error", "cancelled"}

\* What the record of one wave keeps to itself.
Fresh(r) ==
  r.pc \in {"idle", "preflight"} =>
    /\ r.acked = 0
    /\ r.status = "none"
    /\ \A i \in 1..MaxStatements : r.ran[i] = 0

HasProgram(r) ==
  r.pc \in Started =>
    /\ r.prog \in Programs
    /\ r.kind = "script" <=> Len(r.prog) > 1
    /\ r.pc = "preflight" /\ r.kind # "script" => r.tab \in Tabs

\* The statements before the latest attempt have succeeded, those after it are untouched,
\* and its own has not been run by an earlier attempt unless it only reads.
Position(r) ==
  r.pc \in {"request", "sleep"} =>
    /\ r.at.stmt \in 1..Len(r.prog)
    /\ r.at.attempt \in 1..2
    /\ r.pc = "sleep" => r.at.attempt = 1
    /\ r.acked = r.at.stmt - 1
    /\ \A i \in 1..MaxStatements :
         /\ i < r.at.stmt => r.ran[i] >= 1
         /\ i > r.at.stmt => r.ran[i] = 0
    /\ r.ran[r.at.stmt] > 0 => RowReturning(r.prog[r.at.stmt])

Once(r) == \A i \in 1..Len(r.prog) : r.ran[i] > 1 => RowReturning(r.prog[i])

Published(r) == r.pc = "request" /\ r.live => r.query = r.at

Ended(r) ==
  /\ r.pc \in {"idle", "done"} => ~r.live
  /\ r.status \in Final => r.pc = "done"

RecordOK(r) ==
  /\ Fresh(r) /\ HasProgram(r) /\ Position(r)
  /\ Once(r) /\ Published(r) /\ Ended(r)

Complete(r) ==
  /\ r.acked = Len(r.prog)
  /\ \A i \in 1..Len(r.prog) : r.ran[i] >= 1

Records == \A w \in Waves : RecordOK(wave[w])

HistoryInv == \A w \in history : wave[w].pc = "done" /\ Complete(wave[w])

Reloaded(r) ==
  r.kind # "option" /\ r.status \in Final => \A i \in 1..r.acked : ~SchemaMutating(r.prog[i])

ReloadInv == \A w \in Waves : w \in reloads \/ Reloaded(wave[w])

GraphInv ==
  /\ \A s \in Shows : show[s].pc \in {"idle", "preflight"} =>
       show[s].graph = "none" /\ show[s].tab = NoTab
  /\ \A t \in Tabs, s \in Shows : result[t] = s => show[s].tab = t
  /\ OneLoadAtATime

IInv ==
  /\ TypeOK
  /\ Records
  /\ OneRunAtATime
  /\ HistoryInv
  /\ ReloadInv
  /\ AbandonedIsKilled
  /\ GraphInv

-----------------------------------------------------------------------------
(* Records *)

LEMMA Lengths ==
  ASSUME NEW p \in Programs \cup {<<>>}
  PROVE  /\ p \in Seq(Statement) /\ Len(p) \in Nat
         /\ Len(p) <= MaxStatements /\ MaxStatements \in Nat
         /\ p \in Programs => Len(p) > 0
<1>1. CASE p \in Programs
  BY <1>1, ProgramsAssumption
<1>2. CASE p = <<>>
  BY <1>2, ProgramsAssumption
<1> QED
  BY <1>1, <1>2

\* The record that Retire writes.
DoneRecord(r) == [r EXCEPT !.pc = "done", !.live = FALSE, !.query = NoQuery]

LEMMA DoneIsOK ==
  ASSUME NEW r \in Wave, Once(r)
  PROVE  /\ DoneRecord(r) \in Wave /\ RecordOK(DoneRecord(r))
         /\ DoneRecord(r).pc = "done"
         /\ DoneRecord(r).status = r.status /\ DoneRecord(r).kind = r.kind
         /\ DoneRecord(r).acked = r.acked /\ DoneRecord(r).prog = r.prog
         /\ DoneRecord(r).ran = r.ran
         /\ ~DoneRecord(r).live
<1> DEFINE d == DoneRecord(r)
<1>1. NoQuery \in Query
  BY DEF NoQuery, Query
<1>2. d \in Wave
  BY <1>1 DEF DoneRecord, Wave
<1>3. /\ d.pc = "done" /\ ~d.live /\ d.status = r.status /\ d.kind = r.kind
      /\ d.acked = r.acked /\ d.prog = r.prog /\ d.ran = r.ran
  BY DEF DoneRecord, Wave
<1> HIDE DEF d
<1>4. RecordOK(d)
  BY <1>3 DEF RecordOK, Fresh, HasProgram, Position, Once, Published, Ended, Started
<1> QED
  BY <1>2, <1>3, <1>4 DEF d

\* What stopping a wave does to its record.
StoppedRecord(r) == [r EXCEPT !.cancelled = TRUE, !.live = FALSE, !.query = NoQuery]

LEMMA StoppedIsOK ==
  ASSUME NEW r \in Wave, RecordOK(r)
  PROVE  /\ StoppedRecord(r) \in Wave /\ RecordOK(StoppedRecord(r))
         /\ StoppedRecord(r).pc = r.pc
         /\ StoppedRecord(r).status = r.status /\ StoppedRecord(r).kind = r.kind
         /\ StoppedRecord(r).acked = r.acked /\ StoppedRecord(r).prog = r.prog
         /\ ~StoppedRecord(r).live
<1> DEFINE d == StoppedRecord(r)
<1>1. NoQuery \in Query
  BY DEF NoQuery, Query
<1>2. d \in Wave
  BY <1>1 DEF StoppedRecord, Wave
<1>3. /\ d.pc = r.pc /\ ~d.live /\ d.status = r.status /\ d.kind = r.kind
      /\ d.acked = r.acked /\ d.prog = r.prog /\ d.ran = r.ran /\ d.at = r.at
      /\ d.tab = r.tab
  BY DEF StoppedRecord, Wave
<1> HIDE DEF d
<1>4. RecordOK(d)
  BY <1>3 DEF RecordOK, Fresh, HasProgram, Position, Once, Published, Ended
<1> QED
  BY <1>2, <1>3, <1>4 DEF d

\* A wave that has begun: the record of its first, or next, or second attempt.
LEMMA AttemptIsOK ==
  ASSUME NEW r \in Wave, NEW stmt \in 1..Len(r.prog), NEW attempt \in 1..2,
         r.prog \in Programs, r.kind = "script" <=> Len(r.prog) > 1,
         r.acked = stmt - 1, r.status \notin Final, Once(r),
         \A i \in 1..MaxStatements :
           (i < stmt => r.ran[i] >= 1) /\ (i > stmt => r.ran[i] = 0),
         r.ran[stmt] > 0 => RowReturning(r.prog[stmt])
  PROVE  /\ Attempt(r, stmt, attempt) \in Wave /\ RecordOK(Attempt(r, stmt, attempt))
         /\ Attempt(r, stmt, attempt).pc = "request"
         /\ Attempt(r, stmt, attempt).live = r.live
         /\ Attempt(r, stmt, attempt).status = r.status
<1> DEFINE a == Attempt(r, stmt, attempt)
           q == [stmt |-> stmt, attempt |-> attempt]
<1>1. stmt \in Nat
  BY Lengths DEF Wave
<1>2. q \in Query /\ q.stmt = stmt /\ q.attempt = attempt
  BY <1>1 DEF Query
<1>3. a = [r EXCEPT !.pc = "request", !.at = q, !.query = q, !.sent = ~r.cancelled]
  BY DEF Attempt
<1>4. (~r.cancelled) \in BOOLEAN
  BY Zenon
<1> HIDE DEF q
<1>5. a \in Wave
  BY <1>2, <1>3, <1>4 DEF Wave
<1>6. /\ a.pc = "request" /\ a.live = r.live /\ a.status = r.status /\ a.kind = r.kind
      /\ a.acked = r.acked /\ a.prog = r.prog /\ a.ran = r.ran /\ a.at = q /\ a.query = q
  BY <1>3 DEF Wave
<1> HIDE DEF a
<1>7. Position(a)
  BY <1>2, <1>6 DEF Position
<1>8. RecordOK(a)
  BY <1>6, <1>7 DEF RecordOK, Fresh, HasProgram, Once, Published, Ended, Started
<1> QED
  BY <1>5, <1>6, <1>8 DEF a

\* What a settled attempt has done to the statements.
LEMMA SettledIsOK ==
  ASSUME IInv, NEW w \in Waves, NEW outcome \in Outcome, NEW n \in 0..1,
         Settles(w, outcome, n)
  PROVE  LET r == Ran(w, n) IN
         /\ r \in Wave /\ Once(r)
         /\ \A i \in 1..MaxStatements :
              /\ i # wave[w].at.stmt => r.ran[i] = wave[w].ran[i]
              /\ i = wave[w].at.stmt => r.ran[i] = wave[w].ran[i] + n
         /\ r.pc = "request" /\ r.prog = wave[w].prog /\ r.kind = wave[w].kind
         /\ r.acked = wave[w].acked /\ r.at = wave[w].at /\ r.live = wave[w].live
         /\ r.status = wave[w].status /\ r.cancelled = wave[w].cancelled
         /\ wave[w].at.stmt \in 1..MaxStatements
<1> DEFINE k == wave[w].at.stmt
           r == Ran(w, n)
           f == [wave[w].ran EXCEPT ![k] = @ + n]
<1>1. /\ wave[w] \in Wave /\ RecordOK(wave[w]) /\ wave[w].pc = "request"
  BY DEF IInv, TypeOK, Records, Settles
<1>2. /\ wave[w].ran \in [1..MaxStatements -> Nat]
      /\ wave[w].prog \in Programs \cup {<<>>}
  BY <1>1 DEF Wave
<1>3. k \in 1..Len(wave[w].prog)
  BY <1>1 DEF RecordOK, Position
<1>4. k \in 1..MaxStatements /\ Len(wave[w].prog) <= MaxStatements /\ MaxStatements \in Nat
      /\ Len(wave[w].prog) \in Nat
  BY <1>2, <1>3, Lengths
<1>5. f \in [1..MaxStatements -> Nat]
  <2>1. wave[w].ran[k] + n \in Nat
    <3>1. wave[w].ran[k] \in Nat
      BY <1>2, <1>4
    <3>2. n \in Nat
      OBVIOUS
    <3> HIDE DEF k
    <3> QED
      BY <3>1, <3>2
  <2> QED
    BY <1>2, <2>1
<1>6. r = [wave[w] EXCEPT !.ran = f]
  BY DEF Ran
<1>7. \A i \in 1..MaxStatements : (i # k => f[i] = wave[w].ran[i])
                               /\ (i = k => f[i] = wave[w].ran[i] + n)
  BY <1>2, <1>4
<1> HIDE DEF f
<1>8. /\ r \in Wave /\ r.ran = f
      /\ r.pc = "request" /\ r.prog = wave[w].prog /\ r.kind = wave[w].kind
      /\ r.acked = wave[w].acked /\ r.at = wave[w].at /\ r.live = wave[w].live
      /\ r.status = wave[w].status /\ r.cancelled = wave[w].cancelled
  BY <1>1, <1>5, <1>6 DEF Wave
<1> HIDE DEF r
<1>9. Once(r)
  <2> SUFFICES ASSUME NEW i \in 1..Len(wave[w].prog), f[i] > 1
               PROVE  RowReturning(wave[w].prog[i])
    BY <1>8 DEF Once
  <2>1. i \in 1..MaxStatements
    BY <1>4
  <2>2. CASE i = k
    <3>1. wave[w].ran[k] > 0
      BY <1>2, <1>4, <1>7, <2>1, <2>2
    <3> QED
      BY <1>1, <2>2, <3>1 DEF RecordOK, Position
  <2>3. CASE i # k
    BY <1>1, <1>7, <2>1, <2>3 DEF RecordOK, Once
  <2> QED
    BY <2>2, <2>3
<1> QED
  BY <1>4, <1>7, <1>8, <1>9 DEF r

-----------------------------------------------------------------------------
(* Steps of one wave, on the records and the claim *)

\* The conjuncts of the invariant that only speak of the claim and the records.
ClaimInv ==
  /\ active \in Waves \cup {NoWave}
  /\ running \in BOOLEAN
  /\ wave \in [Waves -> Wave]
  /\ Records
  /\ OneRunAtATime

LEMMA RetireKeeps ==
  ASSUME IInv, NEW w \in Waves, NEW r \in Wave, Once(r), Retire(w, r)
  PROVE  /\ ClaimInv'
         /\ wave'[w] = DoneRecord(r)
         /\ \A v \in Waves \ {w} : wave'[v] = wave[v]
<1>1. /\ wave \in [Waves -> Wave] /\ Records /\ OneRunAtATime
      /\ active \in Waves \cup {NoWave} /\ running \in BOOLEAN
  BY DEF IInv, TypeOK
<1>2. wave' = [wave EXCEPT ![w] = DoneRecord(r)]
  BY DEF Retire, DoneRecord
<1>3. /\ DoneRecord(r) \in Wave /\ RecordOK(DoneRecord(r)) /\ ~DoneRecord(r).live
  BY DoneIsOK
<1>4. /\ wave' \in [Waves -> Wave] /\ wave'[w] = DoneRecord(r)
      /\ \A v \in Waves \ {w} : wave'[v] = wave[v]
  BY <1>1, <1>2, <1>3
<1>5. Records'
  BY <1>1, <1>3, <1>4 DEF Records
<1>6. /\ active = w => active' = NoWave /\ running' = FALSE
      /\ active # w => active' = active /\ running' = running
  BY DEF Retire, Settle
<1>7. NoWave \notin Waves
  BY ProgramsAssumption
<1>8. OneRunAtATime'
  <2>1. running' <=> active' # NoWave
    BY <1>1, <1>6 DEF OneRunAtATime
  <2>2. ASSUME NEW v \in Waves
        PROVE  Unfinished(v)' /\ wave'[v].live <=> active' = v
    BY <1>1, <1>3, <1>4, <1>6, <1>7 DEF OneRunAtATime, Unfinished
  <2> QED
    BY <2>1, <2>2 DEF OneRunAtATime
<1> QED
  BY <1>1, <1>4, <1>5, <1>6, <1>8 DEF ClaimInv

LEMMA StepKeeps ==
  ASSUME IInv, NEW w \in Waves, NEW r \in Wave, RecordOK(r), r.pc \in Started,
         r.live = wave[w].live, Unfinished(w),
         wave' = [wave EXCEPT ![w] = r], UNCHANGED <<active, running>>
  PROVE  /\ ClaimInv'
         /\ wave'[w] = r
         /\ \A v \in Waves \ {w} : wave'[v] = wave[v]
<1>1. /\ wave \in [Waves -> Wave] /\ Records /\ OneRunAtATime
      /\ active \in Waves \cup {NoWave} /\ running \in BOOLEAN
  BY DEF IInv, TypeOK
<1>2. /\ wave' \in [Waves -> Wave] /\ wave'[w] = r
      /\ \A v \in Waves \ {w} : wave'[v] = wave[v]
  BY <1>1
<1>3. Records'
  BY <1>1, <1>2 DEF Records
<1>4. OneRunAtATime'
  BY <1>1, <1>2 DEF OneRunAtATime, Unfinished, Started
<1> QED
  BY <1>1, <1>2, <1>3, <1>4 DEF ClaimInv

\* Waves that stop, as the surface is disposed of or the scope closes, give up the claim.
LEMMA StopKeeps ==
  ASSUME IInv, wave' \in [Waves -> Wave],
         \A v \in Waves :
           wave'[v] \in {wave[v], StoppedRecord(wave[v]), DoneRecord(StoppedRecord(wave[v]))},
         active' = NoWave, running' = FALSE,
         \A v \in Waves : ~wave'[v].live
  PROVE  ClaimInv'
<1>1. /\ wave \in [Waves -> Wave] /\ Records
  BY DEF IInv, TypeOK
<1>2. ASSUME NEW v \in Waves PROVE RecordOK(wave'[v])
  <2>1. wave[v] \in Wave /\ RecordOK(wave[v])
    BY <1>1 DEF Records
  <2>2. StoppedRecord(wave[v]) \in Wave /\ RecordOK(StoppedRecord(wave[v]))
    BY <2>1, StoppedIsOK
  <2>3. RecordOK(DoneRecord(StoppedRecord(wave[v])))
    BY <2>2, DoneIsOK DEF RecordOK
  <2> QED
    BY <2>1, <2>2, <2>3
<1>3. NoWave \notin Waves
  BY ProgramsAssumption
<1>4. OneRunAtATime'
  BY <1>3 DEF OneRunAtATime
<1> QED
  BY <1>2, <1>4 DEF ClaimInv, Records

-----------------------------------------------------------------------------
(* What a step makes of the history, the reloads and the kills *)

LEMMA FinishedIsKept ==
  ASSUME IInv, history' = history, reloads' = reloads,
         \A v \in Waves :
           /\ wave[v].pc = "done" => wave'[v] = wave[v]
           /\ wave[v].pc # "done" => wave'[v].status \notin Final \/ Reloaded(wave'[v])
  PROVE  HistoryInv' /\ ReloadInv'
<1>1. HistoryInv'
  BY DEF IInv, TypeOK, HistoryInv
<1>2. ReloadInv'
  BY DEF IInv, ReloadInv, Reloaded
<1> QED
  BY <1>1, <1>2

LEMMA KilledIsKept ==
  ASSUME IInv, abandoned' = abandoned, kills' = kills
  PROVE  /\ AbandonedIsKilled'
         /\ (abandoned \subseteq Waves \X Query /\ kills \subseteq Waves \X Query)'
BY DEF IInv, TypeOK, AbandonedIsKilled

LEMMA InterruptedIsKilled ==
  ASSUME IInv, NEW ws \in SUBSET Waves, \A v \in ws : wave[v].live,
         abandoned' = abandoned \cup Interrupted(ws), kills' = kills \cup Queries(ws)
  PROVE  /\ AbandonedIsKilled'
         /\ (abandoned \subseteq Waves \X Query /\ kills \subseteq Waves \X Query)'
<1>1. \A v \in Waves : wave[v] \in Wave /\ RecordOK(wave[v])
  BY DEF IInv, TypeOK, Records
<1>2. /\ abandoned \subseteq Waves \X Query /\ kills \subseteq Waves \X Query
      /\ abandoned \subseteq kills
  BY DEF IInv, TypeOK, AbandonedIsKilled
<1>3. Interrupted(ws) \subseteq Waves \X Query /\ Queries(ws) \subseteq Waves \X Query
  BY <1>1 DEF Interrupted, Queries, Wave
<1>4. ASSUME NEW v \in ws, wave[v].pc = "request"
      PROVE  wave[v].query = wave[v].at /\ wave[v].query # NoQuery
  <2>1. wave[v].query = wave[v].at
    BY <1>1, <1>4 DEF RecordOK, Published
  <2>2. wave[v].at.stmt \in 1..Len(wave[v].prog)
    BY <1>1, <1>4 DEF RecordOK, Position
  <2>3. wave[v].at.stmt # 0
    BY <2>2
  <2> QED
    BY <2>1, <2>3 DEF NoQuery
<1>5. Interrupted(ws) \subseteq Queries(ws)
  BY <1>4 DEF Interrupted, Queries
<1> QED
  BY <1>2, <1>3, <1>5 DEF AbandonedIsKilled

-----------------------------------------------------------------------------
(* Steps of the lineage graph *)

LEMMA GraphIsKept ==
  ASSUME IInv, UNCHANGED <<activeTab, result, show, inflight>>, open' \in BOOLEAN
  PROVE  GraphTypeOK' /\ GraphInv'
BY DEF IInv, TypeOK, GraphTypeOK, GraphInv, OneLoadAtATime

LEMMA CancelledFacts ==
  ASSUME IInv
  PROVE  /\ Cancelled \in [Shows -> Show]
         /\ \A s \in Shows :
              /\ Cancelled[s].pc = show[s].pc /\ Cancelled[s].tab = show[s].tab
              /\ Cancelled[s].graph = show[s].graph
              /\ Cancelled[s].pc = "lineage" => Cancelled[s].stopped
<1>1. show \in [Shows -> Show] /\ OneLoadAtATime
  BY DEF IInv, TypeOK, GraphTypeOK, GraphInv
<1> SUFFICES ASSUME NEW s \in Shows
             PROVE  /\ Cancelled[s] \in Show
                    /\ Cancelled[s].pc = show[s].pc /\ Cancelled[s].tab = show[s].tab
                    /\ Cancelled[s].graph = show[s].graph
                    /\ Cancelled[s].pc = "lineage" => Cancelled[s].stopped
  BY DEF Cancelled
<1>2. show[s] \in Show
  BY <1>1
<1>3. CASE s = inflight
  <2>1. Cancelled[s] = [show[s] EXCEPT !.stopped = TRUE]
    BY <1>3 DEF Cancelled
  <2> QED
    BY <1>2, <2>1 DEF Show
<1>4. CASE s # inflight
  <2>1. Cancelled[s] = show[s]
    BY <1>4 DEF Cancelled
  <2> QED
    BY <1>1, <1>2, <1>4, <2>1 DEF OneLoadAtATime
<1> QED
  BY <1>3, <1>4

LEMMA SuspendedFacts ==
  ASSUME IInv
  PROVE  /\ Suspended \in [Shows -> Show]
         /\ \A s \in Shows :
              /\ Suspended[s].pc = show[s].pc /\ Suspended[s].tab = show[s].tab
              /\ Suspended[s].graph # show[s].graph => IsShown(s) /\ Loading(s)
              /\ Suspended[s].pc = "lineage" => Suspended[s].stopped
<1>1. show \in [Shows -> Show]
  BY DEF IInv, TypeOK, GraphTypeOK
<1> SUFFICES ASSUME NEW s \in Shows
             PROVE  /\ Suspended[s] \in Show
                    /\ Suspended[s].pc = show[s].pc /\ Suspended[s].tab = show[s].tab
                    /\ Suspended[s].graph # show[s].graph => IsShown(s) /\ Loading(s)
                    /\ Suspended[s].pc = "lineage" => Suspended[s].stopped
  BY DEF Suspended
<1>2. show[s] \in Show
  BY <1>1
<1>3. CASE show[s].stopped \/ show[s].pc \notin {"preflight", "lineage"}
  <2>1. Suspended[s] = show[s]
    BY <1>3 DEF Suspended
  <2> QED
    BY <1>2, <1>3, <2>1
<1>4. CASE ~(show[s].stopped \/ show[s].pc \notin {"preflight", "lineage"})
  <2> DEFINE g == IF IsShown(s) /\ Loading(s) THEN "partial" ELSE show[s].graph
  <2>1. Suspended[s] = [show[s] EXCEPT !.stopped = TRUE, !.graph = g]
    BY <1>4 DEF Suspended
  <2>2. /\ g \in {"none", "placeholder", "base", "complete", "partial", "error"}
        /\ g # show[s].graph => IsShown(s) /\ Loading(s)
    BY <1>2 DEF Show
  <2> HIDE DEF g
  <2> QED
    BY <1>2, <2>1, <2>2 DEF Show
<1> QED
  BY <1>3, <1>4

\* A wave takes over a result: what was loading is stopped.
LEMMA TakesKeeps ==
  ASSUME IInv, NEW w \in Waves, NEW tab \in Tabs, Takes(w, tab)
  PROVE  GraphTypeOK' /\ GraphInv'
<1>1. /\ GraphTypeOK /\ GraphInv
  BY DEF IInv, TypeOK
<1>2. /\ show' = Cancelled /\ inflight' = NoShow /\ result' = [result EXCEPT ![tab] = w]
      /\ open' = open /\ activeTab' = activeTab
  BY DEF Takes
<1>3. Shows \cap Waves = {}
  BY OwnersAssumption
<1>4. GraphTypeOK'
  BY <1>1, <1>2, CancelledFacts DEF GraphTypeOK
<1>5. \A t \in Tabs : result'[t] \in Shows => result'[t] = result[t]
  BY <1>1, <1>2, <1>3 DEF GraphTypeOK
<1>6. GraphInv'
  BY <1>1, <1>2, <1>5, CancelledFacts DEF GraphInv, OneLoadAtATime
<1> QED
  BY <1>4, <1>6

LEMMA StepOfShowKeeps ==
  ASSUME IInv, NEW s \in Shows,
         StartShow(s) \/ ShowStops(s) \/ ShowBegins(s) \/ BaseArrives(s) \/ ShowEnds(s)
  PROVE  GraphTypeOK' /\ GraphInv'
<1>1. /\ GraphTypeOK /\ GraphInv /\ show \in [Shows -> Show]
  BY DEF IInv, TypeOK, GraphTypeOK
<1>2. CASE StartShow(s)
  <2>1. show' = [show EXCEPT ![s].pc = "preflight"]
        /\ UNCHANGED <<open, activeTab, result, inflight>> /\ show[s].pc = "idle"
    BY <1>2 DEF StartShow
  <2>2. /\ show' \in [Shows -> Show]
        /\ \A v \in Shows \ {s} : show'[v] = show[v]
        /\ show'[s].pc = "preflight" /\ show'[s].tab = show[s].tab
        /\ show'[s].graph = show[s].graph
    BY <1>1, <2>1 DEF Show
  <2> QED
    BY <1>1, <2>1, <2>2 DEF GraphTypeOK, GraphInv, OneLoadAtATime
<1>3. CASE ShowStops(s)
  <2>1. show' = [show EXCEPT ![s].pc = "done", ![s].stopped = TRUE]
        /\ UNCHANGED <<open, activeTab, result, inflight>>
    BY <1>3 DEF ShowStops
  <2>2. /\ show' \in [Shows -> Show]
        /\ \A v \in Shows \ {s} : show'[v] = show[v]
        /\ show'[s].pc = "done" /\ show'[s].tab = show[s].tab
    BY <1>1, <2>1 DEF Show
  <2> QED
    BY <1>1, <2>1, <2>2 DEF GraphTypeOK, GraphInv, OneLoadAtATime
<1>4. CASE ShowBegins(s)
  <2>1. /\ show' = [Cancelled EXCEPT ![s].pc = "lineage", ![s].tab = activeTab,
                                     ![s].graph = "placeholder"]
        /\ result' = [result EXCEPT ![activeTab] = s] /\ inflight' = s
        /\ UNCHANGED <<open, activeTab>> /\ show[s].pc = "preflight"
    BY <1>4 DEF ShowBegins
  <2>2. /\ activeTab \in Tabs /\ result \in [Tabs -> Shows \cup Waves \cup {NoResult}]
        /\ NoTab \notin Tabs
    BY <1>1, OwnersAssumption DEF GraphTypeOK
  <2>3. /\ show' \in [Shows -> Show]
        /\ \A v \in Shows \ {s} : show'[v] = Cancelled[v]
        /\ show'[s].pc = "lineage" /\ show'[s].tab = activeTab
    <3> DEFINE c == Cancelled
               e == [c[s] EXCEPT !.pc = "lineage", !.tab = activeTab,
                                 !.graph = "placeholder"]
    <3>1. c \in [Shows -> Show]
      BY CancelledFacts
    <3> HIDE DEF c
    <3>2. e \in Show /\ e.pc = "lineage" /\ e.tab = activeTab
      BY <2>2, <3>1 DEF Show
    <3>3. show' = [c EXCEPT ![s] = e]
      BY <2>1, <3>1 DEF c
    <3> HIDE DEF e
    <3> QED
      BY <3>1, <3>2, <3>3 DEF c
  <2>4. \A t \in Tabs : (t = activeTab => result'[t] = s)
                     /\ (t # activeTab => result'[t] = result[t])
    BY <2>1, <2>2
  <2>5. \A t \in Tabs : result[t] # s
    BY <1>1, <2>1, <2>2 DEF GraphInv
  <2>6. GraphTypeOK'
    BY <1>1, <2>1, <2>2, <2>3 DEF GraphTypeOK
  <2>7. OneLoadAtATime'
    BY <2>1, <2>3, CancelledFacts DEF OneLoadAtATime
  <2>8. \A t \in Tabs, v \in Shows : result'[t] = v => show'[v].tab = t
    BY <1>1, <2>3, <2>4, <2>5, CancelledFacts DEF GraphInv
  <2> QED
    BY <1>1, <2>3, <2>6, <2>7, <2>8, CancelledFacts DEF GraphInv
<1>5. CASE BaseArrives(s)
  <2>1. show' = [show EXCEPT ![s].graph = "base"] /\ show[s].pc = "lineage"
        /\ UNCHANGED <<open, activeTab, result, inflight>>
    BY <1>5 DEF BaseArrives
  <2>2. /\ show' \in [Shows -> Show]
        /\ \A v \in Shows \ {s} : show'[v] = show[v]
        /\ show'[s].pc = "lineage" /\ show'[s].tab = show[s].tab
        /\ show'[s].stopped = show[s].stopped
    BY <1>1, <2>1 DEF Show
  <2> QED
    BY <1>1, <2>1, <2>2 DEF GraphTypeOK, GraphInv, OneLoadAtATime
<1>6. CASE ShowEnds(s)
  <2>1. PICK g \in IF Superseded(s) THEN {show[s].graph} ELSE {"complete", "error"} :
          show' = [show EXCEPT ![s].pc = "done", ![s].graph = g]
    BY <1>6 DEF ShowEnds
  <2>2. /\ inflight' = (IF inflight = s THEN NoShow ELSE inflight)
        /\ UNCHANGED <<open, activeTab, result>>
    BY <1>6 DEF ShowEnds
  <2>3. g \in {"none", "placeholder", "base", "complete", "partial", "error"}
    BY <1>1, <2>1 DEF Show
  <2>4. /\ show' \in [Shows -> Show]
        /\ \A v \in Shows \ {s} : show'[v] = show[v]
        /\ show'[s].pc = "done" /\ show'[s].tab = show[s].tab
    BY <1>1, <2>1, <2>3 DEF Show
  <2> QED
    BY <1>1, <2>2, <2>4 DEF GraphTypeOK, GraphInv, OneLoadAtATime
<1> QED
  BY <1>2, <1>3, <1>4, <1>5, <1>6

LEMMA StepOfUserOnGraphKeeps ==
  ASSUME IInv, CancelGraph \/ \E t \in Tabs : SelectTab(t)
  PROVE  GraphTypeOK' /\ GraphInv'
<1>1. /\ GraphTypeOK /\ GraphInv
  BY DEF IInv, TypeOK
<1>2. CASE CancelGraph
  <2>1. PICK s \in Shows :
          /\ result[activeTab] = s /\ Loading(s) /\ inflight' = NoShow
          /\ \/ /\ show' = [Cancelled EXCEPT ![s].graph = "partial"]
                /\ result' = result
             \/ /\ show' = Cancelled
                /\ result' = [result EXCEPT ![activeTab] = NoResult]
          /\ UNCHANGED <<open, activeTab>>
    BY <1>2 DEF CancelGraph
  <2>2. show[s].pc \notin {"idle", "preflight"}
    BY <1>1, <2>1 DEF GraphInv, Loading
  <2>3. /\ show' \in [Shows -> Show]
        /\ \A v \in Shows : /\ show'[v].pc = show[v].pc /\ show'[v].tab = show[v].tab
                            /\ v # s => show'[v].graph = show[v].graph
                            /\ show'[v].stopped = Cancelled[v].stopped
    <3>1. CASE show' = Cancelled
      BY <3>1, CancelledFacts
    <3>2. CASE show' = [Cancelled EXCEPT ![s].graph = "partial"]
      BY <3>2, CancelledFacts DEF Show
    <3> QED
      BY <2>1, <3>1, <3>2
  <2>4. /\ result' \in [Tabs -> Shows \cup Waves \cup {NoResult}]
        /\ \A t \in Tabs : result'[t] \in Shows => result'[t] = result[t]
    BY <1>1, <2>1, OwnersAssumption DEF GraphTypeOK
  <2>5. GraphTypeOK'
    BY <1>1, <2>1, <2>3, <2>4 DEF GraphTypeOK
  <2> QED
    BY <1>1, <2>2, <2>3, <2>4, <2>5, CancelledFacts DEF GraphInv, OneLoadAtATime
<1>3. CASE \E t \in Tabs : SelectTab(t)
  BY <1>1, <1>3 DEF SelectTab, GraphTypeOK, GraphInv, OneLoadAtATime
<1> QED
  BY <1>2, <1>3

-----------------------------------------------------------------------------
(* Every action preserves the invariant *)

LEMMA Assemble ==
  ASSUME ClaimInv', GraphTypeOK', GraphInv', HistoryInv', ReloadInv', AbandonedIsKilled',
         (history \subseteq Waves /\ reloads \subseteq Waves)',
         (abandoned \subseteq Waves \X Query /\ kills \subseteq Waves \X Query)'
  PROVE  IInv'
BY DEF IInv, ClaimInv, TypeOK

LEMMA Typed ==
  ASSUME IInv
  PROVE  /\ wave \in [Waves -> Wave] /\ GraphTypeOK
         /\ \A w \in Waves : wave[w] \in Wave /\ RecordOK(wave[w])
         /\ history \subseteq Waves /\ reloads \subseteq Waves
         /\ active \in Waves \cup {NoWave} /\ running \in BOOLEAN
         /\ activeTab \in Tabs
         /\ OneRunAtATime
BY DEF IInv, TypeOK, Records, GraphTypeOK

LEMMA StoppedWave ==
  ASSUME IInv, NEW ws \in SUBSET Waves, NEW waves \in [Waves -> Wave],
         \A v \in Waves : v \notin ws => waves[v] = wave[v],
         \A v \in ws : /\ wave[v].live
                       /\ waves[v] \in {StoppedRecord(wave[v]),
                                        DoneRecord(StoppedRecord(wave[v]))},
         wave' = waves, history' = history, reloads' = reloads
  PROVE  HistoryInv' /\ ReloadInv'
<1>1. \A v \in Waves : wave[v] \in Wave /\ RecordOK(wave[v])
  BY Typed
<1>2. ASSUME NEW v \in Waves
      PROVE  /\ wave[v].pc = "done" => wave'[v] = wave[v]
             /\ wave[v].pc # "done" => wave'[v].status \notin Final \/ Reloaded(wave'[v])
  <2>1. CASE v \notin ws
    BY <1>1, <2>1 DEF RecordOK, Ended
  <2>2. CASE v \in ws
    <3>1. wave[v].pc # "done"
      BY <1>1, <2>2 DEF RecordOK, Ended
    <3>2. /\ StoppedRecord(wave[v]) \in Wave /\ RecordOK(StoppedRecord(wave[v]))
          /\ StoppedRecord(wave[v]).status = wave[v].status
      BY <1>1, StoppedIsOK
    <3>3. DoneRecord(StoppedRecord(wave[v])).status = wave[v].status
      BY <3>2, DoneIsOK DEF RecordOK
    <3>4. wave'[v].status = wave[v].status
      BY <2>2, <3>2, <3>3
    <3> QED
      BY <1>1, <3>1, <3>4 DEF RecordOK, Ended
  <2> QED
    BY <2>1, <2>2
<1> QED
  BY <1>2, FinishedIsKept

LEMMA CancelKeeps ==
  ASSUME IInv, Cancel
  PROVE  IInv'
<1>1. /\ active \in Waves /\ wave[active].live /\ Unfinished(active)
  BY Typed DEF Cancel, OneRunAtATime
<1> DEFINE r == [wave[active] EXCEPT !.cancelled = TRUE]
<1>2. /\ wave[active] \in Wave /\ RecordOK(wave[active])
  BY <1>1, Typed
<1>3. /\ r \in Wave /\ r.pc = wave[active].pc /\ r.live = wave[active].live
      /\ r.status = wave[active].status /\ r.kind = wave[active].kind
      /\ r.acked = wave[active].acked /\ r.prog = wave[active].prog
      /\ r.ran = wave[active].ran /\ r.at = wave[active].at /\ r.query = wave[active].query
      /\ r.tab = wave[active].tab
  BY <1>2 DEF Wave
<1>4. wave' = [wave EXCEPT ![active] = r] /\ UNCHANGED <<active, running>>
  BY DEF Cancel
<1> HIDE DEF r
<1>5. RecordOK(r) /\ r.pc \in Started
  BY <1>1, <1>2, <1>3 DEF RecordOK, Fresh, HasProgram, Position, Once, Published, Ended,
                          Unfinished, Started
<1>6. /\ ClaimInv' /\ wave'[active] = r
      /\ \A v \in Waves \ {active} : wave'[v] = wave[v]
  BY <1>1, <1>3, <1>4, <1>5, StepKeeps
<1>7. HistoryInv' /\ ReloadInv'
  <2>1. wave[active].pc # "done" /\ r.status \notin Final
    BY <1>1, <1>2, <1>3 DEF Unfinished, RecordOK, Ended
  <2>2. ASSUME NEW v \in Waves
        PROVE  /\ wave[v].pc = "done" => wave'[v] = wave[v]
               /\ wave[v].pc # "done" => wave'[v].status \notin Final \/ Reloaded(wave'[v])
    BY <1>6, <2>1, Typed DEF RecordOK, Ended
  <2> QED
    BY <2>2, FinishedIsKept DEF Cancel
<1>8. /\ AbandonedIsKilled'
      /\ (abandoned \subseteq Waves \X Query /\ kills \subseteq Waves \X Query)'
  <2>1. {active} \in SUBSET Waves /\ \A v \in {active} : wave[v].live
    BY <1>1
  <2>2. /\ abandoned' = abandoned \cup Interrupted({active})
        /\ kills' = kills \cup Queries({active})
    BY DEF Cancel
  <2> QED
    BY <2>1, <2>2, InterruptedIsKilled
<1>9. GraphTypeOK' /\ GraphInv'
  BY Typed, GraphIsKept DEF Cancel, graphVars, GraphTypeOK
<1> QED
  BY <1>6, <1>7, <1>8, <1>9, Typed, Assemble DEF Cancel

LEMMA DestroyKeeps ==
  ASSUME IInv, Destroy
  PROVE  IInv'
<1>1. /\ active \in Waves /\ wave[active].live /\ Unfinished(active)
  BY Typed DEF Destroy, OneRunAtATime
<1> DEFINE r == StoppedRecord(wave[active])
<1>2. r \in Wave /\ ~r.live
  BY <1>1, Typed, StoppedIsOK
<1>3. wave' = [wave EXCEPT ![active] = r]
  BY DEF Destroy, StoppedRecord
<1>4. active' = NoWave /\ running' = FALSE
  BY DEF Destroy, Settle
<1> HIDE DEF r
<1>5. /\ wave' \in [Waves -> Wave] /\ wave'[active] = r
      /\ \A v \in Waves \ {active} : wave'[v] = wave[v]
  BY <1>1, <1>2, <1>3, Typed
<1>6. ASSUME NEW v \in Waves PROVE ~wave'[v].live
  BY <1>2, <1>5, Typed DEF OneRunAtATime, Unfinished, RecordOK, Ended, Wave
<1>7. ClaimInv'
  BY <1>4, <1>5, <1>6, StopKeeps DEF r
<1>8. HistoryInv' /\ ReloadInv'
  <2>1. {active} \in SUBSET Waves /\ \A v \in {active} : wave[v].live
    BY <1>1
  <2>2. history' = history /\ reloads' = reloads
    BY DEF Destroy
  <2>3. /\ \A v \in Waves : v \notin {active} => wave'[v] = wave[v]
        /\ \A v \in {active} : wave'[v] = StoppedRecord(wave[v])
    BY <1>5 DEF r
  <2> QED
    BY <1>5, <2>1, <2>2, <2>3, StoppedWave
<1>9. /\ AbandonedIsKilled'
      /\ (abandoned \subseteq Waves \X Query /\ kills \subseteq Waves \X Query)'
  <2>1. {active} \in SUBSET Waves /\ \A v \in {active} : wave[v].live
    BY <1>1
  <2>2. /\ abandoned' = abandoned \cup Interrupted({active})
        /\ kills' = kills \cup Queries({active})
    BY DEF Destroy
  <2> QED
    BY <2>1, <2>2, InterruptedIsKilled
<1>10. GraphTypeOK' /\ GraphInv'
  BY Typed, GraphIsKept DEF Destroy, graphVars, GraphTypeOK
<1> QED
  BY <1>7, <1>8, <1>9, <1>10, Typed, Assemble DEF Destroy

\* What the end of the scope makes of the waves.
LEMMA ClosedFacts ==
  ASSUME IInv
  PROVE  /\ Closed \in [Waves -> Wave]
         /\ \A v \in Waves :
              /\ wave[v].live => Closed[v] = StoppedRecord(wave[v])
              /\ ~wave[v].live => Closed[v] = wave[v]
<1>1. \A v \in Waves : wave[v] \in Wave /\ StoppedRecord(wave[v]) \in Wave
  BY Typed, StoppedIsOK
<1> QED
  BY <1>1 DEF Closed, StoppedRecord

LEMMA CloseScopeKeeps ==
  ASSUME IInv, NEW waves \in [Waves -> Wave], NEW shows \in [Shows -> Show],
         CloseScope(waves, shows),
         \A v \in Waves :
           /\ ~wave[v].live => waves[v] = wave[v]
           /\ wave[v].live => waves[v] \in {StoppedRecord(wave[v]),
                                            DoneRecord(StoppedRecord(wave[v]))},
         \A s \in Shows :
           /\ shows[s].pc \in {show[s].pc, "done"} /\ shows[s].tab = show[s].tab
           /\ shows[s].graph # show[s].graph => Loading(s)
           /\ shows[s].pc = "lineage" => shows[s].stopped
  PROVE  IInv'
<1>1. /\ open' = FALSE /\ wave' = waves /\ show' = shows /\ inflight' = NoShow
      /\ abandoned' = abandoned \cup Interrupted(LiveWaves)
      /\ kills' = kills \cup Queries(LiveWaves)
      /\ UNCHANGED <<activeTab, result, history, reloads>>
  BY DEF CloseScope
<1>2. active' = NoWave /\ running' = FALSE
  <2>1. CASE active \in LiveWaves
    BY <2>1 DEF CloseScope, Settle
  <2>2. CASE active \notin LiveWaves
    BY <2>2, Typed DEF CloseScope, LiveWaves, OneRunAtATime
  <2> QED
    BY <2>1, <2>2
<1>3. ASSUME NEW v \in Waves PROVE ~waves[v].live
  <2>1. wave[v] \in Wave /\ RecordOK(wave[v])
    BY Typed
  <2>2. ~StoppedRecord(wave[v]).live /\ ~DoneRecord(StoppedRecord(wave[v])).live
    BY <2>1, StoppedIsOK, DoneIsOK DEF RecordOK
  <2> QED
    BY <2>2
<1>4. ClaimInv'
  BY <1>1, <1>2, <1>3, StopKeeps
<1>5. HistoryInv' /\ ReloadInv'
  <2>1. LiveWaves \in SUBSET Waves
    BY DEF LiveWaves
  <2>2. \A v \in LiveWaves : /\ wave[v].live
                            /\ waves[v] \in {StoppedRecord(wave[v]),
                                             DoneRecord(StoppedRecord(wave[v]))}
    BY DEF LiveWaves
  <2>3. \A v \in Waves : v \notin LiveWaves => waves[v] = wave[v]
    BY DEF LiveWaves
  <2> QED
    BY <1>1, <2>1, <2>2, <2>3, StoppedWave
<1>6. /\ AbandonedIsKilled'
      /\ (abandoned \subseteq Waves \X Query /\ kills \subseteq Waves \X Query)'
  <2>1. LiveWaves \in SUBSET Waves /\ \A v \in LiveWaves : wave[v].live
    BY DEF LiveWaves
  <2> QED
    BY <1>1, <2>1, InterruptedIsKilled
<1>7. GraphTypeOK' /\ GraphInv'
  <2>1. /\ GraphTypeOK /\ GraphInv
    BY DEF IInv, TypeOK
  <2>2. GraphTypeOK'
    BY <1>1, <2>1 DEF GraphTypeOK
  <2>3. \A s \in Shows : shows[s].pc \in {"idle", "preflight"} =>
          shows[s].graph = "none" /\ shows[s].tab = NoTab
    <3> SUFFICES ASSUME NEW s \in Shows, shows[s].pc \in {"idle", "preflight"}
                 PROVE  shows[s].graph = "none" /\ shows[s].tab = NoTab
      OBVIOUS
    <3>1. show[s].pc \in {"idle", "preflight"}
      OBVIOUS
    <3>2. show[s].graph = "none" /\ show[s].tab = NoTab
      BY <2>1, <3>1 DEF GraphInv
    <3> QED
      BY <3>2 DEF Loading
  <2>4. OneLoadAtATime'
    BY <1>1 DEF OneLoadAtATime
  <2>5. \A t \in Tabs, s \in Shows : result'[t] = s => shows[s].tab = t
    BY <1>1, <2>1 DEF GraphInv
  <2> QED
    BY <1>1, <2>2, <2>3, <2>4, <2>5 DEF GraphInv
<1> QED
  BY <1>1, <1>4, <1>5, <1>6, <1>7, Typed, Assemble

LEMMA LoseSessionKeeps ==
  ASSUME IInv, LoseSession
  PROVE  IInv'
BY CloseScopeKeeps, ClosedFacts, SuspendedFacts DEF LoseSession

LEMMA PreflightLosesSessionKeeps ==
  ASSUME IInv, NEW w \in Waves, PreflightLosesSession(w)
  PROVE  IInv'
<1> DEFINE waves == [Closed EXCEPT ![w].pc = "done"]
<1>1. CloseScope(waves, Suspended) /\ wave[w].live
  BY DEF PreflightLosesSession, IsWaveRunnable, IsWaveCurrent
<1>2. /\ wave[w] \in Wave /\ RecordOK(wave[w])
      /\ Closed \in [Waves -> Wave] /\ Closed[w] = StoppedRecord(wave[w])
  BY <1>1, Typed, ClosedFacts
<1>3. waves = [Closed EXCEPT ![w] = DoneRecord(StoppedRecord(wave[w]))]
  <2>1. [Closed[w] EXCEPT !.pc = "done"] = DoneRecord(StoppedRecord(wave[w]))
    BY <1>2 DEF StoppedRecord, DoneRecord, Wave
  <2> QED
    BY <1>2, <2>1
<1>4. DoneRecord(StoppedRecord(wave[w])) \in Wave
  BY <1>2, StoppedIsOK, DoneIsOK DEF RecordOK
<1> HIDE DEF waves
<1>5. /\ waves \in [Waves -> Wave]
      /\ \A v \in Waves :
           /\ ~wave[v].live => waves[v] = wave[v]
           /\ wave[v].live => waves[v] \in {StoppedRecord(wave[v]),
                                            DoneRecord(StoppedRecord(wave[v]))}
  BY <1>1, <1>2, <1>3, <1>4, ClosedFacts
<1> QED
  BY <1>1, <1>5, CloseScopeKeeps, SuspendedFacts

LEMMA ShowLosesSessionKeeps ==
  ASSUME IInv, NEW s \in Shows, ShowLosesSession(s)
  PROVE  IInv'
<1> DEFINE shows == [Suspended EXCEPT ![s].pc = "done"]
<1>1. CloseScope(Closed, shows)
  BY DEF ShowLosesSession
<1>2. /\ shows \in [Shows -> Show]
      /\ \A v \in Shows :
           /\ shows[v].pc \in {show[v].pc, "done"} /\ shows[v].tab = show[v].tab
           /\ shows[v].graph # show[v].graph => Loading(v)
           /\ shows[v].pc = "lineage" => shows[v].stopped
  BY SuspendedFacts DEF Show
<1> HIDE DEF shows
<1> QED
  BY <1>1, <1>2, ClosedFacts, CloseScopeKeeps

\* A step that writes the record of one wave that has not begun to end.
LEMMA RunningStepKeeps ==
  ASSUME IInv, NEW w \in Waves, NEW r \in Wave, RecordOK(r), r.pc \in Started,
         r.live = wave[w].live, Unfinished(w),
         wave' = [wave EXCEPT ![w] = r],
         UNCHANGED <<active, running, history, reloads, abandoned, kills>>,
         GraphTypeOK', GraphInv'
  PROVE  IInv'
<1>1. /\ ClaimInv' /\ wave'[w] = r
      /\ \A v \in Waves \ {w} : wave'[v] = wave[v]
  BY StepKeeps
<1>2. wave[w].pc # "done" /\ r.status \notin Final
  BY DEF Unfinished, RecordOK, Ended, Started
<1>3. ASSUME NEW v \in Waves
      PROVE  /\ wave[v].pc = "done" => wave'[v] = wave[v]
             /\ wave[v].pc # "done" => wave'[v].status \notin Final \/ Reloaded(wave'[v])
  BY <1>1, <1>2, Typed DEF RecordOK, Ended
<1>4. HistoryInv' /\ ReloadInv'
  BY <1>3, FinishedIsKept
<1>5. /\ AbandonedIsKilled'
      /\ (abandoned \subseteq Waves \X Query /\ kills \subseteq Waves \X Query)'
  BY KilledIsKept
<1> QED
  BY <1>1, <1>4, <1>5, Typed, Assemble

\* A wave that returns with nothing to show for it.
LEMMA PlainEndKeeps ==
  ASSUME IInv, NEW w \in Waves, NEW r \in Wave, Once(r),
         r.status \notin Final \/ Reloaded(r), Unfinished(w), Retire(w, r),
         UNCHANGED <<history, reloads, abandoned, kills>>,
         GraphTypeOK', GraphInv'
  PROVE  IInv'
<1>1. /\ ClaimInv' /\ wave'[w] = DoneRecord(r)
      /\ \A v \in Waves \ {w} : wave'[v] = wave[v]
  BY RetireKeeps
<1>2. /\ DoneRecord(r).status = r.status /\ DoneRecord(r).kind = r.kind
      /\ DoneRecord(r).acked = r.acked /\ DoneRecord(r).prog = r.prog
  BY DoneIsOK
<1>3. wave[w].pc # "done" /\ (r.status \notin Final \/ Reloaded(DoneRecord(r)))
  BY <1>2 DEF Unfinished, Reloaded
<1>4. ASSUME NEW v \in Waves
      PROVE  /\ wave[v].pc = "done" => wave'[v] = wave[v]
             /\ wave[v].pc # "done" => wave'[v].status \notin Final \/ Reloaded(wave'[v])
  BY <1>1, <1>2, <1>3, Typed DEF RecordOK, Ended
<1>5. HistoryInv' /\ ReloadInv'
  BY <1>4, FinishedIsKept
<1>6. /\ AbandonedIsKilled'
      /\ (abandoned \subseteq Waves \X Query /\ kills \subseteq Waves \X Query)'
  BY KilledIsKept
<1> QED
  BY <1>1, <1>5, <1>6, Typed, Assemble

\* A wave that is current and ends.
LEMMA EndsKeeps ==
  ASSUME IInv, NEW w \in Waves, NEW r \in Wave, NEW status \in Final, Once(r),
         wave[w].pc = "request", status = "ok" => Complete(r), Ends(w, r, status)
  PROVE  IInv'
<1> DEFINE e == [r EXCEPT !.status = status]
           changed == \E i \in 1..r.acked : SchemaMutating(r.prog[i])
<1>1. /\ Retire(w, e)
      /\ history' = IF status = "ok" THEN history \cup {w} ELSE history
      /\ reloads' = IF r.kind # "option" /\ changed THEN reloads \cup {w} ELSE reloads
      /\ UNCHANGED <<graphVars, abandoned, kills>>
  BY DEF Ends
<1>2. /\ e \in Wave /\ e.status = status /\ e.kind = r.kind /\ e.acked = r.acked
      /\ e.prog = r.prog /\ e.ran = r.ran
  BY DEF Wave, Final
<1> HIDE DEF e
<1>3. Once(e)
  BY <1>2 DEF Once
<1>4. /\ ClaimInv' /\ wave'[w] = DoneRecord(e)
      /\ \A v \in Waves \ {w} : wave'[v] = wave[v]
  BY <1>1, <1>2, <1>3, RetireKeeps
<1>5. /\ wave'[w].pc = "done" /\ wave'[w].kind = r.kind /\ wave'[w].acked = r.acked
      /\ wave'[w].prog = r.prog /\ wave'[w].ran = r.ran
  BY <1>2, <1>3, <1>4, DoneIsOK
<1>6. HistoryInv'
  <2> SUFFICES ASSUME NEW v \in history'
               PROVE  wave'[v].pc = "done" /\ Complete(wave'[v])
    BY DEF HistoryInv
  <2>1. CASE v = w
    <3>1. w \notin history
      BY DEF IInv, HistoryInv
    <3>2. status = "ok"
      BY <1>1, <2>1, <3>1
    <3> QED
      BY <1>5, <2>1, <3>2 DEF Complete
  <2>2. CASE v # w
    <3>1. v \in history /\ v \in Waves
      BY <1>1, <2>2, Typed
    <3> QED
      BY <1>4, <2>2, <3>1 DEF IInv, HistoryInv
  <2> QED
    BY <2>1, <2>2
<1>7. ReloadInv'
  <2> SUFFICES ASSUME NEW v \in Waves, v \notin reloads'
               PROVE  Reloaded(wave'[v])
    BY DEF ReloadInv
  <2>1. v \notin reloads
    BY <1>1
  <2>2. CASE v = w
    <3>1. ~(r.kind # "option" /\ changed)
      BY <1>1, <2>2
    <3> QED
      BY <1>5, <2>2, <3>1 DEF Reloaded
  <2>3. CASE v # w
    BY <1>4, <2>1, <2>3 DEF IInv, ReloadInv
  <2> QED
    BY <2>2, <2>3
<1>8. /\ AbandonedIsKilled'
      /\ (abandoned \subseteq Waves \X Query /\ kills \subseteq Waves \X Query)'
  BY <1>1, KilledIsKept
<1>9. GraphTypeOK' /\ GraphInv'
  BY <1>1, Typed, GraphIsKept DEF graphVars, GraphTypeOK
<1>10. (history \subseteq Waves /\ reloads \subseteq Waves)'
  BY <1>1, Typed
<1> QED
  BY <1>4, <1>6, <1>7, <1>8, <1>9, <1>10, Assemble

\* The record of a settled attempt, with the statement counted if it has succeeded.
LEMMA AckedIsOK ==
  ASSUME IInv, NEW w \in Waves, NEW outcome \in Outcome, NEW n \in 0..1,
         Settles(w, outcome, n)
  PROVE  LET r == Acked(Ran(w, n), outcome) IN
         /\ r \in Wave /\ Once(r)
         /\ r.ran = Ran(w, n).ran /\ r.prog = wave[w].prog /\ r.kind = wave[w].kind
         /\ r.at = wave[w].at /\ r.live = wave[w].live /\ r.status = wave[w].status
         /\ outcome = "ok" => r.acked = wave[w].at.stmt
         /\ outcome # "ok" => r.acked = wave[w].at.stmt - 1
         /\ outcome = "ok" => n = 1
<1> DEFINE p == Ran(w, n)
           r == Acked(Ran(w, n), outcome)
<1>1. /\ p \in Wave /\ Once(p) /\ p.prog = wave[w].prog /\ p.kind = wave[w].kind
      /\ p.acked = wave[w].acked /\ p.at = wave[w].at /\ p.live = wave[w].live
      /\ p.status = wave[w].status /\ wave[w].at.stmt \in 1..MaxStatements
  BY SettledIsOK
<1>2. wave[w].acked = wave[w].at.stmt - 1 /\ MaxStatements \in Nat
  BY Typed, ProgramsAssumption DEF Settles, RecordOK, Position
<1> DEFINE c == IF outcome = "ok" THEN p.acked + 1 ELSE p.acked
<1>3. r = [p EXCEPT !.acked = c]
  BY DEF Acked
<1>4. /\ c \in Nat
      /\ outcome = "ok" => c = wave[w].at.stmt
      /\ outcome # "ok" => c = wave[w].at.stmt - 1
  BY <1>1, <1>2
<1> HIDE DEF c, p, r
<1>5. /\ r \in Wave /\ r.acked = c /\ r.ran = p.ran /\ r.prog = p.prog /\ r.kind = p.kind
      /\ r.at = p.at /\ r.live = p.live /\ r.status = p.status
  BY <1>1, <1>3, <1>4 DEF Wave
<1>6. Once(r)
  BY <1>1, <1>5 DEF Once
<1>7. outcome = "ok" => n = 1
  BY DEF Settles, Outcomes, Executions
<1>8. /\ r \in Wave /\ Once(r)
      /\ r.ran = p.ran /\ r.prog = wave[w].prog /\ r.kind = wave[w].kind
      /\ r.at = wave[w].at /\ r.live = wave[w].live /\ r.status = wave[w].status
      /\ outcome = "ok" => r.acked = wave[w].at.stmt
      /\ outcome # "ok" => r.acked = wave[w].at.stmt - 1
  BY <1>1, <1>4, <1>5, <1>6
<1> QED
  BY <1>7, <1>8 DEF r, p

LEMMA LastIsComplete ==
  ASSUME IInv, NEW w \in Waves, NEW n \in 0..1, Settles(w, "ok", n),
         wave[w].at.stmt = Len(wave[w].prog)
  PROVE  Complete(Acked(Ran(w, n), "ok"))
<1> DEFINE k == wave[w].at.stmt
           r == Acked(Ran(w, n), "ok")
<1>1. "ok" \in Outcome
  BY DEF Outcome
<1>2. /\ r.ran = Ran(w, n).ran /\ r.prog = wave[w].prog /\ r.acked = k /\ n = 1
  BY <1>1, AckedIsOK
<1>3. \A i \in 1..MaxStatements : /\ i # k => r.ran[i] = wave[w].ran[i]
                                  /\ i = k => r.ran[i] = wave[w].ran[i] + 1
  BY <1>1, <1>2, SettledIsOK
<1>4. /\ wave[w] \in Wave /\ wave[w].ran \in [1..MaxStatements -> Nat]
      /\ wave[w].prog \in Programs \cup {<<>>}
      /\ \A i \in 1..MaxStatements : i < k => wave[w].ran[i] >= 1
  BY Typed DEF Wave, Settles, RecordOK, Position
<1>5. Len(wave[w].prog) \in Nat /\ Len(wave[w].prog) <= MaxStatements /\ MaxStatements \in Nat
  BY <1>4, Lengths
<1> HIDE DEF r
<1>6. ASSUME NEW i \in 1..Len(wave[w].prog) PROVE r.ran[i] >= 1
  <2>1. i \in 1..MaxStatements /\ i <= k
    BY <1>5
  <2>2. wave[w].ran[i] \in Nat
    BY <1>4, <2>1
  <2>3. CASE i = k
    BY <1>3, <2>1, <2>2, <2>3
  <2>4. CASE i # k
    BY <1>3, <1>4, <2>1, <2>4
  <2> QED
    BY <2>3, <2>4
<1> QED
  BY <1>2, <1>6 DEF Complete, r

LEMMA StartKeeps ==
  ASSUME IInv, NEW w \in Waves, Start(w)
  PROVE  IInv'
<1>1. PICK kind \in {"run", "option", "script"}, p \in Programs :
        /\ kind = "script" <=> Len(p) > 1
        /\ wave[w].pc = "idle" /\ active = NoWave /\ ~running
        /\ active' = w /\ running' = TRUE
        /\ wave' = [wave EXCEPT ![w].pc = "preflight", ![w].kind = kind, ![w].prog = p,
                                ![w].tab = IF kind = "script" THEN NoTab ELSE activeTab,
                                ![w].live = TRUE]
        /\ UNCHANGED <<graphVars, history, reloads, abandoned, kills>>
  BY DEF Start
<1> DEFINE tab == IF kind = "script" THEN NoTab ELSE activeTab
           r == [wave[w] EXCEPT !.pc = "preflight", !.kind = kind, !.prog = p,
                                !.tab = tab, !.live = TRUE]
<1>2. wave[w] \in Wave /\ RecordOK(wave[w]) /\ wave \in [Waves -> Wave]
  BY Typed
<1>3. tab \in Tabs \cup {NoTab} /\ (kind # "script" => tab \in Tabs)
  BY Typed
<1>4. wave' = [wave EXCEPT ![w] = r]
  BY <1>1, <1>2
<1> HIDE DEF tab
<1>5. /\ r \in Wave /\ r.pc = "preflight" /\ r.kind = kind /\ r.prog = p /\ r.live
      /\ r.tab = tab /\ r.acked = wave[w].acked /\ r.status = wave[w].status
      /\ r.ran = wave[w].ran
  BY <1>2, <1>3 DEF Wave
<1> HIDE DEF r
<1>6. RecordOK(r)
  <2>1. Fresh(r)
    BY <1>1, <1>2, <1>5 DEF RecordOK, Fresh
  <2>2. Once(r)
    <3>1. Len(p) \in Nat /\ Len(p) <= MaxStatements /\ MaxStatements \in Nat
      BY Lengths
    <3>2. \A i \in 1..Len(p) : r.ran[i] = 0
      BY <1>5, <2>1, <3>1 DEF Fresh
    <3> QED
      BY <1>5, <3>2 DEF Once
  <2> QED
    BY <1>1, <1>3, <1>5, <2>1, <2>2 DEF RecordOK, Fresh, HasProgram, Position, Published,
                                        Ended, Started, Final
<1>7. /\ wave' \in [Waves -> Wave] /\ wave'[w] = r
      /\ \A v \in Waves \ {w} : wave'[v] = wave[v]
  BY <1>2, <1>4, <1>5
<1>8. ClaimInv'
  <2>1. Records'
    BY <1>6, <1>7, Typed DEF Records
  <2>2. NoWave \notin Waves
    BY ProgramsAssumption
  <2>3. OneRunAtATime'
    BY <1>1, <1>5, <1>7, <2>2, Typed DEF OneRunAtATime, Unfinished
  <2> QED
    BY <1>1, <1>7, <2>1, <2>3 DEF ClaimInv
<1>9. ASSUME NEW v \in Waves
      PROVE  /\ wave[v].pc = "done" => wave'[v] = wave[v]
             /\ wave[v].pc # "done" => wave'[v].status \notin Final \/ Reloaded(wave'[v])
  BY <1>1, <1>2, <1>5, <1>7, Typed DEF RecordOK, Ended
<1>10. HistoryInv' /\ ReloadInv'
  BY <1>1, <1>9, FinishedIsKept
<1>11. /\ AbandonedIsKilled'
       /\ (abandoned \subseteq Waves \X Query /\ kills \subseteq Waves \X Query)'
  BY <1>1, KilledIsKept
<1>12. GraphTypeOK' /\ GraphInv'
  BY <1>1, Typed, GraphIsKept DEF graphVars, GraphTypeOK
<1> QED
  BY <1>1, <1>8, <1>10, <1>11, <1>12, Typed, Assemble

LEMMA OptionIsRejectedKeeps ==
  ASSUME IInv, NEW w \in Waves, OptionIsRejected(w)
  PROVE  IInv'
<1> DEFINE r == [wave[w] EXCEPT !.pc = "done", !.kind = "option", !.tab = activeTab,
                                !.status = "error"]
<1>1. /\ wave[w].pc = "idle" /\ active = NoWave /\ ~running
      /\ result' = [result EXCEPT ![activeTab] = w]
      /\ UNCHANGED <<open, activeTab, show, inflight, active, running, history, reloads,
                     abandoned, kills>>
  BY DEF OptionIsRejected
<1>2. wave[w] \in Wave /\ RecordOK(wave[w]) /\ wave \in [Waves -> Wave] /\ activeTab \in Tabs
  BY Typed
<1>3. wave' = [wave EXCEPT ![w] = r]
  BY <1>2 DEF OptionIsRejected
<1>4. /\ r \in Wave /\ r.pc = "done" /\ r.kind = "option" /\ r.prog = wave[w].prog
      /\ r.live = wave[w].live /\ r.ran = wave[w].ran
  BY <1>2 DEF Wave
<1> HIDE DEF r
<1>5. RecordOK(r) /\ ~r.live
  BY <1>1, <1>2, <1>4 DEF RecordOK, Fresh, HasProgram, Position, Once, Published, Ended,
                          Started
<1>6. /\ wave' \in [Waves -> Wave] /\ wave'[w] = r
      /\ \A v \in Waves \ {w} : wave'[v] = wave[v]
  BY <1>2, <1>3, <1>4
<1>7. ClaimInv'
  <2>1. Records'
    BY <1>5, <1>6, Typed DEF Records
  <2>2. NoWave \notin Waves
    BY ProgramsAssumption
  <2>3. OneRunAtATime'
    BY <1>1, <1>4, <1>6, <2>2, Typed DEF OneRunAtATime, Unfinished
  <2> QED
    BY <1>1, <1>6, <2>1, <2>3, Typed DEF ClaimInv
<1>8. ASSUME NEW v \in Waves
      PROVE  /\ wave[v].pc = "done" => wave'[v] = wave[v]
             /\ wave[v].pc # "done" => wave'[v].status \notin Final \/ Reloaded(wave'[v])
  BY <1>1, <1>4, <1>6, Typed DEF RecordOK, Ended, Reloaded
<1>9. HistoryInv' /\ ReloadInv'
  BY <1>1, <1>8, FinishedIsKept
<1>10. /\ AbandonedIsKilled'
       /\ (abandoned \subseteq Waves \X Query /\ kills \subseteq Waves \X Query)'
  BY <1>1, KilledIsKept
<1>11. GraphTypeOK' /\ GraphInv'
  <2>1. /\ GraphTypeOK /\ GraphInv /\ Shows \cap Waves = {}
    BY OwnersAssumption DEF IInv, TypeOK
  <2>2. \A t \in Tabs : result'[t] \in Shows => result'[t] = result[t]
    BY <1>1, <1>2, <2>1 DEF GraphTypeOK
  <2>3. GraphTypeOK'
    BY <1>1, <1>2, <2>1 DEF GraphTypeOK
  <2> QED
    BY <1>1, <2>1, <2>2, <2>3 DEF GraphInv, OneLoadAtATime
<1> QED
  BY <1>1, <1>7, <1>9, <1>10, <1>11, Typed, Assemble

LEMMA PlainEndsKeep ==
  ASSUME IInv, NEW w \in Waves, PreflightStops(w) \/ StaleEnds(w) \/ RetryIsStale(w)
  PROVE  IInv'
<1>1. ASSUME UNCHANGED graphVars PROVE GraphTypeOK' /\ GraphInv'
  BY <1>1, Typed, GraphIsKept DEF graphVars, GraphTypeOK
<1>2. ASSUME Unfinished(w), Retire(w, wave[w]),
             UNCHANGED <<graphVars, history, reloads, abandoned, kills>>
      PROVE  IInv'
  <2>1. wave[w] \in Wave /\ Once(wave[w]) /\ wave[w].status \notin Final
    BY <1>2, Typed DEF Unfinished, RecordOK, Ended
  <2> QED
    BY <1>1, <1>2, <2>1, PlainEndKeeps
<1>3. CASE PreflightStops(w) \/ RetryIsStale(w)
  BY <1>2, <1>3 DEF PreflightStops, RetryIsStale, Unfinished
<1>4. CASE StaleEnds(w)
  <2>1. PICK outcome \in Outcome, n \in 0..1 :
          /\ Settles(w, outcome, n) /\ Retire(w, Ran(w, n))
          /\ UNCHANGED <<graphVars, history, reloads, abandoned, kills>>
    BY <1>4 DEF StaleEnds
  <2>2. Ran(w, n) \in Wave /\ Once(Ran(w, n)) /\ Ran(w, n).status = wave[w].status
    BY <2>1, SettledIsOK
  <2>3. Unfinished(w) /\ wave[w].status \notin Final
    BY <2>1, Typed DEF Settles, Unfinished, RecordOK, Ended
  <2> QED
    BY <1>1, <2>1, <2>2, <2>3, PlainEndKeeps
<1> QED
  BY <1>3, <1>4

LEMMA PanelRejectsKeeps ==
  ASSUME IInv, NEW w \in Waves, PanelRejects(w)
  PROVE  IInv'
<1> DEFINE r == [wave[w] EXCEPT !.status = "error"]
<1>1. /\ wave[w].kind = "run" /\ wave[w].pc = "preflight"
      /\ Takes(w, wave[w].tab) /\ Retire(w, r)
      /\ UNCHANGED <<history, reloads, abandoned, kills>>
  BY DEF PanelRejects, Takes
<1>2. wave[w] \in Wave /\ RecordOK(wave[w])
  BY Typed
<1>3. wave[w].tab \in Tabs /\ wave[w].acked = 0
  BY <1>1, <1>2 DEF RecordOK, HasProgram, Fresh, Started
<1>4. r \in Wave /\ r.acked = 0 /\ r.prog = wave[w].prog /\ r.ran = wave[w].ran
  BY <1>2, <1>3 DEF Wave
<1> HIDE DEF r
<1>5. Once(r) /\ Reloaded(r)
  BY <1>2, <1>4 DEF RecordOK, Once, Reloaded
<1>6. GraphTypeOK' /\ GraphInv'
  BY <1>1, <1>3, TakesKeeps
<1> QED
  BY <1>1, <1>4, <1>5, <1>6, PlainEndKeeps DEF Unfinished

LEMMA BeginKeeps ==
  ASSUME IInv, NEW w \in Waves, Begin(w)
  PROVE  IInv'
<1> DEFINE tab == IF wave[w].kind = "script" THEN activeTab ELSE wave[w].tab
           b == [wave[w] EXCEPT !.tab = tab, !.status = "open"]
<1>1. /\ wave[w].pc = "preflight" /\ Takes(w, tab)
      /\ wave' = [wave EXCEPT ![w] = Attempt(b, 1, 1)]
      /\ UNCHANGED <<active, running, history, reloads, abandoned, kills>>
  BY DEF Begin, Takes
<1>2. wave[w] \in Wave /\ RecordOK(wave[w])
  BY Typed
<1>3. tab \in Tabs
  BY <1>1, <1>2, Typed DEF RecordOK, HasProgram, Started
<1> HIDE DEF tab
<1>4. /\ b \in Wave /\ b.status = "open" /\ b.acked = wave[w].acked /\ b.ran = wave[w].ran
      /\ b.prog = wave[w].prog /\ b.kind = wave[w].kind /\ b.live = wave[w].live
  BY <1>2, <1>3 DEF Wave
<1> HIDE DEF b
<1>5. /\ b.prog \in Programs /\ (b.kind = "script" <=> Len(b.prog) > 1)
      /\ b.acked = 0 /\ \A i \in 1..MaxStatements : b.ran[i] = 0
  BY <1>1, <1>2, <1>4 DEF RecordOK, HasProgram, Fresh, Started
<1>6. Once(b)
  BY <1>2, <1>4 DEF RecordOK, Once
<1>7. /\ Len(b.prog) \in Nat /\ Len(b.prog) > 0 /\ Len(b.prog) <= MaxStatements
      /\ MaxStatements \in Nat
  BY <1>5, Lengths
<1>8. 1 \in 1..Len(b.prog) /\ 1 \in 1..2 /\ 1 \in 1..MaxStatements
  BY <1>7
<1>9. /\ b.status \notin Final
      /\ b.acked = 1 - 1
      /\ \A i \in 1..MaxStatements : (i < 1 => b.ran[i] >= 1) /\ (i > 1 => b.ran[i] = 0)
      /\ b.ran[1] > 0 => RowReturning(b.prog[1])
  BY <1>4, <1>5, <1>8 DEF Final
<1>10. /\ Attempt(b, 1, 1) \in Wave /\ RecordOK(Attempt(b, 1, 1))
       /\ Attempt(b, 1, 1).pc = "request" /\ Attempt(b, 1, 1).live = b.live
  BY <1>4, <1>5, <1>6, <1>8, <1>9, AttemptIsOK
<1>11. GraphTypeOK' /\ GraphInv'
  BY <1>1, <1>3, TakesKeeps
<1> QED
  BY <1>1, <1>4, <1>10, <1>11, RunningStepKeeps DEF Unfinished, Started

LEMMA RetryBeginsKeeps ==
  ASSUME IInv, NEW w \in Waves, RetryBegins(w)
  PROVE  IInv'
<1> DEFINE r == wave[w]
<1>1. /\ r.pc = "sleep"
      /\ wave' = [wave EXCEPT ![w] = Attempt(r, r.at.stmt, r.at.attempt + 1)]
      /\ UNCHANGED <<graphVars, active, running, history, reloads, abandoned, kills>>
  BY Typed DEF RetryBegins
<1>2. r \in Wave /\ RecordOK(r)
  BY Typed
<1>3. /\ r.prog \in Programs /\ (r.kind = "script" <=> Len(r.prog) > 1)
      /\ r.status \notin Final /\ Once(r)
      /\ r.at.stmt \in 1..Len(r.prog) /\ r.at.attempt + 1 \in 1..2
      /\ r.acked = r.at.stmt - 1
      /\ \A i \in 1..MaxStatements : (i < r.at.stmt => r.ran[i] >= 1)
                                  /\ (i > r.at.stmt => r.ran[i] = 0)
      /\ r.ran[r.at.stmt] > 0 => RowReturning(r.prog[r.at.stmt])
  BY <1>1, <1>2 DEF RecordOK, HasProgram, Position, Ended, Started
<1> DEFINE a == Attempt(r, r.at.stmt, r.at.attempt + 1)
<1>4. a \in Wave /\ RecordOK(a) /\ a.pc = "request" /\ a.live = r.live
  BY <1>2, <1>3, AttemptIsOK
<1>5. GraphTypeOK' /\ GraphInv'
  BY <1>1, Typed, GraphIsKept DEF graphVars, GraphTypeOK
<1> QED
  BY <1>1, <1>4, <1>5, RunningStepKeeps DEF Unfinished, Started

LEMMA ScriptSleepsKeeps ==
  ASSUME IInv, NEW w \in Waves, ScriptSleeps(w)
  PROVE  IInv'
<1>1. PICK outcome \in Outcome, n \in 0..1 :
        /\ Settles(w, outcome, n)
        /\ Retries(Current(w), outcome, wave[w].at.attempt)
        /\ wave' = [wave EXCEPT ![w] = [Ran(w, n) EXCEPT !.pc = "sleep", !.sent = FALSE]]
        /\ UNCHANGED <<graphVars, active, running, history, reloads, abandoned, kills>>
  BY DEF ScriptSleeps
<1> DEFINE p == Ran(w, n)
           k == wave[w].at.stmt
           r == [p EXCEPT !.pc = "sleep", !.sent = FALSE]
<1>2. /\ p \in Wave /\ Once(p) /\ p.prog = wave[w].prog /\ p.kind = wave[w].kind
      /\ \A i \in 1..MaxStatements : /\ i # k => p.ran[i] = wave[w].ran[i]
                                     /\ i = k => p.ran[i] = wave[w].ran[i] + n
      /\ p.acked = wave[w].acked /\ p.at = wave[w].at /\ p.live = wave[w].live
      /\ p.status = wave[w].status /\ k \in 1..MaxStatements
  BY <1>1, SettledIsOK
<1> HIDE DEF p
<1>3. /\ r \in Wave /\ r.pc = "sleep" /\ r.prog = p.prog /\ r.kind = p.kind
      /\ r.ran = p.ran /\ r.acked = p.acked /\ r.at = p.at /\ r.live = p.live
      /\ r.status = p.status
  BY <1>2 DEF Wave
<1>4. wave' = [wave EXCEPT ![w] = r]
  BY <1>1 DEF p
<1> HIDE DEF r
<1>5. /\ wave[w] \in Wave /\ RecordOK(wave[w]) /\ wave[w].pc = "request"
      /\ wave[w].ran \in [1..MaxStatements -> Nat]
  BY <1>1, Typed DEF Settles, Wave
<1>6. wave[w].at.attempt = 1
  BY <1>1 DEF Retries
<1>7. r.ran[k] > 0 => RowReturning(r.prog[k])
  <2>1. CASE outcome = "locked"
    <3>1. n = 0
      BY <1>1, <2>1 DEF Settles, Executions
    <3>2. wave[w].ran[k] \in Nat
      BY <1>2, <1>5
    <3>3. r.ran[k] = wave[w].ran[k]
      BY <1>2, <1>3, <3>1, <3>2
    <3> QED
      BY <1>2, <1>3, <1>5, <3>3 DEF RecordOK, Position
  <2>2. CASE outcome # "locked"
    BY <1>1, <1>2, <1>3, <2>2 DEF Retries, Current
  <2> QED
    BY <2>1, <2>2
<1>8. Position(r)
  BY <1>2, <1>3, <1>5, <1>6, <1>7 DEF RecordOK, Position
<1>9. RecordOK(r)
  BY <1>2, <1>3, <1>5, <1>8 DEF RecordOK, Fresh, HasProgram, Once, Published, Ended,
                                Started
<1>10. GraphTypeOK' /\ GraphInv'
  BY <1>1, Typed, GraphIsKept DEF graphVars, GraphTypeOK
<1> QED
  BY <1>1, <1>2, <1>3, <1>4, <1>5, <1>9, <1>10, RunningStepKeeps DEF Unfinished, Started

LEMMA ScriptAdvancesKeeps ==
  ASSUME IInv, NEW w \in Waves, ScriptAdvances(w)
  PROVE  IInv'
<1>1. PICK n \in 0..1 :
        /\ Settles(w, "ok", n)
        /\ wave[w].at.stmt < Len(wave[w].prog)
        /\ wave' = [wave EXCEPT ![w] =
                      Attempt(Acked(Ran(w, n), "ok"), wave[w].at.stmt + 1, 1)]
        /\ UNCHANGED <<graphVars, active, running, history, reloads, abandoned, kills>>
  BY Typed DEF ScriptAdvances
<1> DEFINE k == wave[w].at.stmt
           r == Acked(Ran(w, n), "ok")
           a == Attempt(r, k + 1, 1)
<1>2. "ok" \in Outcome
  BY DEF Outcome
<1>3. /\ r \in Wave /\ Once(r) /\ r.ran = Ran(w, n).ran /\ r.prog = wave[w].prog
      /\ r.kind = wave[w].kind /\ r.live = wave[w].live /\ r.status = wave[w].status
      /\ r.acked = k /\ n = 1
  BY <1>1, <1>2, AckedIsOK
<1>4. /\ \A i \in 1..MaxStatements : /\ i # k => r.ran[i] = wave[w].ran[i]
                                     /\ i = k => r.ran[i] = wave[w].ran[i] + 1
      /\ k \in 1..MaxStatements
  BY <1>1, <1>2, <1>3, SettledIsOK
<1>5. /\ wave[w] \in Wave /\ RecordOK(wave[w]) /\ wave[w].pc = "request"
      /\ wave[w].ran \in [1..MaxStatements -> Nat]
      /\ wave[w].prog \in Programs \cup {<<>>}
  BY <1>1, Typed DEF Settles, Wave
<1>6. /\ Len(wave[w].prog) \in Nat /\ Len(wave[w].prog) <= MaxStatements
      /\ MaxStatements \in Nat
  BY <1>5, Lengths
<1> HIDE DEF r
<1>7. /\ r.prog \in Programs /\ (r.kind = "script" <=> Len(r.prog) > 1)
      /\ r.status \notin Final
  BY <1>3, <1>5 DEF RecordOK, HasProgram, Ended, Started
<1>8. k + 1 \in 1..Len(r.prog) /\ r.acked = (k + 1) - 1 /\ 1 \in 1..2
  BY <1>1, <1>3, <1>4, <1>6
<1>9. /\ \A i \in 1..MaxStatements : (i < k + 1 => r.ran[i] >= 1)
                                  /\ (i > k + 1 => r.ran[i] = 0)
      /\ r.ran[k + 1] = 0
  <2>1. \A i \in 1..MaxStatements : /\ i < k => wave[w].ran[i] >= 1
                                    /\ i > k => wave[w].ran[i] = 0
                                    /\ wave[w].ran[i] \in Nat
    BY <1>5 DEF RecordOK, Position
  <2>2. k + 1 \in 1..MaxStatements
    BY <1>3, <1>6, <1>8
  <2> QED
    BY <1>4, <2>1, <2>2
<1>10. a \in Wave /\ RecordOK(a) /\ a.pc = "request" /\ a.live = r.live
  BY <1>3, <1>7, <1>8, <1>9, AttemptIsOK
<1>11. GraphTypeOK' /\ GraphInv'
  BY <1>1, Typed, GraphIsKept DEF graphVars, GraphTypeOK
<1>12. wave' = [wave EXCEPT ![w] = a]
  BY <1>1 DEF r
<1> QED
  BY <1>1, <1>3, <1>5, <1>10, <1>11, <1>12, RunningStepKeeps DEF Unfinished, Started

LEMMA RunEndsKeeps ==
  ASSUME IInv, NEW w \in Waves, RunEnds(w)
  PROVE  IInv'
<1>1. PICK outcome \in Outcome, n \in 0..1 :
        /\ wave[w].kind # "script" /\ Settles(w, outcome, n)
        /\ \/ Ends(w, Acked(Ran(w, n), outcome), StatusOf(outcome))
           \/ Ends(w, Acked(Ran(w, n), outcome), "error")
  BY DEF RunEnds
<1> DEFINE r == Acked(Ran(w, n), outcome)
<1>2. /\ r \in Wave /\ Once(r) /\ wave[w].pc = "request"
      /\ StatusOf(outcome) \in Final /\ "error" \in Final
      /\ StatusOf(outcome) = "ok" => outcome = "ok"
  BY <1>1, AckedIsOK DEF Settles, StatusOf, Final
<1>3. ASSUME outcome = "ok" PROVE Complete(r)
  <2>1. /\ wave[w].prog \in Programs /\ ~(Len(wave[w].prog) > 1)
        /\ wave[w].at.stmt \in 1..Len(wave[w].prog)
    BY <1>1, <1>2, Typed DEF RecordOK, HasProgram, Position, Started
  <2>2. Len(wave[w].prog) \in Nat
    BY <2>1, Lengths
  <2>3. wave[w].at.stmt = Len(wave[w].prog)
    BY <2>1, <2>2
  <2> QED
    BY <1>1, <1>3, <2>3, LastIsComplete
<1> HIDE DEF r
<1>4. PICK status \in Final : Ends(w, r, status) /\ (status = "ok" => outcome = "ok")
  BY <1>1, <1>2 DEF r
<1> QED
  BY <1>2, <1>3, <1>4, EndsKeeps

LEMMA ScriptEndsKeeps ==
  ASSUME IInv, NEW w \in Waves, ScriptEnds(w)
  PROVE  IInv'
<1>1. PICK outcome \in Outcome, n \in 0..1 :
        /\ Settles(w, outcome, n)
        /\ outcome = "ok" => wave[w].at.stmt = Len(wave[w].prog)
        /\ Ends(w, Acked(Ran(w, n), outcome), StatusOf(outcome))
  BY DEF ScriptEnds
<1> DEFINE r == Acked(Ran(w, n), outcome)
<1>2. /\ r \in Wave /\ Once(r) /\ wave[w].pc = "request"
      /\ StatusOf(outcome) \in Final
      /\ StatusOf(outcome) = "ok" => outcome = "ok"
  BY <1>1, AckedIsOK DEF Settles, StatusOf, Final
<1>3. ASSUME outcome = "ok" PROVE Complete(r)
  BY <1>1, <1>3, LastIsComplete
<1> HIDE DEF r
<1> QED
  BY <1>1, <1>2, <1>3, EndsKeeps DEF r

LEMMA SignInKeeps ==
  ASSUME IInv, SignIn
  PROVE  IInv'
BY DEF SignIn, waveVars, IInv, TypeOK, GraphTypeOK, Records, OneRunAtATime, Unfinished,
       HistoryInv, ReloadInv, AbandonedIsKilled, GraphInv, OneLoadAtATime

\* A step of the graph alone.
LEMMA GraphStepKeeps ==
  ASSUME IInv, UNCHANGED waveVars, GraphTypeOK', GraphInv'
  PROVE  IInv'
BY DEF waveVars, IInv, TypeOK, Records, OneRunAtATime, Unfinished, HistoryInv, ReloadInv,
       AbandonedIsKilled

-----------------------------------------------------------------------------
(* The invariant of the specification *)

LEMMA InitKeeps ==
  ASSUME Init
  PROVE  IInv
<1>1. NoQuery \in Query /\ MaxStatements \in Nat
  BY ProgramsAssumption DEF NoQuery, Query
<1>2. IdleWave \in Wave
  BY <1>1 DEF IdleWave, Wave
<1>3. IdleShow \in Show
  BY DEF IdleShow, Show
<1>4. TypeOK
  BY <1>2, <1>3 DEF Init, GraphInit, TypeOK, GraphTypeOK
<1>5. RecordOK(IdleWave)
  <2>1. /\ IdleWave.pc = "idle" /\ IdleWave.acked = 0 /\ IdleWave.status = "none"
        /\ ~IdleWave.live /\ Len(IdleWave.prog) = 0
        /\ \A i \in 1..MaxStatements : IdleWave.ran[i] = 0
    BY DEF IdleWave
  <2> QED
    BY <2>1 DEF RecordOK, Fresh, HasProgram, Position, Once, Published, Ended, Started, Final
<1>6. Records /\ HistoryInv /\ AbandonedIsKilled
  BY <1>5 DEF Init, Records, HistoryInv, AbandonedIsKilled
<1>7. OneRunAtATime
  BY ProgramsAssumption DEF Init, OneRunAtATime, Unfinished, IdleWave
<1>8. ReloadInv
  BY DEF Init, ReloadInv, Reloaded, IdleWave, Final
<1>9. GraphInv
  BY OwnersAssumption DEF Init, GraphInit, GraphInv, OneLoadAtATime, IdleShow
<1> QED
  BY <1>4, <1>6, <1>7, <1>8, <1>9 DEF IInv

LEMMA NextKeeps ==
  ASSUME IInv, [Next]_vars
  PROVE  IInv'
<1>1. CASE UserStep
  <2>1. CASE (CancelGraph \/ \E t \in Tabs : SelectTab(t)) /\ UNCHANGED waveVars
    BY <2>1, StepOfUserOnGraphKeeps, GraphStepKeeps
  <2> QED
    BY <1>1, <2>1, CancelKeeps, DestroyKeeps, LoseSessionKeeps, SignInKeeps DEF UserStep
<1>2. ASSUME NEW w \in Waves, Start(w) \/ OptionIsRejected(w) \/ WaveStep(w)
      PROVE  IInv'
  BY <1>2, StartKeeps, OptionIsRejectedKeeps, PlainEndsKeep, PreflightLosesSessionKeeps,
     PanelRejectsKeeps, BeginKeeps, RunEndsKeeps, ScriptAdvancesKeeps, ScriptSleepsKeeps,
     ScriptEndsKeeps, RetryBeginsKeeps
     DEF WaveStep
<1>3. ASSUME NEW s \in Shows, GraphStep(s) \/ ShowLosesSession(s)
      PROVE  IInv'
  <2>1. CASE GraphStep(s)
    BY <2>1, StepOfShowKeeps, GraphStepKeeps DEF GraphStep
  <2>2. CASE ShowLosesSession(s)
    BY <2>2, ShowLosesSessionKeeps
  <2> QED
    BY <1>3, <2>1, <2>2
<1>4. CASE UNCHANGED vars
  <2>1. UNCHANGED waveVars /\ UNCHANGED graphVars
    BY <1>4 DEF vars
  <2>2. GraphTypeOK' /\ GraphInv'
    BY <2>1, Typed, GraphIsKept DEF graphVars, GraphTypeOK
  <2> QED
    BY <2>1, <2>2, GraphStepKeeps
<1> QED
  BY <1>1, <1>2, <1>3, <1>4 DEF Next

\* Whatever is run, cancelled, disposed of or drawn, in whatever order the network
\* answers, the invariant of the workbench holds in every state.
THEOREM Invariance == Spec => []IInv
<1>1. Init => IInv
  BY InitKeeps
<1>2. IInv /\ [Next]_vars => IInv'
  BY NextKeeps
<1> QED
  BY <1>1, <1>2, PTL DEF Spec

\* Every variable of the workbench and of the graphs keeps its type.
THEOREM WorkbenchTypeOK == Spec => []TypeOK
<1>1. IInv => TypeOK
  BY DEF IInv
<1> QED
  BY <1>1, Invariance, PTL

\* The claim on the one run (activeRun, state.running) is held by the one wave that has
\* not ended and has not lost its registration: a late end frees nobody else's claim.
THEOREM AlwaysOneRun == Spec => []OneRunAtATime
<1>1. IInv => OneRunAtATime
  BY DEF IInv
<1> QED
  BY <1>1, Invariance, PTL

\* The retry of executeScript never runs a statement twice that changes data or schema.
THEOREM EffectsAlwaysRunOnce == Spec => []EffectsRunOnce
<1>1. IInv => EffectsRunOnce
  BY DEF IInv, Records, RecordOK, Once, EffectsRunOnce
<1> QED
  BY <1>1, Invariance, PTL

\* Only runs whose every statement has been executed and has succeeded get into history.
THEOREM HistoryIsAlwaysComplete == Spec => []HistoryIsComplete
<1>1. IInv => HistoryIsComplete
  BY DEF IInv, HistoryInv, Complete, HistoryIsComplete
<1> QED
  BY <1>1, Invariance, PTL

\* No request is aborted in flight, by cancel, destroy or the end of the session, without
\* a KILL QUERY that carries the id of that very attempt.
THEOREM AbandonedIsAlwaysKilled == Spec => []AbandonedIsKilled
<1>1. IInv => AbandonedIsKilled
  BY DEF IInv
<1> QED
  BY <1>1, Invariance, PTL

\* Schema changes that have succeeded are followed by a reload, also when the script has
\* failed or was cancelled later on.
THEOREM SchemaChangesAreAlwaysReloaded == Spec => []SchemaChangesAreReloaded
<1>1. IInv => SchemaChangesAreReloaded
  BY DEF IInv, ReloadInv, Reloaded, SchemaChangesAreReloaded, Final
<1> QED
  BY <1>1, Invariance, PTL

\* A lineage load that nobody has stopped is the one that cancel() reaches.
THEOREM AlwaysOneLoad == Spec => []OneLoadAtATime
<1>1. IInv => OneLoadAtATime
  BY DEF IInv, GraphInv
<1> QED
  BY <1>1, Invariance, PTL

-----------------------------------------------------------------------------
(* What a step may never do *)

\* The step leaves what a stale wave has come to alone.
Inert(w) ==
  /\ w \in history' => w \in history
  /\ w \in reloads' => w \in reloads
  /\ wave'[w].status = wave[w].status

LEMMA CloseScopeIsInert ==
  ASSUME IInv, NEW w \in Waves,
         \/ LoseSession
         \/ \E v \in Waves : PreflightLosesSession(v)
         \/ \E s \in Shows : ShowLosesSession(s)
  PROVE  Inert(w)
<1>1. \A v \in Waves : wave[v] \in Wave /\ Closed[v] \in Wave
  BY Typed, ClosedFacts
<1>2. StoppedRecord(wave[w]).status = wave[w].status
  BY Typed, StoppedIsOK
<1>3. Closed[w].status = wave[w].status
  BY <1>2, ClosedFacts
<1>4. /\ UNCHANGED <<history, reloads>>
      /\ wave' = Closed \/ \E v \in Waves : wave' = [Closed EXCEPT ![v].pc = "done"]
  BY DEF LoseSession, PreflightLosesSession, ShowLosesSession, CloseScope
<1>5. CASE wave' = Closed
  BY <1>3, <1>4, <1>5 DEF Inert
<1>6. CASE \E v \in Waves : wave' = [Closed EXCEPT ![v].pc = "done"]
  <2>1. PICK v \in Waves : wave' = [Closed EXCEPT ![v].pc = "done"]
    BY <1>6
  <2>2. wave'[w].status = Closed[w].status
    BY <1>1, <2>1, ClosedFacts DEF Wave
  <2> QED
    BY <1>3, <1>4, <2>2 DEF Inert
<1> QED
  BY <1>4, <1>5, <1>6

LEMMA StepIsInert ==
  ASSUME IInv, [Next]_vars, NEW w \in Waves, wave[w].pc # "idle", ~IsWaveCurrent(w)
  PROVE  Inert(w)
<1>1. /\ wave \in [Waves -> Wave]
      /\ \A v \in Waves : wave[v] \in Wave
  BY Typed
<1>2. ASSUME wave' = wave, UNCHANGED <<history, reloads>> PROVE Inert(w)
  BY <1>2 DEF Inert
<1>3. CASE UserStep
  <2>1. CASE Cancel \/ Destroy
    <3>1. active \in Waves \ {w}
      BY <2>1, Typed DEF Cancel, Destroy, OneRunAtATime, IsWaveCurrent
    <3>2. wave'[w] = wave[w] /\ UNCHANGED <<history, reloads>>
      BY <1>1, <2>1, <3>1 DEF Cancel, Destroy
    <3> QED
      BY <3>2 DEF Inert
  <2> QED
    BY <1>2, <1>3, <2>1, CloseScopeIsInert DEF UserStep, SignIn, waveVars
<1>4. ASSUME NEW s \in Shows, GraphStep(s) \/ ShowLosesSession(s) PROVE Inert(w)
  BY <1>2, <1>4, CloseScopeIsInert DEF GraphStep, waveVars
<1>5. CASE UNCHANGED vars
  BY <1>2, <1>5 DEF vars, waveVars
<1>6. ASSUME NEW v \in Waves, Start(v) \/ OptionIsRejected(v) \/ WaveStep(v)
      PROVE  Inert(w)
  <2>1. CASE v # w
    <3>1. CASE PreflightLosesSession(v)
      BY <3>1, CloseScopeIsInert
    <3>2. CASE ~PreflightLosesSession(v)
      <4>1. /\ wave'[w] = wave[w]
            /\ history' \subseteq history \cup {v} /\ reloads' \subseteq reloads \cup {v}
        BY <1>1, <1>6, <2>1, <3>2
           DEF Start, OptionIsRejected, WaveStep, PreflightStops, PanelRejects, Begin,
               StaleEnds, RunEnds, ScriptAdvances, ScriptSleeps, ScriptEnds, RetryBegins,
               RetryIsStale, Retire, Ends, Takes
      <4> QED
        BY <2>1, <4>1 DEF Inert
    <3> QED
      BY <3>1, <3>2
  <2>2. CASE v = w
    <3>1. PreflightStops(w) \/ StaleEnds(w) \/ RetryIsStale(w)
      BY <1>6, <2>2
         DEF Start, OptionIsRejected, WaveStep, PreflightLosesSession, PanelRejects, Begin,
             Takes, IsWaveRunnable, RunEnds, ScriptAdvances, ScriptSleeps, ScriptEnds,
             RetryBegins
    <3>2. ASSUME NEW r \in Wave, r.status = wave[w].status, Retire(w, r)
          PROVE  wave'[w].status = wave[w].status
      BY <1>1, <3>2 DEF Retire, Wave
    <3>3. CASE PreflightStops(w) \/ RetryIsStale(w)
      BY <1>1, <3>2, <3>3 DEF PreflightStops, RetryIsStale, Inert
    <3>4. CASE StaleEnds(w)
      <4>1. PICK outcome \in Outcome, n \in 0..1 :
              /\ Settles(w, outcome, n) /\ Retire(w, Ran(w, n))
              /\ UNCHANGED <<history, reloads>>
        BY <3>4 DEF StaleEnds
      <4>2. Ran(w, n) \in Wave /\ Ran(w, n).status = wave[w].status
        BY <4>1, SettledIsOK
      <4> QED
        BY <3>2, <4>1, <4>2 DEF Inert
    <3> QED
      BY <3>1, <3>3, <3>4
  <2> QED
    BY <2>1, <2>2
<1> QED
  BY <1>3, <1>4, <1>5, <1>6 DEF Next

\* What arrives for a wave that has lost its claim comes to nothing: no history entry, no
\* reload of the schema, no change of the result.
THEOREM StaleWavesStayInert == Spec => StaleWavesAreInert
<1>1. IInv /\ [Next]_vars =>
        [\A w \in Waves : wave[w].pc # "idle" /\ ~IsWaveCurrent(w) =>
           /\ w \in history' => w \in history
           /\ w \in reloads' => w \in reloads
           /\ wave'[w].status = wave[w].status]_vars
  BY StepIsInert DEF Inert
<1> QED
  BY <1>1, Invariance, PTL DEF Spec, StaleWavesAreInert

\* The step changes no graph that its tab does not show, and brings no result back.
GraphInert ==
  /\ \A s \in Shows : show'[s].graph # show[s].graph => show[s].graph = "none" \/ IsShown(s)
  /\ \A t \in Tabs :
       /\ result'[t] # result[t] /\ result'[t] \in Shows =>
            show[result'[t]].graph = "none"
       /\ result'[t] # result[t] /\ result'[t] \in Waves =>
            wave[result'[t]].status = "none"

LEMMA StepIsGraphInert ==
  ASSUME IInv, [Next]_vars
  PROVE  GraphInert
<1>1. /\ show \in [Shows -> Show] /\ result \in [Tabs -> Shows \cup Waves \cup {NoResult}]
      /\ activeTab \in Tabs /\ GraphInv /\ Shows \cap Waves = {}
      /\ NoResult \notin Shows \cup Waves
  BY OwnersAssumption DEF IInv, TypeOK, GraphTypeOK
<1>2. \A w \in Waves : wave[w].pc \in {"idle", "preflight"} => wave[w].status = "none"
  BY Typed DEF RecordOK, Fresh
<1>3. ASSUME show' = show, result' = result PROVE GraphInert
  BY <1>3 DEF GraphInert
<1>4. ASSUME NEW w \in Waves, NEW tab \in Tabs, Takes(w, tab) PROVE GraphInert
  <2>1. /\ show' = Cancelled /\ result' = [result EXCEPT ![tab] = w]
        /\ wave[w].pc = "preflight"
    BY <1>4 DEF Takes
  <2> QED
    BY <1>1, <1>2, <2>1, CancelledFacts DEF GraphInert
<1>5. ASSUME NEW waves, NEW shows, CloseScope(waves, shows),
             \A s \in Shows : shows[s].graph # show[s].graph => IsShown(s)
      PROVE  GraphInert
  BY <1>5 DEF CloseScope, GraphInert
<1>6. ASSUME NEW s \in Shows, GraphStep(s) PROVE GraphInert
  <2>1. CASE StartShow(s) \/ ShowStops(s)
    BY <1>1, <2>1 DEF StartShow, ShowStops, GraphInert, Show
  <2>2. CASE ShowBegins(s)
    <3>1. /\ show' = [Cancelled EXCEPT ![s].pc = "lineage", ![s].tab = activeTab,
                                       ![s].graph = "placeholder"]
          /\ result' = [result EXCEPT ![activeTab] = s] /\ show[s].pc = "preflight"
      BY <2>2 DEF ShowBegins
    <3>2. show[s].graph = "none"
      BY <1>1, <3>1 DEF GraphInv
    <3>3. \A v \in Shows \ {s} : show'[v].graph = show[v].graph
      BY <3>1, CancelledFacts
    <3>4. \A t \in Tabs : result'[t] # result[t] => result'[t] = s
      BY <1>1, <3>1
    <3> QED
      BY <1>1, <3>2, <3>3, <3>4 DEF GraphInert
  <2>3. CASE BaseArrives(s)
    BY <1>1, <2>3 DEF BaseArrives, Superseded, GraphInert
  <2>4. CASE ShowEnds(s)
    <3>1. PICK g \in IF Superseded(s) THEN {show[s].graph} ELSE {"complete", "error"} :
            show' = [show EXCEPT ![s].pc = "done", ![s].graph = g]
      BY <2>4 DEF ShowEnds
    <3>2. result' = result
      BY <2>4 DEF ShowEnds
    <3>3. /\ \A v \in Shows \ {s} : show'[v] = show[v]
          /\ show'[s].graph = g
      BY <1>1, <3>1 DEF Show
    <3>4. g # show[s].graph => IsShown(s)
      BY <3>1 DEF Superseded
    <3> QED
      BY <3>2, <3>3, <3>4 DEF GraphInert
  <2> QED
    BY <1>6, <2>1, <2>2, <2>3, <2>4 DEF GraphStep
<1>7. CASE CancelGraph
  <2>1. PICK s \in Shows :
          /\ result[activeTab] = s
          /\ \/ /\ show' = [Cancelled EXCEPT ![s].graph = "partial"]
                /\ result' = result
             \/ /\ show' = Cancelled
                /\ result' = [result EXCEPT ![activeTab] = NoResult]
    BY <1>7 DEF CancelGraph
  <2>2. IsShown(s)
    BY <1>1, <2>1 DEF IsShown, GraphInv
  <2>3. \A v \in Shows \ {s} : show'[v].graph = show[v].graph
    BY <2>1, CancelledFacts
  <2>4. \A t \in Tabs : result'[t] # result[t] => result'[t] = NoResult
    BY <1>1, <2>1
  <2> QED
    BY <1>1, <2>2, <2>3, <2>4 DEF GraphInert
<1>8. CASE LoseSession
  BY <1>5, <1>8, SuspendedFacts DEF LoseSession
<1>9. ASSUME NEW w \in Waves, OptionIsRejected(w) PROVE GraphInert
  BY <1>1, <1>2, <1>9 DEF OptionIsRejected, GraphInert
<1>10. ASSUME NEW w \in Waves, PreflightLosesSession(w) PROVE GraphInert
  BY <1>5, <1>10, SuspendedFacts DEF PreflightLosesSession
<1>11. ASSUME NEW w \in Waves, PanelRejects(w) \/ Begin(w) PROVE GraphInert
  <2>1. wave[w].kind # "script" /\ wave[w].pc = "preflight" => wave[w].tab \in Tabs
    BY Typed DEF RecordOK, HasProgram, Started
  <2>2. CASE PanelRejects(w)
    BY <1>4, <2>1, <2>2 DEF PanelRejects, Takes
  <2>3. CASE Begin(w)
    BY <1>1, <1>4, <2>1, <2>3 DEF Begin, Takes
  <2> QED
    BY <1>11, <2>2, <2>3
<1>12. ASSUME NEW s \in Shows, ShowLosesSession(s) PROVE GraphInert
  <2> DEFINE shows == [Suspended EXCEPT ![s].pc = "done"]
  <2>1. CloseScope(Closed, shows)
    BY <1>12 DEF ShowLosesSession
  <2>2. \A v \in Shows : shows[v].graph # show[v].graph => IsShown(v)
    BY SuspendedFacts DEF Show
  <2> HIDE DEF shows
  <2> QED
    BY <1>5, <2>1, <2>2
<1>13. ASSUME NEW w \in Waves, Start(w) \/ WaveStep(w) PROVE GraphInert
  BY <1>3, <1>10, <1>11, <1>13
     DEF Start, WaveStep, PreflightStops, StaleEnds, RunEnds, ScriptAdvances, ScriptSleeps,
         ScriptEnds, RetryBegins, RetryIsStale, Ends, graphVars
<1>14. CASE UserStep
  BY <1>3, <1>7, <1>8, <1>14 DEF UserStep, Cancel, Destroy, SignIn, SelectTab, graphVars
<1>15. CASE UNCHANGED vars
  BY <1>3, <1>15 DEF vars, graphVars
<1> QED
  BY <1>6, <1>9, <1>12, <1>13, <1>14, <1>15 DEF Next

\* A superseded load draws nothing any more, and what a tab has let go does not return.
THEOREM SupersededStaysInert == Spec => SupersededIsInert
<1>1. IInv /\ [Next]_vars => [GraphInert]_vars
  BY StepIsGraphInert
<1> QED
  BY <1>1, Invariance, PTL DEF Spec, SupersededIsInert, GraphInert

=============================================================================
