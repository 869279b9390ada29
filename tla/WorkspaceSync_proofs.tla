------------------------ MODULE WorkspaceSync_proofs ------------------------
(***************************************************************************)
(* The safety of WorkspaceSync for any tabs, workspaces and bounds.        *)
(***************************************************************************)
EXTENDS WorkspaceSync, SequenceTheorems, TLAPS

-----------------------------------------------------------------------------
(* The queue of a tab *)

LEMMA RemoveHead ==
  ASSUME NEW S, NEW s \in Seq(S), Len(s) > 0
  PROVE  RemoveAt(s, 1) = Tail(s)
<1>1. SubSeq(s, 1, 1 - 1) = <<>>
  BY SubSeqEmpty
<1>2. SubSeq(s, 1 + 1, Len(s)) = Tail(s)
  BY TailIsSubSeq
<1>3. <<>> \o Tail(s) = Tail(s)
  BY ConcatEmptySeq, HeadTailProperties, Len(s) # 0
<1> QED
  BY <1>1, <1>2, <1>3 DEF RemoveAt

\* What settling the head, advancing it and enqueueing do to the queue of tab t.
Settled(t) ==
  /\ Len(queue'[t]) = Len(queue[t]) - 1
  /\ \A j \in 1..Len(queue'[t]) : queue'[t][j] = queue[t][j + 1]

Advanced(t, o) ==
  /\ Len(queue'[t]) = Len(queue[t])
  /\ queue'[t][1] = o
  /\ \A j \in 2..Len(queue'[t]) : queue'[t][j] = queue[t][j]

Enqueued(t, o) ==
  /\ Len(queue'[t]) = Len(queue[t]) + 1
  /\ queue'[t][Len(queue[t]) + 1] = o
  /\ \A j \in 1..Len(queue[t]) : queue'[t][j] = queue[t][j]

OtherQueuesKept(t) == \A u \in Tabs : u # t => queue'[u] = queue[u]

LEMMA SettleHead ==
  ASSUME queue \in [Tabs -> Seq(Operation)], NEW t \in Tabs,
         Len(queue[t]) > 0, Settle(t, 1)
  PROVE  /\ queue' \in [Tabs -> Seq(Operation)]
         /\ Settled(t) /\ OtherQueuesKept(t)
<1> DEFINE s == queue[t]
<1>1. s \in Seq(Operation) /\ s # <<>>
  OBVIOUS
<1>2. RemoveAt(s, 1) = Tail(s)
  BY <1>1, RemoveHead
<1>3. queue' = [queue EXCEPT ![t] = Tail(s)]
  BY <1>2 DEF Settle
<1>4. /\ Tail(s) \in Seq(Operation)
      /\ Len(Tail(s)) = Len(s) - 1
      /\ \A j \in 1..Len(Tail(s)) : Tail(s)[j] = s[j + 1]
  BY <1>1, HeadTailProperties
<1>5. queue'[t] = Tail(s)
  BY <1>3
<1> HIDE DEF s
<1> QED
  BY <1>3, <1>4, <1>5 DEF Settled, OtherQueuesKept, s

LEMMA AdvanceHead ==
  ASSUME queue \in [Tabs -> Seq(Operation)], NEW t \in Tabs, NEW o \in Operation,
         Len(queue[t]) > 0, Advance(t, 1, o)
  PROVE  /\ queue' \in [Tabs -> Seq(Operation)]
         /\ Advanced(t, o) /\ OtherQueuesKept(t)
<1> DEFINE s == queue[t]
<1>1. s \in Seq(Operation) /\ 1 \in 1..Len(s)
  OBVIOUS
<1>2. queue' = [queue EXCEPT ![t] = [s EXCEPT ![1] = o]]
  BY DEF Advance
<1>3. /\ [s EXCEPT ![1] = o] \in Seq(Operation)
      /\ Len([s EXCEPT ![1] = o]) = Len(s)
      /\ \A j \in 1..Len(s) : [s EXCEPT ![1] = o][j] = IF j = 1 THEN o ELSE s[j]
  BY <1>1, ExceptSeq
<1>4. queue'[t] = [s EXCEPT ![1] = o]
  BY <1>2
<1>5. \A j \in 1..Len(s) : queue'[t][j] = IF j = 1 THEN o ELSE s[j]
  BY <1>3, <1>4
<1> HIDE DEF s
<1>6. Advanced(t, o)
  BY <1>1, <1>3, <1>4, <1>5 DEF Advanced, s
<1> QED
  BY <1>2, <1>3, <1>6 DEF OtherQueuesKept, s

LEMMA AppendLast ==
  ASSUME queue \in [Tabs -> Seq(Operation)], NEW t \in Tabs, NEW o \in Operation,
         Enqueue(t, o)
  PROVE  /\ queue' \in [Tabs -> Seq(Operation)]
         /\ Enqueued(t, o) /\ OtherQueuesKept(t)
<1> DEFINE s == queue[t]
<1>1. s \in Seq(Operation)
  OBVIOUS
<1>2. queue' = [queue EXCEPT ![t] = Append(s, o)]
  BY DEF Enqueue
<1>3. /\ Append(s, o) \in Seq(Operation)
      /\ Len(Append(s, o)) = Len(s) + 1
      /\ \A j \in 1..Len(s) : Append(s, o)[j] = s[j]
      /\ Append(s, o)[Len(s) + 1] = o
  BY <1>1, AppendProperties
<1>4. queue'[t] = Append(s, o)
  BY <1>2
<1> HIDE DEF s
<1>5. Enqueued(t, o)
  BY <1>3, <1>4 DEF Enqueued, s
<1> QED
  BY <1>2, <1>3, <1>5 DEF OtherQueuesKept, s

-----------------------------------------------------------------------------
(* Types *)

\* A creation learns its workspace when it starts, a mutation when it is requested.
OperationHasWorkspace ==
  \A t \in Tabs : \A i \in 1..Len(queue[t]) :
    queue[t][i].kind = "mutate" \/ queue[t][i].pc # "queued" => queue[t][i].ws \in Workspaces

LEMMA QueueElement ==
  ASSUME TypeOK, NEW t \in Tabs, NEW i \in 1..Len(queue[t])
  PROVE  /\ queue[t] \in Seq(Operation) /\ Len(queue[t]) \in Nat
         /\ queue[t][i] \in Operation
<1>1. queue[t] \in Seq(Operation)
  BY DEF TypeOK
<1> QED
  BY <1>1, ElementOfSeq, LenProperties

LEMMA QueuedIsOperation ==
  ASSUME NEW kind \in {"mutate", "refresh", "create"}
  PROVE  Queued(kind) \in Operation
BY DEF Queued, Operation, Absent

LEMMA LoadIsNat ==
  ASSUME StoreTypeOK, NEW w \in Workspaces
  PROVE  Load(w) \in Nat
BY DEF StoreTypeOK, Record, Load

LEMMA StoreStepTypes ==
  ASSUME StoreTypeOK, NEW w \in Workspaces,
         \/ \E t \in Tabs, base \in Nat : Replace(t, w, base)
         \/ \E t \in Tabs : Create(t, w)
         \/ DeleteRecord(w)
  PROVE  StoreTypeOK'
<1>1. CASE \E t \in Tabs, base \in Nat : Replace(t, w, base)
  <2> PICK t \in Tabs, base \in Nat : Replace(t, w, base)
    BY <1>1
  <2>1. [stamp |-> commits', by |-> t, base |-> base] \in Record
    BY DEF Replace, StoreTypeOK, Record
  <2> QED
    BY <2>1 DEF Replace, StoreTypeOK
<1>2. CASE \E t \in Tabs : Create(t, w)
  <2> PICK t \in Tabs : Create(t, w)
    BY <1>2
  <2>1. [stamp |-> commits', by |-> t, base |-> Absent] \in Record
    BY DEF Create, StoreTypeOK, Record, Absent
  <2> QED
    BY <2>1 DEF Create, StoreTypeOK
<1>3. CASE DeleteRecord(w)
  BY <1>3 DEF DeleteRecord, StoreTypeOK, Record, NoRecord, Absent
<1> QED
  BY <1>1, <1>2, <1>3

LEMMA ProjectionTypes ==
  ASSUME NEW s \in Tab, NEW w \in Workspaces, NEW stamp \in Nat
  PROVE  /\ Projected(s, w, stamp) \in Tab
         /\ [Projected(s, w, stamp) EXCEPT !.route = w] \in Tab
BY DEF Projected, Tab

LEMMA RetirementTypes ==
  ASSUME NEW s \in Tab, NEW status \in {"loading", "not-found", "error"}
  PROVE  Retired(s, status) \in Tab
BY DEF Retired, Tab, Absent

LEMMA RouteTypes ==
  ASSUME NEW s \in Tab, NEW w \in Workspaces, NEW gen \in Nat
  PROVE  [s EXCEPT !.route = w, !.gen = gen] \in Tab
BY DEF Tab

LEMMA QueueStepTypes ==
  ASSUME TypeOK, OperationHasWorkspace, NEW t \in Tabs, QueueStep(t)
  PROVE  TypeOK'
<1> PICK i \in 1..Len(queue[t]) :
      \/ StartMutation(t, i) \/ MutationFindsNothing(t, i) \/ CommitMutation(t, i)
      \/ MutationEndsWithoutCommit(t, i) \/ MutationSettles(t, i)
      \/ StartCreation(t, i) \/ CreationFails(t, i)
      \/ CreationShows(t, i) \/ CreationSettles(t, i)
      \/ StartRefresh(t, i) \/ RefreshKeepsProjection(t, i) \/ RefreshProjects(t, i)
  BY DEF QueueStep
<1> DEFINE o == queue[t][i]
<1>q. /\ queue \in [Tabs -> Seq(Operation)] /\ queue[t] \in Seq(Operation)
      /\ Len(queue[t]) > 0 /\ o \in Operation
  BY QueueElement DEF TypeOK
<1>t. /\ tab[t] \in Tab /\ tab[t].ws \in Workspaces /\ tab[t].gen \in Nat
      /\ Load(tab[t].ws) \in Nat /\ StoreTypeOK
  BY LoadIsNat DEF TypeOK, Tab
<1>o. /\ o.got \in Nat
      /\ o.kind = "mutate" \/ o.pc # "queued" => o.ws \in Workspaces
  BY <1>q DEF Operation, OperationHasWorkspace
<1>s. ASSUME i = 1, Settle(t, i)
      PROVE  queue' \in [Tabs -> Seq(Operation)]
  BY <1>q, <1>s, SettleHead
<1>a. ASSUME i = 1, NEW n \in Operation, Advance(t, i, n)
      PROVE  queue' \in [Tabs -> Seq(Operation)]
  BY <1>q, <1>a, AdvanceHead
<1> HIDE DEF o
<1>1. CASE StartMutation(t, i)
  <2>1. ASSUME RouteIsCurrent(t, o)
        PROVE  [o EXCEPT !.pc = "loaded", !.got = Load(o.ws)] \in Operation
    BY <1>q, <1>t, <2>1 DEF RouteIsCurrent, Operation
  <2> QED
    BY <1>1, <1>s, <1>a, <2>1 DEF StartMutation, At, MayRun, o, TypeOK, StoreTypeOK, storeVars
<1>2. CASE MutationFindsNothing(t, i)
  <2>1. Retired(tab[t], "not-found") \in Tab
    BY <1>t, RetirementTypes
  <2> QED
    BY <1>2, <1>s, <2>1 DEF MutationFindsNothing, At, MayRun, TypeOK, StoreTypeOK, storeVars
<1>3. CASE CommitMutation(t, i)
  <2>1. /\ i = 1 /\ o.ws \in Workspaces /\ Replace(t, o.ws, o.got)
        /\ Advance(t, i, [o EXCEPT !.pc = "committed", !.got = commits'])
    BY <1>3, <1>t DEF CommitMutation, At, MayRun, RouteIsCurrent, o
  <2>2. StoreTypeOK'
    BY <1>t, <1>o, <2>1, StoreStepTypes
  <2>3. [o EXCEPT !.pc = "committed", !.got = commits'] \in Operation
    BY <1>q, <2>2 DEF StoreTypeOK, Operation
  <2> QED
    BY <1>3, <1>a, <2>1, <2>2, <2>3 DEF CommitMutation, TypeOK
<1>4. CASE MutationEndsWithoutCommit(t, i)
  BY <1>4, <1>s DEF MutationEndsWithoutCommit, At, MayRun, TypeOK, StoreTypeOK, storeVars
<1>5. CASE MutationSettles(t, i)
  <2>0. o.ws \in Workspaces
    BY <1>5, <1>o DEF MutationSettles, At, o
  <2>1. Projected(tab[t], o.ws, o.got) \in Tab
    BY <1>t, <1>o, <2>0, ProjectionTypes
  <2>2. tab' \in [Tabs -> Tab]
    BY <1>5, <2>1 DEF MutationSettles, TypeOK, o
  <2>3. \A u \in Tabs : [pokes[u] EXCEPT ![o.ws] = @ + 1] \in [Workspaces -> Nat]
    BY <2>0 DEF TypeOK
  <2>4. pokes' \in [Tabs -> [Workspaces -> Nat]]
    BY <1>5, <2>3 DEF MutationSettles, TypeOK, o
  <2> QED
    BY <1>5, <1>s, <2>2, <2>4 DEF MutationSettles, At, MayRun, TypeOK, StoreTypeOK, storeVars
<1>6. CASE StartCreation(t, i)
  <2>1. i = 1
    BY <1>6 DEF StartCreation, At, MayRun
  <2>2. PICK w \in Workspaces :
          /\ Create(t, w)
          /\ Advance(t, i, [o EXCEPT !.pc = "committed", !.ws = w, !.got = commits'])
    BY <1>6 DEF StartCreation, o
  <2>3. StoreTypeOK'
    BY <1>t, <2>2, StoreStepTypes
  <2>4. [o EXCEPT !.pc = "committed", !.ws = w, !.got = commits'] \in Operation
    BY <1>q, <2>3 DEF StoreTypeOK, Operation
  <2> QED
    BY <1>6, <1>a, <2>1, <2>2, <2>3, <2>4 DEF StartCreation, TypeOK
<1>7. CASE CreationFails(t, i)
  BY <1>7, <1>s DEF CreationFails, At, MayRun, TypeOK, StoreTypeOK, storeVars
<1>8. CASE CreationShows(t, i)
  <2>1. i = 1 /\ o.pc = "committed" /\ o.ws \in Workspaces
    BY <1>8, <1>o DEF CreationShows, At, MayRun, o
  <2>2. [Projected(tab[t], o.ws, o.got) EXCEPT !.route = o.ws] \in Tab
    BY <1>t, <1>o, <2>1, ProjectionTypes
  <2>3. [o EXCEPT !.pc = "shown"] \in Operation
    BY <1>q DEF Operation
  <2>4. tab' = [tab EXCEPT ![t] = [Projected(tab[t], o.ws, o.got) EXCEPT !.route = o.ws]]
    BY <1>8 DEF CreationShows, o
  <2>5. Advance(t, i, [o EXCEPT !.pc = "shown"])
    BY <1>8 DEF CreationShows, o
  <2>6. tab' \in [Tabs -> Tab]
    BY <2>2, <2>4 DEF TypeOK
  <2> QED
    BY <1>8, <1>a, <2>1, <2>3, <2>5, <2>6 DEF CreationShows, TypeOK, StoreTypeOK, storeVars
<1>9. CASE CreationSettles(t, i)
  BY <1>9, <1>s DEF CreationSettles, At, MayRun, TypeOK, StoreTypeOK, storeVars
<1>10. CASE StartRefresh(t, i)
  <2>1. i = 1 /\ Advance(t, i, [o EXCEPT !.pc = "loaded", !.ws = tab[t].ws,
                                          !.gen = tab[t].gen, !.got = Load(tab[t].ws)])
    BY <1>10 DEF StartRefresh, At, MayRun, o
  <2>2. [o EXCEPT !.pc = "loaded", !.ws = tab[t].ws, !.gen = tab[t].gen,
                  !.got = Load(tab[t].ws)] \in Operation
    BY <1>q, <1>t DEF Operation
  <2> QED
    BY <1>10, <1>a, <2>1, <2>2 DEF StartRefresh, TypeOK, StoreTypeOK, storeVars
<1>11. CASE RefreshKeepsProjection(t, i)
  BY <1>11, <1>s DEF RefreshKeepsProjection, At, MayRun, TypeOK, StoreTypeOK, storeVars
<1>12. CASE RefreshProjects(t, i)
  <2>1. /\ RefreshIsCurrent(t, o)
        /\ tab' = [tab EXCEPT ![t] = IF o.got = Absent THEN Retired(tab[t], "not-found")
                                                    ELSE Projected(tab[t], o.ws, o.got)]
    BY <1>12 DEF RefreshProjects, o
  <2>2. Retired(tab[t], "not-found") \in Tab /\ Projected(tab[t], o.ws, o.got) \in Tab
    BY <1>t, <1>o, <2>1, RetirementTypes, ProjectionTypes DEF RefreshIsCurrent
  <2>3. tab' \in [Tabs -> Tab]
    BY <2>1, <2>2 DEF TypeOK
  <2> QED
    BY <1>12, <1>s, <2>3 DEF RefreshProjects, At, MayRun, TypeOK, StoreTypeOK, storeVars
<1> QED
  BY <1>1, <1>2, <1>3, <1>4, <1>5, <1>6, <1>7, <1>8, <1>9, <1>10, <1>11, <1>12

LEMMA ScheduleTypes ==
  ASSUME TypeOK, NEW t \in Tabs, ScheduleRefresh(t)
  PROVE  /\ queue' \in [Tabs -> Seq(Operation)]
         /\ pending' \in [Tabs -> BOOLEAN]
         /\ owed' \in [Tabs -> BOOLEAN]
<1>1. CASE pending[t]
  BY <1>1 DEF ScheduleRefresh, TypeOK
<1>2. CASE ~pending[t]
  <2>1. Enqueue(t, Queued("refresh"))
    BY <1>2 DEF ScheduleRefresh, Enqueue
  <2>2. queue' \in [Tabs -> Seq(Operation)]
    BY <2>1, AppendLast, QueuedIsOperation DEF TypeOK
  <2> QED
    BY <2>2 DEF ScheduleRefresh, TypeOK
<1> QED
  BY <1>1, <1>2

LEMMA UserStepTypes ==
  ASSUME TypeOK, NEW t \in Tabs, UserStep(t)
  PROVE  TypeOK'
<1>t. /\ tab[t] \in Tab /\ tab[t].ws \in Workspaces /\ tab[t].gen \in Nat
      /\ queue \in [Tabs -> Seq(Operation)]
  BY DEF TypeOK, Tab
<1>1. CASE RequestMutation(t)
  <2>1. [Queued("mutate") EXCEPT !.ws = tab[t].ws, !.gen = tab[t].gen] \in Operation
    BY <1>t, QueuedIsOperation DEF Operation
  <2>2. queue' \in [Tabs -> Seq(Operation)]
    BY <1>1, <1>t, <2>1, AppendLast DEF RequestMutation
  <2> QED
    BY <1>1, <2>2 DEF RequestMutation, TypeOK, StoreTypeOK, storeVars
<1>2. CASE RequestCreation(t)
  <2>1. queue' \in [Tabs -> Seq(Operation)]
    BY <1>2, <1>t, QueuedIsOperation, AppendLast DEF RequestCreation
  <2> QED
    BY <1>2, <2>1 DEF RequestCreation, TypeOK, StoreTypeOK, storeVars
<1>3. CASE Focus(t)
  BY <1>3, ScheduleTypes DEF Focus, TypeOK, StoreTypeOK, storeVars
<1>4. CASE \E w \in Workspaces : Navigate(t, w)
  <2> PICK w \in Workspaces : Navigate(t, w)
    BY <1>4
  <2> DEFINE gen == tab[t].gen + 1
             n == [Retired(tab[t], "loading") EXCEPT !.route = w, !.gen = gen]
             l == [gen |-> gen, ws |-> w, got |-> Load(w), pc |-> "reading"]
  <2>0. Load(w) \in Nat
    BY LoadIsNat DEF TypeOK
  <2>1. Retired(tab[t], "loading") \in Tab
    BY <1>t, RetirementTypes
  <2>2. n \in Tab
    <3> DEFINE s == Retired(tab[t], "loading")
    <3>1. s \in Tab /\ gen \in Nat
      BY <1>t, <2>1
    <3> HIDE DEF s, gen
    <3>2. [s EXCEPT !.route = w, !.gen = gen] \in Tab
      BY <3>1, RouteTypes
    <3> QED
      BY <3>2 DEF s
  <2>3. l \in RouteLoad
    BY <1>t, <2>0 DEF RouteLoad
  <2>4. tab' = [tab EXCEPT ![t] = n] /\ loads' = [loads EXCEPT ![t] = loads[t] \cup {l}]
    BY DEF Navigate
  <2> HIDE DEF n, l
  <2> QED
    BY <2>2, <2>3, <2>4 DEF Navigate, TypeOK, StoreTypeOK, storeVars
<1> QED
  BY <1>1, <1>2, <1>3, <1>4 DEF UserStep

LEMMA LoadStepTypes ==
  ASSUME TypeOK, NEW t \in Tabs, LoadStep(t)
  PROVE  TypeOK'
<1> PICK l \in loads[t] :
      \/ LoadSuperseded(t, l) \/ LoadFinds(t, l) \/ LoadFails(t, l) \/ LoadRejects(t, l)
      \/ LoadProjects(t, l)
  BY DEF LoadStep
<1>t. /\ tab[t] \in Tab /\ l \in RouteLoad /\ loads[t] \ {l} \in SUBSET RouteLoad
      /\ l.ws \in Workspaces /\ l.got \in Nat
  BY DEF TypeOK, RouteLoad
<1>1. CASE LoadSuperseded(t, l)
  BY <1>1, <1>t DEF LoadSuperseded, TypeOK, StoreTypeOK, storeVars
<1>2. CASE LoadFinds(t, l)
  <2>1. [l EXCEPT !.pc = "opening"] \in RouteLoad
    BY <1>t DEF RouteLoad
  <2> QED
    BY <1>2, <1>t, <2>1 DEF LoadFinds, TypeOK, StoreTypeOK, storeVars
<1>3. CASE LoadFails(t, l)
  <2>1. Retired(tab[t], IF l.got = Absent THEN "not-found" ELSE "error") \in Tab
    BY <1>t, RetirementTypes
  <2> QED
    BY <1>3, <1>t, <2>1 DEF LoadFails, TypeOK, StoreTypeOK, storeVars
<1>4. CASE LoadRejects(t, l)
  BY <1>4, <1>t DEF LoadRejects, TypeOK, StoreTypeOK, storeVars
<1>5. CASE LoadProjects(t, l)
  <2>1. [Projected(tab[t], l.ws, l.got) EXCEPT !.route = l.ws] \in Tab
    BY <1>t, ProjectionTypes
  <2> QED
    BY <1>5, <1>t, <2>1 DEF LoadProjects, TypeOK, StoreTypeOK, storeVars
<1> QED
  BY <1>1, <1>2, <1>3, <1>4, <1>5

LEMMA StepTypes ==
  ASSUME TypeOK, OperationHasWorkspace, [Next]_vars
  PROVE  TypeOK'
<1>1. ASSUME NEW t \in Tabs, UserStep(t) \/ QueueStep(t) \/ LoadStep(t)
      PROVE  TypeOK'
  BY <1>1, UserStepTypes, QueueStepTypes, LoadStepTypes
<1>2. ASSUME NEW t \in Tabs, NEW w \in Workspaces, Poke(t, w)
      PROVE  TypeOK'
  <2>1. pokes[t] \in [Workspaces -> Nat]
    BY DEF TypeOK
  <2>2. [pokes[t] EXCEPT ![w] = @ - 1] \in [Workspaces -> Nat]
    BY <1>2, <2>1 DEF Poke
  <2>3. pokes' \in [Tabs -> [Workspaces -> Nat]]
    BY <1>2, <2>2 DEF Poke, TypeOK
  <2> QED
    BY <1>2, <2>3, ScheduleTypes DEF Poke, TypeOK, StoreTypeOK, storeVars
<1>3. ASSUME NEW w \in Workspaces, RecordRemoved(w)
      PROVE  TypeOK'
  <2>1. StoreTypeOK'
    BY <1>3, StoreStepTypes DEF RecordRemoved, TypeOK
  <2> QED
    BY <1>3, <2>1 DEF RecordRemoved, TypeOK
<1>4. CASE UNCHANGED vars
  BY <1>4 DEF vars, storeVars, TypeOK, StoreTypeOK
<1> QED
  BY <1>1, <1>2, <1>3, <1>4 DEF Next

-----------------------------------------------------------------------------
(* What a step may do to the store, the queues and the invalidations *)

Queues == <<queue, pending, owed>>

HeadSettles(t) ==
  /\ Settled(t)
  /\ ~(queue[t][1].kind = "refresh" /\ queue[t][1].pc = "queued")
  /\ UNCHANGED <<storeVars, pending, owed>>

\* The head has read a record.
HeadReads(t, n) ==
  /\ n.pc = "loaded" /\ n.got = Load(n.ws)
  /\ UNCHANGED storeVars
  /\ \/ n.kind = "mutate" /\ UNCHANGED <<pending, owed>>
     \/ /\ n.kind = "refresh"
        /\ pending' = [pending EXCEPT ![t] = FALSE]
        /\ owed' = [owed EXCEPT ![t] = FALSE]

\* The head has written a record, or shows the one it has written.
HeadWrites(t, n) ==
  /\ n.pc \in {"committed", "shown"}
  /\ UNCHANGED <<pending, owed>>
  /\ \/ /\ queue[t][1].kind = "mutate" /\ queue[t][1].pc = "loaded"
        /\ queue[t][1].got # Absent /\ queue[t][1].ws = n.ws
        /\ Replace(t, n.ws, queue[t][1].got)
     \/ Create(t, n.ws)
     \/ UNCHANGED storeVars

HeadAdvances(t) ==
  \E n \in Operation :
    /\ Advanced(t, n)
    /\ n.kind = queue[t][1].kind /\ n.ws \in Workspaces
    /\ HeadReads(t, n) \/ (n.kind # "refresh" /\ HeadWrites(t, n))

Requested(t) ==
  \E n \in Operation :
    /\ Enqueued(t, n) /\ OtherQueuesKept(t)
    /\ n.pc = "queued" /\ n.kind \in {"mutate", "create"}
    /\ n.kind = "mutate" => n.ws \in Workspaces
    /\ UNCHANGED <<storeVars, pending, owed>>

Scheduled(t) ==
  /\ UNCHANGED storeVars
  /\ OtherQueuesKept(t)
  /\ pending' = [pending EXCEPT ![t] = TRUE]
  /\ owed' = [owed EXCEPT ![t] = TRUE]
  /\ \/ pending[t] /\ queue' = queue
     \/ Enqueued(t, Queued("refresh"))

StepShape ==
  \/ \E t \in Tabs : /\ Len(queue[t]) > 0 /\ OtherQueuesKept(t)
                     /\ HeadSettles(t) \/ HeadAdvances(t)
  \/ \E t \in Tabs : Requested(t) \/ Scheduled(t)
  \/ \E w \in Workspaces : DeleteRecord(w) /\ UNCHANGED Queues
  \/ UNCHANGED <<storeVars, Queues>>

LEMMA QueueStepShape ==
  ASSUME TypeOK, OperationHasWorkspace, NEW t \in Tabs, QueueStep(t)
  PROVE  /\ Len(queue[t]) > 0 /\ OtherQueuesKept(t)
         /\ HeadSettles(t) \/ HeadAdvances(t)
<1> PICK i \in 1..Len(queue[t]) :
      \/ StartMutation(t, i) \/ MutationFindsNothing(t, i) \/ CommitMutation(t, i)
      \/ MutationEndsWithoutCommit(t, i) \/ MutationSettles(t, i)
      \/ StartCreation(t, i) \/ CreationFails(t, i)
      \/ CreationShows(t, i) \/ CreationSettles(t, i)
      \/ StartRefresh(t, i) \/ RefreshKeepsProjection(t, i) \/ RefreshProjects(t, i)
  BY DEF QueueStep
<1> DEFINE o == queue[t][1]
<1>i. i = 1
  BY DEF At, MayRun, StartMutation, MutationFindsNothing, CommitMutation,
         MutationEndsWithoutCommit, MutationSettles, StartCreation, CreationFails,
         CreationShows, CreationSettles, StartRefresh, RefreshKeepsProjection, RefreshProjects
<1>q. /\ queue \in [Tabs -> Seq(Operation)] /\ queue[t] \in Seq(Operation)
      /\ Len(queue[t]) > 0 /\ o \in Operation
  BY <1>i, QueueElement DEF TypeOK
<1>t. /\ tab[t].ws \in Workspaces /\ tab[t].gen \in Nat /\ StoreTypeOK
      /\ Load(tab[t].ws) \in Nat
  BY LoadIsNat DEF TypeOK, Tab
<1>o. o.kind = "mutate" \/ o.pc # "queued" => o.ws \in Workspaces
  BY <1>i, <1>q DEF OperationHasWorkspace
<1>s. ASSUME Settle(t, 1), ~(o.kind = "refresh" /\ o.pc = "queued"),
             UNCHANGED <<storeVars, pending, owed>>
      PROVE  OtherQueuesKept(t) /\ HeadSettles(t)
  BY <1>q, <1>s, SettleHead DEF HeadSettles
<1>a. ASSUME NEW n \in Operation, Advance(t, 1, n), n.kind = o.kind, n.ws \in Workspaces,
             HeadReads(t, n) \/ (n.kind # "refresh" /\ HeadWrites(t, n))
      PROVE  OtherQueuesKept(t) /\ HeadAdvances(t)
  BY <1>q, <1>a, AdvanceHead DEF HeadAdvances
<1> HIDE DEF o
<1>1. CASE StartMutation(t, i)
  <2> DEFINE n == [o EXCEPT !.pc = "loaded", !.got = Load(o.ws)]
  <2>1. CASE RouteIsCurrent(t, o)
    <3>1. Advance(t, 1, n) /\ UNCHANGED <<storeVars, pending, owed>> /\ o.kind = "mutate"
      BY <1>1, <1>i, <2>1 DEF StartMutation, At, o
    <3>2. /\ n \in Operation /\ n.kind = o.kind /\ n.ws = o.ws /\ n.pc = "loaded"
          /\ n.got = Load(o.ws)
      BY <1>q, <1>t, <2>1 DEF RouteIsCurrent, Operation
    <3>3. HeadReads(t, n)
      BY <3>1, <3>2 DEF HeadReads
    <3> HIDE DEF n
    <3> QED
      BY <1>q, <1>o, <1>a, <3>1, <3>2, <3>3
  <2>2. CASE ~RouteIsCurrent(t, o)
    BY <1>1, <1>i, <1>q, <1>s, <2>2 DEF StartMutation, At, o
  <2> QED
    BY <2>1, <2>2
<1>2. CASE MutationFindsNothing(t, i)
  BY <1>2, <1>i, <1>q, <1>s DEF MutationFindsNothing, At, o
<1>3. CASE CommitMutation(t, i)
  <2> DEFINE n == [o EXCEPT !.pc = "committed", !.got = commits']
  <2>1. /\ Advance(t, 1, n) /\ UNCHANGED <<pending, owed>>
        /\ o.kind = "mutate" /\ o.pc = "loaded" /\ o.got # Absent
        /\ Replace(t, o.ws, o.got)
    BY <1>3, <1>i DEF CommitMutation, At, o
  <2>2. commits' \in Nat
    BY <1>t, <2>1 DEF Replace, StoreTypeOK
  <2>3. n \in Operation /\ n.kind = o.kind /\ n.ws = o.ws /\ n.pc = "committed"
    BY <1>q, <2>2 DEF Operation
  <2>4. HeadWrites(t, n)
    BY <2>1, <2>3 DEF HeadWrites, o
  <2> HIDE DEF n
  <2> QED
    BY <1>q, <1>o, <1>a, <2>1, <2>3, <2>4
<1>4. CASE MutationEndsWithoutCommit(t, i)
  BY <1>4, <1>i, <1>q, <1>s DEF MutationEndsWithoutCommit, At, o
<1>5. CASE MutationSettles(t, i)
  BY <1>5, <1>i, <1>q, <1>s DEF MutationSettles, At, o
<1>6. CASE StartCreation(t, i)
  <2> PICK w \in Workspaces :
        /\ Create(t, w)
        /\ Advance(t, 1, [o EXCEPT !.pc = "committed", !.ws = w, !.got = commits'])
    BY <1>6, <1>i DEF StartCreation, o
  <2> DEFINE n == [o EXCEPT !.pc = "committed", !.ws = w, !.got = commits']
  <2>1. UNCHANGED <<pending, owed>> /\ o.kind = "create"
    BY <1>6, <1>i DEF StartCreation, At, o
  <2>2. commits' \in Nat
    BY <1>t DEF Create, StoreTypeOK
  <2>3. n \in Operation /\ n.kind = o.kind /\ n.ws = w /\ n.pc = "committed"
    BY <1>q, <2>2 DEF Operation
  <2>4. HeadWrites(t, n) /\ Advance(t, 1, n)
    BY <2>1, <2>3 DEF HeadWrites
  <2> HIDE DEF n
  <2> QED
    BY <1>q, <1>a, <2>1, <2>3, <2>4
<1>7. CASE CreationFails(t, i)
  BY <1>7, <1>i, <1>q, <1>s DEF CreationFails, At, o
<1>8. CASE CreationShows(t, i)
  <2> DEFINE n == [o EXCEPT !.pc = "shown"]
  <2>1. /\ Advance(t, 1, n) /\ UNCHANGED <<storeVars, pending, owed>>
        /\ o.kind = "create" /\ o.pc = "committed"
    BY <1>8, <1>i DEF CreationShows, At, o
  <2>2. n \in Operation /\ n.kind = o.kind /\ n.ws = o.ws /\ n.pc = "shown"
    BY <1>q DEF Operation
  <2>3. HeadWrites(t, n)
    BY <2>1, <2>2 DEF HeadWrites
  <2> HIDE DEF n
  <2> QED
    BY <1>q, <1>o, <1>a, <2>1, <2>2, <2>3
<1>9. CASE CreationSettles(t, i)
  BY <1>9, <1>i, <1>q, <1>s DEF CreationSettles, At, o
<1>10. CASE StartRefresh(t, i)
  <2> DEFINE n == [o EXCEPT !.pc = "loaded", !.ws = tab[t].ws, !.gen = tab[t].gen,
                            !.got = Load(tab[t].ws)]
  <2>1. /\ Advance(t, 1, n) /\ UNCHANGED storeVars /\ o.kind = "refresh"
        /\ pending' = [pending EXCEPT ![t] = FALSE]
        /\ owed' = [owed EXCEPT ![t] = FALSE]
    BY <1>10, <1>i DEF StartRefresh, At, o
  <2>2. /\ n \in Operation /\ n.kind = o.kind /\ n.ws = tab[t].ws /\ n.pc = "loaded"
        /\ n.got = Load(tab[t].ws)
    BY <1>q, <1>t DEF Operation
  <2>3. HeadReads(t, n)
    BY <2>1, <2>2 DEF HeadReads
  <2> HIDE DEF n
  <2> QED
    BY <1>q, <1>t, <1>a, <2>1, <2>2, <2>3
<1>11. CASE RefreshKeepsProjection(t, i)
  BY <1>11, <1>i, <1>q, <1>s DEF RefreshKeepsProjection, At, o
<1>12. CASE RefreshProjects(t, i)
  BY <1>12, <1>i, <1>q, <1>s DEF RefreshProjects, At, o
<1> QED
  BY <1>1, <1>2, <1>3, <1>4, <1>5, <1>6, <1>7, <1>8, <1>9, <1>10, <1>11, <1>12

LEMMA ScheduleShape ==
  ASSUME TypeOK, NEW t \in Tabs, ScheduleRefresh(t), UNCHANGED storeVars
  PROVE  Scheduled(t)
<1>1. CASE pending[t]
  BY <1>1 DEF ScheduleRefresh, Scheduled, OtherQueuesKept
<1>2. CASE ~pending[t]
  <2>1. Enqueue(t, Queued("refresh"))
    BY <1>2 DEF ScheduleRefresh, Enqueue
  <2>2. Enqueued(t, Queued("refresh")) /\ OtherQueuesKept(t)
    BY <2>1, AppendLast, QueuedIsOperation DEF TypeOK
  <2> QED
    BY <2>2 DEF ScheduleRefresh, Scheduled
<1> QED
  BY <1>1, <1>2

LEMMA UserStepShape ==
  ASSUME TypeOK, NEW t \in Tabs, UserStep(t)
  PROVE  Requested(t) \/ Scheduled(t) \/ UNCHANGED <<storeVars, Queues>>
<1>1. CASE RequestMutation(t)
  <2> DEFINE n == [Queued("mutate") EXCEPT !.ws = tab[t].ws, !.gen = tab[t].gen]
  <2>1. tab[t].ws \in Workspaces /\ tab[t].gen \in Nat
    BY DEF TypeOK, Tab
  <2>2. n \in Operation /\ n.pc = "queued" /\ n.kind = "mutate" /\ n.ws = tab[t].ws
    BY <2>1, QueuedIsOperation DEF Operation, Queued
  <2>3. Enqueue(t, n) /\ UNCHANGED <<storeVars, pending, owed>>
    BY <1>1 DEF RequestMutation
  <2> HIDE DEF n
  <2>4. Enqueued(t, n) /\ OtherQueuesKept(t)
    BY <2>2, <2>3, AppendLast DEF TypeOK
  <2> QED
    BY <2>1, <2>2, <2>3, <2>4 DEF Requested
<1>2. CASE RequestCreation(t)
  <2> DEFINE n == Queued("create")
  <2>1. n \in Operation /\ n.pc = "queued" /\ n.kind = "create"
    BY QueuedIsOperation DEF Queued
  <2>2. Enqueue(t, n) /\ UNCHANGED <<storeVars, pending, owed>>
    BY <1>2 DEF RequestCreation
  <2> HIDE DEF n
  <2>3. Enqueued(t, n) /\ OtherQueuesKept(t)
    BY <2>1, <2>2, AppendLast DEF TypeOK
  <2> QED
    BY <2>1, <2>2, <2>3 DEF Requested
<1>3. CASE Focus(t)
  BY <1>3, ScheduleShape DEF Focus
<1>4. CASE \E w \in Workspaces : Navigate(t, w)
  BY <1>4 DEF Navigate, Queues
<1> QED
  BY <1>1, <1>2, <1>3, <1>4 DEF UserStep

LEMMA StepHasShape ==
  ASSUME TypeOK, OperationHasWorkspace, [Next]_vars
  PROVE  StepShape
<1>1. ASSUME NEW t \in Tabs, UserStep(t)
      PROVE  StepShape
  BY <1>1, UserStepShape DEF StepShape
<1>2. ASSUME NEW t \in Tabs, QueueStep(t)
      PROVE  StepShape
  BY <1>2, QueueStepShape DEF StepShape
<1>3. ASSUME NEW t \in Tabs, LoadStep(t)
      PROVE  UNCHANGED <<storeVars, Queues>>
  BY <1>3 DEF LoadStep, LoadSuperseded, LoadFinds, LoadFails, LoadRejects, LoadProjects, Queues
<1>4. ASSUME NEW t \in Tabs, NEW w \in Workspaces, Poke(t, w)
      PROVE  StepShape
  <2>1. CASE w = tab[t].ws
    BY <1>4, <2>1, ScheduleShape DEF Poke, StepShape
  <2>2. CASE w # tab[t].ws
    BY <1>4, <2>2 DEF Poke, StepShape, Queues
  <2> QED
    BY <2>1, <2>2
<1>5. ASSUME NEW w \in Workspaces, RecordRemoved(w)
      PROVE  StepShape
  BY <1>5 DEF RecordRemoved, StepShape, Queues
<1>6. CASE UNCHANGED vars
  BY <1>6 DEF vars, StepShape, Queues
<1> QED
  BY <1>1, <1>2, <1>3, <1>4, <1>5, <1>6 DEF Next, StepShape

-----------------------------------------------------------------------------
(* The inductive invariant *)

\* Nothing behind the head of a queue has started.
OnlyHeadRuns ==
  \A t \in Tabs : \A i \in 2..Len(queue[t]) : queue[t][i].pc = "queued"

\* A record that is not there was written by nobody.
NoRecordNoWriter == \A w \in Workspaces : Load(w) = Absent => store[w].by = NoTab

\* What a mutation has read is still the latest version its own tab has written:
\* another tab may have written since, but then that tab's version is replaced.
ReadIsLatestOwn ==
  \A t \in Tabs : \A i \in 1..Len(queue[t]) :
    LET o == queue[t][i] IN
    o.kind = "mutate" /\ o.pc = "loaded" /\ o.got # Absent /\ store[o.ws].by = t
      => store[o.ws].stamp = o.got

RefreshQueued(t) ==
  \E i \in 1..Len(queue[t]) : queue[t][i].kind = "refresh" /\ queue[t][i].pc = "queued"

PendingIsQueued == \A t \in Tabs : pending[t] => RefreshQueued(t)

OwedIsPending == \A t \in Tabs : owed[t] => pending[t]

IInv ==
  /\ TypeOK
  /\ OperationHasWorkspace
  /\ OnlyHeadRuns
  /\ NoRecordNoWriter
  /\ ReadIsLatestOwn
  /\ PendingIsQueued
  /\ OwedIsPending
  /\ DeletedStaysDeleted

LEMMA InitIInv == Init => IInv
<1> SUFFICES ASSUME Init PROVE IInv
  OBVIOUS
<1>1. StoreTypeOK
  BY DEF Init, StoreInit, StoreTypeOK, Record, NoRecord, FirstRecord, Absent
<1>2. \A w \in Workspaces : Load(w) \in Nat
  BY <1>1, LoadIsNat
<1>3. tab \in [Tabs -> Tab]
  <2>1. \A w \in Workspaces : Opened(w) \in Tab
    BY <1>2 DEF Opened, Tab
  <2> QED
    BY <2>1 DEF Init
<1>4. \A t \in Tabs : queue[t] = <<>> /\ Len(queue[t]) = 0
  BY DEF Init
<1>5. TypeOK
  BY <1>1, <1>3 DEF Init, TypeOK
<1>6. NoRecordNoWriter /\ DeletedStaysDeleted
  BY DEF Init, StoreInit, NoRecordNoWriter, DeletedStaysDeleted, Load, NoRecord, FirstRecord, Absent
<1>7. OperationHasWorkspace /\ OnlyHeadRuns /\ ReadIsLatestOwn
  BY <1>4 DEF OperationHasWorkspace, OnlyHeadRuns, ReadIsLatestOwn
<1>8. PendingIsQueued /\ OwedIsPending
  BY DEF Init, PendingIsQueued, OwedIsPending
<1> QED
  BY <1>5, <1>6, <1>7, <1>8 DEF IInv

LEMMA LenIsNat ==
  ASSUME TypeOK, NEW t \in Tabs
  PROVE  Len(queue[t]) \in Nat
<1>1. queue[t] \in Seq(Operation)
  BY DEF TypeOK
<1> QED
  BY <1>1, LenProperties

LEMMA OperationHasWorkspaceStep ==
  ASSUME TypeOK, OperationHasWorkspace, StepShape
  PROVE  OperationHasWorkspace'
<1> SUFFICES ASSUME NEW u \in Tabs, NEW j \in 1..Len(queue'[u]),
                    queue'[u][j].kind = "mutate" \/ queue'[u][j].pc # "queued"
             PROVE  queue'[u][j].ws \in Workspaces
  BY DEF OperationHasWorkspace
<1>n. Len(queue[u]) \in Nat
  BY LenIsNat
<1>1. CASE queue'[u] = queue[u]
  BY <1>1 DEF OperationHasWorkspace
<1>2. ASSUME NEW t \in Tabs, Len(queue[t]) > 0, OtherQueuesKept(t), HeadSettles(t)
      PROVE  queue'[u][j].ws \in Workspaces
  <2>1. CASE u # t
    BY <1>1, <1>2, <2>1 DEF OtherQueuesKept
  <2>2. CASE u = t
    <3>1. j + 1 \in 1..Len(queue[u]) /\ queue'[u][j] = queue[u][j + 1]
      BY <1>n, <1>2, <2>2 DEF HeadSettles, Settled
    <3> QED
      BY <3>1 DEF OperationHasWorkspace
  <2> QED
    BY <2>1, <2>2
<1>3. ASSUME NEW t \in Tabs, Len(queue[t]) > 0, OtherQueuesKept(t), HeadAdvances(t)
      PROVE  queue'[u][j].ws \in Workspaces
  <2>1. CASE u # t
    BY <1>1, <1>3, <2>1 DEF OtherQueuesKept
  <2>2. CASE u = t
    <3> PICK n \in Operation : Advanced(t, n) /\ n.ws \in Workspaces
      BY <1>3 DEF HeadAdvances
    <3>1. j = 1 \/ (j \in 2..Len(queue[u]) /\ queue'[u][j] = queue[u][j])
      BY <1>n, <2>2 DEF Advanced
    <3> QED
      BY <1>n, <2>2, <3>1 DEF OperationHasWorkspace, Advanced
  <2> QED
    BY <2>1, <2>2
<1>4. ASSUME NEW t \in Tabs, Requested(t) \/ Scheduled(t)
      PROVE  queue'[u][j].ws \in Workspaces
  <2>1. CASE u # t
    BY <1>1, <1>4, <2>1 DEF OtherQueuesKept, Requested, Scheduled
  <2>2. CASE u = t
    <3>1. CASE queue' = queue
      BY <1>1, <3>1
    <3>2. CASE queue' # queue
      <4>1. PICK n : Enqueued(t, n) /\ (n.kind = "mutate" \/ n.pc # "queued" => n.ws \in Workspaces)
        BY <1>4, <3>2 DEF Requested, Scheduled, Queued
      <4>2. j = Len(queue[u]) + 1 \/ (j \in 1..Len(queue[u]) /\ queue'[u][j] = queue[u][j])
        BY <1>n, <2>2, <4>1 DEF Enqueued
      <4> QED
        BY <2>2, <4>1, <4>2 DEF OperationHasWorkspace, Enqueued
    <3> QED
      BY <3>1, <3>2
  <2> QED
    BY <2>1, <2>2
<1>5. CASE UNCHANGED queue
  BY <1>1, <1>5
<1> QED
  BY <1>2, <1>3, <1>4, <1>5 DEF StepShape, Queues

LEMMA OnlyHeadRunsStep ==
  ASSUME TypeOK, OnlyHeadRuns, StepShape
  PROVE  OnlyHeadRuns'
<1> SUFFICES ASSUME NEW u \in Tabs, NEW j \in 2..Len(queue'[u])
             PROVE  queue'[u][j].pc = "queued"
  BY DEF OnlyHeadRuns
<1>n. Len(queue[u]) \in Nat
  BY LenIsNat
<1>1. CASE queue'[u] = queue[u]
  BY <1>1 DEF OnlyHeadRuns
<1>2. ASSUME NEW t \in Tabs, Len(queue[t]) > 0, OtherQueuesKept(t),
             HeadSettles(t) \/ HeadAdvances(t)
      PROVE  queue'[u][j].pc = "queued"
  <2>1. CASE u # t
    BY <1>1, <1>2, <2>1 DEF OtherQueuesKept
  <2>2. CASE u = t /\ HeadSettles(t)
    <3>1. j + 1 \in 2..Len(queue[u]) /\ queue'[u][j] = queue[u][j + 1]
      BY <1>n, <1>2, <2>2 DEF HeadSettles, Settled
    <3> QED
      BY <3>1 DEF OnlyHeadRuns
  <2>3. CASE u = t /\ HeadAdvances(t)
    <3>1. j \in 2..Len(queue[u]) /\ queue'[u][j] = queue[u][j]
      BY <1>n, <1>2, <2>3 DEF HeadAdvances, Advanced
    <3> QED
      BY <3>1 DEF OnlyHeadRuns
  <2> QED
    BY <1>2, <2>1, <2>2, <2>3
<1>3. ASSUME NEW t \in Tabs, Requested(t) \/ Scheduled(t)
      PROVE  queue'[u][j].pc = "queued"
  <2>1. CASE u # t
    BY <1>1, <1>3, <2>1 DEF OtherQueuesKept, Requested, Scheduled
  <2>2. CASE u = t /\ queue' # queue
    <3>1. PICK n : Enqueued(t, n) /\ n.pc = "queued"
      BY <1>3, <2>2 DEF Requested, Scheduled, Queued
    <3>2. j = Len(queue[u]) + 1 \/ (j \in 2..Len(queue[u]) /\ queue'[u][j] = queue[u][j])
      BY <1>n, <2>2, <3>1 DEF Enqueued
    <3> QED
      BY <2>2, <3>1, <3>2 DEF OnlyHeadRuns, Enqueued
  <2> QED
    BY <1>1, <2>1, <2>2
<1>4. CASE UNCHANGED queue
  BY <1>1, <1>4
<1> QED
  BY <1>2, <1>3, <1>4 DEF StepShape, Queues

\* The ways in which a step changes the store: tab t writes w, or w is deleted.
Writes(t, w) ==
  /\ Len(queue[t]) > 0 /\ OtherQueuesKept(t)
  /\ \/ /\ queue[t][1].kind = "mutate" /\ queue[t][1].pc = "loaded"
        /\ queue[t][1].got # Absent /\ queue[t][1].ws = w
        /\ Replace(t, w, queue[t][1].got)
     \/ Create(t, w)
  /\ \E n \in Operation : Advanced(t, n) /\ n.pc # "loaded"

LEMMA StoreChange ==
  ASSUME StepShape
  PROVE  \/ UNCHANGED storeVars
         \/ \E t \in Tabs, w \in Workspaces : Writes(t, w)
         \/ \E w \in Workspaces : DeleteRecord(w) /\ UNCHANGED queue
<1>1. ASSUME NEW t \in Tabs, Len(queue[t]) > 0, OtherQueuesKept(t), HeadAdvances(t)
      PROVE  UNCHANGED storeVars \/ \E w \in Workspaces : Writes(t, w)
  <2> PICK n \in Operation :
        /\ Advanced(t, n) /\ n.ws \in Workspaces
        /\ HeadReads(t, n) \/ HeadWrites(t, n)
    BY <1>1 DEF HeadAdvances
  <2>1. CASE HeadReads(t, n)
    BY <2>1 DEF HeadReads
  <2>2. CASE HeadWrites(t, n)
    <3>1. n.pc # "loaded"
      BY <2>2 DEF HeadWrites
    <3> QED
      BY <1>1, <2>2, <3>1 DEF HeadWrites, Writes
  <2> QED
    BY <2>1, <2>2
<1>2. ASSUME NEW t \in Tabs, HeadSettles(t) \/ Requested(t) \/ Scheduled(t)
      PROVE  UNCHANGED storeVars
  BY <1>2 DEF HeadSettles, Requested, Scheduled
<1> QED
  BY <1>1, <1>2 DEF StepShape, Queues

LEMMA StoreInvStep ==
  ASSUME TypeOK, NoRecordNoWriter, DeletedStaysDeleted, StepShape
  PROVE  NoRecordNoWriter' /\ DeletedStaysDeleted'
<1>t. store \in [Workspaces -> Record] /\ commits \in Nat /\ removed \subseteq Workspaces
  BY DEF TypeOK, StoreTypeOK
<1>1. ASSUME NEW t \in Tabs, NEW w \in Workspaces, Writes(t, w)
      PROVE  NoRecordNoWriter' /\ DeletedStaysDeleted'
  <2>1. /\ w \notin removed /\ removed' = removed /\ store'[w].stamp # Absent
        /\ \A v \in Workspaces : v # w => store'[v] = store[v]
    BY <1>1, <1>t DEF Writes, Replace, Create, DeletedStaysDeleted, Absent
  <2> QED
    BY <1>t, <2>1 DEF NoRecordNoWriter, DeletedStaysDeleted, Load
<1>2. ASSUME NEW w \in Workspaces, DeleteRecord(w)
      PROVE  NoRecordNoWriter' /\ DeletedStaysDeleted'
  <2>1. /\ removed' = removed \cup {w} /\ store'[w] = NoRecord
        /\ \A v \in Workspaces : v # w => store'[v] = store[v]
    BY <1>2, <1>t DEF DeleteRecord
  <2> QED
    BY <1>t, <2>1 DEF NoRecordNoWriter, DeletedStaysDeleted, Load, NoRecord
<1>3. CASE UNCHANGED storeVars
  BY <1>3 DEF storeVars, NoRecordNoWriter, DeletedStaysDeleted, Load
<1> QED
  BY <1>1, <1>2, <1>3, StoreChange

LEMMA ReadIsLatestOwnStep ==
  ASSUME IInv, StepShape, OnlyHeadRuns', OperationHasWorkspace', TypeOK'
  PROVE  ReadIsLatestOwn'
<1> SUFFICES ASSUME NEW u \in Tabs, NEW j \in 1..Len(queue'[u]),
                    queue'[u][j].kind = "mutate", queue'[u][j].pc = "loaded",
                    queue'[u][j].got # Absent, store'[queue'[u][j].ws].by = u
             PROVE  store'[queue'[u][j].ws].stamp = queue'[u][j].got
  BY DEF ReadIsLatestOwn
<1> DEFINE v == queue'[u][j].ws
<1>t. /\ store \in [Workspaces -> Record] /\ v \in Workspaces /\ NoTab \notin Tabs
      /\ Len(queue[u]) \in Nat /\ Len(queue'[u]) \in Nat
  <2>1. queue'[u] \in Seq(Operation)
    BY DEF TypeOK
  <2>2. Len(queue'[u]) \in Nat
    BY <2>1, LenProperties
  <2> QED
    BY <2>2, LenIsNat, StoreAssumption DEF IInv, TypeOK, StoreTypeOK, OperationHasWorkspace
<1>j. j = 1
  BY <1>t DEF OnlyHeadRuns
<1>1. CASE queue'[u] = queue[u] /\ store'[v] = store[v]
  BY <1>1 DEF IInv, ReadIsLatestOwn
<1>2. ASSUME NEW t \in Tabs, NEW w \in Workspaces, Writes(t, w)
      PROVE  store'[v].stamp = queue'[u][j].got
  <2>1. u # t
    BY <1>2, <1>j DEF Writes, Advanced
  <2>2. /\ queue'[u] = queue[u] /\ store'[w].by = t
        /\ \A x \in Workspaces : x # w => store'[x] = store[x]
    BY <1>2, <1>t, <2>1 DEF Writes, OtherQueuesKept, Replace, Create
  <2> QED
    BY <1>1, <1>t, <2>1, <2>2
<1>3. ASSUME NEW w \in Workspaces, DeleteRecord(w), UNCHANGED queue
      PROVE  store'[v].stamp = queue'[u][j].got
  <2>1. /\ store'[w].by = NoTab
        /\ \A x \in Workspaces : x # w => store'[x] = store[x]
    BY <1>3, <1>t DEF DeleteRecord, NoRecord
  <2> QED
    BY <1>1, <1>3, <1>t, <2>1
<1>4. CASE UNCHANGED storeVars
  <2>1. store' = store
    BY <1>4 DEF storeVars
  <2>2. CASE queue'[u] = queue[u]
    BY <1>1, <2>1, <2>2
  <2>3. ASSUME NEW t \in Tabs, Len(queue[t]) > 0, OtherQueuesKept(t), HeadSettles(t)
        PROVE  queue'[u] = queue[u]
    <3>1. CASE u = t
      <4>1. j + 1 \in 2..Len(queue[u]) /\ queue'[u][j] = queue[u][j + 1]
        BY <1>t, <1>j, <2>3, <3>1 DEF HeadSettles, Settled
      <4> QED
        BY <4>1 DEF IInv, OnlyHeadRuns
    <3> QED
      BY <2>3, <3>1 DEF OtherQueuesKept
  <2>4. ASSUME NEW t \in Tabs, Len(queue[t]) > 0, OtherQueuesKept(t), HeadAdvances(t)
        PROVE  queue'[u] = queue[u] \/ store'[v].stamp = queue'[u][j].got
    <3>1. CASE u = t
      <4> PICK n \in Operation :
            /\ Advanced(t, n)
            /\ HeadReads(t, n) \/ HeadWrites(t, n)
        BY <2>4 DEF HeadAdvances
      <4>1. queue'[u][j] = n
        BY <1>j, <3>1 DEF Advanced
      <4>2. n.got = Load(n.ws)
        BY <4>1 DEF HeadReads, HeadWrites
      <4> QED
        BY <2>1, <4>1, <4>2 DEF Load
    <3> QED
      BY <2>4, <3>1 DEF OtherQueuesKept
  <2>5. ASSUME NEW t \in Tabs, Requested(t) \/ Scheduled(t)
        PROVE  queue'[u] = queue[u] \/ (j \in 1..Len(queue[u]) /\ queue'[u][j] = queue[u][j])
    <3>1. CASE u = t /\ queue' # queue
      <4>1. PICK n : Enqueued(t, n) /\ n.pc = "queued"
        BY <2>5, <3>1 DEF Requested, Scheduled, Queued
      <4> QED
        BY <1>t, <3>1, <4>1 DEF Enqueued
    <3> QED
      BY <2>5, <3>1 DEF Requested, Scheduled, OtherQueuesKept
  <2>6. CASE j \in 1..Len(queue[u]) /\ queue'[u][j] = queue[u][j]
    BY <2>1, <2>6 DEF IInv, ReadIsLatestOwn
  <2> QED
    BY <2>2, <2>3, <2>4, <2>5, <2>6 DEF StepShape, Queues
<1> QED
  BY <1>2, <1>3, <1>4, StoreChange

LEMMA InvalidationStep ==
  ASSUME IInv, StepShape
  PROVE  PendingIsQueued' /\ OwedIsPending'
<1>t. pending \in [Tabs -> BOOLEAN] /\ owed \in [Tabs -> BOOLEAN]
  BY DEF IInv, TypeOK
<1>o. OwedIsPending'
  <2>1. ASSUME NEW t \in Tabs, pending' = [pending EXCEPT ![t] = TRUE],
               owed' = [owed EXCEPT ![t] = TRUE]
        PROVE  OwedIsPending'
    BY <1>t, <2>1 DEF IInv, OwedIsPending
  <2>2. ASSUME NEW t \in Tabs, pending' = [pending EXCEPT ![t] = FALSE],
               owed' = [owed EXCEPT ![t] = FALSE]
        PROVE  OwedIsPending'
    BY <1>t, <2>2 DEF IInv, OwedIsPending
  <2>3. CASE UNCHANGED <<pending, owed>>
    BY <2>3 DEF IInv, OwedIsPending
  <2> QED
    BY <2>1, <2>2, <2>3 DEF StepShape, HeadSettles, HeadAdvances, HeadReads, HeadWrites,
                            Requested, Scheduled, Queues
<1>p. ASSUME NEW u \in Tabs, pending'[u]
      PROVE  RefreshQueued(u)'
  <2>n. Len(queue[u]) \in Nat
    BY LenIsNat DEF IInv
  <2>1. CASE pending[u] /\ queue'[u] = queue[u]
    <3>1. RefreshQueued(u)
      BY <2>1 DEF IInv, PendingIsQueued
    <3> QED
      BY <2>1, <3>1 DEF RefreshQueued
  <2>2. ASSUME NEW t \in Tabs, Len(queue[t]) > 0, OtherQueuesKept(t), HeadSettles(t)
        PROVE  RefreshQueued(u)'
    <3>1. pending[u]
      BY <1>p, <2>2 DEF HeadSettles
    <3>2. CASE u = t
      <4> PICK i \in 1..Len(queue[u]) : queue[u][i].kind = "refresh" /\ queue[u][i].pc = "queued"
        BY <3>1 DEF IInv, PendingIsQueued, RefreshQueued
      <4>1. i # 1
        BY <2>2, <3>2 DEF HeadSettles
      <4>2. i - 1 \in 1..Len(queue'[u]) /\ queue'[u][i - 1] = queue[u][i]
        BY <2>n, <2>2, <3>2, <4>1 DEF HeadSettles, Settled
      <4> QED
        BY <4>2 DEF RefreshQueued
    <3> QED
      BY <2>1, <2>2, <3>1, <3>2 DEF OtherQueuesKept
  <2>3. ASSUME NEW t \in Tabs, Len(queue[t]) > 0, OtherQueuesKept(t), HeadAdvances(t)
        PROVE  RefreshQueued(u)'
    <3> PICK n \in Operation :
          /\ Advanced(t, n) /\ n.kind = queue[t][1].kind
          /\ HeadReads(t, n) \/ (n.kind # "refresh" /\ HeadWrites(t, n))
      BY <2>3 DEF HeadAdvances
    <3>1. pending[u] /\ (u = t => n.kind # "refresh")
      BY <1>t, <1>p DEF HeadReads, HeadWrites
    <3>2. CASE u = t
      <4> PICK i \in 1..Len(queue[u]) : queue[u][i].kind = "refresh" /\ queue[u][i].pc = "queued"
        BY <3>1 DEF IInv, PendingIsQueued, RefreshQueued
      <4>1. i # 1
        BY <3>1, <3>2
      <4>2. i \in 1..Len(queue'[u]) /\ queue'[u][i] = queue[u][i]
        BY <2>n, <3>2, <4>1 DEF Advanced
      <4> QED
        BY <4>2 DEF RefreshQueued
    <3> QED
      BY <2>1, <2>3, <3>1, <3>2 DEF OtherQueuesKept
  <2>4. ASSUME NEW t \in Tabs, Requested(t) \/ Scheduled(t)
        PROVE  RefreshQueued(u)'
    <3>1. u # t => pending[u]
      BY <1>t, <1>p, <2>4 DEF Requested, Scheduled
    <3>2. CASE u = t /\ \E n : Enqueued(t, n) /\ pending[u]
      <4> PICK i \in 1..Len(queue[u]) : queue[u][i].kind = "refresh" /\ queue[u][i].pc = "queued"
        BY <3>2 DEF IInv, PendingIsQueued, RefreshQueued
      <4>1. i \in 1..Len(queue'[u]) /\ queue'[u][i] = queue[u][i]
        BY <2>n, <3>2 DEF Enqueued
      <4> QED
        BY <4>1 DEF RefreshQueued
    <3>3. CASE u = t /\ Enqueued(t, Queued("refresh"))
      <4>1. /\ Len(queue[u]) + 1 \in 1..Len(queue'[u])
            /\ queue'[u][Len(queue[u]) + 1] = Queued("refresh")
        BY <2>n, <3>3 DEF Enqueued
      <4>2. Queued("refresh").kind = "refresh" /\ Queued("refresh").pc = "queued"
        BY DEF Queued
      <4> QED
        BY <4>1, <4>2 DEF RefreshQueued
    <3>4. CASE u = t /\ pending[t] /\ queue' = queue
      BY <2>1, <3>4
    <3>5. u = t /\ Requested(t) => pending[u] /\ \E n : Enqueued(t, n)
      BY <1>p DEF Requested
    <3>6. u # t => queue'[u] = queue[u]
      BY <2>4 DEF Requested, Scheduled, OtherQueuesKept
    <3> QED
      BY <2>1, <2>4, <3>1, <3>2, <3>3, <3>4, <3>5, <3>6 DEF Scheduled
  <2>5. CASE UNCHANGED Queues
    BY <1>p, <2>1, <2>5 DEF Queues
  <2> QED
    BY <2>2, <2>3, <2>4, <2>5 DEF StepShape
<1> QED
  BY <1>o, <1>p DEF PendingIsQueued

LEMMA StepIInv == IInv /\ [Next]_vars => IInv'
<1> SUFFICES ASSUME IInv, [Next]_vars PROVE IInv'
  OBVIOUS
<1>1. TypeOK' /\ StepShape
  BY StepTypes, StepHasShape DEF IInv
<1>2. OperationHasWorkspace' /\ OnlyHeadRuns'
  BY <1>1, OperationHasWorkspaceStep, OnlyHeadRunsStep DEF IInv
<1>3. NoRecordNoWriter' /\ DeletedStaysDeleted'
  BY <1>1, StoreInvStep DEF IInv
<1>4. ReadIsLatestOwn'
  BY <1>1, <1>2, ReadIsLatestOwnStep
<1>5. PendingIsQueued' /\ OwedIsPending'
  BY <1>1, InvalidationStep
<1> QED
  BY <1>1, <1>2, <1>3, <1>4, <1>5 DEF IInv

\* The invariant holds throughout, whatever the tabs, the workspaces and the bounds.
THEOREM Invariance == Spec => []IInv
BY InitIInv, StepIInv, PTL DEF Spec

-----------------------------------------------------------------------------
(* The properties *)

\* The store, the screens, the queues and the calls in flight keep their shape.
THEOREM TypeCorrectness == Spec => []TypeOK
<1>1. IInv => TypeOK
  BY DEF IInv
<1> QED
  BY Invariance, <1>1, PTL

\* A deleted workspace is never written again, however many tabs still have it open: the
\* commit of a mutation replaces a record and cannot create one.
THEOREM NoResurrection == Spec => []DeletedStaysDeleted
<1>1. IInv => DeletedStaysDeleted
  BY DEF IInv
<1> QED
  BY Invariance, <1>1, PTL

\* Every accepted invalidation has a read of the store queued for it.
THEOREM InvalidationsAreKept == Spec => []InvalidationIsFollowedByRead
<1>1. IInv => InvalidationIsFollowedByRead
  BY DEF IInv, OwedIsPending, PendingIsQueued, RefreshQueued, InvalidationIsFollowedByRead
<1> QED
  BY Invariance, <1>1, PTL

\* A tab never overwrites its own commit with content built from an older version: the
\* write queue makes each mutation read what the one before it has written.
THEOREM OwnCommitsAreKept == Spec => OwnCommitNotOverwritten
<1> DEFINE Built == \A w \in Workspaces :
                      /\ store'[w] # store[w]
                      /\ store[w].by \in Tabs
                      /\ store'[w].by = store[w].by
                      => store'[w].base = store[w].stamp
<1>1. ASSUME IInv, [Next]_vars
      PROVE  Built
  <2> SUFFICES ASSUME NEW v \in Workspaces, store'[v] # store[v],
                      store[v].by \in Tabs, store'[v].by = store[v].by
               PROVE  store'[v].base = store[v].stamp
    OBVIOUS
  <2>1. StepShape
    BY <1>1, StepHasShape DEF IInv
  <2>2. store \in [Workspaces -> Record] /\ NoTab \notin Tabs
    BY <1>1, StoreAssumption DEF IInv, TypeOK, StoreTypeOK
  <2>3. ASSUME NEW t \in Tabs, NEW w \in Workspaces, Writes(t, w)
        PROVE  store'[v].base = store[v].stamp
    <3>1. v = w /\ store'[v].by = t /\ store[v].by = t
      BY <2>2, <2>3 DEF Writes, Replace, Create
    <3>2. Load(v) # Absent
      BY <1>1, <2>2 DEF IInv, NoRecordNoWriter
    <3>3. /\ queue[t][1].kind = "mutate" /\ queue[t][1].pc = "loaded"
          /\ queue[t][1].got # Absent /\ queue[t][1].ws = v
          /\ store'[v].base = queue[t][1].got
      BY <2>2, <2>3, <3>1, <3>2 DEF Writes, Replace, Create
    <3>4. 1 \in 1..Len(queue[t])
      BY <1>1, <2>3, LenIsNat DEF Writes, IInv
    <3>5. store[v].stamp = queue[t][1].got
      BY <1>1, <3>1, <3>3, <3>4 DEF IInv, ReadIsLatestOwn
    <3> QED
      BY <3>3, <3>5
  <2>4. ASSUME NEW w \in Workspaces, DeleteRecord(w)
        PROVE  FALSE
    <3>1. v = w /\ store'[v].by = NoTab
      BY <2>2, <2>4 DEF DeleteRecord, NoRecord
    <3> QED
      BY <2>2, <3>1
  <2>5. CASE UNCHANGED storeVars
    BY <2>5 DEF storeVars
  <2> QED
    BY <2>1, <2>3, <2>4, <2>5, StoreChange
<1>2. IInv /\ [Next]_vars => [Built]_vars
  BY <1>1
<1> QED
  BY Invariance, <1>2, PTL DEF Spec, OwnCommitNotOverwritten

-----------------------------------------------------------------------------
(* A second invariant: what a tab shows, and what is on its way to its screen *)

\* Stamp n of w was committed, and the record of w, if it is still there, is no older.
Past(st, c, w, n) == n <= c /\ (n <= st[w].stamp \/ st[w].stamp = Absent)

\* The operation h has read or written the version it may show, and shows it if the tab
\* is still where it was then.
Settling(h) ==
  (h.kind = "refresh" /\ h.pc = "loaded") \/ (h.kind = "mutate" /\ h.pc = "committed")
Reads(h) == Settling(h) \/ (h.kind = "create" /\ h.pc = "committed")

\* Until the tab navigates, no version newer than that of h is on its screen or on its way.
Fresh(s, ls, h) ==
  /\ h.gen <= s.gen
  /\ h.gen = s.gen /\ h.got # Absent =>
       /\ s.ws = h.ws => s.shown <= h.got
       /\ \A l \in ls : l.gen = h.gen /\ l.ws = h.ws => l.got <= h.got

HeadShows(st, c, s, ls, h) ==
  /\ Reads(h) => Past(st, c, h.ws, h.got)
  /\ Settling(h) => Fresh(s, ls, h)

TabShows(st, c, s, ls, q) ==
  /\ Past(st, c, s.ws, s.shown)
  /\ \A l \in ls : Past(st, c, l.ws, l.got)
  /\ Len(q) > 0 => HeadShows(st, c, s, ls, q[1])

\* No record is newer than the latest commit.
Stamped == \A w \in Workspaces : store[w].stamp <= commits

ShownInv ==
  /\ Stamped
  /\ \A t \in Tabs : TabShows(store, commits, tab[t], loads[t], queue[t])

\* What a step may do to the stamps: a record keeps its stamp, goes, or gets a new one.
Later(st, c, st2, c2) ==
  /\ c <= c2
  /\ \A w \in Workspaces :
       st2[w].stamp = st[w].stamp \/ st2[w].stamp = Absent \/ st2[w].stamp > c

Stores == [Workspaces -> Record]

LEMMA PastLater ==
  ASSUME NEW st \in Stores, NEW st2 \in Stores, NEW c \in Nat, NEW c2 \in Nat,
         Later(st, c, st2, c2), NEW w \in Workspaces, NEW n \in Nat, Past(st, c, w, n)
  PROVE  Past(st2, c2, w, n)
<1>1. st[w].stamp \in Nat /\ st2[w].stamp \in Nat
  BY DEF Stores, Record
<1>2. n <= c2
  BY DEF Past, Later
<1>3. CASE st[w].stamp = Absent
  BY <1>1, <1>2, <1>3 DEF Past, Later
<1>4. CASE n <= st[w].stamp
  BY <1>1, <1>2, <1>4 DEF Past, Later
<1> QED
  BY <1>3, <1>4 DEF Past

\* The types of a tab, of its loads and of its queue, apart from the variables.
TabTypes(s, ls, q) == s \in Tab /\ ls \in SUBSET RouteLoad /\ q \in Seq(Operation)

LEMMA TabShowsLater ==
  ASSUME NEW st \in Stores, NEW st2 \in Stores, NEW c \in Nat, NEW c2 \in Nat,
         Later(st, c, st2, c2), NEW s, NEW ls, NEW q, TabTypes(s, ls, q),
         Len(q) > 0 /\ Reads(q[1]) => q[1].ws \in Workspaces,
         TabShows(st, c, s, ls, q)
  PROVE  TabShows(st2, c2, s, ls, q)
<1>1. Past(st2, c2, s.ws, s.shown)
  BY PastLater DEF TabTypes, Tab, TabShows
<1>2. \A l \in ls : Past(st2, c2, l.ws, l.got)
  BY PastLater DEF TabTypes, RouteLoad, TabShows
<1>3. ASSUME Len(q) > 0
      PROVE  HeadShows(st2, c2, s, ls, q[1])
  <2>1. Len(q) \in Nat
    BY LenProperties DEF TabTypes
  <2>2. q[1] \in Operation
    BY <1>3, <2>1, ElementOfSeq DEF TabTypes
  <2>3. q[1].got \in Nat
    BY <2>2 DEF Operation
  <2>4. HeadShows(st, c, s, ls, q[1])
    BY <1>3 DEF TabShows
  <2> QED
    BY <1>3, <2>3, <2>4, PastLater DEF HeadShows
<1> QED
  BY <1>1, <1>2, <1>3 DEF TabShows

LEMMA StepIsLater ==
  ASSUME TypeOK, Stamped, StepShape
  PROVE  Later(store, commits, store', commits') /\ Stamped'
<1>t. /\ store \in [Workspaces -> Record] /\ commits \in Nat
      /\ \A w \in Workspaces : store[w].stamp \in Nat
  BY DEF TypeOK, StoreTypeOK, Record
<1>1. ASSUME NEW t \in Tabs, NEW w \in Workspaces, Writes(t, w)
      PROVE  Later(store, commits, store', commits') /\ Stamped'
  <2>1. /\ commits' = commits + 1 /\ store'[w].stamp = commits + 1
        /\ \A v \in Workspaces : v # w => store'[v] = store[v]
    BY <1>1, <1>t DEF Writes, Replace, Create
  <2> QED
    BY <1>t, <2>1 DEF Later, Stamped
<1>2. ASSUME NEW w \in Workspaces, DeleteRecord(w)
      PROVE  Later(store, commits, store', commits') /\ Stamped'
  <2>1. /\ commits' = commits /\ store'[w].stamp = Absent
        /\ \A v \in Workspaces : v # w => store'[v] = store[v]
    BY <1>2, <1>t DEF DeleteRecord, NoRecord
  <2> QED
    BY <1>t, <2>1 DEF Later, Stamped, Absent
<1>3. CASE UNCHANGED storeVars
  BY <1>3, <1>t DEF storeVars, Later, Stamped
<1> QED
  BY <1>1, <1>2, <1>3, StoreChange

-----------------------------------------------------------------------------
(* The head of the queue after a step *)

LEMMA IdleHeadShows ==
  ASSUME NEW st, NEW c, NEW s, NEW ls, NEW h, h.pc = "queued"
  PROVE  HeadShows(st, c, s, ls, h)
BY DEF HeadShows, Reads, Settling

\* A new head is one that has not started.
LEMMA HeadAfterSettle ==
  ASSUME TypeOK, OnlyHeadRuns, NEW t \in Tabs, Len(queue[t]) > 0, Settle(t, 1)
  PROVE  /\ Len(queue'[t]) > 0 => queue'[t][1].pc = "queued"
         /\ OtherQueuesKept(t)
<1>1. queue \in [Tabs -> Seq(Operation)]
  BY DEF TypeOK
<1>2. /\ queue' \in [Tabs -> Seq(Operation)]
      /\ Settled(t) /\ OtherQueuesKept(t)
  BY <1>1, SettleHead
<1>3. Len(queue[t]) \in Nat
  BY LenIsNat
<1>4. ASSUME Len(queue'[t]) > 0
      PROVE  queue'[t][1].pc = "queued"
  <2>1. queue'[t][1] = queue[t][2] /\ 2 \in 2..Len(queue[t])
    BY <1>2, <1>3, <1>4 DEF Settled
  <2> QED
    BY <2>1 DEF OnlyHeadRuns
<1> QED
  BY <1>2, <1>4

LEMMA HeadAfterEnqueue ==
  ASSUME TypeOK, NEW t \in Tabs, NEW n \in Operation, n.pc = "queued", Enqueue(t, n)
  PROVE  /\ \/ Len(queue[t]) > 0 /\ queue'[t][1] = queue[t][1]
            \/ queue'[t][1].pc = "queued"
         /\ OtherQueuesKept(t)
<1>1. queue \in [Tabs -> Seq(Operation)]
  BY DEF TypeOK
<1>2. Enqueued(t, n) /\ OtherQueuesKept(t)
  BY <1>1, AppendLast
<1>3. Len(queue[t]) \in Nat
  BY LenIsNat
<1>4. CASE Len(queue[t]) = 0
  BY <1>2, <1>4 DEF Enqueued
<1>5. CASE Len(queue[t]) > 0
  BY <1>2, <1>3, <1>5 DEF Enqueued
<1> QED
  BY <1>2, <1>3, <1>4, <1>5

-----------------------------------------------------------------------------
(* The steps of one tab *)

\* The invariant of tab t after a step, and the frame of the other tabs.
ShowsNext(t) == TabShows(store', commits', tab'[t], loads'[t], queue'[t])

OtherTabsKept(t) ==
  \A u \in Tabs : u # t => tab'[u] = tab[u] /\ loads'[u] = loads[u] /\ queue'[u] = queue[u]

Shows(t) == TabShows(store, commits, tab[t], loads[t], queue[t])

\* What the steps of a tab start from.
TabFacts(t) ==
  /\ TabTypes(tab[t], loads[t], queue[t])
  /\ tab[t].ws \in Workspaces /\ tab[t].gen \in Nat /\ tab[t].shown \in Nat
  /\ Len(queue[t]) \in Nat
  /\ commits \in Nat /\ store \in Stores
  /\ \A w \in Workspaces : Load(w) \in Nat /\ Load(w) <= commits
  /\ \A l \in loads[t] : l.gen \in Nat /\ l.got \in Nat /\ l.ws \in Workspaces

LEMMA FactsOfTab ==
  ASSUME TypeOK, Stamped, NEW t \in Tabs
  PROVE  TabFacts(t)
<1>1. tab[t] \in Tab /\ loads[t] \in SUBSET RouteLoad /\ queue[t] \in Seq(Operation)
  BY DEF TypeOK
<1>2. /\ commits \in Nat /\ store \in Stores
      /\ \A w \in Workspaces : Load(w) \in Nat /\ Load(w) <= commits
  BY LoadIsNat DEF TypeOK, StoreTypeOK, Stores, Stamped, Load
<1>3. tab[t].ws \in Workspaces /\ tab[t].gen \in Nat /\ tab[t].shown \in Nat
  BY <1>1 DEF Tab
<1>4. \A l \in loads[t] : l.gen \in Nat /\ l.got \in Nat /\ l.ws \in Workspaces
  BY <1>1 DEF RouteLoad
<1> QED
  BY <1>1, <1>2, <1>3, <1>4, LenIsNat DEF TabFacts, TabTypes

\* A retired screen shows nothing, which is older than anything.
LEMMA RetirementShows ==
  ASSUME NEW st \in Stores, NEW c \in Nat, NEW s \in Tab, NEW status, NEW ls, NEW h,
         s.ws \in Workspaces
  PROVE  /\ Past(st, c, Retired(s, status).ws, Retired(s, status).shown)
         /\ ls \in SUBSET RouteLoad /\ h \in Operation /\ HeadShows(st, c, s, ls, h)
              => HeadShows(st, c, Retired(s, status), ls, h)
<1>1. /\ Retired(s, status).ws = s.ws /\ Retired(s, status).shown = 0
      /\ Retired(s, status).gen = s.gen
  BY DEF Retired, Tab, Absent
<1>2. st[s.ws].stamp \in Nat
  BY DEF Stores, Record
<1>3. h \in Operation => h.got \in Nat
  BY DEF Operation
<1> QED
  BY <1>1, <1>2, <1>3 DEF Past, HeadShows, Fresh

\* After a head has settled only what the tab shows matters.
LEMMA SettledTabShows ==
  ASSUME TypeOK, OnlyHeadRuns, NEW t \in Tabs, Len(queue[t]) > 0, Settle(t, 1),
         UNCHANGED <<storeVars, loads>>, Shows(t),
         Past(store, commits, tab'[t].ws, tab'[t].shown)
  PROVE  ShowsNext(t)
<1>1. Len(queue'[t]) > 0 => queue'[t][1].pc = "queued"
  BY HeadAfterSettle
<1> QED
  BY <1>1, IdleHeadShows DEF Shows, ShowsNext, TabShows, storeVars

LEMMA EnqueuedTabShows ==
  ASSUME TypeOK, NEW t \in Tabs, NEW n \in Operation, n.pc = "queued", Enqueue(t, n),
         UNCHANGED <<storeVars, tab, loads>>, Shows(t)
  PROVE  ShowsNext(t) /\ OtherTabsKept(t)
<1>1. /\ \/ Len(queue[t]) > 0 /\ queue'[t][1] = queue[t][1]
         \/ queue'[t][1].pc = "queued"
      /\ OtherQueuesKept(t)
  BY HeadAfterEnqueue
<1>2. HeadShows(store, commits, tab[t], loads[t], queue'[t][1])
  BY <1>1, IdleHeadShows DEF Shows, TabShows
<1> QED
  BY <1>1, <1>2 DEF Shows, ShowsNext, TabShows, storeVars, OtherTabsKept, OtherQueuesKept

LEMMA QueueStepShows ==
  ASSUME IInv, ShownInv, NEW t \in Tabs, QueueStep(t)
  PROVE  ShowsNext(t) /\ OtherTabsKept(t)
<1> PICK i \in 1..Len(queue[t]) :
      \/ StartMutation(t, i) \/ MutationFindsNothing(t, i) \/ CommitMutation(t, i)
      \/ MutationEndsWithoutCommit(t, i) \/ MutationSettles(t, i)
      \/ StartCreation(t, i) \/ CreationFails(t, i)
      \/ CreationShows(t, i) \/ CreationSettles(t, i)
      \/ StartRefresh(t, i) \/ RefreshKeepsProjection(t, i) \/ RefreshProjects(t, i)
  BY DEF QueueStep
<1> DEFINE o == queue[t][1]
           s == tab[t]
<1>i. i = 1
  BY DEF At, MayRun, StartMutation, MutationFindsNothing, CommitMutation,
         MutationEndsWithoutCommit, MutationSettles, StartCreation, CreationFails,
         CreationShows, CreationSettles, StartRefresh, RefreshKeepsProjection, RefreshProjects
<1>f. TabFacts(t) /\ TypeOK /\ OnlyHeadRuns /\ tab \in [Tabs -> Tab]
  BY FactsOfTab DEF ShownInv, Stamped, IInv, TypeOK
<1>q. /\ Len(queue[t]) > 0 /\ o \in Operation /\ queue \in [Tabs -> Seq(Operation)]
      /\ s \in Tab
  BY <1>i, <1>f, QueueElement DEF TypeOK, TabFacts, TabTypes
<1>o. /\ o.got \in Nat /\ o.gen \in Nat
      /\ o.kind = "mutate" \/ o.pc # "queued" => o.ws \in Workspaces
  BY <1>i, <1>q DEF Operation, OperationHasWorkspace, IInv
<1>h. /\ Shows(t)
      /\ Past(store, commits, s.ws, s.shown)
      /\ \A l \in loads[t] : Past(store, commits, l.ws, l.got)
      /\ HeadShows(store, commits, s, loads[t], o)
  BY <1>q DEF ShownInv, Shows, TabShows
<1>s. ASSUME Settle(t, 1), UNCHANGED <<storeVars, loads>>,
             Past(store, commits, tab'[t].ws, tab'[t].shown),
             \A u \in Tabs : u # t => tab'[u] = tab[u]
      PROVE  ShowsNext(t) /\ OtherTabsKept(t)
  BY <1>f, <1>q, <1>h, <1>s, SettledTabShows, HeadAfterSettle DEF OtherTabsKept, OtherQueuesKept
<1>k. ASSUME Settle(t, 1), UNCHANGED <<storeVars, loads, tab>>
      PROVE  ShowsNext(t) /\ OtherTabsKept(t)
  BY <1>h, <1>s, <1>k
<1>a. ASSUME NEW n \in Operation, Advance(t, 1, n), UNCHANGED loads,
             Past(store', commits', tab'[t].ws, tab'[t].shown),
             \A l \in loads[t] : Past(store', commits', l.ws, l.got),
             HeadShows(store', commits', tab'[t], loads[t], n),
             \A u \in Tabs : u # t => tab'[u] = tab[u]
      PROVE  ShowsNext(t) /\ OtherTabsKept(t)
  <2>1. Advanced(t, n) /\ OtherQueuesKept(t)
    BY <1>q, <1>a, AdvanceHead
  <2> QED
    BY <1>a, <2>1 DEF Advanced, OtherQueuesKept, ShowsNext, TabShows, OtherTabsKept
<1> HIDE DEF o, s
<1>1. CASE StartMutation(t, i)
  <2> DEFINE n == [o EXCEPT !.pc = "loaded", !.got = Load(o.ws)]
  <2>1. CASE RouteIsCurrent(t, o)
    <3>1. /\ Advance(t, 1, n) /\ UNCHANGED <<storeVars, tab, loads>> /\ o.kind = "mutate"
          /\ tab[t].ws = o.ws
      BY <1>1, <1>i, <2>1 DEF StartMutation, At, o, RouteIsCurrent
    <3>2. n \in Operation /\ n.kind = "mutate" /\ n.pc = "loaded"
      BY <1>q, <1>f, <3>1 DEF Operation, TabFacts
    <3> HIDE DEF n
    <3>3. HeadShows(store, commits, s, loads[t], n)
      BY <3>2 DEF HeadShows, Reads, Settling
    <3> QED
      BY <1>h, <1>a, <3>1, <3>2, <3>3 DEF s, storeVars
  <2>2. CASE ~RouteIsCurrent(t, o)
    BY <1>1, <1>i, <1>k, <2>2 DEF StartMutation, o
  <2> QED
    BY <2>1, <2>2
<1>2. CASE MutationFindsNothing(t, i)
  <2>1. /\ tab' = [tab EXCEPT ![t] = Retired(s, "not-found")]
        /\ Settle(t, 1) /\ UNCHANGED <<storeVars, loads>>
    BY <1>2, <1>i DEF MutationFindsNothing, s
  <2>2. tab'[t] = Retired(s, "not-found") /\ \A u \in Tabs : u # t => tab'[u] = tab[u]
    BY <1>f, <2>1
  <2>3. Past(store, commits, tab'[t].ws, tab'[t].shown)
    BY <1>f, <1>q, <2>2, RetirementShows DEF TabFacts, s
  <2> QED
    BY <1>s, <2>1, <2>2, <2>3
<1>3. CASE CommitMutation(t, i)
  <2> DEFINE n == [o EXCEPT !.pc = "committed", !.got = commits']
  <2>1. /\ Advance(t, 1, n) /\ UNCHANGED <<tab, loads>>
        /\ o.kind = "mutate" /\ s.ws = o.ws /\ s.gen = o.gen
        /\ Replace(t, o.ws, o.got)
    BY <1>3, <1>i DEF CommitMutation, At, o, s, RouteIsCurrent
  <2>2. /\ commits' = commits + 1 /\ commits' \in Nat
        /\ store' = [store EXCEPT ![o.ws] = [stamp |-> commits', by |-> t, base |-> o.got]]
    BY <1>f, <2>1 DEF Replace, TabFacts
  <2>3. /\ n \in Operation /\ n.kind = "mutate" /\ n.pc = "committed" /\ n.got = commits'
        /\ n.ws = o.ws /\ n.gen = o.gen
    BY <1>q, <2>1, <2>2 DEF Operation
  <2> HIDE DEF n
  <2>4. store'[o.ws].stamp = commits' /\ \A w \in Workspaces : w # o.ws => store'[w] = store[w]
    BY <1>f, <1>o, <2>1, <2>2 DEF TabFacts, Stores
  <2>5. \A w \in Workspaces, k \in Nat :
          Past(store, commits, w, k) => Past(store', commits', w, k)
    BY <1>f, <2>2, <2>4 DEF Past, TabFacts
  <2>6. s.shown <= n.got /\ \A l \in loads[t] : l.got <= n.got
    BY <1>f, <1>h, <2>2, <2>3 DEF Past, TabFacts, s
  <2>7. Fresh(s, loads[t], n)
    BY <1>f, <2>1, <2>3, <2>6 DEF Fresh, TabFacts, s
  <2>8. HeadShows(store', commits', s, loads[t], n)
    BY <2>2, <2>3, <2>4, <2>7 DEF HeadShows, Past
  <2>9. /\ Past(store', commits', s.ws, s.shown)
        /\ \A l \in loads[t] : Past(store', commits', l.ws, l.got)
    BY <1>f, <1>h, <2>5 DEF TabFacts, s
  <2> QED
    BY <1>a, <2>1, <2>3, <2>8, <2>9 DEF s
<1>4. CASE MutationEndsWithoutCommit(t, i)
  BY <1>4, <1>i, <1>k DEF MutationEndsWithoutCommit
<1>5. CASE MutationSettles(t, i)
  <2>1. /\ o.kind = "mutate" /\ o.pc = "committed"
        /\ tab' = IF RouteIsCurrent(t, o)
                    THEN [tab EXCEPT ![t] = Projected(s, o.ws, o.got)] ELSE tab
        /\ Settle(t, 1) /\ UNCHANGED <<storeVars, loads>>
    BY <1>5, <1>i DEF MutationSettles, At, o, s
  <2>2. CASE RouteIsCurrent(t, o)
    <3>1. tab'[t] = Projected(s, o.ws, o.got) /\ \A u \in Tabs : u # t => tab'[u] = tab[u]
      BY <1>f, <2>1, <2>2
    <3>2. tab'[t].ws = o.ws /\ tab'[t].shown = o.got
      BY <1>q, <3>1 DEF Projected, Tab
    <3>3. Past(store, commits, o.ws, o.got)
      BY <1>h, <2>1 DEF HeadShows, Reads, Settling
    <3> QED
      BY <1>s, <2>1, <3>1, <3>2, <3>3
  <2>3. CASE ~RouteIsCurrent(t, o)
    BY <1>k, <2>1, <2>3
  <2> QED
    BY <2>2, <2>3
<1>6. CASE StartCreation(t, i)
  <2> PICK w \in Workspaces :
        /\ Create(t, w)
        /\ Advance(t, 1, [o EXCEPT !.pc = "committed", !.ws = w, !.got = commits'])
    BY <1>6, <1>i DEF StartCreation, o
  <2> DEFINE n == [o EXCEPT !.pc = "committed", !.ws = w, !.got = commits']
  <2>1. /\ Advance(t, 1, n) /\ UNCHANGED <<tab, loads>> /\ o.kind = "create"
    BY <1>6, <1>i DEF StartCreation, At, o
  <2>2. /\ commits' = commits + 1 /\ commits' \in Nat
        /\ store' = [store EXCEPT ![w] = [stamp |-> commits', by |-> t, base |-> Absent]]
    BY <1>f DEF Create, TabFacts
  <2>3. /\ n \in Operation /\ n.kind = "create" /\ n.pc = "committed" /\ n.got = commits'
        /\ n.ws = w
    BY <1>q, <2>1, <2>2 DEF Operation
  <2> HIDE DEF n
  <2>4. store'[w].stamp = commits' /\ \A v \in Workspaces : v # w => store'[v] = store[v]
    BY <1>f, <2>2 DEF TabFacts, Stores
  <2>5. \A v \in Workspaces, k \in Nat :
          Past(store, commits, v, k) => Past(store', commits', v, k)
    BY <1>f, <2>2, <2>4 DEF Past, TabFacts
  <2>6. HeadShows(store', commits', s, loads[t], n)
    BY <2>2, <2>3, <2>4 DEF HeadShows, Settling, Past
  <2>7. /\ Past(store', commits', s.ws, s.shown)
        /\ \A l \in loads[t] : Past(store', commits', l.ws, l.got)
    BY <1>f, <1>h, <2>5 DEF TabFacts, s
  <2> QED
    BY <1>a, <2>1, <2>3, <2>6, <2>7 DEF s
<1>7. CASE CreationFails(t, i)
  BY <1>7, <1>i, <1>k DEF CreationFails
<1>8. CASE CreationShows(t, i)
  <2> DEFINE n == [o EXCEPT !.pc = "shown"]
  <2>1. /\ o.kind = "create" /\ o.pc = "committed"
        /\ tab' = [tab EXCEPT ![t] = [Projected(s, o.ws, o.got) EXCEPT !.route = o.ws]]
        /\ Advance(t, 1, n) /\ UNCHANGED <<storeVars, loads>>
    BY <1>8, <1>i DEF CreationShows, At, o, s
  <2>2. n \in Operation /\ n.kind = "create" /\ n.pc = "shown"
    BY <1>q, <2>1 DEF Operation
  <2> HIDE DEF n
  <2>3. /\ tab'[t] = [Projected(s, o.ws, o.got) EXCEPT !.route = o.ws]
        /\ \A u \in Tabs : u # t => tab'[u] = tab[u]
    BY <1>f, <2>1
  <2>4. tab'[t].ws = o.ws /\ tab'[t].shown = o.got
    BY <1>q, <2>3 DEF Projected, Tab
  <2>5. Past(store, commits, o.ws, o.got)
    BY <1>h, <2>1 DEF HeadShows, Reads
  <2>6. HeadShows(store, commits, tab'[t], loads[t], n)
    BY <2>2 DEF HeadShows, Reads, Settling
  <2> QED
    BY <1>a, <1>h, <2>1, <2>2, <2>3, <2>4, <2>5, <2>6 DEF storeVars
<1>9. CASE CreationSettles(t, i)
  BY <1>9, <1>i, <1>k DEF CreationSettles
<1>10. CASE StartRefresh(t, i)
  <2> DEFINE n == [o EXCEPT !.pc = "loaded", !.ws = tab[t].ws, !.gen = tab[t].gen,
                            !.got = Load(tab[t].ws)]
  <2>1. Advance(t, 1, n) /\ UNCHANGED <<storeVars, tab, loads>> /\ o.kind = "refresh"
    BY <1>10, <1>i DEF StartRefresh, At, o
  <2>2. /\ n \in Operation /\ n.kind = "refresh" /\ n.pc = "loaded"
        /\ n.ws = s.ws /\ n.gen = s.gen /\ n.got = Load(s.ws)
    BY <1>q, <1>f, <2>1 DEF Operation, TabFacts, s
  <2> HIDE DEF n
  <2>3. Past(store, commits, n.ws, n.got)
    BY <1>f, <2>2 DEF Past, Load, TabFacts, s
  <2>4. \A w \in Workspaces, k \in Nat :
          Past(store, commits, w, k) /\ Load(w) # Absent => k <= Load(w)
    BY DEF Past, Load
  <2>5. Fresh(s, loads[t], n)
    BY <1>f, <1>h, <2>2, <2>4 DEF Fresh, TabFacts, s
  <2>6. HeadShows(store, commits, s, loads[t], n)
    BY <2>3, <2>5 DEF HeadShows
  <2> QED
    BY <1>a, <1>h, <2>1, <2>2, <2>6 DEF storeVars, s
<1>11. CASE RefreshKeepsProjection(t, i)
  BY <1>11, <1>i, <1>k DEF RefreshKeepsProjection
<1>12. CASE RefreshProjects(t, i)
  <2>1. /\ o.kind = "refresh" /\ o.pc = "loaded"
        /\ tab' = [tab EXCEPT ![t] = IF o.got = Absent THEN Retired(s, "not-found")
                                                    ELSE Projected(s, o.ws, o.got)]
        /\ Settle(t, 1) /\ UNCHANGED <<storeVars, loads>>
    BY <1>12, <1>i DEF RefreshProjects, At, o, s
  <2>2. /\ tab'[t] = IF o.got = Absent THEN Retired(s, "not-found")
                                       ELSE Projected(s, o.ws, o.got)
        /\ \A u \in Tabs : u # t => tab'[u] = tab[u]
    BY <1>f, <2>1
  <2>3. CASE o.got = Absent
    <3>1. Past(store, commits, tab'[t].ws, tab'[t].shown)
      BY <1>f, <1>q, <2>2, <2>3, RetirementShows DEF TabFacts, s
    <3> QED
      BY <1>s, <2>1, <2>2, <3>1
  <2>4. CASE o.got # Absent
    <3>1. tab'[t].ws = o.ws /\ tab'[t].shown = o.got
      BY <1>q, <2>2, <2>4 DEF Projected, Tab
    <3>2. Past(store, commits, o.ws, o.got)
      BY <1>h, <2>1 DEF HeadShows, Reads, Settling
    <3> QED
      BY <1>s, <2>1, <2>2, <3>1, <3>2
  <2> QED
    BY <2>3, <2>4
<1> QED
  BY <1>1, <1>2, <1>3, <1>4, <1>5, <1>6, <1>7, <1>8, <1>9, <1>10, <1>11, <1>12

LEMMA LoadStepShows ==
  ASSUME IInv, ShownInv, NEW t \in Tabs, LoadStep(t)
  PROVE  ShowsNext(t) /\ OtherTabsKept(t)
<1> PICK l \in loads[t] :
      \/ LoadSuperseded(t, l) \/ LoadFinds(t, l) \/ LoadFails(t, l) \/ LoadRejects(t, l)
      \/ LoadProjects(t, l)
  BY DEF LoadStep
<1> DEFINE s == tab[t]
           h == queue[t][1]
<1>f. /\ TabFacts(t) /\ tab \in [Tabs -> Tab] /\ loads \in [Tabs -> SUBSET RouteLoad]
      /\ s \in Tab /\ l \in RouteLoad
  BY FactsOfTab DEF ShownInv, Stamped, IInv, TypeOK
<1>h. /\ Past(store, commits, s.ws, s.shown)
      /\ \A m \in loads[t] : Past(store, commits, m.ws, m.got)
      /\ Len(queue[t]) > 0 => HeadShows(store, commits, s, loads[t], h)
  BY DEF ShownInv, TabShows
<1>u. UNCHANGED <<storeVars, queue>>
  BY DEF LoadSuperseded, LoadFinds, LoadFails, LoadRejects, LoadProjects
<1> HIDE DEF s, h
\* The loads that remain, and what a tab shows of them, are no newer than those before.
<1>r. ASSUME NEW rest, loads' = [loads EXCEPT ![t] = rest],
             \A m \in rest : \E k \in loads[t] : m.gen = k.gen /\ m.ws = k.ws /\ m.got = k.got,
             \A u \in Tabs : u # t => tab'[u] = tab[u],
             Past(store, commits, tab'[t].ws, tab'[t].shown),
             tab'[t].gen = s.gen,
             \/ tab'[t].shown = Absent
             \/ tab'[t].shown = s.shown /\ tab'[t].ws = s.ws
             \/ /\ l.gen = s.gen
                /\ tab'[t].shown = l.got /\ tab'[t].ws = l.ws
      PROVE  ShowsNext(t) /\ OtherTabsKept(t)
  <2>1. loads'[t] = rest /\ \A u \in Tabs : u # t => loads'[u] = loads[u]
    BY <1>f, <1>r
  <2>2. \A m \in rest : Past(store, commits, m.ws, m.got)
    BY <1>h, <1>r
  <2>3. ASSUME Len(queue[t]) > 0
        PROVE  HeadShows(store, commits, tab'[t], rest, h)
    <3>1. h \in Operation
      BY <1>f, <2>3, ElementOfSeq DEF TabFacts, TabTypes, h
    <3>2. h.got \in Nat
      BY <3>1 DEF Operation
    <3>3. Reads(h) => Past(store, commits, h.ws, h.got)
      BY <1>h, <2>3 DEF HeadShows
    <3>4. ASSUME Settling(h)
          PROVE  Fresh(tab'[t], rest, h)
      <4>1. Fresh(s, loads[t], h)
        BY <1>h, <2>3, <3>4 DEF HeadShows
      <4>2. h.gen <= tab'[t].gen
        BY <1>r, <4>1 DEF Fresh
      <4>3. ASSUME h.gen = tab'[t].gen, h.got # Absent
            PROVE  /\ tab'[t].ws = h.ws => tab'[t].shown <= h.got
                   /\ \A m \in rest : m.gen = h.gen /\ m.ws = h.ws => m.got <= h.got
        <5>1. /\ s.ws = h.ws => s.shown <= h.got
              /\ \A m \in loads[t] : m.gen = h.gen /\ m.ws = h.ws => m.got <= h.got
          BY <1>r, <4>1, <4>3 DEF Fresh
        <5>2. \A m \in rest : m.gen = h.gen /\ m.ws = h.ws => m.got <= h.got
          BY <1>r, <5>1
        <5>3. Absent <= h.got
          BY <3>2 DEF Absent
        <5>4. tab'[t].ws = h.ws => tab'[t].shown <= h.got
          BY <1>r, <4>3, <5>1, <5>3
        <5> QED
          BY <5>2, <5>4
      <4> QED
        BY <4>2, <4>3 DEF Fresh
    <3> QED
      BY <3>3, <3>4 DEF HeadShows
  <2> QED
    BY <1>r, <1>u, <2>1, <2>2, <2>3 DEF ShowsNext, TabShows, OtherTabsKept, storeVars, h
<1>1. CASE LoadSuperseded(t, l)
  BY <1>1, <1>h, <1>r DEF LoadSuperseded, s
<1>2. CASE LoadFinds(t, l)
  <2> DEFINE m == [l EXCEPT !.pc = "opening"]
  <2>1. loads' = [loads EXCEPT ![t] = (loads[t] \ {l}) \cup {m}] /\ UNCHANGED tab
    BY <1>2 DEF LoadFinds
  <2>2. m.gen = l.gen /\ m.ws = l.ws /\ m.got = l.got
    BY <1>f DEF RouteLoad
  <2> HIDE DEF m
  <2>3. \A x \in (loads[t] \ {l}) \cup {m} :
          \E k \in loads[t] : x.gen = k.gen /\ x.ws = k.ws /\ x.got = k.got
    BY <2>2
  <2> QED
    BY <1>h, <1>r, <2>1, <2>3 DEF s
<1>3. CASE LoadFails(t, l)
  <2> DEFINE status == IF l.got = Absent THEN "not-found" ELSE "error"
  <2>1. /\ tab' = [tab EXCEPT ![t] = Retired(s, status)]
        /\ loads' = [loads EXCEPT ![t] = loads[t] \ {l}]
    BY <1>3 DEF LoadFails, s
  <2> HIDE DEF status
  <2>2. tab'[t] = Retired(s, status) /\ \A u \in Tabs : u # t => tab'[u] = tab[u]
    BY <1>f, <2>1
  <2>3. tab'[t].shown = Absent /\ tab'[t].gen = s.gen
    BY <1>f, <2>2 DEF Retired, Tab
  <2>4. Past(store, commits, tab'[t].ws, tab'[t].shown)
    BY <1>f, <2>2, RetirementShows DEF TabFacts, s
  <2> QED
    BY <1>r, <2>1, <2>2, <2>3, <2>4
<1>4. CASE LoadRejects(t, l)
  BY <1>4, <1>h, <1>r DEF LoadRejects, s
<1>5. CASE LoadProjects(t, l)
  <2>1. /\ l.gen = s.gen
        /\ tab' = [tab EXCEPT ![t] = [Projected(s, l.ws, l.got) EXCEPT !.route = l.ws]]
        /\ loads' = [loads EXCEPT ![t] = loads[t] \ {l}]
    BY <1>5 DEF LoadProjects, LoadIsCurrent, s
  <2>2. /\ tab'[t] = [Projected(s, l.ws, l.got) EXCEPT !.route = l.ws]
        /\ \A u \in Tabs : u # t => tab'[u] = tab[u]
    BY <1>f, <2>1
  <2>3. tab'[t].ws = l.ws /\ tab'[t].shown = l.got /\ tab'[t].gen = s.gen
    BY <1>f, <2>2 DEF Projected, Tab
  <2>4. Past(store, commits, tab'[t].ws, tab'[t].shown)
    BY <1>h, <2>3
  <2> QED
    BY <1>r, <2>1, <2>2, <2>3, <2>4
<1> QED
  BY <1>1, <1>2, <1>3, <1>4, <1>5

LEMMA ScheduleShows ==
  ASSUME TypeOK, NEW t \in Tabs, Shows(t), ScheduleRefresh(t),
         UNCHANGED <<storeVars, tab, loads>>
  PROVE  ShowsNext(t) /\ OtherTabsKept(t)
<1>1. CASE pending[t]
  BY <1>1 DEF ScheduleRefresh, Shows, ShowsNext, OtherTabsKept, storeVars
<1>2. CASE ~pending[t]
  <2>1. Enqueue(t, Queued("refresh"))
    BY <1>2 DEF ScheduleRefresh, Enqueue
  <2>2. Queued("refresh").pc = "queued" /\ Queued("refresh") \in Operation
    BY QueuedIsOperation DEF Queued
  <2> QED
    BY <2>1, <2>2, EnqueuedTabShows
<1> QED
  BY <1>1, <1>2

LEMMA UserStepShows ==
  ASSUME IInv, ShownInv, NEW t \in Tabs, UserStep(t)
  PROVE  ShowsNext(t) /\ OtherTabsKept(t)
<1> DEFINE s == tab[t]
           h == queue[t][1]
<1>f. /\ TabFacts(t) /\ tab \in [Tabs -> Tab] /\ loads \in [Tabs -> SUBSET RouteLoad]
      /\ s \in Tab /\ TypeOK /\ Shows(t)
  BY FactsOfTab DEF ShownInv, Stamped, IInv, TypeOK, Shows
<1> HIDE DEF s, h
<1>1. CASE RequestMutation(t)
  <2> DEFINE n == [Queued("mutate") EXCEPT !.ws = tab[t].ws, !.gen = tab[t].gen]
  <2>1. n \in Operation /\ n.pc = "queued"
    BY <1>f, QueuedIsOperation DEF Operation, Queued, TabFacts
  <2>2. Enqueue(t, n) /\ UNCHANGED <<storeVars, tab, loads>>
    BY <1>1 DEF RequestMutation
  <2> HIDE DEF n
  <2> QED
    BY <1>f, <2>1, <2>2, EnqueuedTabShows
<1>2. CASE RequestCreation(t)
  <2>1. Queued("create") \in Operation /\ Queued("create").pc = "queued"
    BY QueuedIsOperation DEF Queued
  <2>2. Enqueue(t, Queued("create")) /\ UNCHANGED <<storeVars, tab, loads>>
    BY <1>2 DEF RequestCreation
  <2> QED
    BY <1>f, <2>1, <2>2, EnqueuedTabShows
<1>3. CASE Focus(t)
  BY <1>3, <1>f, ScheduleShows DEF Focus
<1>4. ASSUME NEW w \in Workspaces, Navigate(t, w)
      PROVE  ShowsNext(t) /\ OtherTabsKept(t)
  <2> DEFINE gen == tab[t].gen + 1
             n == [Retired(s, "loading") EXCEPT !.route = w, !.gen = gen]
             l == [gen |-> gen, ws |-> w, got |-> Load(w), pc |-> "reading"]
  <2>1. /\ tab' = [tab EXCEPT ![t] = n] /\ loads' = [loads EXCEPT ![t] = loads[t] \cup {l}]
        /\ UNCHANGED <<storeVars, queue>>
    BY <1>4 DEF Navigate, s
  <2>2. n.gen = s.gen + 1 /\ n.shown = Absent /\ n.ws = s.ws
    BY <1>f DEF Retired, Tab, s
  <2>3. l.ws = w /\ l.got = Load(w)
    OBVIOUS
  <2> HIDE DEF n, l, gen
  <2>4. /\ tab'[t] = n /\ loads'[t] = loads[t] \cup {l}
        /\ \A u \in Tabs : u # t => tab'[u] = tab[u] /\ loads'[u] = loads[u]
    BY <1>f, <2>1
  <2>5. Past(store, commits, n.ws, n.shown)
    BY <1>f, <2>2 DEF Past, Absent, TabFacts, Load, s
  <2>6. \A m \in loads[t] \cup {l} : Past(store, commits, m.ws, m.got)
    <3>1. Past(store, commits, l.ws, l.got)
      BY <1>f, <2>3 DEF Past, Load, TabFacts
    <3> QED
      BY <1>f, <3>1 DEF Shows, TabShows
  <2>7. ASSUME Len(queue[t]) > 0
        PROVE  HeadShows(store, commits, n, loads[t] \cup {l}, h)
    <3>1. HeadShows(store, commits, s, loads[t], h)
      BY <1>f, <2>7 DEF Shows, TabShows, s, h
    <3>2. h \in Operation
      BY <1>f, <2>7, ElementOfSeq DEF TabFacts, TabTypes, h
    <3>3. h.gen \in Nat /\ s.gen \in Nat
      BY <1>f, <3>2 DEF Operation, TabFacts, s
    <3>4. h.gen <= s.gen => h.gen <= n.gen /\ h.gen # n.gen
      BY <2>2, <3>3
    <3> QED
      BY <3>1, <3>4 DEF HeadShows, Fresh
  <2> QED
    BY <2>1, <2>4, <2>5, <2>6, <2>7 DEF ShowsNext, TabShows, OtherTabsKept, storeVars, h
<1> QED
  BY <1>1, <1>2, <1>3, <1>4 DEF UserStep

-----------------------------------------------------------------------------
(* The invariant holds throughout *)

\* The invariant of a tab that takes no step survives whatever the others commit.
LEMMA KeptTabShows ==
  ASSUME IInv, ShownInv, TypeOK', Later(store, commits, store', commits'), NEW t \in Tabs,
         tab'[t] = tab[t], loads'[t] = loads[t], queue'[t] = queue[t]
  PROVE  ShowsNext(t)
<1>1. /\ store \in Stores /\ store' \in Stores /\ commits \in Nat /\ commits' \in Nat
      /\ TabTypes(tab[t], loads[t], queue[t])
  BY DEF IInv, TypeOK, StoreTypeOK, Stores, TabTypes
<1>2. Len(queue[t]) > 0 /\ Reads(queue[t][1]) => queue[t][1].ws \in Workspaces
  BY LenIsNat DEF IInv, OperationHasWorkspace, Reads, Settling
<1>3. TabShows(store, commits, tab[t], loads[t], queue[t])
  BY DEF ShownInv
<1>4. TabShows(store', commits', tab[t], loads[t], queue[t])
  BY <1>1, <1>2, <1>3, TabShowsLater
<1> QED
  BY <1>4 DEF ShowsNext

LEMMA ShownInvInit == Init => ShownInv
<1> SUFFICES ASSUME Init PROVE ShownInv
  OBVIOUS
<1>1. \A w \in Workspaces : Load(w) \in Nat /\ Load(w) <= commits
  BY DEF Init, StoreInit, Load, NoRecord, FirstRecord, Absent
<1>2. ASSUME NEW t \in Tabs
      PROVE  TabShows(store, commits, tab[t], loads[t], queue[t])
  <2>1. PICK w \in Workspaces : tab[t] = Opened(w)
    BY DEF Init
  <2>2. tab[t].ws = w /\ tab[t].shown = Load(w)
    BY <2>1 DEF Opened
  <2>3. loads[t] = {} /\ Len(queue[t]) = 0
    BY DEF Init
  <2> QED
    BY <1>1, <2>2, <2>3 DEF TabShows, Past, Load
<1> QED
  BY <1>1, <1>2 DEF ShownInv, Stamped, Load

LEMMA ShownInvStep == IInv /\ ShownInv /\ [Next]_vars => ShownInv'
<1> SUFFICES ASSUME IInv, ShownInv, [Next]_vars PROVE ShownInv'
  OBVIOUS
<1>1. TypeOK' /\ StepShape
  BY StepTypes, StepHasShape DEF IInv
<1>2. Later(store, commits, store', commits') /\ Stamped'
  BY <1>1, StepIsLater DEF IInv, ShownInv, Stamped
<1>3. ASSUME NEW t \in Tabs, ShowsNext(t), OtherTabsKept(t)
      PROVE  \A u \in Tabs : ShowsNext(u)
  BY <1>1, <1>2, <1>3, KeptTabShows DEF OtherTabsKept
<1>k. ASSUME UNCHANGED <<tab, queue, loads>>
      PROVE  \A u \in Tabs : ShowsNext(u)
  <2> SUFFICES ASSUME NEW u \in Tabs PROVE ShowsNext(u)
    OBVIOUS
  <2>1. tab'[u] = tab[u] /\ loads'[u] = loads[u] /\ queue'[u] = queue[u]
    BY <1>k
  <2> QED
    BY <1>1, <1>2, <2>1, KeptTabShows
<1>4. ASSUME NEW t \in Tabs, UserStep(t) \/ QueueStep(t) \/ LoadStep(t)
      PROVE  \A u \in Tabs : ShowsNext(u)
  BY <1>3, <1>4, UserStepShows, QueueStepShows, LoadStepShows
<1>5. ASSUME NEW t \in Tabs, NEW w \in Workspaces, Poke(t, w)
      PROVE  \A u \in Tabs : ShowsNext(u)
  <2>1. CASE w = tab[t].ws
    <3>1. ShowsNext(t) /\ OtherTabsKept(t)
      BY <1>5, <2>1, ScheduleShows DEF Poke, IInv, ShownInv, Shows
    <3> QED
      BY <1>3, <3>1
  <2>2. CASE w # tab[t].ws
    BY <1>1, <1>2, <1>5, <2>2, KeptTabShows DEF Poke
  <2> QED
    BY <2>1, <2>2
<1>6. ASSUME NEW w \in Workspaces, RecordRemoved(w)
      PROVE  \A u \in Tabs : ShowsNext(u)
  BY <1>k, <1>6 DEF RecordRemoved
<1>7. ASSUME UNCHANGED vars
      PROVE  \A u \in Tabs : ShowsNext(u)
  BY <1>k, <1>7 DEF vars
<1>8. \A u \in Tabs : ShowsNext(u)
  BY <1>4, <1>5, <1>6, <1>7 DEF Next
<1> QED
  BY <1>2, <1>8 DEF ShownInv, Stamped, ShowsNext

\* Nothing on a screen or on its way there is newer than the record, and what an operation
\* may show is no older than what the tab shows.
THEOREM ShownInvariance == Spec => []ShownInv
BY ShownInvInit, ShownInvStep, Invariance, PTL DEF Spec

\* What an operation of the queue puts on screen is never older than what it replaces: a
\* refresh reads, and a mutation commits, a version at least as new as any the tab can
\* project until it navigates.
THEOREM ScreensNeverGoBack == Spec => ShownNeverGoesBack
<1> DEFINE Forward == \A t \in Tabs :
             /\ queue[t] # <<>> /\ queue[t][1].kind # "create"
             /\ queue'[t] = Tail(queue[t])
             /\ tab'[t].ws = tab[t].ws
             /\ tab[t].shown # Absent /\ tab'[t].shown # Absent
             => tab'[t].shown >= tab[t].shown
<1>1. ASSUME IInv, ShownInv, [Next]_vars
      PROVE  Forward
  <2> SUFFICES ASSUME NEW t \in Tabs,
                      queue[t] # <<>>, queue[t][1].kind # "create",
                      queue'[t] = Tail(queue[t]),
                      tab'[t].ws = tab[t].ws,
                      tab[t].shown # Absent, tab'[t].shown # Absent
               PROVE  tab'[t].shown >= tab[t].shown
    OBVIOUS
  <2> DEFINE o == queue[t][1]
  <2>f. TabFacts(t) /\ tab \in [Tabs -> Tab] /\ tab[t] \in Tab
    BY <1>1, FactsOfTab DEF ShownInv, Stamped, IInv, TypeOK
  <2>q. Len(queue[t]) > 0 /\ queue'[t] # queue[t]
    <3>1. queue[t] \in Seq(Operation)
      BY <2>f DEF TabFacts, TabTypes
    <3>2. Len(queue[t]) \in Nat \ {0}
      BY <3>1, EmptySeq
    <3>3. Len(Tail(queue[t])) = Len(queue[t]) - 1
      BY <3>1, HeadTailProperties
    <3>4. Len(Tail(queue[t])) # Len(queue[t])
      BY <3>2, <3>3
    <3>5. queue'[t] # queue[t]
      BY <3>4, Zenon
    <3> QED
      BY <3>2, <3>5
  <2>h. HeadShows(store, commits, tab[t], loads[t], o)
    BY <1>1, <2>q DEF ShownInv, TabShows
  <2> HIDE DEF o
  <2>1. CASE tab'[t] = tab[t]
    BY <2>f, <2>1 DEF TabFacts
  <2>2. ASSUME QueueStep(t), tab'[t] # tab[t]
        PROVE  tab'[t].shown >= tab[t].shown
    <3>1. ASSUME Settling(o), tab[t].gen = o.gen, tab[t].ws = o.ws,
                 tab'[t] = Projected(tab[t], o.ws, o.got)
          PROVE  tab'[t].shown >= tab[t].shown
      <4>1. tab'[t].shown = o.got
        BY <2>f, <3>1 DEF Projected, Tab
      <4> QED
        BY <2>h, <3>1, <4>1 DEF HeadShows, Fresh
    <3>2. CASE MutationSettles(t, 1)
      BY <2>f, <2>2, <3>1, <3>2 DEF MutationSettles, At, RouteIsCurrent, Settling, o
    <3>3. CASE RefreshProjects(t, 1)
      <4>1. tab'[t] = Retired(tab[t], "not-found") \/ tab'[t] = Projected(tab[t], o.ws, o.got)
        BY <2>f, <3>3 DEF RefreshProjects, o
      <4>2. tab'[t] # Retired(tab[t], "not-found")
        BY <2>f DEF Retired, Tab
      <4> QED
        BY <3>1, <3>3, <4>1, <4>2 DEF RefreshProjects, At, RefreshIsCurrent, Settling, o
    <3>4. CASE MutationFindsNothing(t, 1)
      BY <2>f, <3>4 DEF MutationFindsNothing, Retired, Tab
    <3>5. ~CreationShows(t, 1)
      BY DEF CreationShows, At
    <3> QED
      BY <2>2, <3>2, <3>3, <3>4, <3>5
      DEF QueueStep, At, MayRun, StartMutation, MutationFindsNothing, CommitMutation,
          MutationEndsWithoutCommit, MutationSettles, StartCreation, CreationFails,
          CreationShows, CreationSettles, StartRefresh, RefreshKeepsProjection, RefreshProjects
  <2>3. ASSUME LoadStep(t)
        PROVE  queue' = queue
    BY <2>3 DEF LoadStep, LoadSuperseded, LoadFinds, LoadFails, LoadRejects, LoadProjects
  <2>4. ASSUME UserStep(t)
        PROVE  tab'[t] = tab[t] \/ queue' = queue
    BY <2>4 DEF UserStep, RequestMutation, RequestCreation, Focus, Navigate
  <2>5. ASSUME NEW u \in Tabs, u # t, UserStep(u) \/ QueueStep(u) \/ LoadStep(u)
        PROVE  tab'[t] = tab[t]
    BY <1>1, <2>5, UserStepShows, QueueStepShows, LoadStepShows DEF OtherTabsKept
  <2>6. ASSUME NEW u \in Tabs, NEW w \in Workspaces, Poke(u, w)
        PROVE  tab'[t] = tab[t]
    BY <2>6 DEF Poke
  <2>7. ASSUME NEW w \in Workspaces, RecordRemoved(w)
        PROVE  tab'[t] = tab[t]
    BY <2>7 DEF RecordRemoved
  <2>8. CASE UNCHANGED vars
    BY <2>1, <2>8 DEF vars
  <2> QED
    BY <1>1, <2>q, <2>1, <2>2, <2>3, <2>4, <2>5, <2>6, <2>7, <2>8 DEF Next
<1>2. IInv /\ ShownInv /\ [Next]_vars => [Forward]_vars
  BY <1>1
<1> QED
  BY Invariance, ShownInvariance, <1>2, PTL DEF Spec, ShownNeverGoesBack
=============================================================================
