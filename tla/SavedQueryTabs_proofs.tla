------------------------ MODULE SavedQueryTabs_proofs ------------------------
(***************************************************************************)
(* What SavedQueryTabs promises, for any tabs, queries, workspaces and     *)
(* bounds.                                                                 *)
(***************************************************************************)
EXTENDS SavedQueryTabs, SequenceTheorems, TLAPS

-----------------------------------------------------------------------------
(* The inductive invariant *)

\* What the record of one operation keeps to itself.
RecordOK(op) ==
  /\ op.kind # "refresh" => op.query \in Queries
  /\ op.kind \in {"create", "save", "patch"} /\ op.pc = "queued" => op.put \in Content
  /\ op.pc # "queued" => op.next \in Library
  /\ op.pc # "queued" /\ op.kind \in {"create", "save", "patch"} => op.next[op.query] # None
  /\ \A d \in Docs : op.specs[d] # None => op.kind = "patch" /\ op.pc # "queued"
  /\ op.kind = "refresh" => op.pc # "committed"

\* An operation that has started belongs to the workspace on screen or to an earlier one.
Aged(op) == op.pc # "queued" => op.gen <= gen

Creates(op, q) == op.kind = "create" /\ op.query = q

\* What an operation that has started, and is current, knows of the record and the tabs.
StartedOK(op) ==
  op.pc # "queued" /\ IsCurrent(op) =>
    /\ op.kind # "refresh" /\ op.pc = "built" =>
         \A q \in Queries : op.next[q] # None => shown[q] # None \/ Creates(op, q)
    /\ op.kind = "refresh" \/ op.pc = "committed" =>
         \A q \in Queries : stored[ws][q] # None => op.next[q] # None
    /\ \A d \in Docs : op.specs[d] # None => doc[d].link = op.query

\* Only the head of the queue has started.
QueueOK(q) ==
  /\ q \in Seq(Operation) /\ Len(q) <= MaxQueue
  /\ \A i \in 2..Len(q) : q[i].pc = "queued"
  /\ \A i \in 1..Len(q) : RecordOK(q[i])

QueueInv == QueueOK(queue)

FirstInv == queue # <<>> => Aged(First) /\ StartedOK(First)

\* The record holds nothing that is not shown, but for a creation that is to be applied.
StoreInv == \A q \in Queries : stored[ws][q] # None =>
              \/ shown[q] # None
              \/ Running("committed") /\ IsCurrent(First) /\ Creates(First, q)

TabsInv == \A d \in Docs : doc[d].link # None => doc[d].ext # "deleted"

IInv == TypeOK /\ QueueInv /\ FirstInv /\ StoreInv /\ LinksAreLive /\ TabsInv

-----------------------------------------------------------------------------
(* The queue *)

LEMMA FirstIsOperation ==
  ASSUME QueueInv, queue # <<>>
  PROVE  /\ First \in Operation /\ RecordOK(First)
         /\ Len(queue) \in Nat /\ 1 \in 1..Len(queue)
<1>1. queue \in Seq(Operation)
  BY DEF QueueInv, QueueOK
<1>2. Len(queue) \in Nat /\ Len(queue) # 0
  BY <1>1
<1>3. 1 \in 1..Len(queue)
  BY <1>2
<1>4. First \in Operation
  BY <1>1, <1>3 DEF First
<1> QED
  BY <1>2, <1>3, <1>4 DEF QueueInv, QueueOK, First

\* A request waits behind what is there.
LEMMA Appended ==
  ASSUME NEW s, QueueOK(s), Len(s) < MaxQueue,
         NEW op \in Operation, op.pc = "queued", RecordOK(op)
  PROVE  /\ QueueOK(Append(s, op)) /\ Append(s, op) # <<>>
         /\ Append(s, op)[1] = IF s = <<>> THEN op ELSE s[1]
<1> DEFINE r == Append(s, op)
<1>1. s \in Seq(Operation) /\ Len(s) \in Nat
  BY DEF QueueOK
<1>2. /\ r \in Seq(Operation) /\ r # <<>>
      /\ Len(r) = Len(s) + 1
      /\ \A i \in 1..Len(s) : r[i] = s[i]
      /\ r[Len(s) + 1] = op
  BY <1>1, AppendProperties
<1> HIDE DEF r
<1>3. Len(r) <= MaxQueue
  BY <1>1, <1>2, DocsAssumption
<1>4. \A i \in 2..Len(r) : r[i].pc = "queued"
  <2> TAKE i \in 2..Len(r)
  <2>1. i \in 2..Len(s) \/ i = Len(s) + 1
    BY <1>1, <1>2
  <2> QED
    BY <1>1, <1>2, <2>1 DEF QueueOK
<1>5. \A i \in 1..Len(r) : RecordOK(r[i])
  <2> TAKE i \in 1..Len(r)
  <2>1. i \in 1..Len(s) \/ i = Len(s) + 1
    BY <1>1, <1>2
  <2> QED
    BY <1>1, <1>2, <2>1 DEF QueueOK
<1>6. r[1] = IF s = <<>> THEN op ELSE s[1]
  BY <1>1, <1>2
<1> QED
  BY <1>2, <1>3, <1>4, <1>5, <1>6 DEF QueueOK, r

\* What an operation leaves behind has not started.
LEMMA Settled ==
  ASSUME QueueInv, queue # <<>>
  PROVE  /\ QueueOK(Tail(queue)) /\ Len(Tail(queue)) < MaxQueue
         /\ Tail(queue) # <<>> => Tail(queue)[1].pc = "queued"
<1>1. queue \in Seq(Operation) /\ Len(queue) \in Nat /\ Len(queue) <= MaxQueue
  BY DEF QueueInv, QueueOK
<1>2. /\ Tail(queue) \in Seq(Operation)
      /\ Len(Tail(queue)) = Len(queue) - 1
      /\ \A i \in 1..Len(Tail(queue)) : Tail(queue)[i] = queue[i + 1]
  BY <1>1, HeadTailProperties
<1>3. Len(Tail(queue)) < MaxQueue
  BY <1>1, <1>2, DocsAssumption
<1>4. \A i \in 1..Len(Tail(queue)) :
        Tail(queue)[i].pc = "queued" /\ RecordOK(Tail(queue)[i])
  <2> TAKE i \in 1..Len(Tail(queue))
  <2>1. i + 1 \in 2..Len(queue)
    BY <1>1, <1>2
  <2>2. i + 1 \in 1..Len(queue)
    BY <1>1, <2>1
  <2> QED
    BY <1>2, <2>1, <2>2 DEF QueueInv, QueueOK
<1>5. Tail(queue) # <<>> => 1 \in 1..Len(Tail(queue))
  BY <1>1, <1>2
<1>6. \A i \in 2..Len(Tail(queue)) : i \in 1..Len(Tail(queue))
  BY <1>1, <1>2
<1>7. Len(Tail(queue)) <= MaxQueue
  BY <1>1, <1>2, DocsAssumption
<1> QED
  BY <1>2, <1>3, <1>4, <1>5, <1>6, <1>7 DEF QueueOK

\* The head goes on; the rest waits.
LEMMA Advanced ==
  ASSUME QueueInv, queue # <<>>, NEW op \in Operation, RecordOK(op),
         queue' = [queue EXCEPT ![1] = op]
  PROVE  QueueInv' /\ queue' # <<>> /\ First' = op
<1>1. /\ queue \in Seq(Operation) /\ Len(queue) \in Nat /\ Len(queue) <= MaxQueue
      /\ 1 \in 1..Len(queue)
  BY FirstIsOperation DEF QueueInv, QueueOK
<1>2. /\ queue' \in Seq(Operation)
      /\ Len(queue') = Len(queue)
      /\ \A i \in 1..Len(queue) : queue'[i] = IF i = 1 THEN op ELSE queue[i]
  BY <1>1, ExceptSeq
<1>3. queue' # <<>>
  BY <1>1, <1>2
<1>4. First' = op
  BY <1>1, <1>2 DEF First
<1>5. \A i \in 2..Len(queue') : i # 1 /\ i \in 2..Len(queue) /\ i \in 1..Len(queue)
  BY <1>1, <1>2
<1>6. \A i \in 1..Len(queue') : RecordOK(queue'[i])
  BY <1>2 DEF QueueInv, QueueOK
<1>7. \A i \in 2..Len(queue') : queue'[i].pc = "queued"
  BY <1>2, <1>5 DEF QueueInv, QueueOK
<1> QED
  BY <1>1, <1>2, <1>3, <1>4, <1>6, <1>7 DEF QueueInv, QueueOK

\* A queued operation knows nothing yet.
LEMMA OpIsOperation ==
  ASSUME gen \in Nat, NEW kind \in {"create", "save", "patch", "delete"}, NEW q \in Queries,
         NEW d \in Docs \cup {None}, NEW put \in Content \cup {None},
         kind # "delete" => put \in Content
  PROVE  LET op == Op(kind, q, d, put)
         IN  op \in Operation /\ RecordOK(op) /\ op.pc = "queued"
BY DEF Op, Operation, RecordOK

LEMMA RefreshOpIsOperation ==
  RefreshOp \in Operation /\ RecordOK(RefreshOp) /\ RefreshOp.pc = "queued"
BY DEF RefreshOp, Op, Operation, RecordOK

-----------------------------------------------------------------------------
(* What becomes of a tab *)

\* loadIntoNewTab and adoptSavedIntoTab yield a tab in sync with the query.
LEMMA AdoptedTab ==
  ASSUME NEW t \in Doc, NEW content \in Content
  PROVE  LET a == Adopted(t, content)
         IN  /\ a \in Doc /\ a.link = t.link /\ a.base = content /\ a.ext = "none"
             /\ ~Dirty(a)
BY DEF Adopted, Doc, Dirty

\* applyCommittedWorkspace leaves only links to queries of the library.
LEMMA ProjectedTab ==
  ASSUME NEW t \in Doc, NEW library \in Library
  PROVE  LET p == Projected(t, library)
         IN  /\ p \in Doc /\ p.ext = t.ext /\ p.draft = t.draft
             /\ p.dirtySql = t.dirtySql /\ p.dirtySpec = t.dirtySpec
             /\ p.link # None => /\ p.link = t.link /\ library[p.link] # None
                                 /\ p.base # None
                                 /\ t.base # None => p.base = t.base
             /\ t.link # None /\ library[t.link] # None => p.link = t.link
<1>1. CASE t.link # None /\ library[t.link] = None
  BY <1>1 DEF Projected, Unlinked, Doc
<1>2. CASE t.link # None /\ library[t.link] # None /\ t.base = None
  <2>1. library[t.link] \in Content
    BY <1>2 DEF Library, Doc
  <2>2. Projected(t, library) = [t EXCEPT !.base = library[t.link]]
    BY <1>2 DEF Projected
  <2> QED BY <1>2, <2>1, <2>2, DocsAssumption DEF Doc
<1>3. CASE t.link = None \/ (library[t.link] # None /\ t.base # None)
  <2>1. Projected(t, library) = t
    BY <1>3 DEF Projected
  <2> QED BY <1>3, <2>1
<1> QED BY <1>1, <1>2, <1>3

\* reconcileLinkedTabs and its effects.  Unsaved text keeps its place.
LEMMA ReconciledTab ==
  ASSUME NEW t \in Doc, NEW library \in Library
  PROVE  LET r == Reconciled(t, library)
         IN  /\ r \in Doc
             /\ r.link # None => r.link = t.link /\ (r.ext = "deleted" => r = t)
             /\ r.link # None /\ r.ext # "conflict" => r.base = library[r.link]
             /\ r.link # None /\ t.base # None => r.base # None
             /\ Dirty(t) => /\ r.draft = t.draft /\ Dirty(r)
                            /\ r.link # None => r.base = t.base
                            /\ r.link # None /\ t.ext = "conflict" => r.ext = "conflict"
             /\ ~Dirty(t) => ~Dirty(r)
             /\ t.link = None => r = t
<1> DEFINE latest == library[t.link]
<1>1. CASE t.link = None
  BY <1>1 DEF Reconciled
<1>2. CASE t.link # None /\ latest = None /\ ~Dirty(t)
  <2>1. Reconciled(t, library) = [Unlinked(t) EXCEPT !.ext = "none"]
    BY <1>2 DEF Reconciled
  <2> QED BY <1>2, <2>1 DEF Unlinked, Doc, Dirty
<1>3. CASE t.link # None /\ latest = None /\ Dirty(t)
  <2>1. Reconciled(t, library) = [Unlinked(t) EXCEPT !.ext = "deleted"]
    BY <1>3 DEF Reconciled
  <2> QED BY <1>3, <2>1 DEF Unlinked, Doc, Dirty
<1>4. CASE t.link # None /\ latest # None /\ latest = t.base
  BY <1>4 DEF Reconciled
<1>5. CASE t.link # None /\ latest # None /\ latest # t.base /\ ~Dirty(t)
  <2>1. latest \in Content
    BY <1>5 DEF Library, Doc
  <2>2. Reconciled(t, library) = Adopted(t, latest)
    BY <1>5 DEF Reconciled
  <2> QED BY <1>5, <2>1, <2>2, AdoptedTab
<1>6. CASE t.link # None /\ latest # None /\ latest # t.base /\ Dirty(t)
  <2>1. Reconciled(t, library) = [t EXCEPT !.ext = "conflict"]
    BY <1>6 DEF Reconciled
  <2> QED BY <1>6, <2>1 DEF Doc, Dirty
<1> QED BY <1>1, <1>2, <1>3, <1>4, <1>5, <1>6

-----------------------------------------------------------------------------
(* What the user does keeps the invariant *)

\* One tab changes: it keeps its link, or is linked for the first time.
LEMMA OneTabKeeps ==
  ASSUME IInv, NEW d \in Docs, NEW t \in Doc,
         doc[d].link # None => t.link = doc[d].link,
         t.link # None => shown[t.link] # None /\ t.base # None /\ t.ext # "deleted",
         doc' = [doc EXCEPT ![d] = t], acts' \in Nat,
         UNCHANGED <<stored, ws, gen, shown, queue, used, elsewhere>>
  PROVE  IInv'
<1>1. /\ doc' \in [Docs -> Doc] /\ doc'[d] = t
      /\ \A e \in Docs : doc[e].link # None => doc'[e].link = doc[e].link
      /\ \A e \in Docs \ {d} : doc'[e] = doc[e]
  BY DEF IInv, TypeOK
<1>2. TypeOK'
  BY <1>1 DEF IInv, TypeOK
<1>3. QueueInv'
  BY DEF IInv, QueueInv
<1>4. FirstInv'
  <2>1. ASSUME queue # <<>>, StartedOK(First) PROVE StartedOK(First)'
    <3>1. First \in Operation /\ RecordOK(First)
      BY <2>1, FirstIsOperation DEF IInv
    <3>2. \A e \in Docs : First.specs[e] # None => First.query \in Queries
      BY <3>1 DEF RecordOK
    <3>3. First' = First
      BY DEF First
    <3> QED
      BY <1>1, <2>1, <3>2, <3>3, DocsAssumption DEF StartedOK, IsCurrent, Creates
  <2> QED
    BY <2>1 DEF IInv, FirstInv, First, Aged
<1>5. StoreInv'
  BY DEF IInv, StoreInv, Running, First, IsCurrent, Creates
<1>6. LinksAreLive' /\ TabsInv'
  BY <1>1 DEF IInv, LinksAreLive, TabsInv
<1> QED
  BY <1>2, <1>3, <1>4, <1>5, <1>6 DEF IInv

LEMMA EditKeeps ==
  ASSUME IInv, NEW d \in Docs, acts' \in Nat, EditSql(d) \/ EditSpec(d)
  PROVE  IInv'
<1>1. doc[d] \in Doc
  BY DEF IInv, TypeOK
<1>2. CASE EditSql(d)
  <2>1. PICK text \in Texts :
          doc' = [doc EXCEPT ![d].draft.sql = text, ![d].dirtySql = TRUE]
    BY <1>2 DEF EditSql
  <2> DEFINE t == [doc[d] EXCEPT !.draft.sql = text, !.dirtySql = TRUE]
  <2>2. doc' = [doc EXCEPT ![d] = t]
    BY <2>1 DEF IInv, TypeOK
  <2>3. t \in Doc /\ t.link = doc[d].link /\ t.base = doc[d].base /\ t.ext = doc[d].ext
    BY <1>1 DEF Doc, Content
  <2> HIDE DEF t
  <2> QED
    BY <1>2, <2>2, <2>3, OneTabKeeps DEF EditSql, IInv, LinksAreLive, TabsInv
<1>3. CASE EditSpec(d)
  <2>1. PICK text \in Texts :
          doc' = [doc EXCEPT ![d].draft.spec = text, ![d].dirtySpec = TRUE]
    BY <1>3 DEF EditSpec
  <2> DEFINE t == [doc[d] EXCEPT !.draft.spec = text, !.dirtySpec = TRUE]
  <2>2. doc' = [doc EXCEPT ![d] = t]
    BY <2>1 DEF IInv, TypeOK
  <2>3. t \in Doc /\ t.link = doc[d].link /\ t.base = doc[d].base /\ t.ext = doc[d].ext
    BY <1>1 DEF Doc, Content
  <2> HIDE DEF t
  <2> QED
    BY <1>3, <2>2, <2>3, OneTabKeeps DEF EditSpec, IInv, LinksAreLive, TabsInv
<1> QED
  BY <1>2, <1>3

LEMMA BlankIsDoc == Blank \in Doc
BY DEF Blank, BlankDraft, Doc, Content

LEMMA OpenKeeps ==
  ASSUME IInv, NEW d \in Docs, NEW q \in Queries, acts' \in Nat, Open(d, q)
  PROVE  IInv'
<1> DEFINE b == [Blank EXCEPT !.link = q]
<1>1. b \in Doc /\ b.link = q
  BY BlankIsDoc DEF Doc, Blank
<1>2. shown[q] \in Content
  BY DEF IInv, TypeOK, Library, Open
<1>3. /\ Opened(q) \in Doc /\ Opened(q).link = q
      /\ Opened(q).base = shown[q] /\ Opened(q).ext = "none"
  BY <1>1, <1>2, AdoptedTab DEF Opened
<1>4. doc[d].link = None
  BY DEF Open, Blank
<1> QED
  BY <1>3, <1>4, OneTabKeeps DEF Open

LEMMA RequestKeeps ==
  ASSUME IInv, NEW op \in Operation, op.pc = "queued", RecordOK(op), Request(op),
         UNCHANGED <<stored, ws, gen, shown, doc>>,
         used' \subseteq Queries, acts' \in Nat, elsewhere' \in Nat
  PROVE  IInv'
<1>1. /\ QueueInv' /\ queue' # <<>>
      /\ First' = IF queue = <<>> THEN op ELSE First
  BY Appended DEF Request, IInv, QueueInv, First
<1>2. TypeOK'
  BY <1>1 DEF IInv, TypeOK, QueueInv, QueueOK
<1>3. FirstInv'
  BY <1>1 DEF IInv, FirstInv, Aged, StartedOK, IsCurrent, Creates
<1>4. StoreInv'
  BY <1>1 DEF IInv, StoreInv, Running, IsCurrent, Creates
<1>5. LinksAreLive' /\ TabsInv'
  BY DEF IInv, LinksAreLive, TabsInv
<1> QED
  BY <1>1, <1>2, <1>3, <1>4, <1>5 DEF IInv

LEMMA ReloadSavedKeeps ==
  ASSUME IInv, NEW d \in Docs, acts' \in Nat, ReloadSaved(d)
  PROVE  IInv'
<1>1. CASE Resolves(doc[d])
  <2>1. doc[d] \in Doc /\ doc[d].link \in Queries
    BY <1>1 DEF Resolves, IInv, TypeOK, Doc
  <2>2. shown[doc[d].link] \in Content
    BY <1>1, <2>1 DEF Resolves, IInv, TypeOK, Library
  <2> DEFINE t == Adopted(doc[d], shown[doc[d].link])
  <2>3. /\ t \in Doc /\ t.link = doc[d].link
        /\ t.base = shown[doc[d].link] /\ t.ext = "none"
    BY <2>1, <2>2, AdoptedTab
  <2>4. doc' = [doc EXCEPT ![d] = t] /\ UNCHANGED <<stored, ws, gen, shown, queue, used, elsewhere>>
    BY <1>1 DEF ReloadSaved
  <2> HIDE DEF t
  <2> QED
    BY <1>1, <2>3, <2>4, OneTabKeeps DEF Resolves
<1>2. CASE ~Resolves(doc[d])
  <2>1. Request(RefreshOp) /\ UNCHANGED <<stored, ws, gen, shown, doc, used, elsewhere>>
    BY <1>2 DEF ReloadSaved
  <2> QED
    BY <2>1, RefreshOpIsOperation, RequestKeeps DEF IInv, TypeOK
<1> QED
  BY <1>1, <1>2

LEMMA SaveKeeps ==
  ASSUME IInv, NEW d \in Docs, acts' \in Nat,
         Save(d) \/ KeepDraft(d) \/ \E q \in Queries : SaveAsNew(d, q)
  PROVE  IInv'
<1>1. doc[d] \in Doc /\ doc[d].draft \in Content /\ gen \in Nat
  BY DEF IInv, TypeOK, Doc
<1>2. CASE Save(d) \/ KeepDraft(d)
  <2> DEFINE op == Op("save", doc[d].link, d, doc[d].draft)
  <2>1. doc[d].link \in Queries
    BY <1>1, <1>2 DEF Save, KeepDraft, Resolves, Doc
  <2>2. op \in Operation /\ RecordOK(op) /\ op.pc = "queued"
    BY <1>1, <2>1, OpIsOperation
  <2>3. Request(op) /\ UNCHANGED <<stored, ws, gen, shown, doc, used, elsewhere>>
    BY <1>2 DEF Save, KeepDraft
  <2> HIDE DEF op
  <2> QED
    BY <2>2, <2>3, RequestKeeps DEF IInv, TypeOK
<1>3. ASSUME NEW q \in Queries, SaveAsNew(d, q) PROVE IInv'
  <2> DEFINE op == Op("create", q, d, doc[d].draft)
  <2>1. op \in Operation /\ RecordOK(op) /\ op.pc = "queued"
    BY <1>1, OpIsOperation
  <2>2. /\ Request(op) /\ UNCHANGED <<stored, ws, gen, shown, doc, elsewhere>>
        /\ used' = used \cup {q}
    BY <1>3 DEF SaveAsNew
  <2> HIDE DEF op
  <2> QED
    BY <2>1, <2>2, RequestKeeps DEF IInv, TypeOK
<1> QED
  BY <1>2, <1>3

LEMMA StarKeeps ==
  ASSUME IInv, NEW q \in Queries, acts' \in Nat, Star(q) \/ Delete(q)
  PROVE  IInv'
<1>1. gen \in Nat
  BY DEF IInv, TypeOK
<1>2. CASE Star(q)
  <2> DEFINE put == [BlankDraft EXCEPT !.star = ~shown[q].star]
             op == Op("patch", q, None, put)
  <2>1. put \in Content
    BY DEF BlankDraft, Content
  <2>2. op \in Operation /\ RecordOK(op) /\ op.pc = "queued"
    BY <1>1, <2>1, OpIsOperation
  <2>3. Request(op) /\ UNCHANGED <<stored, ws, gen, shown, doc, used, elsewhere>>
    BY <1>2 DEF Star
  <2> HIDE DEF op
  <2> QED
    BY <2>2, <2>3, RequestKeeps DEF IInv, TypeOK
<1>3. CASE Delete(q)
  <2> DEFINE op == Op("delete", q, None, None)
  <2>1. op \in Operation /\ RecordOK(op) /\ op.pc = "queued"
    BY <1>1, OpIsOperation
  <2>2. Request(op) /\ UNCHANGED <<stored, ws, gen, shown, doc, used, elsewhere>>
    BY <1>3 DEF Delete
  <2> HIDE DEF op
  <2> QED
    BY <2>1, <2>2, RequestKeeps DEF IInv, TypeOK
<1> QED
  BY <1>2, <1>3

\* A tab that is closed takes itself out of the operations under way.
LEMMA CloseKeeps ==
  ASSUME IInv, NEW d \in Docs, acts' \in Nat, Close(d)
  PROVE  IInv'
<1> DEFINE closed(op) == [op EXCEPT !.doc = IF @ = d THEN None ELSE @, !.specs[d] = None]
<1>1. /\ queue \in Seq(Operation) /\ Len(queue) \in Nat
      /\ queue' = [i \in 1..Len(queue) |-> closed(queue[i])]
  <2>1. queue \in Seq(Operation) /\ Len(queue) \in Nat /\ DOMAIN queue = 1..Len(queue)
    BY DEF IInv, QueueInv, QueueOK
  <2>2. queue' = [i \in DOMAIN queue |-> closed(queue[i])]
    BY Zenon DEF Close
  <2> HIDE DEF closed
  <2> QED
    BY <2>1, <2>2
<1>2. ASSUME NEW op \in Operation, RecordOK(op)
      PROVE  /\ closed(op) \in Operation /\ RecordOK(closed(op))
             /\ closed(op).pc = op.pc /\ closed(op).gen = op.gen /\ closed(op).kind = op.kind
             /\ closed(op).next = op.next /\ closed(op).query = op.query
             /\ closed(op).specs[d] = None
             /\ \A e \in Docs : closed(op).specs[e] # None => op.specs[e] # None
  BY <1>2 DEF Operation, RecordOK
<1> HIDE DEF closed
<1>3. \A i \in 1..Len(queue) : closed(queue[i]) \in Operation
  BY <1>1, <1>2 DEF IInv, QueueInv, QueueOK
<1>4. queue' \in Seq(Operation) /\ Len(queue') = Len(queue)
  BY <1>1, <1>3
<1>5. \A i \in 1..Len(queue) : queue'[i] = closed(queue[i])
  BY <1>1
<1>6. QueueInv'
  <2>1. \A i \in 1..Len(queue) : RecordOK(queue'[i]) /\ queue'[i].pc = queue[i].pc
    BY <1>1, <1>2, <1>5 DEF IInv, QueueInv, QueueOK
  <2>2. \A i \in 2..Len(queue) : i \in 1..Len(queue)
    BY <1>1
  <2> QED
    BY <1>4, <2>1, <2>2 DEF IInv, QueueInv, QueueOK
<1>7. queue' # <<>> => queue # <<>> /\ First' = closed(First)
  BY <1>1, <1>4, <1>5 DEF First
<1>8. queue # <<>> => queue' # <<>>
  BY <1>1, <1>4
<1>9. /\ doc' \in [Docs -> Doc] /\ doc'[d].link = None
      /\ \A e \in Docs \ {d} : doc'[e] = doc[e]
  BY BlankIsDoc DEF IInv, TypeOK, Close, Blank
<1>10. TypeOK'
  BY <1>6, <1>9 DEF IInv, TypeOK, Close, QueueInv, QueueOK
<1>11. FirstInv'
  <2> SUFFICES ASSUME queue' # <<>>
               PROVE  Aged(First)' /\ StartedOK(First)'
    BY DEF FirstInv
  <2>1. /\ queue # <<>> /\ First \in Operation /\ RecordOK(First)
        /\ Aged(First) /\ StartedOK(First)
    BY <1>7, FirstIsOperation DEF IInv, FirstInv
  <2>2. UNCHANGED <<stored, ws, gen, shown>>
    BY DEF Close
  <2>3. Aged(First)'
    BY <1>2, <1>7, <2>1, <2>2 DEF Aged
  <2>4. StartedOK(First)'
    BY <1>2, <1>7, <1>9, <2>1, <2>2 DEF StartedOK, IsCurrent, Creates
  <2> QED
    BY <2>3, <2>4
<1>12. StoreInv'
  <2> SUFFICES ASSUME NEW q \in Queries, stored'[ws'][q] # None, shown'[q] = None
               PROVE  Running("committed")' /\ IsCurrent(First)' /\ Creates(First, q)'
    BY DEF StoreInv
  <2> UNCHANGED <<stored, ws, gen, shown>>
    BY DEF Close
  <2>1. Running("committed") /\ IsCurrent(First) /\ Creates(First, q)
    BY DEF IInv, StoreInv
  <2>2. First \in Operation /\ RecordOK(First) /\ queue # <<>>
    BY <2>1, FirstIsOperation DEF IInv, Running
  <2> QED
    BY <1>2, <1>7, <1>8, <2>1, <2>2 DEF Running, IsCurrent, Creates
<1>13. LinksAreLive' /\ TabsInv'
  BY <1>9 DEF IInv, LinksAreLive, TabsInv, Close
<1> QED
  BY <1>6, <1>10, <1>11, <1>12, <1>13 DEF IInv

\* No operation that was requested before a navigation is current after it.
LEMMA SwitchKeeps ==
  ASSUME IInv, NEW w \in Workspaces, acts' \in Nat, Switch(w)
  PROVE  IInv'
<1>1. gen \in Nat /\ gen' = gen + 1 /\ ws' = w /\ stored' = stored /\ stored[w] \in Library
  BY DEF IInv, TypeOK, Switch
<1>2. \A d \in Docs : /\ doc'[d] \in Doc
                      /\ doc'[d].link # None => /\ stored[w][doc'[d].link] # None
                                                /\ doc'[d].base # None
                                                /\ doc'[d].ext # "deleted"
  <2> TAKE d \in Docs
  <2> DEFINE t == IF w = ws THEN doc[d] ELSE Detached(doc[d])
  <2>1. t \in Doc /\ (t.link # None => t.ext # "deleted")
    BY DEF IInv, TypeOK, TabsInv, Detached, Unlinked, Doc
  <2>2. doc'[d] = Projected(t, stored[w])
    BY DEF Switch
  <2> HIDE DEF t
  <2> QED
    BY <1>1, <2>1, <2>2, ProjectedTab
<1>3. TypeOK'
  BY <1>1, <1>2 DEF IInv, TypeOK, Switch
<1>4. QueueInv'
  BY DEF IInv, QueueInv, Switch
<1>5. FirstInv'
  <2>1. queue # <<>> => First \in Operation
    BY FirstIsOperation DEF IInv
  <2>2. queue # <<>> => First.gen \in Nat
    BY <2>1 DEF Operation
  <2> QED
    BY <1>1, <2>2 DEF IInv, FirstInv, First, Aged, StartedOK, IsCurrent, Switch
<1>6. StoreInv'
  BY <1>1 DEF StoreInv, Switch
<1>7. LinksAreLive' /\ TabsInv'
  BY <1>2 DEF LinksAreLive, TabsInv, Switch
<1> QED
  BY <1>3, <1>4, <1>5, <1>6, <1>7 DEF IInv

\* Another browser tab creates nothing.
LEMMA ElsewhereKeeps ==
  ASSUME IInv, NEW q \in Queries, ElsewhereWrites(q)
  PROVE  IInv'
<1>1. /\ stored \in [Workspaces -> Library] /\ ws \in Workspaces
      /\ stored[ws] \in Library /\ stored[ws][q] \in Content
  BY DEF IInv, TypeOK, ElsewhereWrites, Library
<1>2. PICK c \in Content \cup {None} : stored' = [stored EXCEPT ![ws][q] = c]
  <2>1. CASE \E text \in Texts : stored' = [stored EXCEPT ![ws][q].sql = text]
    <3> PICK text \in Texts : stored' = [stored EXCEPT ![ws][q].sql = text]
      BY <2>1
    <3>1. [stored[ws][q] EXCEPT !.sql = text] \in Content
      BY <1>1 DEF Content
    <3>2. stored' = [stored EXCEPT ![ws][q] = [stored[ws][q] EXCEPT !.sql = text]]
      BY <1>1 DEF Library
    <3> QED
      BY <3>1, <3>2
  <2>2. CASE stored' = [stored EXCEPT ![ws][q].star = ~@]
    <3>1. [stored[ws][q] EXCEPT !.star = ~@] \in Content
      BY <1>1 DEF Content
    <3>2. stored' = [stored EXCEPT ![ws][q] = [stored[ws][q] EXCEPT !.star = ~@]]
      BY <1>1, <2>2 DEF Library
    <3> QED
      BY <3>1, <3>2
  <2>3. CASE stored' = [stored EXCEPT ![ws][q] = None]
    BY <2>3
  <2> QED
    BY <2>1, <2>2, <2>3 DEF ElsewhereWrites
<1>3. /\ stored' \in [Workspaces -> Library]
      /\ \A p \in Queries : stored'[ws][p] # None => stored[ws][p] # None
  BY <1>1, <1>2, DocsAssumption DEF Library, ElsewhereWrites
<1>4. UNCHANGED <<ws, gen, shown, doc, queue, used, acts>> /\ elsewhere' = elsewhere + 1
  BY DEF ElsewhereWrites
<1>5. TypeOK'
  BY <1>3, <1>4 DEF IInv, TypeOK
<1>6. QueueInv'
  BY <1>4 DEF IInv, QueueInv
<1>7. FirstInv'
  BY <1>3, <1>4 DEF IInv, FirstInv, First, Aged, StartedOK, IsCurrent, Creates
<1>8. StoreInv'
  BY <1>3, <1>4 DEF IInv, StoreInv, Running, First, IsCurrent, Creates
<1>9. LinksAreLive' /\ TabsInv'
  BY <1>4 DEF IInv, LinksAreLive, TabsInv
<1> QED
  BY <1>5, <1>6, <1>7, <1>8, <1>9 DEF IInv
-----------------------------------------------------------------------------
(* The queue keeps the invariant *)

\* An operation that ends without a commit of the workspace on screen.
LEMMA SettleKeeps ==
  ASSUME IInv, queue # <<>>, ~(Running("committed") /\ IsCurrent(First)),
         Settle \/ SettleAndRefresh,
         UNCHANGED <<stored, ws, gen, shown, doc, used, acts, elsewhere>>
  PROVE  IInv'
<1>1. /\ QueueOK(Tail(queue)) /\ Len(Tail(queue)) < MaxQueue
      /\ Tail(queue) # <<>> => Tail(queue)[1].pc = "queued"
  BY Settled DEF IInv
<1>2. QueueInv' /\ (queue' # <<>> => First'.pc = "queued")
  <2>1. CASE Settle
    BY <1>1, <2>1 DEF Settle, QueueInv, First
  <2>2. CASE SettleAndRefresh
    <3>1. /\ QueueOK(Append(Tail(queue), RefreshOp))
          /\ Append(Tail(queue), RefreshOp)[1] =
               IF Tail(queue) = <<>> THEN RefreshOp ELSE Tail(queue)[1]
      BY <1>1, RefreshOpIsOperation, Appended
    <3> QED
      BY <1>1, <2>2, <3>1, RefreshOpIsOperation DEF SettleAndRefresh, QueueInv, First
  <2> QED
    BY <2>1, <2>2
<1>3. TypeOK'
  BY <1>2 DEF IInv, TypeOK, QueueInv, QueueOK
<1>4. FirstInv'
  BY <1>2 DEF FirstInv, Aged, StartedOK
<1>5. StoreInv'
  BY DEF IInv, StoreInv
<1>6. LinksAreLive' /\ TabsInv'
  BY DEF IInv, LinksAreLive, TabsInv
<1> QED
  BY <1>2, <1>3, <1>4, <1>5, <1>6 DEF IInv

\* An operation that reads the record, when nothing is left to be applied.
LEMMA ReadKeeps ==
  ASSUME IInv, Running("queued"), NEW op \in Operation, RecordOK(op),
         queue' = [queue EXCEPT ![1] = op],
         UNCHANGED <<stored, ws, gen, shown, doc, used, acts, elsewhere>>,
         Aged(op), StartedOK(op)
  PROVE  IInv'
<1>1. queue # <<>>
  BY DEF Running
<1>2. QueueInv' /\ queue' # <<>> /\ First' = op
  BY <1>1, Advanced DEF IInv
<1>3. TypeOK'
  BY <1>2 DEF IInv, TypeOK, QueueInv, QueueOK
<1>4. FirstInv'
  BY <1>2 DEF FirstInv, Aged, StartedOK, IsCurrent, Creates
<1>5. StoreInv'
  BY DEF IInv, StoreInv, Running
<1>6. LinksAreLive' /\ TabsInv'
  BY DEF IInv, LinksAreLive, TabsInv
<1> QED
  BY <1>2, <1>3, <1>4, <1>5, <1>6 DEF IInv

\* What a transform answers is a library that holds its target, and nothing new but a
\* creation.
LEMMA CandidateFacts ==
  ASSUME NEW op \in Operation, RecordOK(op), op.kind # "refresh", op.pc = "queued",
         NEW latest \in Library, FindsTarget(op, latest)
  PROVE  /\ Candidate(op, latest) \in Library
         /\ op.kind # "delete" => Candidate(op, latest)[op.query] # None
         /\ \A q \in Queries : Candidate(op, latest)[q] # None =>
              latest[q] # None \/ Creates(op, q)
<1>1. op.query \in Queries
  BY DEF RecordOK
<1>2. CASE op.kind \in {"create", "save"}
  <2>1. op.put \in Content /\ op.put # None
    BY <1>2, DocsAssumption DEF RecordOK
  <2>2. Candidate(op, latest) = [latest EXCEPT ![op.query] = op.put]
    BY <1>2 DEF Candidate
  <2>3. op.kind = "save" => latest[op.query] # None
    BY DEF FindsTarget
  <2> QED
    BY <1>1, <1>2, <2>1, <2>2, <2>3 DEF Library, Creates
<1>3. CASE op.kind = "patch"
  <2>1. latest[op.query] \in Content
    BY <1>1, <1>3 DEF FindsTarget, Library
  <2> DEFINE put == [latest[op.query] EXCEPT !.star = op.put.star]
  <2>2. op.put \in Content
    BY <1>3 DEF RecordOK
  <2>3. put \in Content /\ put # None
    BY <2>1, <2>2, DocsAssumption DEF Content
  <2>4. Candidate(op, latest) = [latest EXCEPT ![op.query] = put]
    BY <1>1, <1>3 DEF Candidate, Library
  <2>5. latest[op.query] # None
    BY <1>3 DEF FindsTarget
  <2> HIDE DEF put
  <2> QED
    BY <1>1, <2>3, <2>4, <2>5 DEF Library
<1>4. CASE op.kind = "delete"
  <2>1. Candidate(op, latest) = [latest EXCEPT ![op.query] = None]
    BY <1>4 DEF Candidate
  <2> QED
    BY <1>1, <1>4, <2>1 DEF Library
<1> QED
  BY <1>2, <1>3, <1>4 DEF Operation

LEMMA BuildKeeps ==
  ASSUME IInv, Build
  PROVE  IInv'
<1> DEFINE next == Candidate(First, Latest)
           was == IF First.kind = "patch" THEN Latest[First.query] ELSE None
           specs == IF First.kind = "patch" THEN LinkedSpecs(First.query) ELSE First.specs
           op == [First EXCEPT !.pc = "built", !.next = next, !.put = None,
                               !.was = was, !.specs = specs]
<1>1. /\ Running("queued") /\ First.kind # "refresh" /\ First.pc = "queued"
      /\ IsCurrent(First) /\ FindsTarget(First, Latest)
      /\ UNCHANGED <<stored, ws, gen, shown, doc, used, acts, elsewhere>>
  BY DEF Build, Running
<1>2. queue # <<>> /\ First \in Operation /\ RecordOK(First)
  BY <1>1, FirstIsOperation DEF Running, IInv
<1>3. Latest \in Library
  BY DEF Latest, IInv, TypeOK
<1>4. /\ next \in Library
      /\ First.kind # "delete" => next[First.query] # None
      /\ \A q \in Queries : next[q] # None => Latest[q] # None \/ Creates(First, q)
  BY <1>1, <1>2, <1>3, CandidateFacts
<1>5. was \in Content \cup {None}
  BY <1>2, <1>3 DEF RecordOK, Library
<1>6. /\ specs \in [Docs -> [spec: Texts \cup {NoText}, dirty: BOOLEAN] \cup {None}]
      /\ \A d \in Docs : specs[d] # None => First.kind = "patch" /\ doc[d].link = First.query
  <2>1. CASE First.kind = "patch"
    BY <2>1 DEF LinkedSpecs, IInv, TypeOK, Doc, Content
  <2>2. CASE First.kind # "patch"
    BY <1>2, <2>2 DEF RecordOK, Operation
  <2> QED
    BY <2>1, <2>2
<1>7. queue' = [queue EXCEPT ![1] = op]
  BY DEF Build
<1> HIDE DEF next, was, specs
<1>8. /\ op \in Operation /\ op.kind = First.kind /\ op.pc = "built" /\ op.next = next
      /\ op.query = First.query /\ op.gen = First.gen /\ op.specs = specs
  BY <1>2, <1>4, <1>5, <1>6 DEF Operation
<1> HIDE DEF op
<1>9. RecordOK(op)
  BY <1>1, <1>2, <1>4, <1>6, <1>8 DEF RecordOK, Operation
<1>10. Aged(op)
  BY <1>1, <1>8 DEF Aged, IsCurrent, IInv, TypeOK
<1>11. StartedOK(op)
  <2>1. \A q \in Queries : next[q] # None => shown[q] # None \/ Creates(op, q)
    BY <1>1, <1>4, <1>8 DEF IInv, StoreInv, Latest, Running, Creates
  <2> QED
    BY <1>1, <1>6, <1>8, <2>1 DEF StartedOK
<1> QED
  BY <1>1, <1>7, <1>8, <1>9, <1>10, <1>11, ReadKeeps

LEMMA StartRefreshKeeps ==
  ASSUME IInv, StartRefresh
  PROVE  IInv'
<1> DEFINE op == [First EXCEPT !.pc = "built", !.gen = gen, !.next = Latest]
<1>1. /\ Running("queued") /\ First.kind = "refresh"
      /\ UNCHANGED <<stored, ws, gen, shown, doc, used, acts, elsewhere>>
  BY DEF StartRefresh
<1>2. queue # <<>> /\ First \in Operation /\ RecordOK(First) /\ 1 \in 1..Len(queue)
  BY <1>1, FirstIsOperation DEF Running, IInv
<1>3. Latest \in Library /\ Latest = stored[ws] /\ gen \in Nat
  BY DEF Latest, IInv, TypeOK
<1>4. queue' = [queue EXCEPT ![1] = op]
  BY DEF StartRefresh, First
<1>5. /\ op \in Operation /\ op.kind = "refresh" /\ op.pc = "built" /\ op.next = Latest
      /\ op.gen = gen /\ op.specs = First.specs
  BY <1>1, <1>2, <1>3 DEF Operation
<1> HIDE DEF op
<1>6. RecordOK(op)
  BY <1>1, <1>2, <1>3, <1>5 DEF RecordOK
<1>7. Aged(op) /\ StartedOK(op)
  BY <1>1, <1>2, <1>3, <1>5 DEF Aged, StartedOK, RecordOK
<1> QED
  BY <1>1, <1>4, <1>5, <1>6, <1>7, ReadKeeps

LEMMA CommitKeeps ==
  ASSUME IInv, Commit
  PROVE  IInv'
<1> DEFINE op == [First EXCEPT !.pc = "committed"]
<1>1. /\ queue # <<>> /\ First.pc = "built" /\ First.kind # "refresh" /\ IsCurrent(First)
      /\ stored' = [stored EXCEPT ![ws] = First.next]
      /\ UNCHANGED <<ws, gen, shown, doc, used, acts, elsewhere>>
  BY DEF Commit, Running
<1>2. /\ First \in Operation /\ RecordOK(First) /\ 1 \in 1..Len(queue)
      /\ Aged(First) /\ StartedOK(First)
  BY <1>1, FirstIsOperation DEF IInv, FirstInv
<1>3. First.next \in Library
  BY <1>1, <1>2 DEF RecordOK
<1>4. queue' = [queue EXCEPT ![1] = op]
  BY DEF Commit, First
<1>5. /\ op \in Operation /\ op.kind = First.kind /\ op.pc = "committed"
      /\ op.next = First.next /\ op.query = First.query /\ op.gen = First.gen
      /\ op.specs = First.specs
  BY <1>2 DEF Operation
<1> HIDE DEF op
<1>6. RecordOK(op)
  BY <1>1, <1>2, <1>5 DEF RecordOK
<1>7. QueueInv' /\ queue' # <<>> /\ First' = op
  BY <1>1, <1>4, <1>5, <1>6, Advanced DEF IInv
<1>8. stored' \in [Workspaces -> Library] /\ stored'[ws'] = First.next
  BY <1>1, <1>3 DEF IInv, TypeOK
<1>9. TypeOK'
  BY <1>1, <1>7, <1>8 DEF IInv, TypeOK, QueueInv, QueueOK
<1>10. FirstInv'
  BY <1>1, <1>2, <1>5, <1>7, <1>8 DEF FirstInv, Aged, StartedOK, IsCurrent
<1>11. StoreInv'
  BY <1>1, <1>2, <1>5, <1>7, <1>8 DEF StoreInv, StartedOK, Running, IsCurrent, Creates
<1>12. LinksAreLive' /\ TabsInv'
  BY <1>1 DEF IInv, LinksAreLive, TabsInv
<1> QED
  BY <1>7, <1>9, <1>10, <1>11, <1>12 DEF IInv

\* createSavedQuery and commitSavedQuery leave the tab in sync with what was saved.
LEMMA SavedTab ==
  ASSUME NEW t \in Doc, NEW op \in Operation, op.query \in Queries,
         op.next \in Library, op.next[op.query] # None
  PROVE  LET r == Saved(t, op)
         IN  /\ r \in Doc /\ r.base # None /\ r.ext = "none"
             /\ r.link = IF op.kind = "create" THEN op.query ELSE t.link
<1> DEFINE saved == op.next[op.query]
           kept == [t EXCEPT !.base = saved, !.ext = "none",
                             !.dirtySql = FALSE, !.dirtySpec = FALSE]
<1>1. saved \in Content /\ saved # None
  BY DEF Library
<1>2. kept \in Doc /\ kept.base = saved /\ kept.ext = "none" /\ kept.link = t.link
  BY <1>1 DEF Doc
<1>3. CASE op.kind = "create"
  <2>1. Saved(t, op) = [kept EXCEPT !.link = op.query, !.draft = saved]
    BY <1>3 DEF Saved
  <2> HIDE DEF kept, saved
  <2> QED
    BY <1>1, <1>2, <1>3, <2>1 DEF Doc
<1>4. CASE op.kind # "create"
  <2>1. Saved(t, op) = [kept EXCEPT !.draft = [saved EXCEPT !.sql = t.draft.sql]]
    BY <1>4 DEF Saved
  <2>2. [saved EXCEPT !.sql = t.draft.sql] \in Content
    BY <1>1 DEF Doc, Content
  <2> HIDE DEF kept, saved
  <2> QED
    BY <1>1, <1>2, <1>4, <2>1, <2>2 DEF Doc
<1> QED
  BY <1>3, <1>4

\* patchSavedSpec on a linked tab: the three cases and what they keep.
LEMMA PatchedTab ==
  ASSUME NEW t \in Doc, NEW saved \in Content, NEW was \in Content \cup {None},
         NEW specs \in [spec: Texts \cup {NoText}, dirty: BOOLEAN],
         t.link # None, t.base # None, t.ext # "deleted"
  PROVE  LET r == Patched(t, specs, was, saved)
         IN  /\ r \in Doc /\ r.link = t.link /\ r.base # None /\ r.ext # "deleted"
             /\ r.ext # "conflict" =>
                  r.base = saved /\ (Dirty(r) => t.base = was)
             /\ Dirty(t) => /\ r.draft.sql = t.draft.sql /\ r.draft.spec = specs.spec
                            /\ t.ext = "conflict" => r.ext = "conflict"
<1> DEFINE patch == [t EXCEPT !.draft.spec = specs.spec, !.draft.star = saved.star,
                              !.dirtySpec = specs.dirty]
           lagged == t.base # None /\ t.base # was
<1>1. /\ patch \in Doc /\ patch.link = t.link /\ patch.base = t.base /\ patch.ext = t.ext
      /\ patch.draft.sql = t.draft.sql /\ patch.draft.spec = specs.spec
  BY DEF Doc, Content
<1>2. CASE lagged /\ ~Dirty(t)
  <2>1. Patched(t, specs, was, saved) = Adopted(t, saved)
    BY <1>2 DEF Patched
  <2> QED
    BY <1>2, <2>1, AdoptedTab, DocsAssumption
<1>3. CASE ~lagged
  <2>1. Patched(t, specs, was, saved) = [patch EXCEPT !.base = saved]
    BY <1>3 DEF Patched
  <2> HIDE DEF patch
  <2> QED
    BY <1>1, <1>3, <2>1, DocsAssumption DEF Doc
<1>4. CASE lagged /\ Dirty(t)
  <2>1. Patched(t, specs, was, saved) =
          IF t.ext = "none" THEN [patch EXCEPT !.ext = "conflict"] ELSE patch
    BY <1>4 DEF Patched
  <2>2. t.ext \in {"none", "conflict"}
    BY DEF Doc
  <2> HIDE DEF patch
  <2> QED
    BY <1>1, <1>4, <2>1, <2>2 DEF Doc
<1> QED
  BY <1>2, <1>3, <1>4

\* What the tabs are after a commit was applied.
AppliedTab(d) ==
  LET op == First
      t  == Projected(doc[d], op.next)
  IN CASE op.kind \in {"create", "save"} /\ op.doc = d -> Saved(t, op)
       [] op.specs[d] # None -> Patched(t, op.specs[d], op.was, op.next[op.query])
       [] OTHER -> t

\* What an operation that is applied has to rely on.
LEMMA AppliedFirst ==
  ASSUME IInv, Apply
  PROVE  /\ queue # <<>> /\ First \in Operation /\ RecordOK(First)
         /\ First.pc = "committed" /\ First.kind # "refresh" /\ IsCurrent(First)
         /\ StartedOK(First)
         /\ First.query \in Queries /\ First.next \in Library
         /\ \A d \in Docs : /\ doc[d] \in Doc
                            /\ doc'[d] = AppliedTab(d)
                            /\ First.specs[d] # None =>
                                 /\ First.kind = "patch" /\ doc[d].link = First.query
                                 /\ First.next[First.query] \in Content
                                 /\ First.next[First.query] # None
<1>1. queue # <<>> /\ First.pc = "committed" /\ IsCurrent(First)
  BY DEF Apply, Running
<1>2. First \in Operation /\ RecordOK(First) /\ StartedOK(First)
  BY <1>1, FirstIsOperation DEF IInv, FirstInv
<1>3. First.kind # "refresh" /\ First.query \in Queries /\ First.next \in Library
  BY <1>1, <1>2 DEF RecordOK
<1>4. ASSUME NEW d \in Docs, First.specs[d] # None
      PROVE  /\ First.kind = "patch" /\ doc[d].link = First.query
             /\ First.next[First.query] \in Content
             /\ First.next[First.query] # None
  BY <1>1, <1>2, <1>3, <1>4 DEF RecordOK, StartedOK, Library
<1>5. \A d \in Docs : doc[d] \in Doc
  BY DEF IInv, TypeOK
<1>6. \A d \in Docs : doc'[d] = AppliedTab(d)
  BY Zenon DEF Apply, AppliedTab
<1> QED
  BY <1>1, <1>2, <1>3, <1>4, <1>5, <1>6

LEMMA PatchApplies ==
  ASSUME IInv, Apply, NEW d \in Docs, First.specs[d] # None
  PROVE  LET t == Projected(doc[d], First.next)
         IN  /\ doc'[d] = Patched(t, First.specs[d], First.was, First.next[First.query])
             /\ t \in Doc /\ t.link = First.query /\ t.base = doc[d].base /\ t.base # None
             /\ t.ext = doc[d].ext /\ t.ext # "deleted" /\ t.draft = doc[d].draft
             /\ Dirty(t) = Dirty(doc[d])
             /\ First.specs[d] \in [spec: Texts \cup {NoText}, dirty: BOOLEAN]
             /\ First.was \in Content \cup {None}
<1> DEFINE t == Projected(doc[d], First.next)
<1>1. /\ doc[d] \in Doc /\ doc'[d] = AppliedTab(d)
      /\ First \in Operation /\ First.next \in Library /\ First.query \in Queries
      /\ First.kind = "patch" /\ doc[d].link = First.query /\ First.next[First.query] # None
  BY AppliedFirst
<1>2. doc[d].link # None /\ doc[d].base # None /\ doc[d].ext # "deleted"
  BY <1>1, DocsAssumption DEF IInv, LinksAreLive, TabsInv
<1>3. /\ t \in Doc /\ t.link = First.query /\ t.base = doc[d].base /\ t.ext = doc[d].ext
      /\ t.draft = doc[d].draft
      /\ t.dirtySql = doc[d].dirtySql /\ t.dirtySpec = doc[d].dirtySpec
  BY <1>1, <1>2, ProjectedTab
<1>4. doc'[d] = Patched(t, First.specs[d], First.was, First.next[First.query])
  BY <1>1 DEF AppliedTab
<1>5. /\ First.specs[d] \in [spec: Texts \cup {NoText}, dirty: BOOLEAN]
      /\ First.was \in Content \cup {None}
  BY <1>1 DEF Operation
<1> HIDE DEF t
<1>6. Dirty(t) = Dirty(doc[d])
  BY <1>3 DEF Dirty
<1> QED
  BY <1>2, <1>3, <1>4, <1>5, <1>6 DEF t

LEMMA ApplyKeeps ==
  ASSUME IInv, Apply
  PROVE  IInv'
<1>1. /\ queue # <<>> /\ First \in Operation /\ RecordOK(First)
      /\ First.pc = "committed" /\ First.kind # "refresh"
      /\ StartedOK(First) /\ IsCurrent(First)
      /\ First.query \in Queries /\ First.next \in Library
  BY AppliedFirst
<1>2. /\ shown' = First.next /\ queue' = Tail(queue)
      /\ UNCHANGED <<stored, ws, gen, used, acts, elsewhere>>
  BY DEF Apply, Settle
<1>3. ASSUME NEW d \in Docs
      PROVE  /\ doc'[d] \in Doc
             /\ doc'[d].link # None =>
                  First.next[doc'[d].link] # None /\ doc'[d].base # None
                  /\ doc'[d].ext # "deleted"
  <2> DEFINE t == Projected(doc[d], First.next)
  <2>1. doc[d] \in Doc /\ doc'[d] = AppliedTab(d)
    BY AppliedFirst
  <2>2. /\ t \in Doc /\ t.ext = doc[d].ext
        /\ t.link # None => /\ t.link = doc[d].link /\ First.next[t.link] # None
                            /\ t.base # None
    BY <1>1, <2>1, ProjectedTab
  <2>3. t.link # None => t.ext # "deleted"
    BY <2>2 DEF IInv, TabsInv
  <2>4. CASE First.kind \in {"create", "save"} /\ First.doc = d
    <3>0. First.specs[d] = None
      BY <2>4, AppliedFirst
    <3>1. doc'[d] = Saved(t, First)
      BY <2>1, <2>4, <3>0 DEF AppliedTab
    <3>2. First.next[First.query] # None
      BY <1>1, <2>4 DEF RecordOK
    <3> HIDE DEF t
    <3>3. /\ doc'[d] \in Doc /\ doc'[d].base # None /\ doc'[d].ext = "none"
          /\ doc'[d].link = IF First.kind = "create" THEN First.query ELSE t.link
      BY <1>1, <2>2, <3>1, <3>2, SavedTab
    <3> QED
      BY <2>2, <3>2, <3>3
  <2>5. CASE ~(First.kind \in {"create", "save"} /\ First.doc = d) /\ First.specs[d] # None
    <3>1. First.next[First.query] \in Content /\ First.next[First.query] # None
      BY <2>5, AppliedFirst
    <3>2. /\ doc'[d] = Patched(t, First.specs[d], First.was, First.next[First.query])
          /\ t.link = First.query /\ t.base # None /\ t.ext # "deleted"
          /\ First.specs[d] \in [spec: Texts \cup {NoText}, dirty: BOOLEAN]
          /\ First.was \in Content \cup {None}
      BY <2>5, PatchApplies
    <3>3. t.link # None
      BY <1>1, <3>2, DocsAssumption
    <3> HIDE DEF t
    <3>4. /\ doc'[d] \in Doc /\ doc'[d].link = t.link /\ doc'[d].base # None
          /\ doc'[d].ext # "deleted"
      BY <2>2, <3>1, <3>2, <3>3, PatchedTab
    <3> QED
      BY <3>1, <3>2, <3>4
  <2>6. CASE ~(First.kind \in {"create", "save"} /\ First.doc = d) /\ First.specs[d] = None
    <3>1. doc'[d] = t
      BY <2>1, <2>6 DEF AppliedTab
    <3> HIDE DEF t
    <3> QED
      BY <2>2, <2>3, <3>1
  <2> QED
    BY <2>4, <2>5, <2>6
<1>4. /\ QueueOK(Tail(queue))
      /\ Tail(queue) # <<>> => Tail(queue)[1].pc = "queued"
  BY <1>1, Settled DEF IInv
<1>5. QueueInv' /\ (queue' # <<>> => First'.pc = "queued")
  BY <1>2, <1>4 DEF QueueInv, First
<1>6. doc' \in [Docs -> Doc]
  BY <1>3 DEF Apply
<1>7. TypeOK'
  BY <1>1, <1>2, <1>5, <1>6 DEF IInv, TypeOK, QueueInv, QueueOK
<1>8. FirstInv'
  BY <1>5 DEF FirstInv, Aged, StartedOK
<1>9. StoreInv'
  BY <1>1, <1>2 DEF StoreInv, StartedOK
<1>10. LinksAreLive' /\ TabsInv'
  BY <1>2, <1>3 DEF LinksAreLive, TabsInv
<1> QED
  BY <1>5, <1>7, <1>8, <1>9, <1>10 DEF IInv

\* A refresh that projects leaves a tab that is in sync, in conflict or not linked.
LEMMA RefreshedTab ==
  ASSUME IInv, RefreshProjects, NEW d \in Docs
  PROVE  /\ First.next \in Library /\ doc[d] \in Doc /\ doc'[d] \in Doc
         /\ doc'[d].link # None =>
              /\ doc'[d].link = doc[d].link /\ First.next[doc'[d].link] # None
              /\ doc'[d].base # None /\ doc'[d].ext # "deleted"
              /\ doc'[d].ext # "conflict" => doc'[d].base = First.next[doc'[d].link]
              /\ Dirty(doc[d]) /\ doc[d].ext = "conflict" => doc'[d].ext = "conflict"
              /\ Dirty(doc'[d]) => doc'[d].base = doc[d].base
         /\ Dirty(doc[d]) => doc'[d].draft = doc[d].draft
         /\ doc[d].link = None => doc'[d] = doc[d]
<1> DEFINE r == Reconciled(doc[d], First.next)
           p == Projected(r, First.next)
<1>1. queue # <<>> /\ First.pc = "built" /\ doc[d] \in Doc
  BY DEF RefreshProjects, Running, IInv, TypeOK
<1>2. First.next \in Library
  BY <1>1, FirstIsOperation DEF IInv, RecordOK
<1>3. doc'[d] = p
  BY DEF RefreshProjects
<1>4. /\ r \in Doc
      /\ r.link # None => r.link = doc[d].link /\ (r.ext = "deleted" => r = doc[d])
      /\ r.link # None /\ r.ext # "conflict" => r.base = First.next[r.link]
      /\ r.link # None /\ doc[d].base # None => r.base # None
      /\ Dirty(doc[d]) => /\ r.draft = doc[d].draft
                          /\ r.link # None => r.base = doc[d].base
                          /\ r.link # None /\ doc[d].ext = "conflict" => r.ext = "conflict"
      /\ ~Dirty(doc[d]) => ~Dirty(r)
      /\ doc[d].link = None => r = doc[d]
  BY <1>1, <1>2, ReconciledTab
<1> HIDE DEF r
<1>5. /\ p \in Doc /\ p.ext = r.ext /\ p.draft = r.draft
      /\ p.dirtySql = r.dirtySql /\ p.dirtySpec = r.dirtySpec
      /\ p.link # None => /\ p.link = r.link /\ First.next[p.link] # None
                          /\ p.base # None
                          /\ r.base # None => p.base = r.base
  BY <1>2, <1>4, ProjectedTab
<1>6. r.link = None => p = r
  BY DEF Projected
<1> HIDE DEF p
<1>7. Dirty(p) = Dirty(r)
  BY <1>5 DEF Dirty
<1>8. ASSUME p.link # None
      PROVE  /\ p.link = doc[d].link /\ p.ext # "deleted" /\ p.base = r.base
  <2>1. doc[d].link # None /\ doc[d].base # None /\ doc[d].ext # "deleted"
    BY <1>4, <1>5, <1>8 DEF IInv, LinksAreLive, TabsInv
  <2>2. r.base # None
    BY <1>4, <1>5, <1>8, <2>1
  <2> QED
    BY <1>4, <1>5, <1>8, <2>1, <2>2
<1> QED
  BY <1>1, <1>2, <1>3, <1>4, <1>5, <1>6, <1>7, <1>8

LEMMA RefreshProjectsKeeps ==
  ASSUME IInv, RefreshProjects
  PROVE  IInv'
<1>1. /\ queue # <<>> /\ First.pc = "built" /\ First.kind = "refresh" /\ IsCurrent(First)
      /\ shown' = First.next /\ queue' = Tail(queue)
      /\ UNCHANGED <<stored, ws, gen, used, acts, elsewhere>>
  BY DEF RefreshProjects, Running, Settle
<1>2. RecordOK(First) /\ StartedOK(First) /\ First.next \in Library
  BY <1>1, FirstIsOperation DEF IInv, FirstInv, RecordOK
<1>3. /\ QueueOK(Tail(queue))
      /\ Tail(queue) # <<>> => Tail(queue)[1].pc = "queued"
  BY <1>1, Settled DEF IInv
<1>4. QueueInv' /\ (queue' # <<>> => First'.pc = "queued")
  BY <1>1, <1>3 DEF QueueInv, First
<1>5. doc' \in [Docs -> Doc]
  <2>1. \A d \in Docs : doc'[d] \in Doc
    BY RefreshedTab
  <2> QED
    BY <2>1 DEF RefreshProjects
<1>6. TypeOK'
  BY <1>1, <1>2, <1>4, <1>5 DEF IInv, TypeOK, QueueInv, QueueOK
<1>7. FirstInv'
  BY <1>4 DEF FirstInv, Aged, StartedOK
<1>8. StoreInv'
  BY <1>1, <1>2 DEF StoreInv, StartedOK
<1>9. LinksAreLive' /\ TabsInv'
  BY <1>1, RefreshedTab DEF LinksAreLive, TabsInv
<1> QED
  BY <1>4, <1>6, <1>7, <1>8, <1>9 DEF IInv
-----------------------------------------------------------------------------
(* The theorems *)

LEMMA StepKeeps ==
  ASSUME IInv, [Next]_vars
  PROVE  IInv'
<1>1. CASE UserStep
  <2>1. acts' \in Nat
    BY <1>1 DEF UserStep, IInv, TypeOK
  <2> QED
    BY <1>1, <2>1, EditKeeps, OpenKeeps, CloseKeeps, SaveKeeps, ReloadSavedKeeps, StarKeeps,
       SwitchKeeps DEF UserStep
<1>2. CASE QueueStep
  <2>1. CASE TargetIsGone
    BY <2>1, SettleKeeps DEF TargetIsGone, Running
  <2>2. CASE EndsWithoutCommit
    BY <2>2, SettleKeeps DEF EndsWithoutCommit, Running
  <2>3. CASE SettleElsewhere
    BY <2>3, SettleKeeps DEF SettleElsewhere, Running
  <2>4. CASE RefreshKeeps
    BY <2>4, SettleKeeps DEF RefreshKeeps, Running
  <2> QED
    BY <1>2, <2>1, <2>2, <2>3, <2>4, BuildKeeps, CommitKeeps, ApplyKeeps, StartRefreshKeeps,
       RefreshProjectsKeeps DEF QueueStep
<1>3. CASE ScheduleRefresh
  BY <1>3, RefreshOpIsOperation, RequestKeeps DEF ScheduleRefresh, IInv, TypeOK
<1>4. CASE \E q \in Queries : ElsewhereWrites(q)
  BY <1>4, ElsewhereKeeps
<1>5. CASE UNCHANGED vars
  BY <1>5 DEF vars, IInv, TypeOK, QueueInv, FirstInv, StoreInv, LinksAreLive, TabsInv, First,
     Aged, StartedOK, IsCurrent, Running, Creates
<1> QED
  BY <1>1, <1>2, <1>3, <1>4, <1>5 DEF Next

LEMMA InitKeeps ==
  ASSUME Init
  PROVE  IInv
<1> PICK text \in Texts : stored = [w \in Workspaces |->
       [q \in Queries |-> IF q \in used THEN [sql |-> text, spec |-> text, star |-> FALSE]
                                        ELSE None]]
  BY DEF Init
<1>1. /\ stored \in [Workspaces -> Library] /\ ws \in Workspaces /\ shown = stored[ws]
      /\ shown \in Library
  BY DEF Init, Library, Content
<1>2. \A q \in used : q \in Queries /\ shown[q] \in Content
  BY <1>1 DEF Init, Content
<1>3. \A q \in used : /\ Opened(q) \in Doc /\ Opened(q).link = q
                      /\ Opened(q).base = shown[q] /\ Opened(q).ext = "none"
  <2> TAKE q \in used
  <2>1. [Blank EXCEPT !.link = q] \in Doc /\ [Blank EXCEPT !.link = q].link = q
    BY <1>2, BlankIsDoc DEF Doc, Blank
  <2> QED
    BY <1>2, <2>1, AdoptedTab DEF Opened
<1>4. \A d \in Docs : doc[d] = Blank \/ \E q \in used : doc[d] = Opened(q)
  BY DEF Init
<1>5. \A d \in Docs : /\ doc[d] \in Doc
                      /\ doc[d].link # None => /\ shown[doc[d].link] # None
                                               /\ doc[d].base # None
                                               /\ doc[d].ext # "deleted"
  BY <1>2, <1>3, <1>4, BlankIsDoc, DocsAssumption DEF Blank
<1>6. queue = <<>> /\ queue \in Seq(Operation) /\ Len(queue) = 0
  BY DEF Init
<1>7. 0 <= MaxQueue
  BY DocsAssumption
<1>8. TypeOK
  BY <1>1, <1>5, <1>6, <1>7 DEF Init, TypeOK
<1>9. QueueInv /\ FirstInv
  BY <1>6, <1>7 DEF QueueInv, QueueOK, FirstInv
<1>10. StoreInv
  BY <1>1 DEF StoreInv
<1>11. LinksAreLive /\ TabsInv
  BY <1>5 DEF LinksAreLive, TabsInv
<1> QED
  BY <1>8, <1>9, <1>10, <1>11 DEF IInv

\* IInv is inductive.
THEOREM Invariance == Spec => []IInv
<1>1. Init => IInv
  BY InitKeeps
<1>2. IInv /\ [Next]_vars => IInv'
  BY StepKeeps
<1> QED
  BY <1>1, <1>2, PTL DEF Spec

\* Every variable keeps its type, and only the head of the write queue has started.
THEOREM TypeCorrect == Spec => []TypeOK
<1>1. IInv => TypeOK
  BY DEF IInv
<1> QED
  BY <1>1, Invariance, PTL

\* A link of a tab leads to a query on screen and has a baseline.
THEOREM LinksStayLive == Spec => []LinksAreLive
<1>1. IInv => LinksAreLive
  BY DEF IInv
<1> QED
  BY <1>1, Invariance, PTL
\* A commit adds nothing to what is shown but what it creates.
THEOREM NothingIsResurrected == Spec => DeletedIsNotResurrected
<1> DEFINE A == Commit => \A q \in Queries :
       stored'[ws][q] # None =>
         shown[q] # None \/ (First.kind = "create" /\ First.query = q)
<1>1. IInv => A
  <2> SUFFICES ASSUME IInv, Commit, NEW q \in Queries, stored'[ws][q] # None
               PROVE  shown[q] # None \/ (First.kind = "create" /\ First.query = q)
    OBVIOUS
  <2>1. /\ queue # <<>> /\ First.pc = "built" /\ First.kind # "refresh" /\ IsCurrent(First)
        /\ stored' = [stored EXCEPT ![ws] = First.next]
    BY DEF Commit, Running
  <2>2. First.next[q] # None
    BY <2>1 DEF IInv, TypeOK
  <2> QED
    BY <2>1, <2>2 DEF IInv, FirstInv, StartedOK, Creates
<1> HIDE DEF A
<1>2. IInv /\ [Next]_vars => [A]_vars
  BY <1>1
<1> QED
  BY <1>2, Invariance, PTL DEF Spec, DeletedIsNotResurrected, A

\* What the steps that are no edit of tab d, no close of it and no operation that is
\* applied do to it.
LEMMA TabIsKept ==
  ASSUME IInv, [Next]_vars, NEW d \in Docs, ~EditSql(d), ~EditSpec(d), ~Close(d),
         ~ReloadSaved(d), ~Apply, ~RefreshProjects
  PROVE  \/ doc'[d] = doc[d]
         \/ doc[d] = Blank
         \/ \E w \in Workspaces : Switch(w)
<1>1. CASE UserStep
  <2>1. CASE \E e \in Docs : EditSql(e) \/ EditSpec(e) \/ Close(e) \/ ReloadSaved(e)
    <3> PICK e \in Docs : EditSql(e) \/ EditSpec(e) \/ Close(e) \/ ReloadSaved(e)
      BY <2>1
    <3>1. e # d
      OBVIOUS
    <3> QED
      BY <3>1 DEF EditSql, EditSpec, Close, ReloadSaved, IInv, TypeOK
  <2>2. CASE \E e \in Docs, q \in Queries : Open(e, q)
    <3> PICK e \in Docs, q \in Queries : Open(e, q)
      BY <2>2
    <3>1. e = d => doc[d] = Blank
      BY DEF Open
    <3>2. e # d => doc'[d] = doc[d]
      BY DEF Open, IInv, TypeOK
    <3> QED
      BY <3>1, <3>2
  <2>3. CASE \/ \E e \in Docs : \/ Save(e) \/ KeepDraft(e)
                                \/ \E q \in Queries : SaveAsNew(e, q)
             \/ \E q \in Queries : Star(q) \/ Delete(q)
    BY <2>3 DEF Save, KeepDraft, SaveAsNew, Star, Delete
  <2> QED
    BY <1>1, <2>1, <2>2, <2>3 DEF UserStep
<1>2. CASE QueueStep
  BY <1>2 DEF QueueStep, Build, TargetIsGone, Commit, EndsWithoutCommit, SettleElsewhere,
     StartRefresh, RefreshKeeps
<1>3. CASE ScheduleRefresh \/ \E q \in Queries : ElsewhereWrites(q)
  BY <1>3 DEF ScheduleRefresh, ElsewhereWrites
<1>4. CASE UNCHANGED vars
  BY <1>4 DEF vars
<1> QED
  BY <1>1, <1>2, <1>3, <1>4 DEF Next

\* A navigation takes no text, and no conflict from a tab that keeps its link.
LEMMA SwitchedTab ==
  ASSUME IInv, NEW w \in Workspaces, Switch(w), NEW d \in Docs
  PROVE  /\ doc'[d].draft = doc[d].draft
         /\ doc'[d].link = doc[d].link => doc'[d].ext = doc[d].ext
<1>1. doc[d] \in Doc /\ stored[w] \in Library
  BY DEF IInv, TypeOK
<1>2. CASE w = ws
  <2>1. doc'[d] = Projected(doc[d], stored[w])
    BY <1>2 DEF Switch
  <2> QED
    BY <1>1, <2>1, ProjectedTab
<1>3. CASE w # ws
  <2>1. /\ Detached(doc[d]) \in Doc /\ Detached(doc[d]).link = None
        /\ Detached(doc[d]).draft = doc[d].draft
        /\ doc[d].link = None => Detached(doc[d]) = doc[d]
    BY <1>1 DEF Detached, Unlinked, Doc
  <2>2. Projected(Detached(doc[d]), stored[w]) = Detached(doc[d])
    BY <2>1 DEF Projected
  <2> QED
    BY <1>3, <2>1, <2>2 DEF Switch
<1> QED
  BY <1>2, <1>3

\* An operation that is applied: the tab that asked for it, the tabs it patches, the rest.
LEMMA AppliedCases ==
  ASSUME IInv, Apply, NEW d \in Docs, First.doc # d
  PROVE  \/ First.specs[d] # None
         \/ /\ doc'[d].draft = doc[d].draft /\ doc'[d].ext = doc[d].ext
<1>1. doc[d] \in Doc /\ doc'[d] = AppliedTab(d) /\ First.next \in Library
  BY AppliedFirst
<1>2. First.specs[d] = None => doc'[d] = Projected(doc[d], First.next)
  BY <1>1 DEF AppliedTab
<1> QED
  BY <1>1, <1>2, ProjectedTab

\* Only the user, and the own operation of a tab, resolve its conflict.
THEOREM ConflictsAreResolvedByChoice == Spec => ConflictNeedsChoice
<1> DEFINE A == \A d \in Docs :
       /\ doc[d].ext = "conflict" /\ Dirty(doc[d])
       /\ doc'[d].ext # "conflict" /\ doc'[d].link = doc[d].link
       => \/ Close(d) \/ ReloadSaved(d)
          \/ Running("committed") /\ First.doc = d
<1>1. IInv /\ [Next]_vars => A
  <2> SUFFICES ASSUME IInv, [Next]_vars, NEW d \in Docs,
                      doc[d].ext = "conflict", Dirty(doc[d]),
                      doc'[d].ext # "conflict", doc'[d].link = doc[d].link,
                      ~Close(d), ~ReloadSaved(d)
               PROVE  Running("committed") /\ First.doc = d
    OBVIOUS
  <2>1. CASE Apply
    <3> SUFFICES ASSUME First.doc # d PROVE FALSE
      BY <2>1 DEF Apply
    <3>1. First.specs[d] # None
      BY <2>1, AppliedCases
    <3> DEFINE t == Projected(doc[d], First.next)
    <3>2. /\ doc'[d] = Patched(t, First.specs[d], First.was, First.next[First.query])
          /\ t \in Doc /\ t.link = First.query /\ t.base # None
          /\ t.ext = "conflict" /\ Dirty(t)
          /\ First.specs[d] \in [spec: Texts \cup {NoText}, dirty: BOOLEAN]
          /\ First.was \in Content \cup {None}
      BY <2>1, <3>1, PatchApplies
    <3>3. First.next[First.query] \in Content /\ t.link # None
      BY <2>1, <3>1, <3>2, AppliedFirst, DocsAssumption
    <3> HIDE DEF t
    <3> QED
      BY <3>2, <3>3, PatchedTab
  <2>2. CASE RefreshProjects
    BY <2>2, RefreshedTab
  <2>3. CASE EditSql(d) \/ EditSpec(d)
    <3>1. doc \in [Docs -> Doc]
      BY DEF IInv, TypeOK
    <3>2. EditSql(d) => doc'[d].ext = doc[d].ext
      BY <3>1 DEF EditSql, Doc
    <3>3. EditSpec(d) => doc'[d].ext = doc[d].ext
      BY <3>1 DEF EditSpec, Doc
    <3> QED
      BY <2>3, <3>2, <3>3
  <2>4. CASE \E w \in Workspaces : Switch(w)
    BY <2>4, SwitchedTab
  <2> QED
    BY <2>1, <2>2, <2>3, <2>4, TabIsKept DEF Blank
<1> HIDE DEF A
<1>2. IInv /\ [Next]_vars => [A]_vars
  BY <1>1
<1> QED
  BY <1>2, Invariance, PTL DEF Spec, ConflictNeedsChoice, A

\* Unsaved text is replaced by its user, or by the own operation of its tab.
THEOREM UnsavedTextSurvives == Spec => DraftsSurvive
<1> DEFINE A == \A d \in Docs :
       LET Text(t) == <<t.draft.sql, t.draft.spec>> IN
       Dirty(doc[d]) /\ Text(doc'[d]) # Text(doc[d]) =>
         \/ EditSql(d) \/ EditSpec(d) \/ Close(d) \/ ReloadSaved(d)
         \/ /\ Running("committed")
            /\ \/ First.doc = d
               \/ First.specs[d] # None /\ First.specs[d].spec # doc[d].draft.spec
                  /\ doc'[d].draft.sql = doc[d].draft.sql
<1>1. IInv /\ [Next]_vars => A
  <2> SUFFICES ASSUME IInv, [Next]_vars, NEW d \in Docs, Dirty(doc[d]),
                      \/ doc'[d].draft.sql # doc[d].draft.sql
                      \/ doc'[d].draft.spec # doc[d].draft.spec,
                      ~EditSql(d), ~EditSpec(d), ~Close(d), ~ReloadSaved(d)
               PROVE  /\ Running("committed")
                      /\ \/ First.doc = d
                         \/ First.specs[d] # None /\ First.specs[d].spec # doc[d].draft.spec
                            /\ doc'[d].draft.sql = doc[d].draft.sql
    OBVIOUS
  <2>1. CASE Apply
    <3> SUFFICES ASSUME First.doc # d
                 PROVE  First.specs[d] # None /\ First.specs[d].spec # doc[d].draft.spec
                        /\ doc'[d].draft.sql = doc[d].draft.sql
      BY <2>1 DEF Apply
    <3>1. First.specs[d] # None
      BY <2>1, AppliedCases
    <3> DEFINE t == Projected(doc[d], First.next)
    <3>2. /\ doc'[d] = Patched(t, First.specs[d], First.was, First.next[First.query])
          /\ t \in Doc /\ t.link = First.query /\ t.base # None /\ t.ext # "deleted"
          /\ t.draft = doc[d].draft /\ Dirty(t)
          /\ First.specs[d] \in [spec: Texts \cup {NoText}, dirty: BOOLEAN]
          /\ First.was \in Content \cup {None}
      BY <2>1, <3>1, PatchApplies
    <3>3. First.next[First.query] \in Content /\ t.link # None
      BY <2>1, <3>1, <3>2, AppliedFirst, DocsAssumption
    <3> HIDE DEF t
    <3> DEFINE saved == First.next[First.query]
               was == First.was
               specs == First.specs[d]
    <3>4. /\ t \in Doc /\ saved \in Content /\ was \in Content \cup {None} /\ Dirty(t)
          /\ specs \in [spec: Texts \cup {NoText}, dirty: BOOLEAN]
          /\ t.link # None /\ t.base # None /\ t.ext # "deleted"
      BY <3>2, <3>3
    <3> HIDE DEF saved, was, specs
    <3>5. /\ Patched(t, specs, was, saved).draft.sql = t.draft.sql
          /\ Patched(t, specs, was, saved).draft.spec = specs.spec
      BY <3>4, PatchedTab
    <3>6. doc'[d].draft.sql = t.draft.sql /\ doc'[d].draft.spec = First.specs[d].spec
      BY <3>2, <3>5 DEF saved, was, specs
    <3> QED
      BY <3>1, <3>2, <3>6
  <2>2. CASE RefreshProjects
    BY <2>2, RefreshedTab
  <2>3. CASE \E w \in Workspaces : Switch(w)
    BY <2>3, SwitchedTab
  <2> QED
    BY <2>1, <2>2, <2>3, TabIsKept DEF Blank, Dirty
<1> HIDE DEF A
<1>2. IInv /\ [Next]_vars => [A]_vars
  BY <1>1
<1> QED
  BY <1>2, Invariance, PTL DEF Spec, DraftsSurvive, A

\* After a refresh or a star a linked tab is in conflict or has the version on screen for
\* its baseline, and unsaved text does not pass to a baseline it was not written over.
THEOREM StaleTextIsFlagged == Spec => StaleDraftsAreFlagged
<1> DEFINE A == \A d \in Docs :
       /\ RefreshProjects \/ (Apply /\ First.specs[d] # None)
       /\ doc'[d].link # None /\ doc'[d].ext # "conflict"
       => /\ doc'[d].base = shown'[doc'[d].link]
          /\ Dirty(doc'[d]) => doc[d].base \in {doc'[d].base, First.was}
<1>1. IInv => A
  <2> SUFFICES ASSUME IInv, NEW d \in Docs,
                      RefreshProjects \/ (Apply /\ First.specs[d] # None),
                      doc'[d].link # None, doc'[d].ext # "conflict"
               PROVE  /\ doc'[d].base = shown'[doc'[d].link]
                      /\ Dirty(doc'[d]) => doc[d].base \in {doc'[d].base, First.was}
    OBVIOUS
  <2>1. CASE RefreshProjects
    <3>1. shown' = First.next
      BY <2>1 DEF RefreshProjects
    <3> QED
      BY <2>1, <3>1, RefreshedTab
  <2>2. CASE Apply /\ First.specs[d] # None
    <3> DEFINE t == Projected(doc[d], First.next)
               r == doc'[d]
    <3>1. /\ r = Patched(t, First.specs[d], First.was, First.next[First.query])
          /\ t \in Doc /\ t.link = First.query /\ t.base # None /\ t.ext # "deleted"
          /\ t.base = doc[d].base
          /\ First.specs[d] \in [spec: Texts \cup {NoText}, dirty: BOOLEAN]
          /\ First.was \in Content \cup {None}
      BY <2>2, PatchApplies
    <3>2. First.next[First.query] \in Content /\ t.link # None
      BY <2>2, <3>1, AppliedFirst, DocsAssumption
    <3>3. shown' = First.next
      BY <2>2 DEF Apply
    <3> HIDE DEF t
    <3>4. /\ r.link = t.link
          /\ r.base = First.next[First.query] /\ (Dirty(r) => t.base = First.was)
      BY <3>1, <3>2, PatchedTab
    <3> QED
      BY <3>1, <3>3, <3>4
  <2> QED
    BY <2>1, <2>2
<1> HIDE DEF A
<1>2. IInv /\ [Next]_vars => [A]_vars
  BY <1>1
<1> QED
  BY <1>2, Invariance, PTL DEF Spec, StaleDraftsAreFlagged, A
=============================================================================
