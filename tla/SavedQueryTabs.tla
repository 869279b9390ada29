--------------------------- MODULE SavedQueryTabs ---------------------------
(***************************************************************************)
(* The open query tabs of one browser tab and the saved queries they edit: *)
(* state.ts (loadIntoNewTab's link, createSavedQuery, commitSavedQuery,    *)
(* patchSavedSpec, deleteSaved, the reconciliation of linked tabs),        *)
(* workspace/workspace-sync.ts and ui/workbench/save-controller.ts.        *)
(*                                                                         *)
(* A saved query is its SQL, the authored rest of its Spec and the         *)
(* metadata that a star or a rename patches, here the star.  A token is    *)
(* the whole content.  The other browser tabs write to the workspace that  *)
(* is on screen here, at any moment.  The write queue runs one operation   *)
(* at a time (module WorkspaceSync has its whole protocol); an operation   *)
(* loads, commits and settles, and edits, other browser tabs and a change  *)
(* of workspace come in between.                                           *)
(***************************************************************************)
EXTENDS Naturals, Sequences, FiniteSets

CONSTANTS Docs,          \* the slots of the tab strip
          Queries,       \* saved-query ids
          Workspaces,    \* two workspaces may hold the same ids
          None,
          Texts,         \* what a user may write, NoText is an empty editor
          NoText,
          MaxQueue,      \* bound on the queued operations
          MaxActs,       \* bound on what the user does here
          MaxElsewhere   \* bound on the writes of other browser tabs

\* What the token of a saved query stands for.
Content == [sql: Texts \cup {NoText}, spec: Texts \cup {NoText}, star: BOOLEAN]

ASSUME DocsAssumption ==
  /\ None \notin Docs \cup Queries \cup Content
  /\ NoText \notin Texts
  /\ {MaxQueue, MaxActs, MaxElsewhere} \subseteq Nat

VARIABLES
  stored,     \* the records: the saved queries of each workspace
  ws, gen,    \* the workspace on screen, and how many were shown before it
  shown,      \* state.savedQueries
  doc,        \* the open tabs; an empty slot is a blank tab
  queue,      \* the write queue, its head is the operation that runs
  used,       \* the ids minted so far
  acts,       \* how often the user has acted
  elsewhere   \* how often another browser tab has written

vars == <<stored, ws, gen, shown, doc, queue, used, acts, elsewhere>>
-----------------------------------------------------------------------------
Library == [Queries -> Content \cup {None}]

BlankDraft == [sql |-> NoText, spec |-> NoText, star |-> FALSE]

\* `link` is savedId, `base` lastCommittedQueryToken, `ext` externalState.
Doc == [link: Queries \cup {None}, draft: Content, dirtySql: BOOLEAN, dirtySpec: BOOLEAN,
        base: Content \cup {None}, ext: {"none", "conflict", "deleted"}]

Blank == [link |-> None, draft |-> BlankDraft, dirtySql |-> FALSE, dirtySpec |-> FALSE,
          base |-> None, ext |-> "none"]

\* `next` is the candidate or what a refresh has read, `was` the query before a patch,
\* `specs` the patched Specs of the tabs that were linked when the patch was computed.
Operation ==
  [kind: {"create", "save", "patch", "delete", "refresh"}, pc: {"queued", "built", "committed"},
   query: Queries \cup {None}, doc: Docs \cup {None}, gen: Nat, put: Content \cup {None},
   next: Library \cup {None}, was: Content \cup {None},
   specs: [Docs -> [spec: Texts \cup {NoText}, dirty: BOOLEAN] \cup {None}]]

TypeOK ==
  /\ stored \in [Workspaces -> Library]
  /\ ws \in Workspaces /\ gen \in Nat
  /\ shown \in Library
  /\ doc \in [Docs -> Doc]
  /\ queue \in Seq(Operation) /\ Len(queue) <= MaxQueue
  /\ \A i \in 2..Len(queue) : queue[i].pc = "queued"
  /\ used \subseteq Queries
  /\ acts \in Nat /\ elsewhere \in Nat

Dirty(t) == t.dirtySql \/ t.dirtySpec

\* savedForTab
Resolves(t) == t.link # None /\ shown[t.link] # None
-----------------------------------------------------------------------------
(* What becomes of the open tabs *)

\* adoptSavedIntoTab
Adopted(t, content) ==
  [t EXCEPT !.draft = content, !.dirtySql = FALSE, !.dirtySpec = FALSE,
            !.base = content, !.ext = "none"]

Unlinked(t) == [t EXCEPT !.link = None, !.base = None]

\* Mutant: a clean SQL document makes a clean tab.
Reconciled_CleanSql(t, library) ==
  LET latest == library[t.link] IN
  CASE t.link = None -> t
    [] t.link # None /\ latest = None /\ ~t.dirtySql -> [Unlinked(t) EXCEPT !.ext = "none"]
    [] t.link # None /\ latest = None /\ t.dirtySql -> [Unlinked(t) EXCEPT !.ext = "deleted"]
    [] t.link # None /\ latest # None /\ latest = t.base -> t
    [] t.link # None /\ latest # None /\ latest # t.base /\ ~t.dirtySql -> Adopted(t, latest)
    [] OTHER -> [t EXCEPT !.ext = "conflict"]

\* Mutant: a tab that is in sync again is no longer in conflict.
Reconciled_Clears(t, library) ==
  LET latest == library[t.link] IN
  CASE t.link = None -> t
    [] t.link # None /\ latest = None /\ ~Dirty(t) -> [Unlinked(t) EXCEPT !.ext = "none"]
    [] t.link # None /\ latest = None /\ Dirty(t) -> [Unlinked(t) EXCEPT !.ext = "deleted"]
    [] t.link # None /\ latest # None /\ latest = t.base -> [t EXCEPT !.ext = "none"]
    [] t.link # None /\ latest # None /\ latest # t.base /\ ~Dirty(t) -> Adopted(t, latest)
    [] OTHER -> [t EXCEPT !.ext = "conflict"]

\* reconcileLinkedTabs and reconcileLinkedTabsToLatest: noop, detach, orphan, noop, adopt
\* and conflict.  A noop leaves a conflict as it is.
Reconciled(t, library) ==
  LET latest == library[t.link] IN
  CASE t.link = None -> t
    [] t.link # None /\ latest = None /\ ~Dirty(t) -> [Unlinked(t) EXCEPT !.ext = "none"]
    [] t.link # None /\ latest = None /\ Dirty(t) -> [Unlinked(t) EXCEPT !.ext = "deleted"]
    [] t.link # None /\ latest # None /\ latest = t.base -> t
    [] t.link # None /\ latest # None /\ latest # t.base /\ ~Dirty(t) -> Adopted(t, latest)
    [] OTHER -> [t EXCEPT !.ext = "conflict"]

\* Mutant: the links are kept.
Projected_KeepsLinks(t, library) == t

\* applyCommittedWorkspace on a tab: reconcileTabsWithSavedQueries, then a missing
\* baseline is filled.  The conflict flag is not touched.
Projected(t, library) ==
  CASE t.link # None /\ library[t.link] = None -> Unlinked(t)
    [] t.link # None /\ library[t.link] # None /\ t.base = None ->
         [t EXCEPT !.base = library[t.link]]
    [] OTHER -> t

\* detachWorkspaceBoundTabs: drafts and dirty flags stay.
Detached(t) == IF t.link = None THEN t ELSE [Unlinked(t) EXCEPT !.ext = "none"]

\* loadIntoNewTab on a saved query
Opened(q) == Adopted([Blank EXCEPT !.link = q], shown[q])

\* Some of the queries may be open.
Init ==
  /\ used \in SUBSET Queries /\ used # {}
  /\ acts = 0 /\ elsewhere = 0
  /\ \E text \in Texts : stored = [w \in Workspaces |->
       [q \in Queries |-> IF q \in used THEN [sql |-> text, spec |-> text, star |-> FALSE]
                                        ELSE None]]
  /\ ws \in Workspaces /\ gen = 0
  /\ shown = stored[ws]
  /\ doc \in [Docs -> {Blank} \cup {Opened(q) : q \in used}]
  /\ \A d, e \in Docs : d # e => doc[d] = Blank \/ doc[d].link # doc[e].link
  /\ queue = <<>>
-----------------------------------------------------------------------------
(* The write queue *)

Op(kind, q, d, put) ==
  [kind |-> kind, pc |-> "queued", query |-> q, doc |-> d, gen |-> gen, put |-> put,
   next |-> None, was |-> None, specs |-> [e \in Docs |-> None]]

RefreshOp == [Op("refresh", None, None, None) EXCEPT !.gen = 0]

Request(op) == Len(queue) < MaxQueue /\ queue' = Append(queue, op)

First == queue[1]
Running(pc) == queue # <<>> /\ First.pc = pc
Settle == queue' = Tail(queue)

\* refreshWorkspaceFromStore, after an operation that found its query gone
SettleAndRefresh == queue' = Append(Tail(queue), RefreshOp)

IsCurrent(op) == op.gen = gen
-----------------------------------------------------------------------------
(* The user at the tabs *)

EditSql(d) ==
  /\ \E text \in Texts :
       doc' = [doc EXCEPT ![d].draft.sql = text, ![d].dirtySql = TRUE]
  /\ UNCHANGED <<stored, ws, gen, shown, queue, used, elsewhere>>

\* The Spec editor, or the panel picker of the results.
EditSpec(d) ==
  /\ \E text \in Texts :
       doc' = [doc EXCEPT ![d].draft.spec = text, ![d].dirtySpec = TRUE]
  /\ UNCHANGED <<stored, ws, gen, shown, queue, used, elsewhere>>

\* A query that is open already is only selected.
Open(d, q) ==
  /\ doc[d] = Blank
  /\ shown[q] # None
  /\ \A e \in Docs : doc[e].link # q
  /\ doc' = [doc EXCEPT ![d] = Opened(q)]
  /\ UNCHANGED <<stored, ws, gen, shown, queue, used, elsewhere>>

\* requestCloseTab, confirmed when there is something to lose.  An operation that is
\* still under way settles on a tab nobody sees.
Close(d) ==
  /\ doc[d] # Blank
  /\ doc' = [doc EXCEPT ![d] = Blank]
  /\ queue' = [i \in DOMAIN queue |->
       [queue[i] EXCEPT !.doc = IF @ = d THEN None ELSE @, !.specs[d] = None]]
  /\ UNCHANGED <<stored, ws, gen, shown, used, elsewhere>>

\* saveActiveQuery on a linked tab that is not in conflict
Save(d) ==
  LET t == doc[d] IN
  /\ t.ext # "conflict" /\ Resolves(t)
  /\ Request(Op("save", t.link, d, t.draft))
  /\ UNCHANGED <<stored, ws, gen, shown, doc, used, elsewhere>>

\* saveActiveQuery on any other tab that is not in conflict: openSavePopover.  Its
\* Enter key may be pressed again before the first creation has settled.
SaveAsNew(d, q) ==
  LET t == doc[d] IN
  /\ t.ext # "conflict" /\ ~Resolves(t)
  /\ t.draft.sql # NoText
  /\ q \notin used
  /\ used' = used \cup {q}
  /\ Request(Op("create", q, d, t.draft))
  /\ UNCHANGED <<stored, ws, gen, shown, doc, elsewhere>>

\* "Keep my draft": without a link commitSavedQuery answers at once.
KeepDraft(d) ==
  LET t == doc[d] IN
  /\ t.ext = "conflict" /\ t.link # None
  /\ Request(Op("save", t.link, d, t.draft))
  /\ UNCHANGED <<stored, ws, gen, shown, doc, used, elsewhere>>

\* "Reload saved version"
ReloadSaved(d) ==
  LET t == doc[d] IN
  /\ t.ext = "conflict"
  /\ IF Resolves(t)
       THEN doc' = [doc EXCEPT ![d] = Adopted(t, shown[t.link])] /\ UNCHANGED queue
       ELSE Request(RefreshOp) /\ UNCHANGED doc
  /\ UNCHANGED <<stored, ws, gen, shown, used, elsewhere>>

\* toggleFavorite: the new value is taken from the row on screen.
Star(q) ==
  /\ shown[q] # None
  /\ Request(Op("patch", q, None, [BlankDraft EXCEPT !.star = ~shown[q].star]))
  /\ UNCHANGED <<stored, ws, gen, shown, doc, used, elsewhere>>

Delete(q) ==
  /\ shown[q] # None
  /\ Request(Op("delete", q, None, None))
  /\ UNCHANGED <<stored, ws, gen, shown, doc, used, elsewhere>>

\* A poke, the focus or visibility: scheduleRefresh coalesces what is not dequeued yet.
ScheduleRefresh ==
  /\ \A i \in DOMAIN queue : queue[i].kind = "refresh" => queue[i].pc # "queued"
  /\ Request(RefreshOp)
  /\ UNCHANGED <<stored, ws, gen, shown, doc, used, acts, elsewhere>>

\* A navigation brings another workspace on screen, or the same one again, which is then
\* projected without being reconciled; module WorkspaceSync has its loading.
Switch(w) ==
  /\ ws' = w /\ gen' = gen + 1
  /\ shown' = stored[w]
  /\ doc' = [d \in Docs |->
       Projected(IF w = ws THEN doc[d] ELSE Detached(doc[d]), stored[w])]
  /\ UNCHANGED <<stored, queue, used, elsewhere>>
-----------------------------------------------------------------------------
(* The operation that runs *)

\* What mutateWorkspace hands to the transform: the record, read when the operation starts.
Latest == stored[ws]

\* The transforms of createSavedQuery, commitSavedQuery, patchSavedSpec and deleteSaved.
Candidate(op, latest) ==
  CASE op.kind \in {"create", "save"} -> [latest EXCEPT ![op.query] = op.put]
    [] op.kind = "patch" -> [latest EXCEPT ![op.query].star = op.put.star]
    [] op.kind = "delete" -> [latest EXCEPT ![op.query] = None]

\* Mutant: a save puts back the query it does not find.
FindsTarget_Recreates(op, latest) == op.kind = "patch" => latest[op.query] # None

\* A save or a patch whose query is gone declines; nothing is recreated.
FindsTarget(op, latest) ==
  op.kind \in {"save", "patch"} => latest[op.query] # None

LinkedSpecs(q) ==
  [d \in Docs |-> IF doc[d].link = q
                    THEN [spec |-> doc[d].draft.spec, dirty |-> doc[d].dirtySpec] ELSE None]

\* The operation reads the record and its transform answers.
Build ==
  LET op == First IN
  /\ Running("queued") /\ op.kind # "refresh"
  /\ IsCurrent(op) /\ FindsTarget(op, Latest)
  /\ queue' = [queue EXCEPT ![1] =
       [op EXCEPT !.pc = "built", !.next = Candidate(op, Latest), !.put = None,
                  !.was = IF op.kind = "patch" THEN Latest[op.query] ELSE None,
                  !.specs = IF op.kind = "patch" THEN LinkedSpecs(op.query) ELSE @]]
  /\ UNCHANGED <<stored, ws, gen, shown, doc, used, acts, elsewhere>>

TargetIsGone ==
  LET op == First IN
  /\ Running("queued") /\ op.kind # "refresh"
  /\ IsCurrent(op) /\ ~FindsTarget(op, Latest)
  /\ SettleAndRefresh
  /\ UNCHANGED <<stored, ws, gen, shown, doc, used, acts, elsewhere>>

Commit ==
  /\ Running("built") /\ First.kind # "refresh" /\ IsCurrent(First)
  /\ stored' = [stored EXCEPT ![ws] = First.next]
  /\ queue' = [queue EXCEPT ![1].pc = "committed"]
  /\ UNCHANGED <<ws, gen, shown, doc, used, acts, elsewhere>>

\* A read that fails, a record or a Spec that is invalid, a rejected commit, another
\* workspace on screen.
EndsWithoutCommit ==
  /\ queue # <<>> /\ First.pc \in {"queued", "built"} /\ First.kind # "refresh"
  /\ Settle
  /\ UNCHANGED <<stored, ws, gen, shown, doc, used, acts, elsewhere>>

\* createSavedQuery and commitSavedQuery after the commit: a creation also links the tab
\* and puts its SQL back into it.
Saved(t, op) ==
  LET saved == op.next[op.query]
      kept  == [t EXCEPT !.base = saved, !.ext = "none", !.dirtySql = FALSE, !.dirtySpec = FALSE]
  IN IF op.kind = "create" THEN [kept EXCEPT !.link = op.query, !.draft = saved]
                           ELSE [kept EXCEPT !.draft = [saved EXCEPT !.sql = t.draft.sql]]

\* Mutant: the baseline advances although the tab had missed a change.
Patched_Advances(t, specs, was, saved) ==
  [t EXCEPT !.draft.spec = specs.spec, !.draft.star = saved.star,
            !.dirtySpec = specs.dirty, !.base = saved]

\* patchSavedSpec after the commit, on a tab that was linked: adopt, conflict or in sync.
Patched(t, specs, was, saved) ==
  LET patch == [t EXCEPT !.draft.spec = specs.spec, !.draft.star = saved.star,
                         !.dirtySpec = specs.dirty]
      lagged == t.base # None /\ t.base # was
  IN CASE lagged /\ ~Dirty(t) -> Adopted(t, saved)
       [] ~lagged -> [patch EXCEPT !.base = saved]
       [] OTHER -> IF t.ext = "none" THEN [patch EXCEPT !.ext = "conflict"] ELSE patch

\* The commit is projected, and then applied to the tabs.
Apply ==
  LET op == First
      tabs == [d \in Docs |-> Projected(doc[d], op.next)]
  IN
  /\ Running("committed") /\ IsCurrent(op)
  /\ shown' = op.next
  /\ doc' = [d \in Docs |->
       CASE op.kind \in {"create", "save"} /\ op.doc = d -> Saved(tabs[d], op)
         [] op.specs[d] # None -> Patched(tabs[d], op.specs[d], op.was, op.next[op.query])
         [] OTHER -> tabs[d]]
  /\ Settle
  /\ UNCHANGED <<stored, ws, gen, used, acts, elsewhere>>

\* The write is durable, but another workspace is on screen.
SettleElsewhere ==
  /\ Running("committed") /\ ~IsCurrent(First)
  /\ Settle
  /\ UNCHANGED <<stored, ws, gen, shown, doc, used, acts, elsewhere>>

StartRefresh ==
  /\ Running("queued") /\ First.kind = "refresh"
  /\ queue' = [queue EXCEPT ![1] = [@ EXCEPT !.pc = "built", !.gen = gen, !.next = Latest]]
  /\ UNCHANGED <<stored, ws, gen, shown, doc, used, acts, elsewhere>>

\* runWorkspaceRefresh: what is not a saved query may have changed as well.
RefreshProjects ==
  /\ Running("built") /\ First.kind = "refresh" /\ IsCurrent(First)
  /\ shown' = First.next
  /\ doc' = [d \in Docs |-> Projected(Reconciled(doc[d], First.next), First.next)]
  /\ Settle
  /\ UNCHANGED <<stored, ws, gen, used, acts, elsewhere>>

\* The read fails, another workspace is on screen, or nothing has changed.
RefreshKeeps ==
  /\ Running("built") /\ First.kind = "refresh"
  /\ Settle
  /\ UNCHANGED <<stored, ws, gen, shown, doc, used, acts, elsewhere>>
-----------------------------------------------------------------------------
(* Another browser tab *)

ElsewhereWrites(q) ==
  /\ elsewhere < MaxElsewhere
  /\ stored[ws][q] # None
  /\ elsewhere' = elsewhere + 1
  /\ \/ \E text \in Texts : stored' = [stored EXCEPT ![ws][q].sql = text]
     \/ stored' = [stored EXCEPT ![ws][q].star = ~@]
     \/ stored' = [stored EXCEPT ![ws][q] = None]
  /\ UNCHANGED <<ws, gen, shown, doc, queue, used, acts>>

UserStep ==
  /\ acts < MaxActs /\ acts' = acts + 1
  /\ \/ \E d \in Docs : \/ EditSql(d) \/ EditSpec(d) \/ Close(d) \/ Save(d) \/ KeepDraft(d)
                        \/ ReloadSaved(d)
                        \/ \E q \in Queries : Open(d, q) \/ SaveAsNew(d, q)
     \/ \E q \in Queries : Star(q) \/ Delete(q)
     \/ \E w \in Workspaces : Switch(w)

QueueStep ==
  \/ Build \/ TargetIsGone \/ Commit \/ EndsWithoutCommit \/ Apply \/ SettleElsewhere
  \/ StartRefresh \/ RefreshProjects \/ RefreshKeeps

Next ==
  \/ UserStep \/ QueueStep \/ ScheduleRefresh
  \/ \E q \in Queries : ElsewhereWrites(q)

Spec == Init /\ [][Next]_vars
-----------------------------------------------------------------------------
(* Properties *)

\* A link leads to a query of the library on screen, through every deletion, refresh and
\* change of workspace, and has a baseline to compare it with (state.ts:965-976).
LinksAreLive ==
  \A d \in Docs : doc[d].link # None => shown[doc[d].link] # None /\ doc[d].base # None

\* What the user has not saved is replaced only by the user or by the tab's own write:
\* no refresh, no write of another tab, no deletion and no change of workspace touches it,
\* and a star or a rename puts back at most the Spec it had read (state.ts:1313-1318).
DraftsSurvive ==
  [][\A d \in Docs :
       LET Text(t) == <<t.draft.sql, t.draft.spec>> IN
       Dirty(doc[d]) /\ Text(doc'[d]) # Text(doc[d]) =>
         \/ EditSql(d) \/ EditSpec(d) \/ Close(d) \/ ReloadSaved(d)
         \/ /\ Running("committed")
            /\ \/ First.doc = d
               \/ First.specs[d] # None /\ First.specs[d].spec # doc[d].draft.spec
                  /\ doc'[d].draft.sql = doc[d].draft.sql]_vars

\* A draft in conflict stays in conflict until the user reloads the saved version or a
\* save of that tab settles: neither a refresh nor a star makes it ordinary again while
\* it is linked (state.ts:1053-1060).
ConflictNeedsChoice ==
  [][\A d \in Docs :
       /\ doc[d].ext = "conflict" /\ Dirty(doc[d])
       /\ doc'[d].ext # "conflict" /\ doc'[d].link = doc[d].link
       => \/ Close(d) \/ ReloadSaved(d)
          \/ Running("committed") /\ First.doc = d]_vars

\* A stale draft does not become ordinarily saveable (state.ts:1295-1322): after a refresh
\* that projects, and after a star on its query, a linked tab is in conflict, or its
\* baseline is the version on screen; and unsaved text comes by that baseline only when
\* the tab was in sync with the version that the star replaced.
StaleDraftsAreFlagged ==
  [][\A d \in Docs :
       /\ RefreshProjects \/ (Apply /\ First.specs[d] # None)
       /\ doc'[d].link # None /\ doc'[d].ext # "conflict"
       => /\ doc'[d].base = shown'[doc'[d].link]
          /\ Dirty(doc'[d]) => doc[d].base \in {doc'[d].base, First.was}]_vars

\* No commit of this browser tab brings back a query that its library no longer shows:
\* what was requested before a deletion settles after it on the record as it is then
\* (workspace-session.ts:101-108).
DeletedIsNotResurrected ==
  [][Commit => \A q \in Queries :
       stored'[ws][q] # None =>
         shown[q] # None \/ (First.kind = "create" /\ First.query = q)]_vars

\* A tab in conflict still has a saved query to resolve it with: one that was deleted
\* meanwhile gets "its deleted-elsewhere treatment instead of leaving the stale conflict
\* state in place" (save-controller.ts:294-296).
ConflictCanBeResolved == \A d \in Docs : doc[d].ext = "conflict" => doc[d].link # None
=============================================================================
