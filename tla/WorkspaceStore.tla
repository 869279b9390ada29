--------------------------- MODULE WorkspaceStore ---------------------------
(***************************************************************************)
(* The workspace records of one browser profile, shared by its tabs:       *)
(* workspace/workspace-repository.ts over                                  *)
(* workspace/indexeddb-workspace-store.ts.                                 *)
(*                                                                         *)
(* A workspace stands for its immutable id and its immutable key.  Its     *)
(* content is abstracted to the number of the commit that wrote it.        *)
(* IndexedDB runs transactions with overlapping scopes, one of them        *)
(* "readwrite", in the order of their creation, so a transaction takes     *)
(* effect when the code creates it; its caller learns the outcome later.   *)
(***************************************************************************)
EXTENDS Naturals

CONSTANTS Workspaces, Tabs,
          NoTab,       \* the writer of a record that no tab has committed to yet
          MaxCommits   \* bound on the commits and creations of a behaviour

ASSUME StoreAssumption == NoTab \notin Tabs /\ MaxCommits \in Nat

VARIABLES
  store,     \* the record of each workspace, NoRecord when there is none
  commits,   \* how many commits there have been: the stamp of the latest
  removed    \* the workspaces whose record was deleted: ids are never minted twice

storeVars == <<store, commits, removed>>

Absent == 0

\* `by` is the tab that wrote the record, `base` the stamp its content was built from.
Record   == [stamp: Nat, by: Tabs \cup {NoTab}, base: Nat]
NoRecord == [stamp |-> Absent, by |-> NoTab, base |-> Absent]
FirstRecord == [stamp |-> 1, by |-> NoTab, base |-> Absent]

StoreTypeOK ==
  /\ store \in [Workspaces -> Record]
  /\ commits \in Nat
  /\ removed \subseteq Workspaces

StoreInit ==
  /\ store \in [Workspaces -> {NoRecord, FirstRecord}]
  /\ commits = 1
  /\ removed = {}

\* loadById, loadByKey: the stamp of the record, Absent when there is none.
Load(w) == store[w].stamp

\* Mutant: the record is written whether or not it still exists.
Replace_Upsert(t, w, base) ==
  /\ commits' = commits + 1
  /\ store' = [store EXCEPT ![w] = [stamp |-> commits', by |-> t, base |-> base]]
  /\ UNCHANGED removed

\* commit: replaces an existing record, whatever its content is by now.
Replace(t, w, base) ==
  /\ Load(w) # Absent
  /\ commits' = commits + 1
  /\ store' = [store EXCEPT ![w] = [stamp |-> commits', by |-> t, base |-> base]]
  /\ UNCHANGED removed

\* create: the new record of an id and a key that are in no record.
Create(t, w) ==
  /\ Load(w) = Absent /\ w \notin removed
  /\ commits' = commits + 1
  /\ store' = [store EXCEPT ![w] = [stamp |-> commits', by |-> t, base |-> Absent]]
  /\ UNCHANGED removed

\* delete: a tab whose version of the application cannot read the record resets it.
DeleteRecord(w) ==
  /\ Load(w) # Absent
  /\ store' = [store EXCEPT ![w] = NoRecord]
  /\ removed' = removed \cup {w}
  /\ UNCHANGED commits
=============================================================================
