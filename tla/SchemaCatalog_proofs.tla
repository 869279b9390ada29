------------------------ MODULE SchemaCatalog_proofs ------------------------
(***************************************************************************)
(* What the catalog promises, for any tables, keys, sources, lookups and   *)
(* bounds.                                                                 *)
(***************************************************************************)
EXTENDS SchemaCatalog, TLAPS

-----------------------------------------------------------------------------
(* The inductive invariant *)

SessionInv == login \in Login /\ signedIn \in BOOLEAN /\ (signedIn => login # 0)

\* Loads: what is live was started under the login in force.
LoadsTypeOK ==
  /\ started \in 0..MaxLoads
  /\ schema \in [by: Login, columns: [Tables -> {"unread", "loading", "read"}],
                 read: [Tables -> Login]]
  /\ schemaError \in Login /\ reference \in Login
  /\ version \in [by: Login, found: {"unknown", "present", "absent"}]
  /\ load \in [Loads -> Load]

LoadOK(r) ==
  r.phase # "idle" /\ r.live => signedIn /\ (r.phase = "sent" => r.by = login)

LoadsInv ==
  /\ LoadsTypeOK
  /\ \A i \in Loads : LoadOK(load[i])
  /\ {schema.by, schemaError, version.by, reference} \subseteq {0, Sent}
  /\ \A t \in Tables : schema.read[t] \in {0, Sent}

\* Documentation: what a lookup that is not forgotten has found out so far.
DocsTypeOK ==
  /\ capability \in [Sources -> [by: Login, found: {"unknown", "present", "absent"}]]
  /\ probe \in [Sources -> Lookups \cup {None}]
  /\ cache \in [Keys -> Lookups \cup {None} \cup Answer]
  /\ lookup \in [Lookups -> Lookup]

SourceOf(r) == SourcesOf[r.key][r.from]
IsProbing(r) == r.phase \in {"probe config", "probe sent"}

Confirmed(k, answer) ==
  \A i \in 1..Len(SourcesOf[k]) :
    LET found == capability[SourcesOf[k][i]].found
    IN  /\ answer.status = "unavailable" \/ i < answer.from => found = "absent"
        /\ answer.status # "unavailable" /\ i = answer.from => found = "present"

Progress(l, r) ==
  /\ cache[r.key] = l \/ cache[r.key] \in Answer
  /\ IsProbing(r) => probe[SourceOf(r)] = l
  /\ r.phase \in {"probe sent", "row sent"} => r.by \in {0, Sent}
  /\ r.phase = "probed" /\ r.verdict # "unknown" =>
       capability[SourceOf(r)].found = r.verdict
  /\ r.from = 2 \/ r.phase = "next" => capability[SourcesOf[r.key][1]].found = "absent"
  /\ r.phase \in {"row config", "row sent"} => capability[SourceOf(r)].found = "present"
  /\ r.phase = "settled" => /\ r.answer.by \in {0, Sent}
                            /\ r.answer.lasting => Confirmed(r.key, r.answer)

LookupOK(l, r) ==
  r.phase # "idle" =>
    /\ r.from \in 1..Len(SourcesOf[r.key])
    /\ r.phase = "next" => r.from < Len(SourcesOf[r.key])
    /\ r.phase = "waiting" => /\ r.on \in Lookups /\ IsProbing(lookup[r.on])
                              /\ r.live => SourceOf(lookup[r.on]) = SourceOf(r)
    /\ r.live => Progress(l, r)

Active(r) == r.live /\ r.phase # "idle"

DocsInv ==
  /\ DocsTypeOK
  /\ \A s \in Sources : /\ capability[s].by \in {0, Sent}
                        /\ capability[s].found # "unknown" => signedIn
  /\ \A s \in Sources : probe[s] # None =>
        /\ IsProbing(lookup[probe[s]]) /\ lookup[probe[s]].live
        /\ SourceOf(lookup[probe[s]]) = s /\ capability[s].found = "unknown"
  /\ \A k \in Keys : cache[k] \in Lookups => Active(lookup[cache[k]]) /\ lookup[cache[k]].key = k
  /\ \A k \in Keys : cache[k] \in Answer => cache[k].by \in {0, Sent} /\ Confirmed(k, cache[k])
  /\ \A l \in Lookups : LookupOK(l, lookup[l])
  /\ \A l, m \in Lookups :
        Active(lookup[l]) /\ Active(lookup[m]) /\ l # m => lookup[l].key # lookup[m].key

IInv == SessionInv /\ LoadsInv /\ DocsInv

-----------------------------------------------------------------------------
(* Types *)

\* An answer that says nothing is an answer.
LEMMA UnavailableType ==
  ASSUME NEW i \in 1..2, NEW lasting \in BOOLEAN
  PROVE  Unavailable(i, lasting) \in Answer
BY CatalogAssumption DEF Unavailable, Answer, Login

\* A lookup that is not under way has the type of a lookup.
LEMMA IdleType == IdleLookup \in Lookup
<1>1. ASSUME NEW k \in Keys, NEW answer \in Answer
      PROVE  [key |-> k, from |-> 1, live |-> FALSE, by |-> 0, phase |-> "idle", on |-> None,
              verdict |-> "unknown", answer |-> answer] \in Lookup
  BY CatalogAssumption DEF Lookup, Login
<1>2. (CHOOSE k \in Keys : TRUE) \in Keys
  BY CatalogAssumption
<1>3. Unavailable(1, FALSE) \in Answer
  BY CatalogAssumption DEF Unavailable, Answer, Login
<1> QED
  BY <1>1, <1>2, <1>3, Zenon DEF IdleLookup

\* No login is a login for bookkeeping.
LEMMA NoLogin == 0 \in Login
BY CatalogAssumption DEF Login

\* Every key has a first source.
LEMMA FirstSource ==
  ASSUME NEW k \in Keys
  PROVE  1 \in 1..Len(SourcesOf[k]) /\ SourcesOf[k][1] \in Sources
BY CatalogAssumption

\* A source that is not the last of its key is the first of two.
LEMMA BelowLast ==
  ASSUME NEW n \in 1..2, NEW i \in 1..n, i < n
  PROVE  i = 1 /\ n = 2
OBVIOUS

\* A lookup that goes on to its second source is still one.
LEMMA SecondType ==
  ASSUME NEW r \in Lookup
  PROVE  LET q == [r EXCEPT !.from = 2]
         IN  q \in Lookup /\ q.live = r.live /\ q.key = r.key /\ q.from = 2
<1> DEFINE q == [r EXCEPT !.from = 2]
<1>1. q.live = r.live /\ q.key = r.key /\ q.from = 2
  BY DEF Lookup
<1>2. 2 \in 1..2
  OBVIOUS
<1>3. q \in Lookup
  BY <1>2 DEF Lookup
<1> QED
  BY <1>1, <1>3

\* The source a lookup stands at is a source.
LEMMA SourceType ==
  ASSUME NEW k \in Keys, NEW i \in 1..Len(SourcesOf[k])
  PROVE  SourcesOf[k][i] \in Sources
BY CatalogAssumption

-----------------------------------------------------------------------------
(* The loads *)

\* Lookups leave what the loads read alone.
LEMMA LoadsUntouched ==
  ASSUME LoadsInv, UNCHANGED <<session, loads>>
  PROVE  LoadsInv'
BY DEF LoadsInv, LoadsTypeOK, LoadOK, Sent, session, loads

\* Whatever is forgotten was not asked for by anyone.
LEMMA InvalidateLoads ==
  ASSUME SessionInv, LoadsInv, Invalidate
  PROVE  LoadsInv'
<1>1. LoadsTypeOK'
  <2>1. 0 \in Login
    BY CatalogAssumption DEF Login
  <2>2. load' \in [Loads -> Load]
    <3>1. ASSUME NEW r \in Load PROVE [r EXCEPT !.live = FALSE] \in Load
      BY DEF Load
    <3> QED
      BY <3>1 DEF LoadsInv, LoadsTypeOK, Invalidate
  <2>3. Unread \in [by: Login, columns: [Tables -> {"unread", "loading", "read"}],
                    read: [Tables -> Login]]
    BY <2>1 DEF Unread
  <2>4. Unknown \in [by: Login, found: {"unknown", "present", "absent"}]
    BY <2>1 DEF Unknown
  <2> QED
    BY <2>1, <2>2, <2>3, <2>4 DEF LoadsInv, LoadsTypeOK, Invalidate
<1>2. \A i \in Loads : LoadOK(load[i])'
  BY DEF LoadsInv, LoadsTypeOK, Invalidate, LoadOK, Load
<1>3. /\ {schema.by, schemaError, version.by, reference}' \subseteq {0, Sent'}
      /\ \A t \in Tables : schema'.read[t] \in {0, Sent'}
  BY DEF Invalidate, Unread, Unknown
<1> QED
  BY <1>1, <1>2, <1>3 DEF LoadsInv

\* Before a login there is nothing to keep.
LEMMA SignInLoads ==
  ASSUME SessionInv, LoadsInv, SignIn
  PROVE  LoadsInv'
BY CatalogAssumption
   DEF SessionInv, LoadsInv, LoadsTypeOK, LoadOK, SignIn, Sent, loads, Login

\* A load that starts belongs to the login in force.
LEMMA StartLoads ==
  ASSUME SessionInv, LoadsInv, NEW i \in Loads,
         NEW kind \in {"version", "schema", "reference"} \cup Tables, Start(i, kind),
         login' = login, signedIn' = signedIn, schemaError' = schemaError,
         version' = version, reference' = reference,
         schema' \in [by: Login, columns: [Tables -> {"unread", "loading", "read"}],
                      read: [Tables -> Login]],
         schema'.by = schema.by, schema'.read = schema.read
  PROVE  LoadsInv'
<1>1. LoadsTypeOK'
  <2>1. [kind |-> kind, phase |-> "config", live |-> TRUE, by |-> 0] \in Load
    BY CatalogAssumption DEF Load, Login
  <2>2. load' \in [Loads -> Load]
    BY <2>1 DEF LoadsInv, LoadsTypeOK, Start
  <2>3. started' \in 0..MaxLoads
    BY CatalogAssumption DEF LoadsInv, LoadsTypeOK, Start
  <2> QED
    BY <2>2, <2>3 DEF LoadsInv, LoadsTypeOK
<1>2. \A j \in Loads : LoadOK(load[j])'
  BY DEF LoadsInv, LoadsTypeOK, LoadOK, Start
<1> QED
  BY <1>1, <1>2 DEF LoadsInv, Sent

\* A load that is answered leaves what it was asked for under its own login.
LEMMA AnswerLoads ==
  ASSUME SessionInv, LoadsInv, NEW i \in Loads, Fenced(i), LoadSettles(i),
         UNCHANGED session,
         schema' \in [by: Login, columns: [Tables -> {"unread", "loading", "read"}],
                      read: [Tables -> Login]],
         version' \in [by: Login, found: {"unknown", "present", "absent"}],
         schemaError' \in Login, reference' \in Login,
         schema'.by \in {0, schema.by, load[i].by},
         \A t \in Tables : schema'.read[t] \in {0, schema.read[t], load[i].by},
         schemaError' \in {0, schemaError, load[i].by},
         version'.by \in {0, version.by, load[i].by},
         reference' \in {reference, load[i].by}
  PROVE  LoadsInv'
<1>1. load[i].by = login /\ signedIn /\ Sent' = Sent /\ Sent = login
  BY DEF LoadsInv, LoadOK, Fenced, Sent, session
<1>2. LoadsTypeOK'
  <2>1. IdleLoad \in Load
    BY CatalogAssumption DEF IdleLoad, Load, Login
  <2>2. load' \in [Loads -> Load]
    BY <2>1 DEF LoadsInv, LoadsTypeOK, LoadSettles
  <2> QED
    BY <2>2 DEF LoadsInv, LoadsTypeOK, session
<1>3. \A j \in Loads : LoadOK(load[j])'
  BY DEF LoadsInv, LoadsTypeOK, LoadOK, LoadSettles, IdleLoad, session
<1>4. {schema.by, schemaError, version.by, reference}' \subseteq {0, Sent}
  BY <1>1 DEF LoadsInv
<1>5. \A t \in Tables : schema'.read[t] \in {0, Sent}
  BY <1>1 DEF LoadsInv
<1> QED
  BY <1>1, <1>2, <1>3, <1>4, <1>5 DEF LoadsInv

\* No step of a load breaks what the loads promise.
LEMMA LoadStepLoads ==
  ASSUME SessionInv, LoadsInv, NEW i \in Loads, LoadStep(i)
  PROVE  LoadsInv'
<1>0. /\ LoadsTypeOK /\ load[i] \in Load /\ load[i].by \in Login /\ 0 \in Login
  BY CatalogAssumption DEF LoadsInv, LoadsTypeOK, Load, Login
<1>1. CASE LoadVersionOrSchema(i)
  BY <1>0, <1>1, StartLoads DEF LoadVersionOrSchema, LoadsTypeOK
<1>2. CASE LoadReference(i)
  BY <1>0, <1>2, StartLoads DEF LoadReference, LoadsTypeOK
<1>3. ASSUME NEW t \in Tables, LoadColumns(i, t) PROVE LoadsInv'
  BY <1>0, <1>3, StartLoads DEF LoadColumns, LoadsTypeOK
<1>4. CASE LoadConfigured(i)
  <2>1. IdleLoad \in Load
    BY CatalogAssumption DEF IdleLoad, Load, Login
  <2>2. [load[i] EXCEPT !.phase = "sent", !.by = login] \in Load
    BY <1>0 DEF Load, SessionInv
  <2>3. load' \in [Loads -> Load]
    BY <1>4, <2>1, <2>2 DEF LoadConfigured, LoadsInv, LoadsTypeOK
  <2>4. \A j \in Loads : LoadOK(load[j])'
    BY <1>4, <1>0 DEF LoadConfigured, LoadsInv, LoadsTypeOK, LoadOK, IdleLoad, session, Load
  <2> QED
    BY <1>4, <2>3, <2>4 DEF LoadConfigured, LoadsInv, LoadsTypeOK, Sent, session
<1>5. CASE LoadIsStale(i)
  <2>1. IdleLoad \in Load
    BY CatalogAssumption DEF IdleLoad, Load, Login
  <2> QED
    BY <1>5, <2>1 DEF LoadIsStale, LoadSettles, LoadsInv, LoadsTypeOK, LoadOK, IdleLoad,
                      Sent, session
<1>6. CASE LoadFails(i)
  BY <1>0, <1>6, AnswerLoads DEF LoadFails, LoadsTypeOK
<1>7. ASSUME NEW found \in {"present", "absent"}, VersionAnswers(i, found) PROVE LoadsInv'
  BY <1>0, <1>7, AnswerLoads DEF VersionAnswers, LoadsTypeOK
<1>8. CASE SchemaAnswers(i)
  <2>1. schema' \in [by: Login, columns: [Tables -> {"unread", "loading", "read"}],
                     read: [Tables -> Login]]
        /\ schema'.by = load[i].by /\ \A t \in Tables : schema'.read[t] = 0
    BY <1>0, <1>8 DEF SchemaAnswers, Unread
  <2> QED
    BY <1>0, <1>8, <2>1, AnswerLoads DEF SchemaAnswers, LoadsTypeOK
<1>9. CASE SchemaFails(i)
  BY <1>0, <1>9, AnswerLoads DEF SchemaFails, LoadsTypeOK
<1>10. ASSUME NEW ok \in BOOLEAN, ColumnsAnswer(i, ok) PROVE LoadsInv'
  <2>1. schema' \in [by: Login, columns: [Tables -> {"unread", "loading", "read"}],
                     read: [Tables -> Login]]
        /\ schema'.by = schema.by
        /\ \A t \in Tables : schema'.read[t] \in {schema.read[t], load[i].by}
    BY <1>0, <1>10 DEF ColumnsAnswer, LoadsTypeOK
  <2> QED
    BY <1>0, <1>10, <2>1, AnswerLoads DEF ColumnsAnswer, LoadsTypeOK
<1>11. CASE ReferenceAnswers(i)
  BY <1>0, <1>11, AnswerLoads DEF ReferenceAnswers, LoadsTypeOK
<1> QED
  BY <1>1, <1>2, <1>3, <1>4, <1>5, <1>6, <1>7, <1>8, <1>9, <1>10, <1>11 DEF LoadStep

-----------------------------------------------------------------------------
(* The lookups *)

\* Loads leave what the lookups read alone.
LEMMA DocsUntouched ==
  ASSUME DocsInv, UNCHANGED <<login, signedIn, docs>>
  PROVE  DocsInv'
<1>1. UNCHANGED <<capability, probe, cache, lookup>> /\ Sent' = Sent
  BY DEF docs, Sent
<1>2. DocsTypeOK'
  BY <1>1 DEF DocsInv, DocsTypeOK
<1>3. \A k \in Keys : \A answer : Confirmed(k, answer)' <=> Confirmed(k, answer)
  BY <1>1 DEF Confirmed
<1>4. ASSUME NEW l \in Lookups PROVE LookupOK(l, lookup[l])'
  <2>1. LookupOK(l, lookup[l]) /\ lookup[l].key \in Keys
    BY DEF DocsInv, DocsTypeOK, Lookup
  <2>2. lookup[l].phase # "idle" /\ lookup[l].live => Progress(l, lookup[l])'
    BY <1>1, <1>3, <2>1 DEF LookupOK, Progress
  <2> QED
    BY <1>1, <2>1, <2>2 DEF LookupOK
<1>5. \A k \in Keys : cache[k] \in Answer => Confirmed(k, cache[k])'
  BY <1>1, <1>3 DEF DocsInv, Confirmed
<1> QED
  BY <1>1, <1>2, <1>4, <1>5 DEF DocsInv

\* Once everything is forgotten nothing is left to be wrong about.
LEMMA NoDocsDocs ==
  ASSUME DocsInv, NoDocs
  PROVE  DocsInv'
<1>1. DocsTypeOK'
  <2>1. ASSUME NEW r \in Lookup PROVE [r EXCEPT !.live = FALSE] \in Lookup
    BY DEF Lookup
  <2>2. lookup' \in [Lookups -> Lookup]
    BY <2>1 DEF DocsInv, DocsTypeOK, NoDocs
  <2> QED
    BY <2>2, CatalogAssumption DEF DocsTypeOK, NoDocs, Unknown, Login
<1>2. \A l \in Lookups :
        /\ lookup'[l].live = FALSE /\ lookup'[l].phase = lookup[l].phase
        /\ lookup'[l].key = lookup[l].key /\ lookup'[l].from = lookup[l].from
        /\ lookup'[l].on = lookup[l].on
  <2>1. ASSUME NEW r \in Lookup
        PROVE  LET q == [r EXCEPT !.live = FALSE]
               IN  q.live = FALSE /\ q.phase = r.phase /\ q.key = r.key /\ q.from = r.from
                   /\ q.on = r.on
    BY DEF Lookup
  <2> QED
    BY <2>1 DEF DocsInv, DocsTypeOK, NoDocs
<1>3. ASSUME NEW l \in Lookups PROVE LookupOK(l, lookup[l])'
  <2>1. LookupOK(l, lookup[l])
    BY DEF DocsInv
  <2>2. lookup[l].phase = "waiting" /\ lookup[l].on \in Lookups =>
          (IsProbing(lookup[lookup[l].on]) => IsProbing(lookup'[lookup[l].on]))
    BY <1>2 DEF IsProbing
  <2> QED
    BY <1>2, <2>1, <2>2 DEF LookupOK
<1>4. \A s \in Sources : capability'[s].by = 0 /\ capability'[s].found = "unknown"
                         /\ probe'[s] = None
  BY DEF NoDocs, Unknown
<1>5. \A k \in Keys : cache'[k] = None /\ None \notin Lookups /\ None \notin Answer
  BY CatalogAssumption DEF NoDocs
<1>6. \A l \in Lookups : ~Active(lookup'[l])
  BY <1>2 DEF Active
<1> QED
  BY <1>1, <1>3, <1>4, <1>5, <1>6 DEF DocsInv

\* Before a login there is nothing to keep.
LEMMA SignInDocs ==
  ASSUME SessionInv, DocsInv, SignIn
  PROVE  DocsInv'
<1>1. Sent = 0 /\ signedIn' = TRUE /\ UNCHANGED <<capability, probe, cache, lookup>>
  BY DEF SignIn, Sent, docs
<1>2. DocsTypeOK'
  BY <1>1 DEF DocsInv, DocsTypeOK
<1>3. ASSUME NEW l \in Lookups PROVE LookupOK(l, lookup[l])'
  <2>1. LookupOK(l, lookup[l])
    BY DEF DocsInv
  <2>2. lookup[l].phase # "idle" /\ lookup[l].live => Progress(l, lookup[l])'
    BY <1>1, <2>1 DEF LookupOK, Progress, Confirmed
  <2> QED
    BY <1>1, <2>1, <2>2 DEF LookupOK
<1>4. \A k \in Keys : cache[k] \in Answer => cache[k].by = 0 /\ Confirmed(k, cache[k])'
  BY <1>1 DEF DocsInv, Confirmed
<1> QED
  BY <1>1, <1>2, <1>3, <1>4 DEF DocsInv, SourceOf, IsProbing, Active

\* A step of one lookup that finds out nothing about a source keeps every
\* promise, if it keeps those of that lookup, gives back no probe, and touches
\* the slots of its own key only to fill or to answer them.
LEMMA OneLookup ==
  ASSUME DocsInv, NEW l \in Lookups,
         UNCHANGED <<login, signedIn, capability>>, DocsTypeOK',
         \A m \in Lookups : m # l => lookup'[m] = lookup[m],
         LookupOK(l, lookup[l])',
         IsProbing(lookup[l]) =>
            IsProbing(lookup'[l]) /\ SourceOf(lookup'[l]) = SourceOf(lookup[l])
            /\ lookup'[l].live = lookup[l].live,
         \A s \in Sources :
            \/ probe'[s] = probe[s]
            \/ /\ probe[s] = None /\ probe'[s] = l /\ capability[s].found = "unknown"
               /\ IsProbing(lookup'[l]) /\ lookup'[l].live /\ SourceOf(lookup'[l]) = s,
         \A k \in Keys :
            \/ cache'[k] = cache[k] /\ cache[k] # l
            \/ cache'[k] \in Answer /\ cache'[k].by \in {0, Sent} /\ Confirmed(k, cache[k])'
            \/ cache[k] = l /\ cache'[k] = None
            \/ cache[k] \in {None, l} /\ cache'[k] = l
               /\ Active(lookup'[l]) /\ lookup'[l].key = k,
         Active(lookup'[l]) =>
            \A m \in Lookups : m # l /\ Active(lookup[m]) => lookup[m].key # lookup'[l].key
  PROVE  DocsInv'
<1>0. /\ Sent' = Sent /\ None \notin Lookups
      /\ \A answer \in Answer : answer \notin Lookups /\ answer # None
  BY CatalogAssumption DEF Sent
<1>1. \A k \in Keys : \A answer : Confirmed(k, answer) => Confirmed(k, answer)'
  BY DEF Confirmed
<1>2. ASSUME NEW m \in Lookups, m # l PROVE LookupOK(m, lookup[m])'
  <2>0. lookup'[m] = lookup[m] /\ LookupOK(m, lookup[m]) /\ lookup[m].key \in Keys
    BY <1>2 DEF DocsInv, DocsTypeOK, Lookup
  <2> SUFFICES ASSUME lookup[m].phase # "idle" PROVE LookupOK(m, lookup[m])'
    BY <2>0 DEF LookupOK
  <2>1. lookup[m].phase = "waiting" =>
          IsProbing(lookup'[lookup[m].on])
          /\ SourceOf(lookup'[lookup[m].on]) = SourceOf(lookup[lookup[m].on])
    <3> SUFFICES ASSUME lookup[m].phase = "waiting"
                 PROVE  IsProbing(lookup'[lookup[m].on])
                        /\ SourceOf(lookup'[lookup[m].on]) = SourceOf(lookup[lookup[m].on])
      OBVIOUS
    <3>1. lookup[m].on \in Lookups /\ IsProbing(lookup[lookup[m].on])
      BY <2>0 DEF LookupOK
    <3>2. CASE lookup[m].on = l
      BY <2>0, <3>1, <3>2
    <3>3. CASE lookup[m].on # l
      BY <2>0, <3>1, <3>3 DEF IsProbing, SourceOf
    <3> QED
      BY <3>2, <3>3
  <2>2. lookup[m].live => Progress(m, lookup[m])'
    <3> SUFFICES ASSUME lookup[m].live PROVE Progress(m, lookup[m])'
      OBVIOUS
    <3>1. Progress(m, lookup[m])
      BY <2>0 DEF LookupOK
    <3>2. cache'[lookup[m].key] = m \/ cache'[lookup[m].key] \in Answer
      <4>1. cache[lookup[m].key] = m \/ cache[lookup[m].key] \in Answer
        BY <3>1 DEF Progress
      <4>2. cache[lookup[m].key] # l /\ cache[lookup[m].key] # None
        BY <1>0, <1>2, <4>1
      <4> QED
        BY <2>0, <4>1, <4>2
    <3>3. IsProbing(lookup[m]) => probe'[SourceOf(lookup[m])] = m
      <4>1. SourceOf(lookup[m]) \in Sources
        BY <2>0, SourceType DEF LookupOK, SourceOf
      <4>2. IsProbing(lookup[m]) => probe[SourceOf(lookup[m])] = m
        BY <3>1 DEF Progress
      <4> QED
        BY <1>0, <4>1, <4>2
    <3> QED
      BY <1>0, <1>1, <2>0, <3>1, <3>2, <3>3 DEF Progress, SourceOf, IsProbing
  <2> QED
    BY <2>0, <2>1, <2>2 DEF LookupOK, SourceOf
<1>3. ASSUME NEW s \in Sources, probe'[s] # None
      PROVE  /\ IsProbing(lookup'[probe'[s]]) /\ lookup'[probe'[s]].live
             /\ SourceOf(lookup'[probe'[s]]) = s /\ capability[s].found = "unknown"
  <2>1. CASE probe'[s] = probe[s]
    <3>1. /\ IsProbing(lookup[probe[s]]) /\ lookup[probe[s]].live /\ probe[s] \in Lookups
          /\ SourceOf(lookup[probe[s]]) = s /\ capability[s].found = "unknown"
      BY <1>3, <2>1 DEF DocsInv, DocsTypeOK
    <3>2. CASE probe[s] = l
      BY <2>1, <3>1, <3>2
    <3>3. CASE probe[s] # l
      <4>1. lookup'[probe[s]] = lookup[probe[s]]
        BY <3>1, <3>3
      <4> QED
        BY <2>1, <3>1, <4>1
    <3> QED
      BY <3>2, <3>3
  <2>2. CASE probe'[s] # probe[s]
    BY <2>2
  <2> QED
    BY <2>1, <2>2
<1>4. ASSUME NEW k \in Keys, cache'[k] \in Lookups
      PROVE  Active(lookup'[cache'[k]]) /\ lookup'[cache'[k]].key = k
  <2>1. CASE cache'[k] = l
    BY <1>0, <1>4, <2>1
  <2>2. CASE cache'[k] # l
    BY <1>0, <1>4, <2>2 DEF DocsInv, Active
  <2> QED
    BY <2>1, <2>2
<1>5. ASSUME NEW k \in Keys, cache'[k] \in Answer
      PROVE  (cache[k].by)' \in {0, Sent} /\ Confirmed(k, cache[k])'
  <2>1. CASE cache'[k] = cache[k]
    BY <1>0, <1>1, <1>5, <2>1 DEF DocsInv, Confirmed
  <2>2. CASE cache'[k] # cache[k]
    BY <1>0, <1>5, <2>2
  <2> QED
    BY <2>1, <2>2
<1>6. ASSUME NEW m \in Lookups, NEW n \in Lookups, m # n,
             Active(lookup'[m]), Active(lookup'[n])
      PROVE  lookup'[m].key # lookup'[n].key
  <2>1. CASE m # l /\ n # l
    BY <1>6, <2>1 DEF DocsInv, Active
  <2>2. CASE m = l
    BY <1>6, <2>2 DEF Active
  <2>3. CASE n = l
    BY <1>6, <2>3 DEF Active
  <2> QED
    BY <2>1, <2>2, <2>3
<1>7. \A s \in Sources : /\ capability'[s].by \in {0, Sent'}
                         /\ capability'[s].found # "unknown" => signedIn'
  BY <1>0 DEF DocsInv
<1>8. \A m \in Lookups : LookupOK(m, lookup[m])'
  BY <1>2
<1> QED
  BY <1>0, <1>3, <1>4, <1>5, <1>6, <1>7, <1>8 DEF DocsInv

\* The common case: the lookup keeps its key, and the slots are left alone.
LEMMA StepOfOne ==
  ASSUME DocsInv, NEW l \in Lookups,
         UNCHANGED <<login, signedIn, capability, probe, cache>>,
         lookup' \in [Lookups -> Lookup],
         \A m \in Lookups : m # l => lookup'[m] = lookup[m],
         lookup'[l].key = lookup[l].key, lookup'[l].live = lookup[l].live,
         lookup[l].phase # "idle", lookup'[l].phase # "idle",
         IsProbing(lookup[l]) => IsProbing(lookup'[l]) /\ lookup'[l].from = lookup[l].from,
         LookupOK(l, lookup[l])'
  PROVE  DocsInv'
<1>1. DocsTypeOK'
  BY DEF DocsInv, DocsTypeOK
<1>2. IsProbing(lookup[l]) => SourceOf(lookup'[l]) = SourceOf(lookup[l])
  BY DEF SourceOf
<1>3. Active(lookup'[l]) =>
        \A m \in Lookups : m # l /\ Active(lookup[m]) => lookup[m].key # lookup'[l].key
  <2>1. Active(lookup'[l]) => Active(lookup[l])
    BY DEF Active
  <2>2. \A m \in Lookups : Active(lookup[l]) /\ Active(lookup[m]) /\ m # l =>
                            lookup[m].key # lookup[l].key
    BY DEF DocsInv
  <2> QED
    BY <2>1, <2>2
<1>4. ASSUME NEW k \in Keys
      PROVE  \/ cache'[k] = cache[k] /\ cache[k] # l
             \/ cache[k] = l /\ cache'[k] = l /\ Active(lookup'[l]) /\ lookup'[l].key = k
  BY DEF DocsInv, Active
<1> QED
  BY <1>1, <1>2, <1>3, <1>4, OneLookup

\* What a step that resolves, or moves on, does to the record of its lookup.
LEMMA RecordOfOne ==
  ASSUME NEW r \in Lookup,
         NEW phase \in {"probe sent", "probed", "next", "row config", "row sent", "settled"},
         NEW by \in Login, NEW answer \in Answer
  PROVE  /\ [r EXCEPT !.phase = phase, !.by = by] \in Lookup
         /\ [r EXCEPT !.phase = phase, !.verdict = "unknown"] \in Lookup
         /\ [r EXCEPT !.phase = phase, !.verdict = "unknown", !.by = by, !.answer = answer]
              \in Lookup
BY DEF Lookup

\* A lookup resolves to an answer that was confirmed, or does not last.
LEMMA ResolvesDocs ==
  ASSUME DocsInv, NEW l \in Lookups, NEW answer \in Answer, Resolves(l, answer),
         UNCHANGED <<login, signedIn, capability, probe, cache>>,
         lookup[l].phase \in {"probed", "next", "row config", "row sent"},
         lookup[l].live => /\ answer.by \in {0, Sent}
                           /\ answer.lasting => Confirmed(lookup[l].key, answer)
  PROVE  DocsInv'
<1>0. lookup \in [Lookups -> Lookup] /\ lookup[l] \in Lookup /\ 0 \in Login /\ Sent' = Sent
  <2>1. lookup \in [Lookups -> Lookup]
    BY DEF DocsInv, DocsTypeOK
  <2>2. Sent' = Sent
    BY DEF Sent
  <2> QED
    BY <2>1, <2>2, NoLogin
<1>1. lookup' = [lookup EXCEPT ![l] =
                   [lookup[l] EXCEPT !.phase = "settled", !.verdict = "unknown", !.by = 0,
                                     !.answer = answer]]
  BY <1>0 DEF Resolves
<1>2. lookup' \in [Lookups -> Lookup] /\ \A m \in Lookups : m # l => lookup'[m] = lookup[m]
  BY <1>0, <1>1, RecordOfOne
<1>3. /\ lookup'[l].phase = "settled" /\ lookup'[l].answer = answer
      /\ lookup'[l].key = lookup[l].key /\ lookup'[l].live = lookup[l].live
      /\ lookup'[l].from = lookup[l].from
  BY <1>0, <1>1 DEF Lookup
<1>4. LookupOK(l, lookup[l])'
  <2>1. LookupOK(l, lookup[l])
    BY DEF DocsInv
  <2>2. lookup[l].live => Progress(l, lookup[l])'
    <3>1. Confirmed(lookup[l].key, answer) => Confirmed(lookup[l].key, answer)'
      BY <1>3 DEF Confirmed
    <3>2. lookup[l].live => Progress(l, lookup[l])
      BY <2>1 DEF LookupOK
    <3>3. ~IsProbing(lookup'[l])
      BY <1>3 DEF IsProbing
    <3> QED
      BY <1>0, <1>3, <3>1, <3>2, <3>3 DEF Progress
  <2> QED
    BY <1>3, <2>1, <2>2 DEF LookupOK
<1>5. ~IsProbing(lookup[l])
  BY DEF IsProbing
<1> QED
  BY <1>2, <1>3, <1>4, <1>5, StepOfOne

-----------------------------------------------------------------------------
(* Asking a source *)

\* A lookup that asks a source knows what it knows, waits for the probe that is
\* under way, or takes the slot that is free.
LEMMA AskDocs ==
  ASSUME DocsInv, NEW l \in Lookups, NEW to \in Lookup, Ask(l, to),
         UNCHANGED <<login, signedIn, capability>>,
         to.live, to.from \in 1..Len(SourcesOf[to.key]), ~IsProbing(lookup[l]),
         to.from = 2 => capability[SourcesOf[to.key][1]].found = "absent",
         \A m \in Lookups : m # l /\ Active(lookup[m]) => lookup[m].key # to.key,
         cache' \in [Keys -> Lookups \cup {None} \cup Answer],
         cache'[to.key] = l \/ cache'[to.key] \in Answer,
         \A k \in Keys :
            \/ cache'[k] = cache[k] /\ cache[k] # l
            \/ cache[k] \in {None, l} /\ cache'[k] = l /\ to.key = k
  PROVE  DocsInv'
<1> DEFINE s == SourcesOf[to.key][to.from]
<1>0. /\ lookup \in [Lookups -> Lookup] /\ probe \in [Sources -> Lookups \cup {None}]
      /\ capability \in [Sources -> [by: Login, found: {"unknown", "present", "absent"}]]
      /\ to.key \in Keys
  BY DEF DocsInv, DocsTypeOK, Lookup
<1>1. s \in Sources
  BY <1>0, SourceType
<1>2. /\ Sent' = Sent /\ None \notin Lookups
  BY CatalogAssumption DEF Sent
(* The common part: whatever becomes of the lookup, it stands at the source. *)
<1>3. ASSUME NEW r \in Lookup, lookup' = [lookup EXCEPT ![l] = r],
             r.key = to.key, r.from = to.from, r.live = TRUE,
             r.phase \in {"probed", "waiting", "probe config"},
             r.phase = "probed" /\ r.verdict # "unknown" => capability[s].found = r.verdict,
             r.phase = "waiting" => r.on = probe[s] /\ probe[s] # None,
             \/ probe' = probe /\ r.phase # "probe config"
             \/ /\ probe' = [probe EXCEPT ![s] = l] /\ probe[s] = None
                /\ capability[s].found = "unknown" /\ r.phase = "probe config"
      PROVE  DocsInv'
  <2>1. lookup'[l] = r /\ \A m \in Lookups : m # l => lookup'[m] = lookup[m]
    BY <1>0, <1>3
  <2>2. DocsTypeOK'
    BY <1>0, <1>1, <1>3 DEF DocsTypeOK
  <2>3. SourceOf(r) = s /\ (IsProbing(r) <=> r.phase = "probe config")
    BY <1>3 DEF SourceOf, IsProbing
  <2> HIDE DEF s
  <2>4. LookupOK(l, lookup[l])'
    <3>1. r.phase = "waiting" => /\ r.on \in Lookups /\ IsProbing(lookup'[r.on])
                                 /\ SourceOf(lookup'[r.on]) = s
      BY <1>0, <1>1, <1>3, <2>1 DEF DocsInv
    <3>2. IsProbing(r) => probe'[s] = l
      BY <1>0, <1>1, <1>3, <2>3
    <3>3. r.from = 2 => capability'[SourcesOf[r.key][1]].found = "absent"
      BY <1>3
    <3>4. r.phase = "probed" /\ r.verdict # "unknown" => capability'[SourceOf(r)].found = r.verdict
      BY <1>3, <2>3
    <3>5. cache'[r.key] = l \/ cache'[r.key] \in Answer
      BY <1>3
    <3>6. /\ r.phase \notin {"probe sent", "row sent", "next", "row config", "settled", "idle"}
      BY <1>3
    <3>7. Progress(l, lookup[l])'
      BY <2>1, <2>3, <3>2, <3>3, <3>4, <3>5, <3>6 DEF Progress
    <3> QED
      BY <1>3, <2>1, <2>3, <3>1, <3>6, <3>7 DEF LookupOK
  <2>5. \A t \in Sources :
          \/ probe'[t] = probe[t]
          \/ /\ probe[t] = None /\ probe'[t] = l /\ capability[t].found = "unknown"
             /\ IsProbing(lookup'[l]) /\ lookup'[l].live /\ SourceOf(lookup'[l]) = t
    BY <1>0, <1>1, <1>3, <2>1, <2>3
  <2>6. Active(lookup'[l]) /\ lookup'[l].key = to.key
    BY <1>3, <2>1 DEF Active
  <2>7. \A k \in Keys :
          \/ cache'[k] = cache[k] /\ cache[k] # l
          \/ cache[k] \in {None, l} /\ cache'[k] = l /\ Active(lookup'[l]) /\ lookup'[l].key = k
    BY <2>6
  <2>8. \A m \in Lookups : m # l /\ Active(lookup[m]) => lookup[m].key # lookup'[l].key
    BY <2>6
  <2> QED
    BY <2>1, <2>2, <2>4, <2>5, <2>7, <2>8, OneLookup
<1>4. CASE capability[s].found # "unknown"
  <2> DEFINE r == [to EXCEPT !.phase = "probed", !.verdict = capability[s].found]
  <2>1. lookup' = [lookup EXCEPT ![l] = r] /\ probe' = probe
    BY <1>4 DEF Ask
  <2>2. /\ r \in Lookup /\ r.key = to.key /\ r.from = to.from /\ r.live = TRUE
        /\ r.phase = "probed" /\ r.verdict = capability[s].found
    BY <1>0, <1>1 DEF Lookup
  <2> HIDE DEF r, s
  <2> QED
    BY <1>3, <2>1, <2>2
<1>5. CASE capability[s].found = "unknown" /\ probe[s] # None
  <2> DEFINE r == [to EXCEPT !.phase = "waiting", !.on = probe[s]]
  <2>1. lookup' = [lookup EXCEPT ![l] = r] /\ probe' = probe
    BY <1>5 DEF Ask
  <2>2. /\ r \in Lookup /\ r.key = to.key /\ r.from = to.from /\ r.live = TRUE
        /\ r.phase = "waiting" /\ r.on = probe[s]
    BY <1>0, <1>1 DEF Lookup
  <2> HIDE DEF r, s
  <2> QED
    BY <1>3, <1>5, <2>1, <2>2
<1>6. CASE capability[s].found = "unknown" /\ probe[s] = None
  <2>1. CASE s = Documentation /\ version.found = "absent"
    <3> DEFINE r == [to EXCEPT !.phase = "probed", !.verdict = "unknown"]
    <3>1. lookup' = [lookup EXCEPT ![l] = r] /\ probe' = probe
      BY <1>6, <2>1 DEF Ask
    <3>2. /\ r \in Lookup /\ r.key = to.key /\ r.from = to.from /\ r.live = TRUE
          /\ r.phase = "probed" /\ r.verdict = "unknown"
      BY DEF Lookup
    <3> HIDE DEF r, s
    <3> QED
      BY <1>3, <3>1, <3>2
  <2>2. CASE ~(s = Documentation /\ version.found = "absent")
    <3> DEFINE r == [to EXCEPT !.phase = "probe config", !.on = l]
    <3>1. lookup' = [lookup EXCEPT ![l] = r] /\ probe' = [probe EXCEPT ![s] = l]
      BY <1>6, <2>2 DEF Ask
    <3>2. /\ r \in Lookup /\ r.key = to.key /\ r.from = to.from /\ r.live = TRUE
          /\ r.phase = "probe config"
      BY DEF Lookup
    <3> HIDE DEF r, s
    <3> QED
      BY <1>3, <1>6, <3>1, <3>2
  <2> QED
    BY <2>1, <2>2
<1> QED
  BY <1>4, <1>5, <1>6

-----------------------------------------------------------------------------
(* The probes *)

\* A probe that is over tells whoever waits for it what was found out, and that
\* is what is known of the source from then on.
LEMMA ProbeSettlesDocs ==
  ASSUME DocsInv, NEW l \in Lookups, IsProbing(lookup[l]),
         NEW verdict \in {"unknown", "present", "absent"}, ProbeSettles(l, verdict),
         UNCHANGED <<login, signedIn, cache>>,
         capability' \in [Sources -> [by: Login, found: {"unknown", "present", "absent"}]],
         probe' \in [Sources -> Lookups \cup {None}],
         ~lookup[l].live => verdict = "unknown" /\ probe' = probe,
         lookup[l].live => probe' = [probe EXCEPT ![SourceOf(lookup[l])] = None],
         verdict = "unknown" => capability' = capability,
         verdict # "unknown" =>
            /\ \A t \in Sources : t # SourceOf(lookup[l]) => capability'[t] = capability[t]
            /\ capability'[SourceOf(lookup[l])].found = verdict
            /\ capability'[SourceOf(lookup[l])].by \in {0, Sent} /\ signedIn
  PROVE  DocsInv'
<1> DEFINE s == SourceOf(lookup[l])
<1>0. /\ lookup \in [Lookups -> Lookup] /\ probe \in [Sources -> Lookups \cup {None}]
      /\ capability \in [Sources -> [by: Login, found: {"unknown", "present", "absent"}]]
      /\ Sent' = Sent
  BY DEF DocsInv, DocsTypeOK, Sent
<1>1. s \in Sources
  <2>1. lookup[l].key \in Keys /\ LookupOK(l, lookup[l]) /\ lookup[l].phase # "idle"
    BY <1>0 DEF DocsInv, Lookup, IsProbing
  <2> QED
    BY <2>1, SourceType DEF LookupOK, SourceOf
<1>2. lookup[l].live => probe[s] = l /\ capability[s].found = "unknown"
  <2>1. LookupOK(l, lookup[l]) /\ lookup[l].phase # "idle" /\ l # None
    BY CatalogAssumption DEF DocsInv, IsProbing
  <2>2. lookup[l].live => probe[s] = l
    BY <2>1 DEF LookupOK, Progress
  <2> QED
    BY <1>1, <2>1, <2>2 DEF DocsInv
<1> DEFINE told(m) == m = l \/ (lookup[m].phase = "waiting" /\ lookup[m].on = l)
<1>3. ASSUME NEW m \in Lookups, ~told(m) PROVE lookup'[m] = lookup[m]
  BY <1>3 DEF ProbeSettles
<1>4. ASSUME NEW m \in Lookups, told(m)
      PROVE  /\ lookup'[m] \in Lookup /\ lookup'[m].phase = "probed"
             /\ lookup'[m].verdict = verdict /\ lookup'[m].key = lookup[m].key
             /\ lookup'[m].live = lookup[m].live /\ lookup'[m].from = lookup[m].from
  <2>1. lookup'[m] = [lookup[m] EXCEPT !.phase = "probed", !.on = None, !.by = 0,
                                       !.verdict = verdict]
    BY <1>4 DEF ProbeSettles
  <2>2. lookup[m] \in Lookup
    BY <1>0
  <2> QED
    BY <2>1, <2>2, NoLogin DEF Lookup
<1>5. DocsTypeOK'
  <2>1. \A m \in Lookups : lookup'[m] \in Lookup
    BY <1>0, <1>3, <1>4
  <2>2. lookup' \in [Lookups -> Lookup]
    BY <2>1 DEF ProbeSettles
  <2> QED
    BY <2>2 DEF DocsInv, DocsTypeOK
<1> HIDE DEF s, told
<1>6. \A t \in Sources : capability[t].found # "unknown" => capability'[t].found = capability[t].found
  BY <1>2 DEF s
<1>7. ASSUME NEW k \in Keys, NEW answer, Confirmed(k, answer) PROVE Confirmed(k, answer)'
  <2>1. \A i \in 1..Len(SourcesOf[k]) : SourcesOf[k][i] \in Sources
    BY SourceType
  <2> QED
    BY <1>6, <1>7, <2>1 DEF Confirmed
<1>8. \A t \in Sources : /\ capability'[t].by \in {0, Sent'}
                         /\ capability'[t].found # "unknown" => signedIn'
  BY <1>0, <1>1 DEF DocsInv, s
<1>9. ASSUME NEW m \in Lookups, lookup[m].phase # "idle"
      PROVE  lookup'[m].phase # "idle" /\ lookup'[m].key = lookup[m].key
             /\ lookup'[m].live = lookup[m].live /\ lookup'[m].from = lookup[m].from
  BY <1>3, <1>4, <1>9
<1>10. \A m \in Lookups : /\ lookup'[m].key = lookup[m].key
                          /\ Active(lookup'[m]) <=> Active(lookup[m])
  <2>1. told(l) /\ \A m \in Lookups : told(m) => lookup[m].phase # "idle"
    BY DEF told, IsProbing
  <2> QED
    BY <1>3, <1>4, <2>1 DEF Active
<1>11. ASSUME NEW t \in Sources, probe'[t] # None
       PROVE  /\ IsProbing(lookup'[probe'[t]]) /\ lookup'[probe'[t]].live
              /\ SourceOf(lookup'[probe'[t]]) = t /\ capability'[t].found = "unknown"
  <2>1. probe'[t] = probe[t] /\ (lookup[l].live => t # s)
    BY <1>0, <1>1, <1>11 DEF s
  <2>2. /\ probe[t] \in Lookups /\ IsProbing(lookup[probe[t]]) /\ lookup[probe[t]].live
        /\ SourceOf(lookup[probe[t]]) = t /\ capability[t].found = "unknown"
    BY <1>0, <1>11, <2>1 DEF DocsInv
  <2>3. probe[t] # l
    BY <2>1, <2>2 DEF s
  <2>4. lookup'[probe[t]] = lookup[probe[t]]
    BY <1>3, <2>2, <2>3 DEF told, IsProbing
  <2>5. capability'[t].found = "unknown"
    BY <1>1, <2>1, <2>2 DEF s
  <2> QED
    BY <2>1, <2>2, <2>4, <2>5
<1>12. ASSUME NEW m \in Lookups PROVE LookupOK(m, lookup[m])'
  <2>0. LookupOK(m, lookup[m]) /\ lookup[m].key \in Keys
    BY <1>0 DEF DocsInv, Lookup
  <2>1. CASE told(m)
    <3>1. /\ lookup[m].phase # "idle" /\ lookup[m].from \in 1..Len(SourcesOf[lookup[m].key])
          /\ lookup[m].live => SourceOf(lookup[m]) = s /\ Progress(m, lookup[m])
      BY <2>0, <2>1 DEF told, LookupOK, IsProbing, s
    <3>2. lookup[m].live /\ verdict # "unknown" => capability'[SourceOf(lookup'[m])].found = verdict
      BY <1>4, <2>1, <3>1 DEF SourceOf, s
    <3>3. SourceOf(lookup'[m]) = SourceOf(lookup[m]) /\ ~IsProbing(lookup'[m])
      BY <1>4, <2>1 DEF SourceOf, IsProbing
    <3>5. SourcesOf[lookup[m].key][1] \in Sources
      BY <2>0, FirstSource
    <3>6. lookup[m].live /\ lookup[m].from = 2 =>
            capability'[SourcesOf[lookup[m].key][1]].found = "absent"
      BY <1>6, <3>1, <3>5 DEF Progress
    <3>7. lookup[m].live => Progress(m, lookup[m])'
      BY <1>4, <2>1, <3>1, <3>2, <3>3, <3>6 DEF Progress
    <3> QED
      BY <1>4, <2>1, <3>1, <3>7 DEF LookupOK
  <2>2. CASE ~told(m)
    <3>0. lookup'[m] = lookup[m]
      BY <1>3, <2>2
    <3> SUFFICES ASSUME lookup[m].phase # "idle" PROVE LookupOK(m, lookup[m])'
      BY <3>0 DEF LookupOK
    <3>1. lookup[m].phase = "waiting" => lookup'[lookup[m].on] = lookup[lookup[m].on]
      <4>1. lookup[m].phase = "waiting" =>
              lookup[m].on \in Lookups /\ IsProbing(lookup[lookup[m].on]) /\ lookup[m].on # l
        BY <2>0, <2>2 DEF LookupOK, told
      <4> QED
        BY <1>3, <4>1 DEF told, IsProbing
    <3>2. ASSUME lookup[m].live PROVE Progress(m, lookup[m])'
      <4>1. Progress(m, lookup[m])
        BY <2>0, <3>2 DEF LookupOK
      <4>2. SourceOf(lookup[m]) \in Sources /\ SourcesOf[lookup[m].key][1] \in Sources
        BY <2>0, SourceType, FirstSource DEF LookupOK, SourceOf
      <4>3. IsProbing(lookup[m]) => probe'[SourceOf(lookup[m])] = m
        <5>1. IsProbing(lookup[m]) => probe[SourceOf(lookup[m])] = m /\ m # l
          BY <2>2, <4>1 DEF Progress, told
        <5> QED
          BY <1>0, <1>1, <1>2, <4>2, <5>1 DEF s
      <4>4. lookup[m].phase = "settled" /\ lookup[m].answer.lasting =>
              Confirmed(lookup[m].key, lookup[m].answer)'
        <5> SUFFICES ASSUME lookup[m].phase = "settled", lookup[m].answer.lasting
                     PROVE  Confirmed(lookup[m].key, lookup[m].answer)'
          OBVIOUS
        <5>1. Confirmed(lookup[m].key, lookup[m].answer)
          BY <4>1 DEF Progress
        <5> QED
          BY <1>7, <2>0, <3>0, <5>1
      <4>5. /\ cache'[lookup[m].key] = m \/ cache'[lookup[m].key] \in Answer
            /\ lookup[m].phase \in {"probe sent", "row sent"} => lookup[m].by \in {0, Sent'}
            /\ lookup[m].phase = "settled" => lookup[m].answer.by \in {0, Sent'}
        BY <1>0, <4>1 DEF Progress
      <4>6. /\ lookup[m].phase = "probed" /\ lookup[m].verdict # "unknown" =>
                 capability'[SourceOf(lookup[m])].found = lookup[m].verdict
            /\ lookup[m].from = 2 \/ lookup[m].phase = "next" =>
                 capability'[SourcesOf[lookup[m].key][1]].found = "absent"
            /\ lookup[m].phase \in {"row config", "row sent"} =>
                 capability'[SourceOf(lookup[m])].found = "present"
        BY <1>6, <4>1, <4>2 DEF Progress
      <4> QED
        BY <3>0, <4>3, <4>4, <4>5, <4>6 DEF Progress
    <3> QED
      BY <2>0, <3>0, <3>1, <3>2 DEF LookupOK
  <2> QED
    BY <2>1, <2>2
<1>13. \A k \in Keys : cache'[k] \in Lookups =>
                         Active(lookup'[cache'[k]]) /\ lookup'[cache'[k]].key = k
  BY <1>10 DEF DocsInv
<1>14. \A k \in Keys : cache'[k] \in Answer => (cache[k].by)' \in {0, Sent} /\ Confirmed(k, cache[k])'
  BY <1>7 DEF DocsInv
<1>15. \A m, n \in Lookups : Active(lookup'[m]) /\ Active(lookup'[n]) /\ m # n =>
                             lookup'[m].key # lookup'[n].key
  BY <1>10 DEF DocsInv
<1> QED
  BY <1>0, <1>5, <1>8, <1>11, <1>12, <1>13, <1>14, <1>15 DEF DocsInv

-----------------------------------------------------------------------------
(* The steps of a lookup *)

LEMMA StartLookupDocs ==
  ASSUME DocsInv, NEW l \in Lookups, NEW k \in Keys, StartLookup(l, k)
  PROVE  DocsInv'
<1> DEFINE to == [IdleLookup EXCEPT !.key = k, !.live = TRUE]
<1>1. to \in Lookup /\ to.live = TRUE /\ to.key = k /\ to.from = 1
  BY IdleType DEF Lookup, IdleLookup
<1>2. Ask(l, to) /\ UNCHANGED <<login, signedIn, capability>>
  BY DEF StartLookup, session
<1>3. /\ cache \in [Keys -> Lookups \cup {None} \cup Answer] /\ cache[k] = None
      /\ cache' = [cache EXCEPT ![k] = l] /\ lookup[l].phase = "idle"
      /\ lookup \in [Lookups -> Lookup]
  BY DEF DocsInv, DocsTypeOK, StartLookup
<1> HIDE DEF to
<1>4. /\ cache' \in [Keys -> Lookups \cup {None} \cup Answer] /\ cache'[to.key] = l
      /\ ~IsProbing(lookup[l])
  BY <1>1, <1>3 DEF IsProbing
<1>5. ASSUME NEW m \in Lookups, Active(lookup[m]) PROVE lookup[m].key # to.key
  <2>1. Progress(m, lookup[m])
    BY <1>5 DEF DocsInv, Active, LookupOK
  <2>2. cache[lookup[m].key] # None
    BY <2>1, CatalogAssumption DEF Progress
  <2> QED
    BY <1>1, <1>3, <2>2
<1>6. ASSUME NEW q \in Keys
      PROVE  \/ cache'[q] = cache[q] /\ cache[q] # l
             \/ cache[q] \in {None, l} /\ cache'[q] = l /\ to.key = q
  <2>1. cache[q] # l
    BY <1>3 DEF DocsInv, Active
  <2> QED
    BY <1>1, <1>3, <2>1
<1>7. to.from \in 1..Len(SourcesOf[to.key]) /\ to.from # 2
  BY <1>1, FirstSource
<1> QED
  BY <1>1, <1>2, <1>4, <1>5, <1>6, <1>7, AskDocs

LEMMA NextSourceDocs ==
  ASSUME DocsInv, NEW l \in Lookups, NextSource(l)
  PROVE  DocsInv'
<1>0. lookup \in [Lookups -> Lookup] /\ lookup[l] \in Lookup /\ LookupOK(l, lookup[l])
      /\ lookup[l].phase = "next"
  BY DEF DocsInv, DocsTypeOK, NextSource
<1>1. CASE ~lookup[l].live
  <2>1. Resolves(l, Unavailable(1, FALSE)) /\ UNCHANGED <<login, signedIn, capability, probe, cache>>
    BY <1>1 DEF NextSource, session
  <2>2. Unavailable(1, FALSE) \in Answer
    BY NoLogin DEF Unavailable, Answer
  <2> QED
    BY <1>0, <1>1, <2>1, <2>2, ResolvesDocs
<1>2. CASE lookup[l].live
  <2> DEFINE to == [lookup[l] EXCEPT !.from = 2]
  <2>1. to \in Lookup /\ to.live = lookup[l].live /\ to.key = lookup[l].key /\ to.from = 2
    BY <1>0, SecondType
  <2>2. Ask(l, to) /\ UNCHANGED <<login, signedIn, capability, cache>>
    BY <1>2 DEF NextSource, session
  <2> HIDE DEF to
  <2>3. Len(SourcesOf[lookup[l].key]) = 2
    <3>1. /\ lookup[l].from \in 1..Len(SourcesOf[lookup[l].key])
          /\ lookup[l].from < Len(SourcesOf[lookup[l].key])
      BY <1>0 DEF LookupOK
    <3>2. lookup[l].key \in Keys
      BY <1>0 DEF Lookup
    <3>3. Len(SourcesOf[lookup[l].key]) \in 1..2
      BY <3>2, CatalogAssumption
    <3> QED
      BY <3>1, <3>3, BelowLast
  <2>4. Progress(l, lookup[l])
    BY <1>0, <1>2 DEF LookupOK
  <2>5. capability[SourcesOf[to.key][1]].found = "absent"
    BY <1>0, <2>1, <2>4 DEF Progress
  <2>6. \A m \in Lookups : m # l /\ Active(lookup[m]) => lookup[m].key # to.key
    <3>1. Active(lookup[l])
      BY <1>0, <1>2 DEF Active
    <3> QED
      BY <2>1, <3>1 DEF DocsInv
  <2>7. /\ cache' \in [Keys -> Lookups \cup {None} \cup Answer]
        /\ cache'[to.key] = l \/ cache'[to.key] \in Answer
    BY <2>1, <2>2, <2>4 DEF Progress, DocsInv, DocsTypeOK
  <2>8. ASSUME NEW k \in Keys
        PROVE  \/ cache'[k] = cache[k] /\ cache[k] # l
               \/ cache[k] \in {None, l} /\ cache'[k] = l /\ to.key = k
    BY <2>1, <2>2 DEF DocsInv
  <2>9. ~IsProbing(lookup[l]) /\ to.from \in 1..Len(SourcesOf[to.key])
    BY <1>0, <2>1, <2>3 DEF IsProbing
  <2> QED
    BY <1>2, <2>1, <2>2, <2>5, <2>6, <2>7, <2>8, <2>9, AskDocs
<1> QED
  BY <1>1, <1>2

LEMMA ProbeConfiguredDocs ==
  ASSUME SessionInv, DocsInv, NEW l \in Lookups, ProbeConfigured(l)
  PROVE  DocsInv'
<1>0. /\ lookup \in [Lookups -> Lookup] /\ lookup[l] \in Lookup /\ LookupOK(l, lookup[l])
      /\ lookup[l].phase = "probe config" /\ IsProbing(lookup[l])
      /\ UNCHANGED <<login, signedIn, capability, probe, cache>>
  BY DEF DocsInv, DocsTypeOK, ProbeConfigured, IsProbing, session
<1>1. CASE lookup[l].live
  <2>1. lookup' = [lookup EXCEPT ![l] = [lookup[l] EXCEPT !.phase = "probe sent", !.by = Sent]]
    BY <1>0, <1>1 DEF ProbeConfigured
  <2>2. Sent \in Login /\ Sent' = Sent
    BY <1>0, NoLogin DEF Sent, SessionInv
  <2>3. /\ lookup'[l] \in Lookup /\ lookup'[l].phase = "probe sent" /\ lookup'[l].by = Sent
        /\ lookup'[l].key = lookup[l].key /\ lookup'[l].live = lookup[l].live
        /\ lookup'[l].from = lookup[l].from
    BY <1>0, <2>1, <2>2 DEF Lookup
  <2>4. \A m \in Lookups : m # l => lookup'[m] = lookup[m]
    BY <1>0, <2>1
  <2>5. lookup' \in [Lookups -> Lookup]
    BY <1>0, <2>1, <2>3, <2>4
  <2>6. IsProbing(lookup'[l]) /\ SourceOf(lookup'[l]) = SourceOf(lookup[l])
    BY <2>3 DEF IsProbing, SourceOf
  <2>7. LookupOK(l, lookup[l])'
    <3>1. Progress(l, lookup[l])
      BY <1>0, <1>1 DEF LookupOK
    <3>2. Progress(l, lookup[l])'
      BY <1>0, <2>2, <2>3, <2>6, <3>1 DEF Progress
    <3> QED
      BY <1>0, <2>3, <3>2 DEF LookupOK
  <2> QED
    BY <1>0, <2>3, <2>4, <2>5, <2>6, <2>7, StepOfOne
<1>2. CASE ~lookup[l].live
  BY <1>0, <1>2, ProbeSettlesDocs DEF ProbeConfigured, DocsInv, DocsTypeOK
<1> QED
  BY <1>1, <1>2

LEMMA ProbeAnswersDocs ==
  ASSUME SessionInv, DocsInv, NEW l \in Lookups,
         NEW verdict \in {"unknown", "present", "absent"}, ProbeAnswers(l, verdict)
  PROVE  DocsInv'
<1> DEFINE s == SourceOf(lookup[l])
<1>0. /\ DocsTypeOK /\ lookup[l] \in Lookup /\ LookupOK(l, lookup[l])
      /\ lookup[l].phase = "probe sent" /\ IsProbing(lookup[l]) /\ lookup[l].live
      /\ UNCHANGED <<login, signedIn, cache>> /\ ProbeSettles(l, verdict)
  BY DEF DocsInv, DocsTypeOK, ProbeAnswers, IsProbing, session
<1>1. s \in Sources
  <2>1. lookup[l].key \in Keys
    BY <1>0 DEF Lookup
  <2> QED
    BY <1>0, <2>1, SourceType DEF LookupOK, SourceOf
<1>2. /\ probe' = [probe EXCEPT ![s] = None]
      /\ verdict = "unknown" => capability' = capability
      /\ verdict # "unknown" =>
           /\ capability' = [capability EXCEPT ![s] = [by |-> lookup[l].by, found |-> verdict]]
           /\ lookup[l].by # 0
  BY DEF ProbeAnswers, Source, SourceOf
<1>3. lookup[l].by \in Login /\ lookup[l].by \in {0, Sent}
  BY <1>0 DEF LookupOK, Progress, Lookup
<1>4. verdict # "unknown" => signedIn
  BY <1>2, <1>3 DEF Sent
<1> HIDE DEF s
<1>5. probe' \in [Sources -> Lookups \cup {None}]
  BY <1>0, <1>1, <1>2 DEF DocsTypeOK
<1>6. capability' \in [Sources -> [by: Login, found: {"unknown", "present", "absent"}]]
  <2>1. [by |-> lookup[l].by, found |-> verdict] \in [by: Login, found: {"unknown", "present", "absent"}]
    BY <1>3
  <2> QED
    BY <1>0, <1>1, <1>2, <2>1 DEF DocsTypeOK
<1>7. verdict # "unknown" =>
        /\ \A t \in Sources : t # s => capability'[t] = capability[t]
        /\ capability'[s].found = verdict /\ capability'[s].by \in {0, Sent}
  <2> SUFFICES ASSUME verdict # "unknown"
               PROVE  /\ \A t \in Sources : t # s => capability'[t] = capability[t]
                      /\ capability'[s].found = verdict /\ capability'[s].by \in {0, Sent}
    OBVIOUS
  <2>1. capability'[s] = [by |-> lookup[l].by, found |-> verdict]
        /\ \A t \in Sources : t # s => capability'[t] = capability[t]
    BY <1>0, <1>1, <1>2 DEF DocsTypeOK
  <2> QED
    BY <1>3, <2>1
<1> QED
  BY <1>0, <1>2, <1>4, <1>5, <1>6, <1>7, ProbeSettlesDocs DEF s

LEMMA ProbeIsStaleDocs ==
  ASSUME DocsInv, NEW l \in Lookups, ProbeIsStale(l)
  PROVE  DocsInv'
<1>1. /\ IsProbing(lookup[l]) /\ ~lookup[l].live /\ ProbeSettles(l, "unknown")
      /\ UNCHANGED <<login, signedIn, capability, probe, cache>>
  BY DEF ProbeIsStale, IsProbing, session
<1> QED
  BY <1>1, ProbeSettlesDocs DEF DocsInv, DocsTypeOK

LEMMA ProbedDocs ==
  ASSUME SessionInv, DocsInv, NEW l \in Lookups, Probed(l)
  PROVE  DocsInv'
<1> DEFINE r == lookup[l]
           k == lookup[l].key
           i == lookup[l].from
           verdict == IF lookup[l].live THEN lookup[l].verdict ELSE "unknown"
<1>0. /\ lookup \in [Lookups -> Lookup] /\ r \in Lookup /\ LookupOK(l, lookup[l])
      /\ r.phase = "probed" /\ UNCHANGED <<login, signedIn, capability, probe, cache>>
  BY DEF DocsInv, DocsTypeOK, Probed, session
<1>1. k \in Keys /\ i \in 1..2 /\ i \in 1..Len(SourcesOf[k]) /\ Len(SourcesOf[k]) \in 1..2
  BY <1>0, CatalogAssumption DEF LookupOK, Lookup
<1>2. \A j \in 1..2, lasting \in BOOLEAN :
         /\ Unavailable(j, lasting) \in Answer
         /\ Unavailable(j, lasting).by = 0 /\ Unavailable(j, lasting).lasting = lasting
         /\ Unavailable(j, lasting).status = "unavailable"
  BY NoLogin DEF Unavailable, Answer
<1>3. r.live => /\ i = 2 => capability[SourcesOf[k][1]].found = "absent"
                /\ r.verdict # "unknown" => capability[SourcesOf[k][i]].found = r.verdict
  BY <1>0 DEF LookupOK, Progress, SourceOf
<1>4. CASE verdict = "unknown" /\ Resolves(l, Unavailable(i, FALSE))
  BY <1>0, <1>1, <1>2, <1>4, ResolvesDocs
<1>5. CASE /\ verdict = "absent" /\ i < Len(SourcesOf[k])
           /\ lookup' = [lookup EXCEPT ![l].phase = "next", ![l].verdict = "unknown"]
  <2>1. /\ lookup'[l] \in Lookup /\ lookup'[l].phase = "next" /\ lookup'[l].key = k
        /\ lookup'[l].live = r.live /\ lookup'[l].from = i
    BY <1>0, <1>5 DEF Lookup
  <2>2. \A m \in Lookups : m # l => lookup'[m] = lookup[m]
    BY <1>0, <1>5
  <2>3. lookup' \in [Lookups -> Lookup]
    BY <1>0, <1>5, <2>1, <2>2
  <2>4. i = 1
    BY <1>1, <1>5, BelowLast
  <2>5. capability[SourcesOf[k][1]].found = "absent"
    BY <1>3, <1>5, <2>4
  <2>6. LookupOK(l, lookup[l])'
    <3>1. r.live => Progress(l, r)
      BY <1>0 DEF LookupOK
    <3>2. r.live => Progress(l, lookup[l])'
      BY <1>0, <2>1, <2>5, <3>1 DEF Progress, IsProbing
    <3> QED
      BY <1>1, <1>5, <2>1, <3>2 DEF LookupOK
  <2>7. ~IsProbing(lookup[l])
    BY <1>0 DEF IsProbing
  <2> QED
    BY <1>0, <2>1, <2>2, <2>3, <2>6, <2>7, StepOfOne
<1>6. CASE verdict = "absent" /\ i = Len(SourcesOf[k]) /\ Resolves(l, Unavailable(i, TRUE))
  <2>1. \A j \in 1..Len(SourcesOf[k]) : capability[SourcesOf[k][j]].found = "absent"
    BY <1>1, <1>3, <1>6
  <2>2. Confirmed(k, Unavailable(i, TRUE))
    BY <1>1, <1>2, <2>1 DEF Confirmed
  <2> QED
    BY <1>0, <1>1, <1>2, <1>6, <2>2, ResolvesDocs
<1>7. CASE /\ verdict = "present"
           /\ lookup' = [lookup EXCEPT ![l].phase = "row config", ![l].verdict = "unknown"]
  <2>1. /\ lookup'[l] \in Lookup /\ lookup'[l].phase = "row config" /\ lookup'[l].key = k
        /\ lookup'[l].live = r.live /\ lookup'[l].from = i
    BY <1>0, <1>7 DEF Lookup
  <2>2. \A m \in Lookups : m # l => lookup'[m] = lookup[m]
    BY <1>0, <1>7
  <2>3. lookup' \in [Lookups -> Lookup]
    BY <1>0, <1>7, <2>1, <2>2
  <2>4. capability[SourcesOf[k][i]].found = "present"
    BY <1>3, <1>7
  <2>5. LookupOK(l, lookup[l])'
    <3>1. r.live => Progress(l, r)
      BY <1>0 DEF LookupOK
    <3>2. r.live => Progress(l, lookup[l])'
      BY <1>0, <2>1, <2>4, <3>1 DEF Progress, IsProbing, SourceOf
    <3> QED
      BY <1>1, <2>1, <3>2 DEF LookupOK
  <2>6. ~IsProbing(lookup[l])
    BY <1>0 DEF IsProbing
  <2> QED
    BY <1>0, <2>1, <2>2, <2>3, <2>5, <2>6, StepOfOne
<1>8. CASE /\ verdict = "present"
           /\ Resolves(l, [status |-> "missing", from |-> i, by |-> login, lasting |-> TRUE])
  <2> DEFINE answer == [status |-> "missing", from |-> i, by |-> login, lasting |-> TRUE]
  <2>1. answer \in Answer
    BY <1>1 DEF SessionInv, Answer
  <2>2. capability[SourcesOf[k][i]].found = "present" /\ SourcesOf[k][i] \in Sources /\ r.live
    BY <1>1, <1>3, <1>8, SourceType
  <2>3. signedIn
    BY <2>2 DEF DocsInv
  <2>4. answer.by = Sent /\ answer.from = i /\ answer.status = "missing"
    BY <2>3 DEF Sent
  <2> HIDE DEF answer
  <2>5. Confirmed(k, answer)
    BY <1>1, <1>3, <2>2, <2>4 DEF Confirmed
  <2> QED
    BY <1>0, <1>8, <2>1, <2>4, <2>5, ResolvesDocs DEF answer
<1> QED
  BY <1>4, <1>5, <1>6, <1>7, <1>8 DEF Probed

LEMMA RowConfiguredDocs ==
  ASSUME SessionInv, DocsInv, NEW l \in Lookups, RowConfigured(l)
  PROVE  DocsInv'
<1>0. /\ lookup \in [Lookups -> Lookup] /\ lookup[l] \in Lookup /\ LookupOK(l, lookup[l])
      /\ lookup[l].phase = "row config" /\ ~IsProbing(lookup[l])
      /\ UNCHANGED <<login, signedIn, capability, probe, cache>>
  BY DEF DocsInv, DocsTypeOK, RowConfigured, IsProbing, session
<1>1. CASE lookup[l].live
  <2>1. lookup' = [lookup EXCEPT ![l] = [lookup[l] EXCEPT !.phase = "row sent", !.by = Sent]]
    BY <1>0, <1>1 DEF RowConfigured
  <2>2. Sent \in Login /\ Sent' = Sent
    BY <1>0, NoLogin DEF Sent, SessionInv
  <2>3. /\ lookup'[l] \in Lookup /\ lookup'[l].phase = "row sent" /\ lookup'[l].by = Sent
        /\ lookup'[l].key = lookup[l].key /\ lookup'[l].live = lookup[l].live
        /\ lookup'[l].from = lookup[l].from
    BY <1>0, <2>1, <2>2 DEF Lookup
  <2>4. \A m \in Lookups : m # l => lookup'[m] = lookup[m]
    BY <1>0, <2>1
  <2>5. lookup' \in [Lookups -> Lookup]
    BY <1>0, <2>1, <2>3, <2>4
  <2>6. ~IsProbing(lookup'[l]) /\ SourceOf(lookup'[l]) = SourceOf(lookup[l])
    BY <2>3 DEF IsProbing, SourceOf
  <2>7. LookupOK(l, lookup[l])'
    <3>1. Progress(l, lookup[l])
      BY <1>0, <1>1 DEF LookupOK
    <3>2. Progress(l, lookup[l])'
      BY <1>0, <2>2, <2>3, <2>6, <3>1 DEF Progress
    <3> QED
      BY <1>0, <2>3, <3>2 DEF LookupOK
  <2> QED
    BY <1>0, <2>3, <2>4, <2>5, <2>7, StepOfOne
<1>2. CASE ~lookup[l].live
  <2>1. Resolves(l, Unavailable(lookup[l].from, FALSE))
    BY <1>2 DEF RowConfigured
  <2>2. lookup[l].from \in 1..2
    BY <1>0 DEF Lookup
  <2>3. Unavailable(lookup[l].from, FALSE) \in Answer
    BY <2>2, NoLogin DEF Unavailable, Answer
  <2> QED
    BY <1>0, <1>2, <2>1, <2>3, ResolvesDocs
<1> QED
  BY <1>1, <1>2

LEMMA RowAnswersDocs ==
  ASSUME DocsInv, NEW l \in Lookups, NEW status \in {"found", "missing", "unavailable"},
         RowAnswers(l, status)
  PROVE  DocsInv'
<1> DEFINE k == lookup[l].key
           i == lookup[l].from
<1>0. /\ lookup[l] \in Lookup /\ LookupOK(l, lookup[l]) /\ lookup[l].phase = "row sent"
      /\ UNCHANGED <<login, signedIn, capability, probe, cache>>
  BY DEF DocsInv, DocsTypeOK, RowAnswers, session
<1>1. k \in Keys /\ i \in 1..2 /\ i \in 1..Len(SourcesOf[k]) /\ Len(SourcesOf[k]) \in 1..2
  BY <1>0, CatalogAssumption DEF LookupOK, Lookup
<1>2. CASE status = "unavailable"
  <2>1. Unavailable(i, FALSE) \in Answer /\ Unavailable(i, FALSE).by = 0
        /\ ~Unavailable(i, FALSE).lasting
    BY <1>1, NoLogin DEF Unavailable, Answer
  <2> QED
    BY <1>0, <1>2, <2>1, ResolvesDocs DEF RowAnswers
<1>3. CASE status # "unavailable"
  <2> DEFINE answer == [status |-> status, from |-> i, by |-> lookup[l].by, lasting |-> TRUE]
  <2>1. answer \in Answer
    BY <1>0, <1>1 DEF Answer, Lookup
  <2>2. lookup[l].live /\ Resolves(l, answer)
    BY <1>3 DEF RowAnswers
  <2>3. Progress(l, lookup[l])
    BY <1>0, <2>2 DEF LookupOK
  <2>4. answer.by \in {0, Sent} /\ answer.from = i
    BY <1>0, <2>3 DEF Progress
  <2>5. /\ i = 2 => capability[SourcesOf[k][1]].found = "absent"
        /\ capability[SourcesOf[k][i]].found = "present"
    BY <1>0, <2>3 DEF Progress, SourceOf
  <2>6. answer.status # "unavailable"
    BY <1>3
  <2> HIDE DEF answer
  <2>7. Confirmed(k, answer)
    BY <1>1, <2>4, <2>5, <2>6 DEF Confirmed
  <2> QED
    BY <1>0, <2>1, <2>2, <2>4, <2>7, ResolvesDocs
<1> QED
  BY <1>2, <1>3

\* What a promise leaves in the cache was confirmed, under both of its names.
LEMMA LookupSettlesDocs ==
  ASSUME DocsInv, NEW l \in Lookups, LookupSettles(l)
  PROVE  DocsInv'
<1> DEFINE k == lookup[l].key
           answer == lookup[l].answer
<1>0. /\ DocsTypeOK /\ lookup[l] \in Lookup /\ LookupOK(l, lookup[l])
      /\ lookup[l].phase = "settled" /\ lookup' = [lookup EXCEPT ![l] = IdleLookup]
      /\ UNCHANGED <<login, signedIn, capability, probe>>
  BY DEF DocsInv, DocsTypeOK, LookupSettles, session
<1>1. k \in Keys /\ Canonical[k] \in Keys /\ answer \in Answer
      /\ SourcesOf[Canonical[k]] = SourcesOf[k]
  BY <1>0, CatalogAssumption DEF Lookup
<1>2. None \notin Lookups /\ \A a \in Answer : a \notin Lookups /\ a # None
  BY CatalogAssumption
<1>3. /\ lookup' \in [Lookups -> Lookup] /\ lookup'[l].phase = "idle"
      /\ \A m \in Lookups : m # l => lookup'[m] = lookup[m]
  <2>1. IdleLookup.phase = "idle"
    BY DEF IdleLookup
  <2> QED
    BY <1>0, <2>1, IdleType DEF DocsTypeOK
<1>4. LookupOK(l, lookup[l])' /\ ~Active(lookup'[l]) /\ ~IsProbing(lookup[l])
  BY <1>0, <1>3 DEF LookupOK, Active, IsProbing
<1>5. \A q \in Keys : cache[q] = l => q = k /\ lookup[l].live
  BY DEF DocsInv, Active
<1>6. cache[k] = l => answer.by \in {0, Sent} /\ (answer.lasting => Confirmed(k, answer))
  BY <1>0, <1>1, <1>5 DEF LookupOK, Progress
<1>7. Confirmed(k, answer) => Confirmed(Canonical[k], answer)
  BY <1>1 DEF Confirmed
<1>8. \A q \in Keys, a \in Answer : Confirmed(q, a) => Confirmed(q, a)'
  BY <1>0 DEF Confirmed
<1> HIDE DEF k, answer
<1>9. ASSUME cache' # cache
      PROVE  /\ cache[k] = l
             /\ \/ cache' = [cache EXCEPT ![k] = None]
                \/ answer.lasting /\ cache' = [cache EXCEPT ![k] = answer]
                \/ answer.lasting /\ cache' = [cache EXCEPT ![k] = answer, ![Canonical[k]] = answer]
  BY <1>9 DEF LookupSettles, k, answer
<1>10. cache \in [Keys -> Lookups \cup {None} \cup Answer]
  BY <1>0 DEF DocsTypeOK
<1>11. \A q \in Keys :
         \/ cache'[q] = cache[q] /\ q # k
         \/ cache'[q] = cache[q] /\ cache[k] # l
         \/ cache[k] = l /\ cache'[q] = None /\ q = k
         \/ cache[k] = l /\ cache'[q] = answer /\ answer.lasting /\ q \in {k, Canonical[k]}
  <2>1. CASE cache' = cache
    <3>1. cache[k] # l
      BY <1>1, <1>2, <1>10, <2>1 DEF LookupSettles, k, answer
    <3> QED
      BY <2>1, <3>1
  <2>2. CASE cache' # cache
    BY <1>1, <1>9, <1>10, <2>2
  <2> QED
    BY <2>1, <2>2
<1>12. cache' \in [Keys -> Lookups \cup {None} \cup Answer]
  <2>1. CASE cache' = cache
    BY <1>10, <2>1
  <2>2. CASE cache' # cache
    BY <1>1, <1>9, <1>10, <2>2
  <2> QED
    BY <2>1, <2>2
<1>13. ASSUME NEW q \in Keys
       PROVE  \/ cache'[q] = cache[q] /\ cache[q] # l
              \/ cache'[q] \in Answer /\ cache'[q].by \in {0, Sent} /\ Confirmed(q, cache[q])'
              \/ cache[q] = l /\ cache'[q] = None
  <2>1. CASE cache'[q] = cache[q] /\ (q # k \/ cache[k] # l)
    BY <1>5, <2>1
  <2>2. CASE cache[k] = l /\ cache'[q] = None /\ q = k
    BY <2>2
  <2>3. CASE cache[k] = l /\ cache'[q] = answer /\ answer.lasting /\ q \in {k, Canonical[k]}
    <3>1. PICK a \in Answer : a = answer
      BY <1>1
    <3>2. Confirmed(q, a)
      BY <1>6, <1>7, <2>3, <3>1
    <3>3. Confirmed(q, a)'
      BY <1>8, <3>2
    <3>4. Confirmed(q, cache[q])'
      BY <2>3, <3>1, <3>3 DEF Confirmed
    <3> QED
      BY <1>1, <1>6, <2>3, <3>4
  <2> QED
    BY <1>11, <2>1, <2>2, <2>3
<1>14. DocsTypeOK'
  BY <1>0, <1>3, <1>12 DEF DocsTypeOK
<1>15. \A t \in Sources : probe'[t] = probe[t]
  BY <1>0
<1> QED
  BY <1>0, <1>3, <1>4, <1>13, <1>14, <1>15, OneLookup

-----------------------------------------------------------------------------
(* The invariant *)

\* No step of a lookup breaks what the lookups promise.
LEMMA LookupStepDocs ==
  ASSUME SessionInv, DocsInv, NEW l \in Lookups, LookupStep(l)
  PROVE  DocsInv'
BY StartLookupDocs, NextSourceDocs, ProbeConfiguredDocs, ProbeIsStaleDocs, ProbeAnswersDocs,
   ProbedDocs, RowConfiguredDocs, RowAnswersDocs, LookupSettlesDocs DEF LookupStep

\* Loads leave the session and the lookups alone, or drop what was looked up.
LEMMA LoadStepRest ==
  ASSUME NEW i \in Loads, LoadStep(i)
  PROVE  UNCHANGED <<login, signedIn>> /\ (UNCHANGED docs \/ NoDocs)
BY DEF LoadStep, LoadVersionOrSchema, LoadReference, LoadColumns, LoadConfigured, LoadIsStale,
       LoadFails, VersionAnswers, SchemaAnswers, SchemaFails, ColumnsAnswer, ReferenceAnswers,
       session

\* Lookups leave the session and the loads alone.
LEMMA LookupStepRest ==
  ASSUME NEW l \in Lookups, LookupStep(l)
  PROVE  UNCHANGED <<session, loads>>
BY DEF LookupStep, StartLookup, NextSource, ProbeConfigured, ProbeIsStale, ProbeAnswers, Probed,
       RowConfigured, RowAnswers, LookupSettles

LEMMA InitInv == Init => IInv
<1> SUFFICES ASSUME Init PROVE IInv
  OBVIOUS
<1>1. SessionInv
  BY NoLogin DEF Init, SessionInv
<1>2. LoadsInv
  <2>1. IdleLoad \in Load /\ IdleLoad.phase = "idle"
    BY NoLogin DEF IdleLoad, Load
  <2>2. load \in [Loads -> Load] /\ \A i \in Loads : LoadOK(load[i])
    BY <2>1 DEF Init, LoadOK
  <2>3. started \in 0..MaxLoads
    BY CatalogAssumption DEF Init
  <2> QED
    BY <2>2, <2>3, NoLogin DEF Init, LoadsInv, LoadsTypeOK, Unread, Unknown
<1>3. DocsInv
  <2>1. IdleLookup.phase = "idle"
    BY DEF IdleLookup
  <2>2. DocsTypeOK
    BY NoLogin, IdleType DEF Init, DocsTypeOK, Unknown
  <2>3. \A l \in Lookups : LookupOK(l, lookup[l]) /\ ~Active(lookup[l])
    BY <2>1 DEF Init, LookupOK, Active
  <2>4. None \notin Lookups /\ None \notin Answer
    BY CatalogAssumption
  <2> QED
    BY <2>2, <2>3, <2>4 DEF Init, DocsInv, Unknown
<1> QED
  BY <1>1, <1>2, <1>3 DEF IInv

LEMMA NextInv == IInv /\ [Next]_vars => IInv'
<1> SUFFICES ASSUME IInv, [Next]_vars PROVE IInv'
  OBVIOUS
<1> USE DEF IInv
<1>1. CASE SignIn
  <2>1. SessionInv'
    BY <1>1, CatalogAssumption DEF SessionInv, SignIn, Login
  <2> QED
    BY <1>1, <2>1, SignInLoads, SignInDocs
<1>2. CASE Invalidate
  <2>1. SessionInv'
    BY <1>2 DEF SessionInv, Invalidate
  <2>2. NoDocs
    BY <1>2 DEF Invalidate
  <2> QED
    BY <1>2, <2>1, <2>2, InvalidateLoads, NoDocsDocs
<1>3. ASSUME NEW i \in Loads, LoadStep(i) PROVE IInv'
  <2>1. UNCHANGED <<login, signedIn>> /\ (UNCHANGED docs \/ NoDocs)
    BY <1>3, LoadStepRest
  <2>2. SessionInv'
    BY <2>1 DEF SessionInv
  <2>3. DocsInv'
    BY <2>1, DocsUntouched, NoDocsDocs
  <2> QED
    BY <1>3, <2>2, <2>3, LoadStepLoads
<1>4. ASSUME NEW l \in Lookups, LookupStep(l) PROVE IInv'
  <2>1. UNCHANGED <<session, loads>>
    BY <1>4, LookupStepRest
  <2>2. SessionInv'
    BY <2>1 DEF SessionInv, session
  <2> QED
    BY <1>4, <2>1, <2>2, LoadsUntouched, LookupStepDocs
<1>5. CASE UNCHANGED vars
  <2>1. SessionInv'
    BY <1>5 DEF SessionInv, vars, session
  <2>2. UNCHANGED <<login, signedIn, docs>> /\ UNCHANGED <<session, loads>>
    BY <1>5 DEF vars, session
  <2> QED
    BY <2>1, <2>2, LoadsUntouched, DocsUntouched
<1> QED
  BY <1>1, <1>2, <1>3, <1>4, <1>5 DEF Next

(* The inductive invariant holds in every reachable state: what is stored, or *)
(* may still be stored, was asked for under the login that is in force        *)
(* (connectionGeneration and docGeneration of schema-catalog-service.ts).     *)
THEOREM Invariance == Spec => []IInv
BY InitInv, NextInv, PTL DEF Spec

(* Every variable of the catalog keeps its type. *)
THEOREM TypeCorrect == Spec => []TypeOK
<1>1. IInv => TypeOK
  BY DEF IInv, SessionInv, LoadsInv, LoadsTypeOK, DocsInv, DocsTypeOK, TypeOK
<1> QED
  BY <1>1, Invariance, PTL

(* Whatever the catalog holds was asked for under the login in force.         *)
THEOREM HeldStaysCurrent == Spec => []HeldIsCurrent
<1>1. IInv => HeldIsCurrent
  BY DEF IInv, LoadsInv, DocsInv, HeldIsCurrent, Held
<1> QED
  BY <1>1, Invariance, PTL

(* A source is called absent, or passed over, only when its own probe said so *)
(* on this connection (resolveDoc, probeSource).                              *)
THEOREM KeptStaysConfirmed == Spec => []KeptIsConfirmed
<1>1. IInv => KeptIsConfirmed
  BY DEF IInv, DocsInv, Confirmed, KeptIsConfirmed
<1> QED
  BY <1>1, Invariance, PTL

(* At most one probe of a source and one lookup of a key are under way, and   *)
(* nobody waits for a probe that is over (docCapabilityProbes, docCache).     *)
THEOREM RequestsStayShared == Spec => []RequestsAreShared
<1>1. IInv => RequestsAreShared
  <2> SUFFICES ASSUME IInv PROVE RequestsAreShared
    OBVIOUS
  <2>1. \A l \in Lookups : Probing(l) <=> IsProbing(lookup[l])
    BY DEF Probing, IsProbing
  <2>2. \A l \in Lookups : Source(l) = SourceOf(lookup[l])
    BY DEF Source, SourceOf
  <2>3. ASSUME NEW l \in Lookups, NEW m \in Lookups, lookup[l].live, lookup[m].live, l # m,
               lookup[l].phase # "idle", lookup[m].phase # "idle"
        PROVE  /\ lookup[l].key # lookup[m].key
               /\ Probing(l) /\ Probing(m) => Source(l) # Source(m)
    <3>1. lookup[l].key # lookup[m].key
      BY <2>3 DEF IInv, DocsInv, Active
    <3>2. Progress(l, lookup[l]) /\ Progress(m, lookup[m])
      BY <2>3 DEF IInv, DocsInv, LookupOK
    <3>3. /\ Probing(l) => probe[Source(l)] = l
          /\ Probing(m) => probe[Source(m)] = m
      BY <2>1, <2>2, <3>2 DEF Progress
    <3> QED
      BY <2>3, <3>1, <3>3
  <2>4. ASSUME NEW s \in Sources, probe[s] # None
        PROVE  Probing(probe[s]) /\ lookup[probe[s]].live /\ Source(probe[s]) = s
    <3>1. probe[s] \in Lookups
      BY <2>4 DEF IInv, DocsInv, DocsTypeOK
    <3> QED
      BY <2>1, <2>2, <2>4, <3>1 DEF IInv, DocsInv
  <2>5. ASSUME NEW l \in Lookups, lookup[l].phase = "waiting" PROVE Probing(lookup[l].on)
    BY <2>1, <2>5 DEF IInv, DocsInv, LookupOK
  <2> QED
    BY <2>3, <2>4, <2>5 DEF RequestsAreShared
<1> QED
  BY <1>1, Invariance, PTL
=============================================================================
