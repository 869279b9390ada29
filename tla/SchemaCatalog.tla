---------------------------- MODULE SchemaCatalog ----------------------------
(***************************************************************************)
(* What the application knows about the server it is connected to          *)
(* (src/application/schema-catalog-service.ts): its version, the schema    *)
(* tree with columns that are read on demand, the reference data of the    *)
(* editor, and the documentation of functions, formats and engines.        *)
(*                                                                         *)
(* Every read waits twice, for the configuration and for the answer, and   *)
(* the connection may be retired between any two steps.  The code fences   *)
(* what it stores with two counters, connectionGeneration and              *)
(* docGeneration; the model keeps the outcome of the comparison, the flag  *)
(* live of what is under way, and in its place records of everything       *)
(* stored the login that was in force when it was asked for.               *)
(*                                                                         *)
(* A documentation lookup asks the sources of its key in order.  It shares *)
(* one probe of each source with the other lookups, and one promise with   *)
(* the other lookups of its key.                                           *)
(***************************************************************************)
EXTENDS Integers, Sequences

CONSTANTS
    Tables,        \* the tables of the server
    Loads,         \* loads of version, schema, columns and reference under way at once
    Lookups,       \* documentation lookups under way at once
    Keys,          \* what is looked up: kind and name, in one of the three caches
    Sources,       \* the system tables that hold documentation
    Documentation, \* system.documentation, which servers before 26.6 lack
    SourcesOf,     \* per key: the sources to ask, in order of preference
    Canonical,     \* per key: the key under which the server names the same thing
    Kept,          \* keys whose answer is kept (a disambiguation is not)
    MaxLogins,     \* bound on the logins
    MaxLoads,      \* bound on the loads started
    None

Login == 0..MaxLogins

Answer == [status: {"found", "missing", "unavailable"},
           from: 1..2, by: Login, lasting: BOOLEAN]

ASSUME CatalogAssumption ==
    /\ Tables \cap {"version", "schema", "reference"} = {}
    /\ Keys # {}
    /\ Documentation \in Sources
    /\ SourcesOf \in [Keys -> Seq(Sources)]
    /\ \A k \in Keys : Len(SourcesOf[k]) \in 1..2
    /\ Canonical \in [Keys -> Keys]
    /\ \A k \in Keys : SourcesOf[Canonical[k]] = SourcesOf[k]
    /\ Kept \subseteq Keys
    /\ MaxLogins \in Nat \ {0} /\ MaxLoads \in Nat
    /\ None \notin Lookups
    /\ \A answer \in Answer : answer \notin Lookups \cup {None}

VARIABLES
    login,      \* the number of logins so far
    signedIn,
    started,    \* loads started so far
    schema,     \* by: the login it was read under, 0 for none; columns per table
    schemaError,\* the login under which the error shown was met, 0 for none
    version,    \* by, and whether the server has system.documentation
    reference,  \* the login the reference data was read under, 0 for the built-in one
    load,       \* per load
    capability, \* per source: by, and what the probe found
    probe,      \* per source: the lookup whose probe is under way
    cache,      \* per key: None, the lookup under way, or the answer
    lookup      \* per lookup

loads   == <<schema, schemaError, version, reference, load>>
docs    == <<capability, probe, cache, lookup>>
session == <<login, signedIn, started>>
vars    == <<session, loads, docs>>

Load == [kind: {"version", "schema", "reference"} \cup Tables,
         phase: {"idle", "config", "sent"}, live: BOOLEAN, by: Login]

IdleLoad == [kind |-> "version", phase |-> "idle", live |-> FALSE, by |-> 0]

Unavailable(i, lasting) ==
    [status |-> "unavailable", from |-> i, by |-> 0, lasting |-> lasting]

(* from: index of the source being asked.  on: the lookup whose probe is      *)
(* awaited, itself when it is its own.                                        *)
Lookup == [key: Keys, from: 1..2, live: BOOLEAN, by: Login,
           phase: {"idle", "probe config", "probe sent", "waiting", "probed", "next",
                   "row config", "row sent", "settled"},
           on: Lookups \cup {None}, verdict: {"unknown", "present", "absent"},
           answer: Answer]

IdleLookup == [key |-> CHOOSE k \in Keys : TRUE, from |-> 1, live |-> FALSE, by |-> 0,
               phase |-> "idle", on |-> None, verdict |-> "unknown",
               answer |-> Unavailable(1, FALSE)]

Unread  == [by |-> 0, columns |-> [t \in Tables |-> "unread"], read |-> [t \in Tables |-> 0]]
Unknown == [by |-> 0, found |-> "unknown"]

NoDocs ==
    /\ capability' = [s \in Sources |-> Unknown]
    /\ probe' = [s \in Sources |-> None]
    /\ cache' = [k \in Keys |-> None]
    /\ lookup' = [l \in Lookups |-> [lookup[l] EXCEPT !.live = FALSE]]

Init ==
    /\ login = 0 /\ signedIn = FALSE /\ started = 0
    /\ schema = Unread /\ schemaError = 0
    /\ version = Unknown /\ reference = 0
    /\ load = [i \in Loads |-> IdleLoad]
    /\ capability = [s \in Sources |-> Unknown]
    /\ probe = [s \in Sources |-> None]
    /\ cache = [k \in Keys |-> None]
    /\ lookup = [l \in Lookups |-> IdleLookup]

-----------------------------------------------------------------------------
(* The connection. *)

SignIn ==
    /\ ~signedIn /\ login < MaxLogins
    /\ signedIn' = TRUE /\ login' = login + 1
    /\ UNCHANGED <<started, loads, docs>>

(* invalidate: a closing scope and an explicit sign-out retire what is known. *)
Invalidate ==
    /\ signedIn' = FALSE
    /\ schema' = Unread /\ schemaError' = 0
    /\ version' = Unknown /\ reference' = 0
    /\ load' = [i \in Loads |-> [load[i] EXCEPT !.live = FALSE]]
    /\ NoDocs
    /\ UNCHANGED <<login, started>>

-----------------------------------------------------------------------------
(* Version, schema, columns and reference. *)

Start(i, kind) ==
    /\ signedIn /\ load[i].phase = "idle"
    /\ started < MaxLoads /\ started' = started + 1
    /\ load' = [load EXCEPT ![i] = [kind |-> kind, phase |-> "config", live |-> TRUE, by |-> 0]]

LoadVersionOrSchema(i) ==
    /\ Start(i, "version") \/ Start(i, "schema")
    /\ UNCHANGED <<login, signedIn, schema, schemaError, version, reference, docs>>

(* A row of the tree is opened, or the editor meets a table: its columns are  *)
(* asked for once, and it says so before it waits.                            *)
LoadColumns(i, t) ==
    /\ schema.by # 0 /\ schema.columns[t] = "unread"
    /\ Start(i, t)
    /\ schema' = [schema EXCEPT !.columns[t] = "loading"]
    /\ UNCHANGED <<login, signedIn, schemaError, version, reference, docs>>

(* The reference data is read anew: documentation in flight is dropped. *)
LoadReference(i) ==
    /\ Start(i, "reference")
    /\ NoDocs
    /\ UNCHANGED <<login, signedIn, schema, schemaError, version, reference>>

LoadConfigured(i) ==
    /\ load[i].phase = "config"
    /\ load' = [load EXCEPT ![i] =
                   IF @.live THEN [@ EXCEPT !.phase = "sent", !.by = login] ELSE IdleLoad]
    /\ UNCHANGED <<session, schema, schemaError, version, reference, docs>>

LoadSettles(i) ==
    load' = [load EXCEPT ![i] = IdleLoad]

(* Mutant of Fenced: the generation is checked before the request only. *)
FencedBefore(i) == load[i].phase = "sent"

(* The generation is compared behind each of the two awaits. *)
Fenced(i) == load[i].phase = "sent" /\ load[i].live

LoadIsStale(i) ==
    /\ load[i].phase = "sent" /\ ~Fenced(i)
    /\ LoadSettles(i)
    /\ UNCHANGED <<session, schema, schemaError, version, reference, docs>>

VersionAnswers(i, found) ==
    /\ Fenced(i) /\ load[i].kind = "version"
    /\ LoadSettles(i)
    /\ version' = [by |-> load[i].by, found |-> found]
    /\ UNCHANGED <<session, schema, schemaError, reference, docs>>

SchemaAnswers(i) ==
    /\ Fenced(i) /\ load[i].kind = "schema"
    /\ LoadSettles(i)
    /\ schema' = [Unread EXCEPT !.by = load[i].by]
    /\ schemaError' = 0
    /\ UNCHANGED <<session, version, reference, docs>>

SchemaFails(i) ==
    /\ Fenced(i) /\ load[i].kind = "schema"
    /\ LoadSettles(i)
    /\ schemaError' = load[i].by
    /\ UNCHANGED <<session, schema, version, reference, docs>>

(* A read that fails shows the table without columns. *)
ColumnsAnswer(i, ok) ==
    LET t == load[i].kind
    IN  /\ Fenced(i) /\ t \in Tables
        /\ LoadSettles(i)
        /\ schema' = [schema EXCEPT !.columns[t] = "read", !.read[t] = load[i].by]
        /\ UNCHANGED <<session, schemaError, version, reference, docs>>

ReferenceAnswers(i) ==
    /\ Fenced(i) /\ load[i].kind = "reference"
    /\ LoadSettles(i)
    /\ reference' = load[i].by
    /\ UNCHANGED <<session, schema, schemaError, version, docs>>

(* Neither a version nor a reference that fails changes anything. *)
LoadFails(i) ==
    /\ Fenced(i) /\ load[i].kind \in {"version", "reference"}
    /\ LoadSettles(i)
    /\ UNCHANGED <<session, schema, schemaError, version, reference, docs>>

-----------------------------------------------------------------------------
(* Documentation. *)

Source(l) == SourcesOf[lookup[l].key][lookup[l].from]

Sent == IF signedIn THEN login ELSE 0

(* Mutant of Ask: a server that is too old is taken for one that was probed. *)
AskSkips(l, to) ==
    LET s == SourcesOf[to.key][to.from]
        old == s = Documentation /\ version.found = "absent"
        known == capability[s].found # "unknown"
        own == ~known /\ probe[s] = None /\ ~old
    IN  /\ lookup' = [lookup EXCEPT ![l] =
               IF known THEN [to EXCEPT !.phase = "probed", !.verdict = capability[s].found]
               ELSE IF probe[s] # None THEN [to EXCEPT !.phase = "waiting", !.on = probe[s]]
               ELSE IF old THEN [to EXCEPT !.phase = "probed", !.verdict = "absent"]
               ELSE [to EXCEPT !.phase = "probe config", !.on = l]]
        /\ probe' = IF own THEN [probe EXCEPT ![s] = l] ELSE probe

(* What a source can do is known, is being found out, is not worth a request  *)
(* on a server that is known to be too old, or is found out now.              *)
Ask(l, to) ==
    LET s == SourcesOf[to.key][to.from]
        old == s = Documentation /\ version.found = "absent"
        known == capability[s].found # "unknown"
        own == ~known /\ probe[s] = None /\ ~old
    IN  /\ lookup' = [lookup EXCEPT ![l] =
               IF known THEN [to EXCEPT !.phase = "probed", !.verdict = capability[s].found]
               ELSE IF probe[s] # None THEN [to EXCEPT !.phase = "waiting", !.on = probe[s]]
               ELSE IF old THEN [to EXCEPT !.phase = "probed", !.verdict = "unknown"]
               ELSE [to EXCEPT !.phase = "probe config", !.on = l]]
        /\ probe' = IF own THEN [probe EXCEPT ![s] = l] ELSE probe

(* docEntry, docMarkdown, docDisambiguate: a key that is cached or under way  *)
(* starts nothing.                                                            *)
StartLookup(l, k) ==
    /\ lookup[l].phase = "idle"
    /\ cache[k] = None
    /\ Ask(l, [IdleLookup EXCEPT !.key = k, !.live = TRUE])
    /\ cache' = [cache EXCEPT ![k] = l]
    /\ UNCHANGED <<session, loads, capability>>

(* Whoever awaits the probe of l goes on, in a turn of its own. *)
ProbeSettles(l, verdict) ==
    lookup' = [m \in Lookups |->
        IF m = l \/ (lookup[m].phase = "waiting" /\ lookup[m].on = l)
        THEN [lookup[m] EXCEPT !.phase = "probed", !.on = None, !.by = 0, !.verdict = verdict]
        ELSE lookup[m]]

ProbeConfigured(l) ==
    /\ lookup[l].phase = "probe config"
    /\ IF lookup[l].live
       THEN lookup' = [lookup EXCEPT ![l].phase = "probe sent", ![l].by = Sent]
       ELSE ProbeSettles(l, "unknown")
    /\ UNCHANGED <<session, loads, capability, probe, cache>>

(* Mutant of ProbeAnswers: after a failure the probe that is over stays in its slot. *)
ProbeAnswersOrFails(l, verdict) ==
    LET s == Source(l)
    IN  /\ lookup[l].phase = "probe sent" /\ lookup[l].live
        /\ lookup[l].by = 0 => verdict = "unknown"
        /\ ProbeSettles(l, verdict)
        /\ probe' = IF verdict = "unknown" THEN probe ELSE [probe EXCEPT ![s] = None]
        /\ capability' = IF verdict = "unknown" THEN capability
                         ELSE [capability EXCEPT ![s] = [by |-> lookup[l].by, found |-> verdict]]
        /\ UNCHANGED <<session, loads, cache>>

(* The slot is given back in any case, so that a failure is probed again. *)
ProbeAnswers(l, verdict) ==
    LET s == Source(l)
    IN  /\ lookup[l].phase = "probe sent" /\ lookup[l].live
        /\ lookup[l].by = 0 => verdict = "unknown"
        /\ ProbeSettles(l, verdict)
        /\ probe' = [probe EXCEPT ![s] = None]
        /\ capability' = IF verdict = "unknown" THEN capability
                         ELSE [capability EXCEPT ![s] = [by |-> lookup[l].by, found |-> verdict]]
        /\ UNCHANGED <<session, loads, cache>>

ProbeIsStale(l) ==
    /\ lookup[l].phase = "probe sent" /\ ~lookup[l].live
    /\ ProbeSettles(l, "unknown")
    /\ UNCHANGED <<session, loads, capability, probe, cache>>

Resolves(l, answer) ==
    lookup' = [lookup EXCEPT ![l].phase = "settled", ![l].verdict = "unknown", ![l].by = 0,
                             ![l].answer = answer]

(* A lookup goes on after its probe.  The last source that is absent is an    *)
(* answer that lasts; a kind the server has no label for is missing.          *)
Probed(l) ==
    LET i == lookup[l].from
        verdict == IF lookup[l].live THEN lookup[l].verdict ELSE "unknown"
    IN  /\ lookup[l].phase = "probed"
        /\ \/ verdict = "unknown" /\ Resolves(l, Unavailable(i, FALSE))
           \/ /\ verdict = "absent" /\ i < Len(SourcesOf[lookup[l].key])
              /\ lookup' = [lookup EXCEPT ![l].phase = "next", ![l].verdict = "unknown"]
           \/ /\ verdict = "absent" /\ i = Len(SourcesOf[lookup[l].key])
              /\ Resolves(l, Unavailable(i, TRUE))
           \/ /\ verdict = "present"
              /\ lookup' = [lookup EXCEPT ![l].phase = "row config", ![l].verdict = "unknown"]
           \/ /\ verdict = "present" /\ Source(l) = Documentation
              /\ Resolves(l, [status |-> "missing", from |-> i, by |-> login, lasting |-> TRUE])
        /\ UNCHANGED <<session, loads, capability, probe, cache>>

NextSource(l) ==
    /\ lookup[l].phase = "next"
    /\ IF lookup[l].live
       THEN Ask(l, [lookup[l] EXCEPT !.from = 2])
       ELSE Resolves(l, Unavailable(1, FALSE)) /\ UNCHANGED probe
    /\ UNCHANGED <<session, loads, capability, cache>>

RowConfigured(l) ==
    /\ lookup[l].phase = "row config"
    /\ IF lookup[l].live
       THEN lookup' = [lookup EXCEPT ![l].phase = "row sent", ![l].by = Sent]
       ELSE Resolves(l, Unavailable(lookup[l].from, FALSE))
    /\ UNCHANGED <<session, loads, capability, probe, cache>>

RowAnswers(l, status) ==
    LET i == lookup[l].from
    IN  /\ lookup[l].phase = "row sent"
        /\ lookup[l].by = 0 \/ ~lookup[l].live => status = "unavailable"
        /\ Resolves(l, IF status = "unavailable" THEN Unavailable(i, FALSE)
                       ELSE [status |-> status, from |-> i, by |-> lookup[l].by, lasting |-> TRUE])
        /\ UNCHANGED <<session, loads, capability, probe, cache>>

(* The promise of the key settles, one turn later: only if it still is the    *)
(* promise of the key does it leave its answer, or nothing, in the cache.     *)
LookupSettles(l) ==
    LET k == lookup[l].key
        answer == lookup[l].answer
    IN  /\ lookup[l].phase = "settled"
        /\ lookup' = [lookup EXCEPT ![l] = IdleLookup]
        /\ cache' = IF cache[k] # l THEN cache
                    ELSE IF ~answer.lasting \/ k \notin Kept THEN [cache EXCEPT ![k] = None]
                    ELSE IF answer.status # "found" THEN [cache EXCEPT ![k] = answer]
                    ELSE [cache EXCEPT ![k] = answer, ![Canonical[k]] = answer]
        /\ UNCHANGED <<session, loads, capability, probe>>

-----------------------------------------------------------------------------
LoadStep(i) ==
    \/ LoadVersionOrSchema(i) \/ LoadReference(i)
    \/ \E t \in Tables : LoadColumns(i, t)
    \/ LoadConfigured(i) \/ LoadIsStale(i) \/ LoadFails(i)
    \/ \E found \in {"present", "absent"} : VersionAnswers(i, found)
    \/ SchemaAnswers(i) \/ SchemaFails(i)
    \/ (\E ok \in BOOLEAN : ColumnsAnswer(i, ok)) \/ ReferenceAnswers(i)

LookupStep(l) ==
    \/ \E k \in Keys : StartLookup(l, k)
    \/ ProbeConfigured(l) \/ ProbeIsStale(l)
    \/ \E verdict \in {"unknown", "present", "absent"} : ProbeAnswers(l, verdict)
    \/ Probed(l) \/ NextSource(l) \/ RowConfigured(l)
    \/ \E status \in {"found", "missing", "unavailable"} : RowAnswers(l, status)
    \/ LookupSettles(l)

Next ==
    \/ SignIn \/ Invalidate
    \/ \E i \in Loads : LoadStep(i)
    \/ \E l \in Lookups : LookupStep(l)

Spec == Init /\ [][Next]_vars

-----------------------------------------------------------------------------
(* Properties. *)

(* Every variable keeps its type. *)
TypeOK ==
    /\ login \in Login /\ signedIn \in BOOLEAN /\ started \in 0..MaxLoads
    /\ schema \in [by: Login, columns: [Tables -> {"unread", "loading", "read"}],
                   read: [Tables -> Login]]
    /\ schemaError \in Login /\ reference \in Login
    /\ version \in [by: Login, found: {"unknown", "present", "absent"}]
    /\ load \in [Loads -> Load]
    /\ capability \in [Sources -> [by: Login, found: {"unknown", "present", "absent"}]]
    /\ probe \in [Sources -> Lookups \cup {None}]
    /\ cache \in [Keys -> Lookups \cup {None} \cup Answer]
    /\ lookup \in [Lookups -> Lookup]

(* Nothing that was asked of one connection is shown to, or decides anything  *)
(* for, another: whatever the catalog holds was asked for under the login     *)
(* that is in force, and nothing is held while there is none, however late    *)
(* the answers come.                                                          *)
Held == {schema.by, schemaError, version.by, reference}
            \cup {schema.read[t] : t \in Tables}
            \cup {capability[s].by : s \in Sources}
            \cup {cache[k].by : k \in {q \in Keys : cache[q] \in Answer}}

HeldIsCurrent == Held \subseteq {0, Sent}

(* An answer that is kept was confirmed: a source is called absent, or passed *)
(* over for the next, only when its probe said so on this connection, never   *)
(* because a request failed or the version was not known to be new enough.    *)
KeptIsConfirmed ==
    \A k \in Keys : cache[k] \in Answer =>
        \A i \in 1..Len(SourcesOf[k]) :
            LET found == capability[SourcesOf[k][i]].found
            IN  /\ cache[k].status = "unavailable" \/ i < cache[k].from => found = "absent"
                /\ cache[k].status # "unavailable" /\ i = cache[k].from => found = "present"

(* Lookups share their requests: of one connection there is at most one probe *)
(* of a source and one lookup of a key under way, and a lookup never waits    *)
(* for a probe that is already over.                                          *)
Probing(l) == lookup[l].phase \in {"probe config", "probe sent"}

RequestsAreShared ==
    /\ \A l, m \in Lookups :
          lookup[l].live /\ lookup[m].live /\ l # m
          /\ lookup[l].phase # "idle" /\ lookup[m].phase # "idle" =>
              /\ lookup[l].key # lookup[m].key
              /\ Probing(l) /\ Probing(m) => Source(l) # Source(m)
    /\ \A s \in Sources : probe[s] # None =>
          Probing(probe[s]) /\ lookup[probe[s]].live /\ Source(probe[s]) = s
    /\ \A l \in Lookups : lookup[l].phase = "waiting" => Probing(lookup[l].on)
=============================================================================
