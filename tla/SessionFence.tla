----------------------------- MODULE SessionFence -----------------------------
(***************************************************************************)
(* What the session promises to the operations above it, without tokens,   *)
(* refreshes, promises or scopes: at any time at most one session is open, *)
(* each generation is that of at most one session, and a request is put on *)
(* the wire only with a credential obtained for the session that is open   *)
(* at that moment.  AuthenticatedExecution implements it.                  *)
(***************************************************************************)
EXTENDS Integers

CONSTANT Ops

VARIABLES generation,  \* counts the credential scopes
          holder,      \* the generation whose session is open
          wire         \* the session whose credential each pending request carries

NoSession == -1
fenceVars == <<generation, holder, wire>>

Init == generation = 0 /\ holder = NoSession /\ wire = [q \in Ops |-> NoSession]

Open == /\ holder = NoSession
        /\ generation' \in {generation, generation + 1}
        /\ holder' = generation'
        /\ UNCHANGED wire

Close == /\ holder # NoSession
         /\ generation' = generation + 1
         /\ holder' = NoSession
         /\ UNCHANGED wire

\* A sign-in attempt, or a sign-out of an already empty session.
Tick == /\ holder = NoSession
        /\ generation' = generation + 1
        /\ UNCHANGED <<holder, wire>>

Send(q) == /\ holder # NoSession /\ wire[q] = NoSession
           /\ wire' = [wire EXCEPT ![q] = holder]
           /\ UNCHANGED <<generation, holder>>

Settle(q) == /\ wire[q] # NoSession
             /\ wire' = [wire EXCEPT ![q] = NoSession]
             /\ UNCHANGED <<generation, holder>>

Next == Open \/ Close \/ Tick \/ \E q \in Ops : Send(q) \/ Settle(q)

Spec == Init /\ [][Next]_fenceVars
=============================================================================
