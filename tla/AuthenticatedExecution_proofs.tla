-------------------- MODULE AuthenticatedExecution_proofs --------------------
(***************************************************************************)
(* The safety of AuthenticatedExecution for any number of operations,      *)
(* refresh promises and sign-in attempts, and any bound on the epochs.     *)
(*                                                                         *)
(* IInv is the inductive invariant: what each value still in flight (a     *)
(* credential returned by getToken, a promise, a lease) was worth when it  *)
(* was read, and that it is worth as much as long as its epoch is live.    *)
(***************************************************************************)
EXTENDS AuthenticatedExecution, TLAPS

Unsettled(f) == promise[f].pc \in {"config", "exchange"}
Resolves(f)  == promise[f].pc \in {"settled", "done"}

\* A refresh token whose bearer belongs to the session of that epoch.
Redeemable(tok, epoch) ==
  tok.mode = "oauth" /\ (tok.login = epoch \/ (epoch = 1 /\ tok.login = 0))

\* Before the workbench is shown nothing runs.
QuietBeforeMount ==
  ~Mounted => /\ scope = NoEpoch
              /\ slot = NoRefresh
              /\ \A f \in Refreshes : promise[f].pc = "free"
              /\ \A q \in Ops : op[q].pc = "idle"

\* A login page may still hold an expired bearer; no other phase holds a foreign one.
SessionInv ==
  /\ cred.mode = "none" => cred = NoCred
  /\ phase # "login" =>
       /\ cred # NoCred => Belongs(cred, life.epoch)
       /\ cred = NoCred <=> life.kind \in LoggedOutKinds \cup {"reauthenticating"}
       /\ cred = NoCred => refreshTok = NoCred
       /\ (cred.mode = "oauth" \/ phase = "boot") /\ refreshTok # NoCred =>
            Redeemable(refreshTok, life.epoch)
  /\ scope # NoEpoch => scope = life.epoch /\ phase = "shell"
  /\ Mounted => (scope = NoEpoch <=> cred = NoCred)

PromiseInv ==
  /\ slot # NoRefresh => promise[slot].pc \in {"config", "exchange", "settled"}
  /\ \A f \in Refreshes :
       /\ promise[f].pc # "free" => promise[f].epoch <= life.epoch
       /\ promise[f].pc # "free" /\ cred.mode = "oauth" => promise[f].epoch = life.epoch
       /\ Unsettled(f) /\ promise[f].tok # NoCred =>
            Redeemable(promise[f].tok, promise[f].epoch)
       /\ Unsettled(f) /\ promise[f].epoch = life.epoch => slot = f /\ cred.mode = "oauth"
       /\ Resolves(f) /\ promise[f].value = "true" /\ promise[f].epoch = life.epoch =>
            cred.mode = "oauth"
       /\ Resolves(f) /\ promise[f].value = "false" => promise[f].epoch # life.epoch
  /\ \A f, g \in Refreshes :
       f # g /\ Unsettled(f) /\ Unsettled(g) =>
         /\ promise[f].epoch # promise[g].epoch
         /\ promise[f].tok = NoCred \/ promise[g].tok = NoCred

OpOK(o) ==
  /\ o.epoch <= life.epoch
  /\ o.wait # NoRefresh =>
       /\ o.pc \in {"preflight", "token", "refresh", "retoken"}
       /\ promise[o.wait].pc # "free"
       /\ promise[o.wait].epoch = o.epoch
  /\ Registered(o) => o.epoch = o.owner
  /\ o.pc \in {"held", "preflight"} => o.owner # NoEpoch
  /\ o.bearer # NoCred => Belongs(o.bearer, o.epoch)
  /\ o.pc \in {"idle", "held", "preflight", "token"} <=> o.bearer = NoCred
  /\ o.bearer # NoCred /\ o.epoch = life.epoch => cred # NoCred
  /\ o.pc \in {"preflight", "token", "retoken"} /\ o.wait = NoRefresh
       /\ o.epoch = life.epoch /\ o.got # NoCred =>
       Belongs(o.got, o.epoch) /\ cred # NoCred
  /\ o.pc = "retoken" /\ o.wait = NoRefresh /\ o.epoch = life.epoch => o.got # NoCred

OpInv == \A q \in Ops : OpOK(op[q])

KillInv ==
  /\ KillUsesOwnSession
  /\ \A c \in closedWith : c.lease # NoCred => Belongs(c.lease, c.epoch)

ReportInv ==
  /\ AuthLossReportedOnce
  /\ \A i \in 1..Len(reports) :
       /\ reports[i] <= life.epoch
       /\ reports[i] = life.epoch => lossReported = life.epoch

IInv ==
  /\ TypeOK
  /\ QuietBeforeMount
  /\ SessionInv
  /\ PromiseInv
  /\ OpInv
  /\ RefreshingIsBacked
  /\ ClosedScopeStopsItsOperations
  /\ KillInv
  /\ ReportInv

\* TypeOK of the session's variables and of those an operation does not own.
LEMMA CredTypes == NoCred \in Credential /\ IdleOp \in Op
BY DEF NoCred, Credential, IdleOp, Op, NoEpoch

LEMMA IdleOpOK ==
  ASSUME IInv
  PROVE  OpOK(IdleOp) /\ ~Registered(IdleOp)
BY DEF IInv, TypeOK, SessionTypeOK, LifecycleState, OpOK, IdleOp, Registered, NoEpoch

\* Only a mounted workbench runs operations.
LEMMA BusyIsMounted ==
  ASSUME IInv, NEW q \in Ops, op[q].pc # "idle" \/ scope # NoEpoch
  PROVE  Mounted
BY DEF IInv, QuietBeforeMount

\* The session keeps its epoch, its logged-out or signed-in kind, and its refresh.
SameSession ==
  /\ life' \in LifecycleState
  /\ life'.epoch = life.epoch
  /\ life'.kind = "refreshing" <=> life.kind = "refreshing"
  /\ life'.kind \in LoggedOutKinds \cup {"reauthenticating"}
       <=> life.kind \in LoggedOutKinds \cup {"reauthenticating"}

LEMMA UnchangedSession ==
  ASSUME IInv, life' = life
  PROVE  SameSession
BY DEF IInv, TypeOK, SessionTypeOK, SameSession

KillTypeOK == kills \subseteq [owner: Nat, victim: Credential, by: Credential]

\* One operation moves on while the session stays as it is: the invariant holds when
\* the operation's new record is justified in the present state.
LEMMA OpChange ==
  ASSUME IInv, Mounted,
         NEW q \in Ops, NEW o \in Op,
         OpOK(o),
         Registered(o) /\ ~o.stopped => scope = o.owner,
         op' = [op EXCEPT ![q] = o],
         \/ promise' = promise
         \/ /\ promise' = Released(q)
            /\ op[q].wait = NoRefresh
                 \/ (promise[op[q].wait].pc = "done" /\ o.wait # op[q].wait),
         kills' = kills \/ (KillTypeOK' /\ KillInv'),
         SameSession, authConfirmed' \in BOOLEAN,
         UNCHANGED <<slot, cred, refreshTok, aging, lossReported, prior,
                     attempt, phase, scope, closedWith, busy, reports>>
  PROVE  IInv'
<1> DEFINE g == op[q].wait
<1> USE DEF SameSession
<1>0. \A f \in Refreshes :
        \/ promise'[f] = promise[f]
        \/ /\ promise[f].pc = "done" /\ promise'[f] = FreePromise
           /\ \A p \in Ops : op'[p].wait # f
  <2>1. CASE promise' = promise
    BY <2>1
  <2>2. CASE promise' # promise
    <3>1. /\ g # NoRefresh /\ promise[g].pc = "done" /\ o.wait # g
          /\ \A p \in Ops \ {q} : op[p].wait # g
          /\ promise' = [promise EXCEPT ![g] = FreePromise]
      BY <2>2 DEF Released
    <3>2. g \in Refreshes
      BY <3>1 DEF IInv, TypeOK, Op
    <3>3. \A p \in Ops : op'[p].wait # g
      BY <3>1 DEF IInv, TypeOK, Op
    <3> QED BY <3>1, <3>2, <3>3 DEF IInv, TypeOK, SessionTypeOK
  <2> QED BY <2>1, <2>2
<1>1. TypeOK'
  <2>1. op' \in [Ops -> Op]
    BY DEF IInv, TypeOK
  <2>2. promise' \in [Refreshes -> Promise]
    <3>1. FreePromise \in Promise
      BY CredTypes DEF FreePromise, Promise
    <3> QED BY <3>1 DEF IInv, TypeOK, SessionTypeOK, Released
  <2> QED BY <2>1, <2>2 DEF IInv, TypeOK, SessionTypeOK, KillTypeOK
<1>2. QuietBeforeMount'
  BY DEF QuietBeforeMount, Mounted
<1>3. SessionInv'
  BY DEF IInv, SessionInv, Mounted
<1>4. PromiseInv'
  <2> USE <1>0 DEF IInv, PromiseInv, FreePromise
  <2>1. slot # NoRefresh => promise'[slot].pc \in {"config", "exchange", "settled"}
    BY DEF TypeOK, SessionTypeOK
  <2>2. ASSUME NEW f \in Refreshes
        PROVE  \/ promise'[f] = promise[f]
               \/ ~Unsettled(f)' /\ ~Resolves(f)' /\ promise'[f].pc = "free"
    BY DEF Unsettled, Resolves
  <2> QED
    BY <2>1, <2>2 DEF Unsettled, Resolves
<1>5. OpInv'
  <2> SUFFICES ASSUME NEW p \in Ops
               PROVE  OpOK(op[p])'
    BY DEF OpInv
  <2>1. OpOK(op'[p])
    BY DEF IInv, OpInv, TypeOK
  <2>2. op'[p].wait # NoRefresh => op'[p].wait \in Refreshes
    BY DEF IInv, TypeOK, Op
  <2> QED BY <1>0, <2>1, <2>2 DEF OpOK, Registered
<1>6. RefreshingIsBacked'
  BY <1>0 DEF IInv, TypeOK, SessionTypeOK, RefreshingIsBacked
<1>7. ClosedScopeStopsItsOperations'
  BY DEF IInv, TypeOK, ClosedScopeStopsItsOperations
<1>8. KillInv'
  BY DEF IInv, KillInv, KillUsesOwnSession
<1>9. ReportInv'
  BY DEF IInv, ReportInv, AuthLossReportedOnce
<1> QED
  BY <1>1, <1>2, <1>3, <1>4, <1>5, <1>6, <1>7, <1>8, <1>9 DEF IInv

\* What an operation must bring to call refresh() or getToken() as o.
Calls(q, o) ==
  /\ q \in Ops /\ o \in Op /\ Mounted
  /\ op[q].wait = NoRefresh \/ promise[op[q].wait].pc = "done"
  /\ o.pc \in {"preflight", "token", "refresh", "retoken"}
  /\ o.epoch = life.epoch
  /\ o.owner # NoEpoch => o.epoch = o.owner
  /\ o.pc = "preflight" => o.owner # NoEpoch
  /\ o.bearer # NoCred => Belongs(o.bearer, o.epoch) /\ cred # NoCred
  /\ o.bearer = NoCred <=> o.pc \in {"preflight", "token"}
  /\ o.owner # NoEpoch /\ ~o.stopped => scope = o.owner

\* Joining the refresh of the live epoch, or starting it.
LEMMA AwaitRefreshStep ==
  ASSUME IInv, NEW q, NEW o, Calls(q, o),
         cred # NoCred,
         o.pc = "refresh" \/ cred.mode = "oauth",
         AwaitRefresh(q, o),
         UNCHANGED tokenFrame
  PROVE  IInv'
<1> USE DEF tokenFrame
<1>1. CASE /\ cred.mode = "basic"
           /\ op' = [op EXCEPT ![q] = [o EXCEPT !.wait = NoRefresh]]
           /\ promise' = Released(q)
           /\ UNCHANGED <<life, slot>>
  <2> DEFINE n == [o EXCEPT !.wait = NoRefresh]
  <2>1. n \in Op /\ n.wait = NoRefresh /\ n.pc = "refresh"
    BY <1>1 DEF Calls, Op
  <2>2. OpOK(n)
    BY <2>1 DEF Calls, OpOK, Op, Registered, IInv, TypeOK, SessionTypeOK, LifecycleState
  <2>3. Registered(n) /\ ~n.stopped => scope = n.owner
    BY DEF Calls, Op, Registered
  <2>4. op' = [op EXCEPT ![q] = n]
    BY <1>1
  <2>5. SameSession /\ authConfirmed' \in BOOLEAN
    BY <1>1, UnchangedSession DEF IInv, TypeOK, SessionTypeOK
  <2> HIDE DEF n
  <2> QED BY <1>1, <2>1, <2>2, <2>3, <2>4, <2>5, OpChange DEF Calls
<1>2. CASE /\ cred.mode # "basic" /\ JoinableSlot
           /\ op' = [op EXCEPT ![q] = [o EXCEPT !.wait = slot]]
           /\ promise' = Released(q)
           /\ UNCHANGED <<life, slot>>
  <2> DEFINE n == [o EXCEPT !.wait = slot]
  <2>1. /\ slot \in Refreshes /\ slot # NoRefresh
        /\ promise[slot].pc \in {"config", "exchange", "settled"}
        /\ promise[slot].epoch = life.epoch
    BY <1>2 DEF JoinableSlot, IInv, PromiseInv, TypeOK, SessionTypeOK
  <2>2. n \in Op /\ n.wait = slot
    BY <2>1 DEF Calls, Op
  <2>3. OpOK(n)
    BY <2>1, <2>2 DEF Calls, OpOK, Op, Registered, IInv, TypeOK, SessionTypeOK,
                      LifecycleState
  <2>4. Registered(n) /\ ~n.stopped => scope = n.owner
    BY DEF Calls, Op, Registered
  <2>5. op[q].wait = NoRefresh \/ (promise[op[q].wait].pc = "done" /\ n.wait # op[q].wait)
    BY <2>1, <2>2 DEF Calls
  <2>6. op' = [op EXCEPT ![q] = n]
    BY <1>2
  <2>7. SameSession /\ authConfirmed' \in BOOLEAN
    BY <1>2, UnchangedSession DEF IInv, TypeOK, SessionTypeOK
  <2> HIDE DEF n
  <2> QED BY <1>2, <2>2, <2>3, <2>4, <2>5, <2>6, <2>7, OpChange DEF Calls
<1>3. CASE /\ cred.mode # "basic" /\ ~JoinableSlot
           /\ \E f \in Refreshes :
                /\ promise[f].pc = "free"
                /\ StartRefresh(f, Released(q))
                /\ op' = [op EXCEPT ![q] = [o EXCEPT !.wait = f]]
  <2>1. PICK f \in Refreshes :
          /\ promise[f].pc = "free"
          /\ StartRefresh(f, Released(q))
          /\ op' = [op EXCEPT ![q] = [o EXCEPT !.wait = f]]
    BY <1>3
  <2> DEFINE n == [o EXCEPT !.wait = f]
             g == op[q].wait
             fresh == [pc |-> "config", epoch |-> life.epoch, tok |-> refreshTok,
                       value |-> "false"]
  <2>t. life \in LifecycleState /\ life.epoch \in Nat /\ slot \in Refreshes \cup {NoRefresh}
    BY DEF IInv, TypeOK, SessionTypeOK, LifecycleState
  <2>2. n \in Op /\ n.wait = f /\ f # NoRefresh
    BY IdsDisjoint DEF Calls, Op
  <2>3. slot' = f /\ promise'[f] = fresh /\ life' = BeginRefresh(life, life.epoch)
    BY <2>1 DEF StartRefresh, Released, IInv, TypeOK, SessionTypeOK
  <2>4. \A h \in Refreshes \ {f} :
          \/ promise'[h] = promise[h]
          \/ /\ promise[h].pc = "done" /\ promise'[h] = FreePromise
             /\ \A p \in Ops : op'[p].wait # h
    <3>1. CASE Released(q) = promise
      BY <2>1, <3>1 DEF StartRefresh, IInv, TypeOK, SessionTypeOK
    <3>2. CASE Released(q) # promise
      <4>1. /\ g # NoRefresh /\ promise[g].pc = "done"
            /\ \A p \in Ops \ {q} : op[p].wait # g
            /\ Released(q) = [promise EXCEPT ![g] = FreePromise]
        BY <3>2 DEF Released, Calls
      <4>2. g \in Refreshes /\ g # f
        BY <4>1, <2>1 DEF Calls, IInv, TypeOK, Op
      <4>3. \A p \in Ops : op'[p].wait # g
        BY <4>1, <4>2, <2>1, <2>2 DEF Calls, IInv, TypeOK, Op
      <4> QED BY <2>1, <4>1, <4>2, <4>3 DEF StartRefresh, IInv, TypeOK, SessionTypeOK
    <3> QED BY <3>1, <3>2
  <2>5. /\ life'.epoch = life.epoch
        /\ life' \in LifecycleState
        /\ life'.kind \in LoggedOutKinds \cup {"reauthenticating"}
             <=> life.kind \in LoggedOutKinds \cup {"reauthenticating"}
    BY <2>3, <2>t DEF BeginRefresh, LifecycleState, RefreshableKinds, StableKinds,
                      LoggedOutKinds
  <2>6. cred.mode = "oauth"
    BY <1>3 DEF IInv, SessionInv, TypeOK, SessionTypeOK, Credential
  <2>7. TypeOK'
    <3>1. op' \in [Ops -> Op]
      BY <2>1, <2>2 DEF IInv, TypeOK, Calls
    <3>2. promise' \in [Refreshes -> Promise]
      <4>1. FreePromise \in Promise /\ fresh \in Promise
        BY CredTypes, <2>t DEF FreePromise, Promise, IInv, TypeOK, SessionTypeOK
      <4> QED BY <2>1, <4>1 DEF StartRefresh, IInv, TypeOK, SessionTypeOK, Released
    <3> QED BY <3>1, <3>2, <2>3, <2>5 DEF IInv, TypeOK, SessionTypeOK
  <2>8. QuietBeforeMount'
    BY DEF QuietBeforeMount, Mounted, Calls
  <2>9. SessionInv'
    BY <2>5 DEF IInv, SessionInv, Mounted
  <2>10. PromiseInv'
    <3>1. \A h \in Refreshes \ {f} :
            promise[h].pc \in {"config", "exchange"} => promise[h].epoch # life.epoch
      BY <1>3, IdsDisjoint DEF JoinableSlot, IInv, PromiseInv, Unsettled
    <3>2. refreshTok # NoCred => Redeemable(refreshTok, life.epoch)
      BY <2>6 DEF IInv, SessionInv, Calls, Mounted
    <3>3. \A h \in Refreshes \ {f} :
            promise'[h] = promise[h] \/ promise'[h].pc = "free"
      BY <2>4 DEF FreePromise
    <3>4. ASSUME NEW h \in Refreshes \ {f}
          PROVE  /\ promise'[h].pc # "free" => promise'[h].epoch <= life.epoch
                 /\ promise'[h].pc \in {"config", "exchange"} =>
                      /\ promise'[h].tok # NoCred =>
                           Redeemable(promise'[h].tok, promise'[h].epoch)
                      /\ promise'[h].epoch # life.epoch
                 /\ promise'[h].pc # "free" => promise'[h].epoch = life.epoch
                 /\ promise'[h].pc \in {"settled", "done"} /\ promise'[h].value = "false" =>
                      promise'[h].epoch # life.epoch
      <4>1. CASE promise'[h] = promise[h]
        BY <2>6, <3>1, <4>1 DEF IInv, PromiseInv, Unsettled, Resolves
      <4>2. CASE promise'[h].pc = "free"
        BY <4>2
      <4> QED BY <3>3, <4>1, <4>2
    <3>5. \A h, i \in Refreshes \ {f} :
            h # i /\ promise'[h].pc \in {"config", "exchange"}
                  /\ promise'[i].pc \in {"config", "exchange"}
              => FALSE
      BY <3>4
    <3> QED
      BY <2>t, <2>3, <2>5, <2>6, <3>2, <3>4, <3>5 DEF PromiseInv, Unsettled, Resolves
  <2>11. OpInv'
    <3> SUFFICES ASSUME NEW p \in Ops
                 PROVE  OpOK(op[p])'
      BY DEF OpInv
    <3>1. CASE p = q
      <4>1. op'[p] = n
        BY <2>1, <3>1 DEF IInv, TypeOK
      <4> QED
        BY <4>1, <2>2, <2>3, <2>5, <2>t DEF OpOK, Calls, Registered, Op
    <3>2. CASE p # q
      <4>1. op'[p] = op[p] /\ op[p].wait \in Refreshes \cup {NoRefresh} /\ OpOK(op[p])
        BY <2>1, <3>2 DEF IInv, TypeOK, Op, OpInv
      <4>2. op[p].wait # f
        BY <4>1, <2>1, <2>2 DEF OpOK
      <4> QED
        BY <4>1, <4>2, <2>4, <2>5 DEF OpOK, Registered
    <3> QED BY <3>1, <3>2
  <2>12. RefreshingIsBacked'
    BY <2>2, <2>3, <2>5 DEF RefreshingIsBacked
  <2>13. ClosedScopeStopsItsOperations'
    BY <2>1, <2>2 DEF IInv, TypeOK, ClosedScopeStopsItsOperations, Calls, Op, Registered
  <2>14. KillInv'
    BY DEF IInv, KillInv, KillUsesOwnSession
  <2>15. ReportInv'
    BY <2>5 DEF IInv, ReportInv, AuthLossReportedOnce
  <2> QED
    BY <2>7, <2>8, <2>9, <2>10, <2>11, <2>12, <2>13, <2>14, <2>15 DEF IInv
<1> QED BY <1>1, <1>2, <1>3 DEF AwaitRefresh

LEMMA AwaitTokenStep ==
  ASSUME IInv, NEW q, NEW o, Calls(q, o), o.pc # "refresh",
         AwaitToken(q, o),
         UNCHANGED tokenFrame
  PROVE  IInv'
<1>1. CASE /\ cred.mode = "oauth" /\ aging
           /\ AwaitRefresh(q, [o EXCEPT !.got = NoCred])
  <2> DEFINE n == [o EXCEPT !.got = NoCred]
  <2>1. Calls(q, n)
    BY CredTypes DEF Calls, Op
  <2>2. cred # NoCred
    BY <1>1 DEF NoCred
  <2>3. AwaitRefresh(q, n)
    BY <1>1
  <2> HIDE DEF n
  <2> QED BY <1>1, <2>1, <2>2, <2>3, AwaitRefreshStep
<1>2. CASE /\ op' = [op EXCEPT ![q] = [o EXCEPT !.wait = NoRefresh, !.got = cred]]
           /\ promise' = Released(q)
           /\ UNCHANGED <<life, slot>>
  <2> DEFINE n == [o EXCEPT !.wait = NoRefresh, !.got = cred]
  <2>1. n \in Op /\ n.wait = NoRefresh
    BY DEF Calls, Op, IInv, TypeOK, SessionTypeOK
  <2>2. cred # NoCred => Belongs(cred, life.epoch)
    BY DEF Calls, Mounted, IInv, SessionInv
  <2>3. OpOK(n)
    BY <2>1, <2>2 DEF Calls, OpOK, Op, Registered, IInv, TypeOK, SessionTypeOK, LifecycleState
  <2>4. Registered(n) /\ ~n.stopped => scope = n.owner
    BY DEF Calls, Op, Registered
  <2>5. op' = [op EXCEPT ![q] = n]
    BY <1>2
  <2>6. op[q].wait = NoRefresh \/ (promise[op[q].wait].pc = "done" /\ n.wait # op[q].wait)
    <3>1. op[q].wait # NoRefresh => n.wait # op[q].wait
      BY <2>1
    <3> QED BY <3>1 DEF Calls
  <2>7. SameSession /\ authConfirmed' \in BOOLEAN
    BY <1>2, UnchangedSession DEF tokenFrame, IInv, TypeOK, SessionTypeOK
  <2> HIDE DEF n
  <2> QED BY <1>2, <2>1, <2>3, <2>4, <2>5, <2>6, <2>7, OpChange DEF Calls, tokenFrame
<1> QED BY <1>1, <1>2 DEF AwaitToken

-----------------------------------------------------------------------------
(* The operations that call getToken() or refresh() *)

LEMMA RegisterStep ==
  ASSUME IInv, NEW q \in Ops, Register(q)
  PROVE  IInv'
<1> DEFINE o == [op[q] EXCEPT !.pc = "preflight", !.epoch = life.epoch]
<1>1. Mounted
  BY BusyIsMounted DEF Register
<1>2. /\ op[q] \in Op /\ OpOK(op[q]) /\ life.epoch \in Nat
      /\ scope # NoEpoch => scope = life.epoch
  BY DEF IInv, TypeOK, SessionTypeOK, LifecycleState, OpInv, SessionInv
<1>3. Calls(q, o) /\ o.pc # "refresh"
  BY <1>1, <1>2 DEF Register, Calls, Op, OpOK
<1>4. AwaitToken(q, o) /\ UNCHANGED tokenFrame
  BY DEF Register
<1> HIDE DEF o
<1> QED BY <1>3, <1>4, AwaitTokenStep

LEMMA RequestStep ==
  ASSUME IInv, NEW q \in Ops, Request(q)
  PROVE  IInv'
<1> DEFINE o == [op[q] EXCEPT !.pc = "token", !.epoch = life.epoch]
<1>1. Mounted
  BY BusyIsMounted DEF Request
<1>2. /\ op[q] \in Op /\ OpOK(op[q]) /\ life.epoch \in Nat
      /\ scope # NoEpoch => scope = life.epoch
  BY DEF IInv, TypeOK, SessionTypeOK, LifecycleState, OpInv, SessionInv
<1>3. Calls(q, o) /\ o.pc # "refresh"
  BY <1>1, <1>2 DEF Request, Got, Current, Calls, Op, OpOK
<1>4. AwaitToken(q, o) /\ UNCHANGED tokenFrame
  BY DEF Request
<1> HIDE DEF o
<1> QED BY <1>3, <1>4, AwaitTokenStep

LEMMA RequestUnscopedStep ==
  ASSUME IInv, NEW q \in Ops, RequestUnscoped(q)
  PROVE  IInv'
<1> DEFINE o == [IdleOp EXCEPT !.pc = "token", !.epoch = life.epoch]
<1>1. /\ op[q] \in Op /\ OpOK(op[q]) /\ life.epoch \in Nat
  BY DEF IInv, TypeOK, SessionTypeOK, LifecycleState, OpInv
<1>2. o \in Op
  BY <1>1, CredTypes DEF Op
<1>3. Calls(q, o) /\ o.pc # "refresh"
  BY <1>1, <1>2 DEF RequestUnscoped, Calls, OpOK, IdleOp
<1>4. AwaitToken(q, o) /\ UNCHANGED tokenFrame
  BY DEF RequestUnscoped
<1> HIDE DEF o
<1> QED BY <1>3, <1>4, AwaitTokenStep

LEMMA RetryStep ==
  ASSUME IInv, NEW q \in Ops, Retry(q)
  PROVE  IInv'
<1> DEFINE o == [op[q] EXCEPT !.pc = "retoken"]
<1>1. Mounted
  BY BusyIsMounted DEF Retry
<1>2. /\ op[q] \in Op /\ OpOK(op[q])
      /\ Registered(op[q]) /\ ~op[q].stopped => scope = op[q].owner
  BY DEF IInv, TypeOK, OpInv, ClosedScopeStopsItsOperations
<1>3. Calls(q, o) /\ o.pc # "refresh"
  BY <1>1, <1>2 DEF Retry, Resolved, Stale, Calls, Op, OpOK, Registered
<1>4. AwaitToken(q, o) /\ UNCHANGED tokenFrame
  BY DEF Retry
<1> HIDE DEF o
<1> QED BY <1>3, <1>4, AwaitTokenStep

LEMMA AuthExpiredStep ==
  ASSUME IInv, NEW q \in Ops, AuthExpired(q)
  PROVE  IInv'
<1> DEFINE o == [op[q] EXCEPT !.pc = "refresh"]
<1>1. Mounted
  BY BusyIsMounted DEF AuthExpired
<1>2. /\ op[q] \in Op /\ OpOK(op[q])
      /\ Registered(op[q]) /\ ~op[q].stopped => scope = op[q].owner
  BY DEF IInv, TypeOK, OpInv, ClosedScopeStopsItsOperations
<1>3. Calls(q, o) /\ o.pc = "refresh" /\ cred # NoCred
  BY <1>1, <1>2 DEF AuthExpired, Stale, Calls, Op, OpOK, Registered
<1>4. AwaitRefresh(q, o) /\ UNCHANGED tokenFrame
  BY DEF AuthExpired
<1> HIDE DEF o
<1> QED BY <1>3, <1>4, AwaitRefreshStep

-----------------------------------------------------------------------------
(* The operations that move on by themselves *)

\* An operation that ends, or resumes from a promise, without touching the session.
Lets(q, n) ==
  /\ op' = [op EXCEPT ![q] = n]
  /\ \/ promise' = promise
     \/ promise' = Released(q) /\ n.wait = NoRefresh
          /\ (op[q].wait = NoRefresh \/ promise[op[q].wait].pc = "done")

LEMMA LetsGo ==
  ASSUME IInv, NEW q \in Ops, Mounted, NEW n \in Op, Lets(q, n),
         OpOK(n),
         Registered(n) /\ ~n.stopped => scope = n.owner,
         kills' = kills \/ (KillTypeOK' /\ KillInv'),
         UNCHANGED <<life, slot, cred, refreshTok, aging, authConfirmed, lossReported, prior,
                     attempt, phase, scope, closedWith, busy, reports>>
  PROVE  IInv'
<1>1. SameSession /\ authConfirmed' \in BOOLEAN
  BY UnchangedSession DEF IInv, TypeOK, SessionTypeOK
<1>2. \/ promise' = promise
      \/ /\ promise' = Released(q)
         /\ op[q].wait = NoRefresh
              \/ (promise[op[q].wait].pc = "done" /\ n.wait # op[q].wait)
  BY DEF Lets
<1> QED BY <1>1, <1>2, OpChange DEF Lets

LEMMA EndStep ==
  ASSUME IInv, NEW q \in Ops, op[q].pc # "idle", Lets(q, IdleOp),
         kills' = kills \/ (KillTypeOK' /\ KillInv'),
         UNCHANGED <<life, slot, cred, refreshTok, aging, authConfirmed, lossReported, prior,
                     attempt, phase, scope, closedWith, busy, reports>>
  PROVE  IInv'
BY IdleOpOK, CredTypes, BusyIsMounted, LetsGo

LEMMA RegisterLateStep ==
  ASSUME IInv, NEW q \in Ops, RegisterLate(q)
  PROVE  IInv'
<1>1. /\ op[q] \in Op /\ op[q].bearer = NoCred
      /\ closedWith \subseteq [epoch: Nat, lease: Credential]
  BY DEF RegisterLate, IInv, TypeOK, OpInv, OpOK
<1>2. KillTypeOK'
  BY <1>1 DEF RegisterLate, KillTypeOK, IInv, TypeOK, Op
<1>3. KillInv'
  BY <1>1 DEF RegisterLate, KillInv, KillUsesOwnSession, IInv
<1> QED
  BY <1>2, <1>3, EndStep DEF RegisterLate, End, Without, Lets, sessionVars

LEMMA LocalEndStep ==
  ASSUME IInv, NEW q \in Ops,
         PreflightDropped(q) \/ Superseded(q) \/ ErrorReturned(q)
  PROVE  IInv'
<1>1. op[q].pc # "idle"
  BY DEF PreflightDropped, Superseded, ErrorReturned
<1>2. Lets(q, IdleOp)
  BY DEF PreflightDropped, Superseded, ErrorReturned, End, Without, Lets, sessionVars
<1> QED
  BY <1>1, <1>2, EndStep
     DEF PreflightDropped, Superseded, ErrorReturned, sessionVars

LEMMA ReleaseEndStep ==
  ASSUME IInv, NEW q \in Ops, RefreshRejected(q) \/ RetrySuperseded(q)
  PROVE  IInv'
<1>1. op[q].pc # "idle"
  BY DEF RefreshRejected, RetrySuperseded, Resolved, IInv, OpInv, OpOK
<1>2. op[q].wait = NoRefresh \/ promise[op[q].wait].pc = "done"
  BY DEF RefreshRejected, RetrySuperseded, Resolved, Refused
<1>3. Lets(q, IdleOp)
  BY <1>2 DEF RefreshRejected, RetrySuperseded, End, Without, Lets, IdleOp
<1> QED
  BY <1>1, <1>3, EndStep DEF RefreshRejected, RetrySuperseded, tokenFrame

LEMMA ProgressStep ==
  ASSUME IInv, NEW q \in Ops,
         Send(q) \/ Resend(q) \/ ResponseError(q) \/ AuthExpiredAgain(q)
  PROVE  IInv'
<1>1. PICK n : /\ op' = [op EXCEPT ![q] = n]
               /\ \/ /\ op[q].pc \in {"token", "retoken"} /\ Got(q) /\ ~Stale(q)
                     /\ op[q].pc = "token" => op[q].got # NoCred
                     /\ \/ n = [op[q] EXCEPT !.pc = "fetch", !.bearer = op[q].got]
                        \/ n = [op[q] EXCEPT !.pc = "fetch", !.bearer = op[q].got,
                                             !.retried = TRUE]
                  \/ /\ op[q].pc \in {"fetch", "peek"} /\ ~Stale(q)
                     /\ \/ n = [op[q] EXCEPT !.pc = "peek"]
                        \/ n = [op[q] EXCEPT !.pc = "reason"]
  <2>1. CASE Send(q)
    BY <2>1 DEF Send
  <2>2. CASE Resend(q)
    BY <2>2 DEF Resend
  <2>3. CASE ResponseError(q)
    BY <2>3 DEF ResponseError
  <2>4. CASE AuthExpiredAgain(q)
    BY <2>4 DEF AuthExpiredAgain
  <2> QED BY <2>1, <2>2, <2>3, <2>4
<1>2. /\ op[q] \in Op /\ OpOK(op[q])
      /\ Registered(op[q]) /\ ~op[q].stopped => scope = op[q].owner
  BY DEF IInv, TypeOK, OpInv, ClosedScopeStopsItsOperations
<1>3. n \in Op
  BY <1>1, <1>2 DEF Op
<1>4. OpOK(n)
  BY <1>1, <1>2 DEF Op, OpOK, Registered, Got, Stale
<1>5. Registered(n) /\ ~n.stopped => scope = n.owner
  <2>1. /\ n.owner = op[q].owner /\ n.stopped = op[q].stopped
        /\ op[q].pc \notin {"idle", "held"}
    BY <1>1, <1>2 DEF Op
  <2> QED BY <1>2, <2>1 DEF Registered
<1>6. UNCHANGED <<sessionVars, phase, scope, closedWith, busy, kills, reports>>
  BY DEF Send, Resend, ResponseError, AuthExpiredAgain
<1>7. Mounted
  BY <1>1, BusyIsMounted
<1>8. Lets(q, n)
  BY <1>1, <1>6 DEF Lets, sessionVars
<1> QED BY <1>3, <1>4, <1>5, <1>6, <1>7, <1>8, LetsGo DEF sessionVars

\* getToken answers after its refresh, or the refused refresh of a request is noticed.
LEMMA ResumeStep ==
  ASSUME IInv, NEW q \in Ops,
         TokenRefreshed(q) \/ TokenNotRefreshed(q) \/ RetryRefused(q)
  PROVE  IInv'
<1>1. /\ op[q] \in Op /\ OpOK(op[q])
      /\ Registered(op[q]) /\ ~op[q].stopped => scope = op[q].owner
  BY DEF IInv, TypeOK, OpInv, ClosedScopeStopsItsOperations
<1>2. op[q].pc # "idle"
  BY DEF TokenRefreshed, TokenNotRefreshed, RetryRefused, AtGetToken
<1>3. Mounted
  BY <1>2, BusyIsMounted
<1>4. UNCHANGED <<life, slot, tokenFrame>> /\ promise' = Released(q)
  BY DEF TokenRefreshed, TokenNotRefreshed, RetryRefused
<1>5. cred \in Credential /\ (cred # NoCred => Belongs(cred, life.epoch))
  BY <1>3 DEF IInv, TypeOK, SessionTypeOK, SessionInv, Mounted
<1>6. CASE TokenRefreshed(q) \/ TokenNotRefreshed(q)
  <2>1. PICK c \in Credential :
          /\ op' = [op EXCEPT ![q] = [op[q] EXCEPT !.wait = NoRefresh, !.got = c]]
          /\ AtGetToken(q)
          /\ op[q].wait \in Refreshes /\ promise[op[q].wait].pc = "done"
          /\ op[q].epoch = life.epoch => c \in {cred, NoCred}
          /\ op[q].epoch = life.epoch /\ op[q].pc = "retoken" => c # NoCred
    <3>1. /\ op[q].wait \in Refreshes
          /\ promise[op[q].wait].pc = "done"
          /\ promise[op[q].wait].epoch = op[q].epoch
          /\ AtGetToken(q)
          /\ promise[op[q].wait].value = "true" \/ promise[op[q].wait].value = "false"
      BY <1>1, <1>6 DEF TokenRefreshed, TokenNotRefreshed, Resolved, OpOK, Op
    <3>2. CASE TokenRefreshed(q)
      <4>1. op[q].epoch = life.epoch => cred.mode = "oauth"
        BY <3>1, <3>2 DEF TokenRefreshed, Resolved, IInv, PromiseInv, Resolves
      <4>2. op' = [op EXCEPT ![q] = [op[q] EXCEPT !.wait = NoRefresh,
                     !.got = IF cred.mode = "oauth" THEN cred ELSE NoCred]]
        BY <3>2 DEF TokenRefreshed
      <4> DEFINE c == IF cred.mode = "oauth" THEN cred ELSE NoCred
      <4>3. c \in Credential
        BY <1>5, CredTypes
      <4>4. /\ op[q].epoch = life.epoch => c \in {cred, NoCred}
            /\ op[q].epoch = life.epoch => c # NoCred
        BY <4>1 DEF NoCred
      <4>5. op' = [op EXCEPT ![q] = [op[q] EXCEPT !.wait = NoRefresh, !.got = c]]
        BY <4>2
      <4> HIDE DEF c
      <4> QED BY <3>1, <4>3, <4>4, <4>5
    <3>3. CASE TokenNotRefreshed(q)
      <4>1. op[q].epoch # life.epoch
        BY <3>1, <3>3 DEF TokenNotRefreshed, Resolved, IInv, PromiseInv, Resolves
      <4>2. op' = [op EXCEPT ![q] = [op[q] EXCEPT !.wait = NoRefresh, !.got = cred]]
        BY <3>3, <4>1 DEF TokenNotRefreshed, Stale
      <4> QED BY <1>5, <3>1, <4>1, <4>2
    <3> QED BY <1>6, <3>2, <3>3
  <2> DEFINE n == [op[q] EXCEPT !.wait = NoRefresh, !.got = c]
  <2>2. n \in Op /\ n.wait = NoRefresh
    BY <1>1 DEF Op
  <2>3. OpOK(n)
    BY <1>1, <1>5, <2>1, <2>2, CredTypes DEF Op, OpOK, Registered, AtGetToken
  <2>4. Registered(n) /\ ~n.stopped => scope = n.owner
    BY <1>1 DEF Op, Registered
  <2>5. op' = [op EXCEPT ![q] = n]
    BY <2>1
  <2> HIDE DEF n
  <2>6. Lets(q, n)
    BY <1>4, <2>1, <2>2, <2>5 DEF Lets
  <2> QED BY <1>3, <1>4, <2>2, <2>3, <2>4, <2>6, LetsGo DEF tokenFrame
<1>7. CASE RetryRefused(q)
  <2> DEFINE n == [op[q] EXCEPT !.pc = "reason", !.wait = NoRefresh]
  <2>1. op[q].pc = "refresh" /\ (op[q].wait = NoRefresh \/ promise[op[q].wait].pc = "done")
    BY <1>7 DEF RetryRefused, Refused, Resolved
  <2>2. n \in Op /\ n.wait = NoRefresh /\ n.pc = "reason"
    BY <1>1 DEF Op
  <2>3. OpOK(n)
    BY <1>1, <2>1, <2>2 DEF Op, OpOK, Registered
  <2>4. Registered(n) /\ ~n.stopped => scope = n.owner
    BY <1>1, <2>1 DEF Op, Registered
  <2>5. op' = [op EXCEPT ![q] = n]
    BY <1>7 DEF RetryRefused
  <2> HIDE DEF n
  <2>6. Lets(q, n)
    BY <1>4, <2>1, <2>2, <2>5 DEF Lets
  <2> QED BY <1>3, <1>4, <2>2, <2>3, <2>4, <2>6, LetsGo DEF tokenFrame
<1> QED BY <1>6, <1>7

LEMMA BeginStep ==
  ASSUME IInv, NEW q \in Ops, Begin(q)
  PROVE  IInv'
<1> DEFINE n == [IdleOp EXCEPT !.pc = "held", !.owner = scope]
<1>1. Mounted
  BY BusyIsMounted DEF Begin
<1>2. n \in Op /\ n.pc = "held"
  BY CredTypes DEF Op, IInv, TypeOK, IdleOp
<1>3. OpOK(n) /\ ~Registered(n)
  BY IdleOpOK DEF Begin, OpOK, IdleOp, Registered
<1>4. op' = [op EXCEPT ![q] = n]
  BY DEF Begin
<1>5. UNCHANGED <<sessionVars, phase, scope, closedWith, busy, kills, reports>>
  BY DEF Begin
<1> HIDE DEF n
<1>6. Lets(q, n)
  BY <1>4, <1>5 DEF Lets, sessionVars
<1> QED BY <1>1, <1>2, <1>3, <1>5, <1>6, LetsGo DEF sessionVars

LEMMA CancelStep ==
  ASSUME IInv, NEW q \in Ops, Cancel(q)
  PROVE  IInv'
<1> DEFINE n == [op[q] EXCEPT !.stopped = TRUE]
<1>1. /\ op[q] \in Op /\ OpOK(op[q]) /\ Registered(op[q])
      /\ op[q].owner \in Nat
  BY DEF Cancel, IInv, TypeOK, OpInv, Registered, Op
<1>2. Mounted
  BY <1>1, BusyIsMounted DEF Registered
<1>3. n \in Op /\ n.stopped
  BY <1>1 DEF Op
<1>4. OpOK(n)
  BY <1>1 DEF Op, OpOK, Registered
<1>5. op' = [op EXCEPT ![q] = n]
  BY DEF Cancel
<1>6. UNCHANGED <<sessionVars, phase, scope, closedWith, busy, reports>>
  BY DEF Cancel
<1>7. CancellationLease(op[q].owner) \in Credential
      /\ (CancellationLease(op[q].owner) # NoCred =>
            Belongs(CancellationLease(op[q].owner), op[q].owner))
  BY <1>2, CredTypes
     DEF CancellationLease, IInv, TypeOK, SessionTypeOK, SessionInv, Mounted
<1>8. KillTypeOK'
  BY <1>1, <1>7 DEF Cancel, KillTypeOK, IInv, TypeOK, Op
<1>9. KillInv'
  <2>1. op[q].bearer # NoCred => Belongs(op[q].bearer, op[q].owner)
    BY <1>1 DEF OpOK
  <2> QED BY <1>7, <2>1 DEF Cancel, KillInv, KillUsesOwnSession, IInv
<1> HIDE DEF n
<1>10. Lets(q, n)
  BY <1>5, <1>6 DEF Lets, sessionVars
<1> QED BY <1>2, <1>3, <1>4, <1>6, <1>8, <1>9, <1>10, LetsGo DEF sessionVars

\* The answer of the network moves the status within the signed-in kinds.
LEMMA TransportStep ==
  ASSUME IInv, NEW q \in Ops, FetchFails(q) \/ ResponseOk(q)
  PROVE  IInv'
<1>1. op[q].pc = "fetch" /\ op' = [op EXCEPT ![q] = IdleOp]
  BY DEF FetchFails, ResponseOk, End, Without
<1>2. life' \in {life, TransportOffline(life, life.epoch), TransportConnected(life, life.epoch)}
  BY DEF FetchFails, ResponseOk
<1>3. life \in LifecycleState /\ authConfirmed' \in BOOLEAN
  BY DEF IInv, TypeOK, SessionTypeOK, FetchFails, ResponseOk
<1>4. SameSession
  <2>1. TransportOffline(life, life.epoch) \in LifecycleState
        /\ TransportConnected(life, life.epoch) \in LifecycleState
    BY <1>3 DEF TransportOffline, TransportConnected, Stable, LifecycleState, StableKinds,
                RefreshableKinds, LoggedOutKinds
  <2>2. /\ TransportOffline(life, life.epoch).epoch = life.epoch
        /\ TransportConnected(life, life.epoch).epoch = life.epoch
    BY <1>3 DEF TransportOffline, TransportConnected, Stable, LifecycleState
  <2>3. \/ life' = life
        \/ /\ life.kind = "refreshing" /\ life'.kind = "refreshing"
        \/ /\ life.kind \in RefreshableKinds /\ life'.kind \in RefreshableKinds
    BY <1>2, <1>3 DEF TransportOffline, TransportConnected, Stable, LifecycleState,
                      RefreshableKinds
  <2> QED BY <1>2, <1>3, <2>1, <2>2, <2>3
          DEF SameSession, RefreshableKinds, LoggedOutKinds
<1>5. UNCHANGED <<cred, refreshTok, aging, slot, promise, lossReported,
                  prior, attempt, phase, scope, closedWith, busy, kills, reports>>
  BY DEF FetchFails, ResponseOk
<1>6. Mounted
  BY <1>1, BusyIsMounted
<1> QED BY <1>1, <1>3, <1>4, <1>5, <1>6, CredTypes, IdleOpOK, OpChange

-----------------------------------------------------------------------------
(* The session ends, begins or is reported lost *)

\* What ending, stopping or leaving alone does to an operation.
Weaker(o, n) == n = o \/ n = [o EXCEPT !.stopped = TRUE] \/ n = IdleOp

LEMMA OpsKept ==
  ASSUME IInv, op' \in [Ops -> Op], \A p \in Ops : Weaker(op[p], op'[p]),
         life'.epoch \in Nat, life'.epoch >= life.epoch,
         life'.epoch = life.epoch /\ cred # NoCred => cred' # NoCred,
         \A f \in Refreshes : promise[f].pc # "free" =>
           promise'[f].pc # "free" /\ promise'[f].epoch = promise[f].epoch
  PROVE  OpInv'
<1> SUFFICES ASSUME NEW p \in Ops
             PROVE  OpOK(op[p])'
  BY DEF OpInv
<1>1. op[p] \in Op /\ OpOK(op[p]) /\ life.epoch \in Nat
  BY DEF IInv, TypeOK, SessionTypeOK, LifecycleState, OpInv
<1>2. CASE op'[p] = IdleOp
  BY <1>2, CredTypes DEF OpOK, IdleOp, Registered
<1>3. CASE op'[p] = op[p] \/ op'[p] = [op[p] EXCEPT !.stopped = TRUE]
  <2>1. op[p].wait # NoRefresh => op[p].wait \in Refreshes
    BY <1>1 DEF Op
  <2>2. /\ op'[p].pc = op[p].pc /\ op'[p].owner = op[p].owner
        /\ op'[p].epoch = op[p].epoch /\ op'[p].bearer = op[p].bearer
        /\ op'[p].wait = op[p].wait /\ op'[p].got = op[p].got
    BY <1>1, <1>3 DEF Op
  <2>3. op[p].epoch \in Nat
    BY <1>1 DEF Op
  <2>4. op[p].wait # NoRefresh => /\ promise'[op[p].wait].pc # "free"
                                  /\ promise'[op[p].wait].epoch = op[p].epoch
    BY <1>1, <2>1 DEF OpOK
  <2>5. op[p].epoch = life'.epoch => life'.epoch = life.epoch
    BY <1>1, <2>3 DEF OpOK
  <2> QED BY <1>1, <2>2, <2>3, <2>4, <2>5 DEF OpOK, Registered
<1> QED BY <1>2, <1>3 DEF Weaker

\* What is in flight when the epoch advances belongs to an older one.
LEMMA PromisesOutlived ==
  ASSUME IInv, life'.epoch \in Nat, life'.epoch > life.epoch,
         promise' = promise, slot' = slot,
         cred'.mode # "oauth" \/ \A f \in Refreshes : promise[f].pc = "free"
  PROVE  PromiseInv'
<1>1. life.epoch \in Nat /\ promise \in [Refreshes -> Promise]
  BY DEF IInv, TypeOK, SessionTypeOK, LifecycleState
<1>2. ASSUME NEW f \in Refreshes
      PROVE  promise[f].pc # "free" =>
               promise[f].epoch <= life'.epoch /\ promise[f].epoch # life'.epoch
  BY <1>1 DEF IInv, PromiseInv, Promise
<1> QED BY <1>2 DEF IInv, PromiseInv, Unsettled, Resolves

LEMMA CloseScopeStep ==
  ASSUME IInv, Mounted,
         NEW ops \in [Ops -> Op], \A p \in Ops : Weaker(op[p], ops[p]),
         NEW lease, NEW leaseEpoch \in Nat,
         lease = NoCred \/ lease = CancellationLease(leaseEpoch),
         CloseScope(lease, leaseEpoch, ops)
  PROVE  /\ op' \in [Ops -> Op] /\ \A p \in Ops : Weaker(op[p], op'[p])
         /\ scope' = NoEpoch
         /\ closedWith' \subseteq [epoch: Nat, lease: Credential]
         /\ ClosedScopeStopsItsOperations'
         /\ KillTypeOK' /\ KillInv'
<1> DEFINE closeLease == IF leaseEpoch = scope THEN lease ELSE NoCred
           active == {q \in Ops : Registered(ops[q]) /\ ops[q].owner = scope}
<1>1. /\ scope' = NoEpoch
      /\ closedWith' = closedWith \cup
           {[epoch |-> e, lease |-> closeLease] : e \in {scope} \ {NoEpoch}}
      /\ op' = [q \in Ops |-> IF q \in active THEN [ops[q] EXCEPT !.stopped = TRUE]
                                              ELSE ops[q]]
      /\ kills' = kills \cup {[owner |-> scope, victim |-> ops[q].bearer,
                               by |-> closeLease] :
                       q \in {q \in active : ops[q].pc # "preflight" /\ closeLease # NoCred}}
  BY DEF CloseScope
<1>2. closeLease \in Credential /\ (closeLease # NoCred => scope # NoEpoch
                                      /\ Belongs(closeLease, scope))
  BY CredTypes
     DEF CancellationLease, IInv, TypeOK, SessionTypeOK, SessionInv, Mounted, NoEpoch
<1>3. scope \in Nat \cup {NoEpoch}
  BY DEF IInv, TypeOK
<1>4. ASSUME NEW p \in Ops
      PROVE  /\ op'[p] \in Op /\ Weaker(op[p], op'[p])
             /\ Registered(op'[p]) /\ ~op'[p].stopped => FALSE
             /\ p \in active => ops[p].bearer \in Credential /\ scope # NoEpoch /\
                                  (ops[p].bearer # NoCred => Belongs(ops[p].bearer, scope))
  <2>1. /\ op[p] \in Op /\ ops[p] \in Op /\ Weaker(op[p], ops[p]) /\ OpOK(op[p])
        /\ Registered(op[p]) /\ ~op[p].stopped => scope = op[p].owner
    BY DEF IInv, TypeOK, OpInv, ClosedScopeStopsItsOperations
  <2>2. CASE ops[p] = IdleOp
    <3>1. ~Registered(ops[p])
      BY <2>2 DEF Registered, IdleOp
    <3> QED BY <1>1, <2>1, <2>2, <3>1 DEF Weaker
  <2>3. CASE ops[p] = op[p] \/ ops[p] = [op[p] EXCEPT !.stopped = TRUE]
    <3>1. /\ ops[p].pc = op[p].pc /\ ops[p].owner = op[p].owner
          /\ ops[p].bearer = op[p].bearer /\ ops[p].epoch = op[p].epoch
      BY <2>1, <2>3 DEF Op
    <3>2. ops[p].bearer \in Credential
      BY <2>1 DEF Op
    <3>3. CASE p \in active
      <4>1. op'[p] = [ops[p] EXCEPT !.stopped = TRUE]
        BY <1>1, <3>3
      <4>2. op'[p] \in Op /\ op'[p].stopped /\ op'[p] = [op[p] EXCEPT !.stopped = TRUE]
        BY <2>1, <2>3, <4>1 DEF Op
      <4>3. /\ scope # NoEpoch
            /\ ops[p].bearer # NoCred => Belongs(ops[p].bearer, scope)
        BY <2>1, <3>1, <3>3 DEF Registered, OpOK
      <4> QED BY <3>2, <4>2, <4>3 DEF Weaker
    <3>4. CASE p \notin active
      <4>1. op'[p] = ops[p]
        BY <1>1, <3>4
      <4>2. Registered(ops[p]) /\ ~ops[p].stopped => FALSE
        <5>1. CASE ops[p] = op[p]
          BY <2>1, <3>4, <5>1
        <5>2. CASE ops[p] = [op[p] EXCEPT !.stopped = TRUE]
          BY <2>1, <5>2 DEF Op
        <5> QED BY <2>3, <5>1, <5>2
      <4> QED BY <2>1, <3>4, <4>1, <4>2
    <3> QED BY <3>3, <3>4
  <2> QED BY <2>1, <2>2, <2>3 DEF Weaker
<1> HIDE DEF closeLease
<1>5. op' \in [Ops -> Op]
  BY <1>1, <1>4
<1>6. closedWith' \subseteq [epoch: Nat, lease: Credential]
  BY <1>1, <1>2, <1>3 DEF IInv, TypeOK
<1>7. ClosedScopeStopsItsOperations'
  BY <1>4 DEF ClosedScopeStopsItsOperations, Registered
<1>8. KillTypeOK'
  BY <1>1, <1>2, <1>3, <1>4 DEF KillTypeOK, IInv, TypeOK
<1>9. KillInv'
  <2>1. \A c \in closedWith' : c.lease # NoCred => Belongs(c.lease, c.epoch)
    BY <1>1, <1>2 DEF IInv, KillInv
  <2>2. \A k \in kills' : /\ Belongs(k.by, k.owner)
                          /\ k.victim # NoCred => Belongs(k.victim, k.owner)
    BY <1>1, <1>2, <1>4 DEF IInv, KillInv, KillUsesOwnSession
  <2> QED BY <2>1, <2>2 DEF KillInv, KillUsesOwnSession
<1> QED BY <1>1, <1>4, <1>5, <1>6, <1>7, <1>8, <1>9

\* requireAuthentication(epoch), whoever calls it: an operation that ends, or a refresh
\* of that epoch that settles with false.
LEMMA LossStep ==
  ASSUME IInv, Mounted,
         NEW epoch \in Nat,
         NEW ops \in [Ops -> Op], \A p \in Ops : Weaker(op[p], ops[p]),
         RequireAuthentication(epoch, ops),
         promise' = promise \/
           \E f \in Refreshes : /\ promise[f].pc = "exchange" /\ promise[f].epoch = epoch
                                /\ epoch = life.epoch
                                /\ SettleWith(f, "false"),
         UNCHANGED <<slot, prior, attempt, phase>>
  PROVE  IInv'
<1>0. /\ life \in LifecycleState /\ life.epoch \in Nat
      /\ promise \in [Refreshes -> Promise] /\ slot \in Refreshes \cup {NoRefresh}
  BY DEF IInv, TypeOK, SessionTypeOK, LifecycleState
<1>1. promise' \in [Refreshes -> Promise]
      /\ \A f \in Refreshes :
           \/ promise'[f] = promise[f]
           \/ /\ promise[f].pc = "exchange" /\ promise'[f].pc = "settled"
              /\ promise[f].epoch = epoch /\ epoch = life.epoch
              /\ promise'[f].epoch = epoch /\ promise'[f].value = "false"
  <2>1. CASE promise' = promise
    BY <1>0, <2>1
  <2>2. CASE \E f \in Refreshes : /\ promise[f].pc = "exchange" /\ promise[f].epoch = epoch
                                  /\ epoch = life.epoch
                                  /\ SettleWith(f, "false")
    <3>1. PICK f \in Refreshes : /\ promise[f].pc = "exchange" /\ promise[f].epoch = epoch
                                 /\ epoch = life.epoch
                                 /\ SettleWith(f, "false")
      BY <2>2
    <3>2. promise' = [promise EXCEPT ![f] = [promise[f] EXCEPT !.pc = "settled",
                                                              !.value = "false"]]
      BY <3>1, <1>0 DEF SettleWith
    <3>3. [promise[f] EXCEPT !.pc = "settled", !.value = "false"] \in Promise
      BY <1>0 DEF Promise
    <3> QED BY <1>0, <3>1, <3>2, <3>3 DEF Promise
  <2> QED BY <2>1, <2>2
<1>2. \A f \in Refreshes : promise[f].pc # "free" =>
           promise'[f].pc # "free" /\ promise'[f].epoch = promise[f].epoch
  BY <1>1
<1>3. phase # "login" /\ phase # "boot" /\ Mounted'
  BY DEF Mounted
<1>4. /\ cred = NoCred <=> life.kind \in LoggedOutKinds \cup {"reauthenticating"}
      /\ cred = NoCred => refreshTok = NoCred
      /\ cred = NoCred <=> scope = NoEpoch
  BY <1>3 DEF IInv, SessionInv
<1>5. ~LosesSession(epoch) => promise' = promise
  <2>1. ASSUME NEW f \in Refreshes, promise[f].pc = "exchange", promise[f].epoch = epoch,
               epoch = life.epoch
        PROVE  LosesSession(epoch)
    <3>1. cred.mode = "oauth"
      BY <2>1 DEF IInv, PromiseInv, Unsettled
    <3>2. life.kind \notin LoggedOutKinds
      BY <1>4, <3>1 DEF NoCred
    <3> QED BY <2>1, <3>2 DEF LosesSession
  <2> QED BY <2>1
<1>6. CASE /\ ~LosesSession(epoch)
           /\ op' = ops
           /\ UNCHANGED <<life, cred, refreshTok, aging, authConfirmed, lossReported,
                          scope, closedWith, kills, reports, busy>>
  <2> USE <1>5, <1>6
  <2>1. TypeOK'
    BY DEF IInv, TypeOK, SessionTypeOK
  <2>2. QuietBeforeMount'
    BY <1>3 DEF QuietBeforeMount
  <2>3. SessionInv'
    BY DEF IInv, SessionInv, Mounted
  <2>4. PromiseInv'
    BY DEF IInv, PromiseInv, Unsettled, Resolves
  <2>5. OpInv'
    BY <1>0, OpsKept
  <2>6. RefreshingIsBacked'
    BY DEF IInv, RefreshingIsBacked
  <2>7. ClosedScopeStopsItsOperations'
    <3> SUFFICES ASSUME NEW p \in Ops, Registered(ops[p]), ~ops[p].stopped
                 PROVE  scope = ops[p].owner
      BY DEF ClosedScopeStopsItsOperations, Registered
    <3>1. op[p] \in Op /\ Weaker(op[p], ops[p])
      BY DEF IInv, TypeOK
    <3>2. ops[p] = op[p]
      BY <3>1 DEF Weaker, Registered, IdleOp, Op
    <3> QED BY <3>2 DEF IInv, ClosedScopeStopsItsOperations
  <2>8. KillInv'
    BY DEF IInv, KillInv, KillUsesOwnSession
  <2>9. ReportInv'
    BY DEF IInv, ReportInv, AuthLossReportedOnce
  <2> QED BY <2>1, <2>2, <2>3, <2>4, <2>5, <2>6, <2>7, <2>8, <2>9 DEF IInv
<1>7. CASE /\ LossIsReportable(epoch)
           /\ ReportEmptySession(epoch)
           /\ OnAuthLost(epoch, NoCred, epoch, ops)
  <2>0. CloseScope(NoCred, epoch, ops)
    BY <1>7 DEF OnAuthLost
  <2>1. /\ op' \in [Ops -> Op] /\ \A p \in Ops : Weaker(op[p], op'[p])
        /\ scope' = NoEpoch
        /\ closedWith' \subseteq [epoch: Nat, lease: Credential]
        /\ ClosedScopeStopsItsOperations'
        /\ KillTypeOK' /\ KillInv'
    BY <2>0, CloseScopeStep
  <2>2. /\ lossReported' = epoch /\ reports' = Append(reports, epoch)
        /\ busy' = NoAttempt /\ lossReported # epoch
        /\ epoch = life.epoch /\ life.kind \in LoggedOutKinds
        /\ UNCHANGED <<life, cred, refreshTok, aging, authConfirmed>>
    BY <1>7 DEF ReportEmptySession, OnAuthLost, LossIsReportable, AlreadyLost
  <2>3. promise' = promise
    BY <1>5, <2>2 DEF LosesSession
  <2>4. TypeOK'
    BY <2>1, <2>2, <2>3 DEF IInv, TypeOK, SessionTypeOK, KillTypeOK
  <2>5. QuietBeforeMount'
    BY <1>3 DEF QuietBeforeMount
  <2>6. SessionInv'
    BY <1>3, <1>4, <2>1, <2>2 DEF IInv, SessionInv, Mounted
  <2>7. PromiseInv'
    BY <2>2, <2>3 DEF IInv, PromiseInv, Unsettled, Resolves
  <2>8. OpInv'
    BY <1>0, <2>1, <2>2, <2>3, OpsKept
  <2>9. RefreshingIsBacked'
    BY <2>2, <2>3 DEF IInv, RefreshingIsBacked
  <2>10. ReportInv'
    <3>1. reports \in Seq(Nat) /\ \A i \in 1..Len(reports) : reports[i] <= life.epoch
      BY DEF IInv, TypeOK, ReportInv
    <3>2. \A i \in 1..Len(reports) : reports[i] # life.epoch
      BY <2>2 DEF IInv, ReportInv
    <3>3. /\ Len(reports') = Len(reports) + 1
          /\ \A i \in 1..Len(reports) : reports'[i] = reports[i]
          /\ reports'[Len(reports) + 1] = life.epoch
      BY <3>1, <2>2, <1>0
    <3>4. \A i \in 1..Len(reports') : i = Len(reports) + 1 \/ i \in 1..Len(reports)
      BY <3>1, <3>3
    <3>5. \A i \in 1..Len(reports') : reports'[i] <= life'.epoch
      BY <1>0, <2>2, <3>1, <3>3, <3>4
    <3>6. AuthLossReportedOnce'
      <4> SUFFICES ASSUME NEW i \in 1..Len(reports'), NEW j \in 1..Len(reports'), i # j
                   PROVE  reports'[i] # reports'[j]
        BY DEF AuthLossReportedOnce
      <4>1. CASE i \in 1..Len(reports) /\ j \in 1..Len(reports)
        BY <3>3, <4>1 DEF IInv, ReportInv, AuthLossReportedOnce
      <4>2. CASE ~(i \in 1..Len(reports) /\ j \in 1..Len(reports))
        BY <3>2, <3>3, <3>4, <4>2
      <4> QED BY <4>1, <4>2
    <3> QED BY <2>2, <3>5, <3>6 DEF ReportInv
  <2> QED BY <2>1, <2>4, <2>5, <2>6, <2>7, <2>8, <2>9, <2>10 DEF IInv
<1>8. CASE /\ LosesSession(epoch)
           /\ DropSession(epoch)
           /\ OnAuthLost(epoch + 1, CancellationLease(epoch), epoch, ops)
  <2>0. CloseScope(CancellationLease(epoch), epoch, ops)
    BY <1>8 DEF OnAuthLost
  <2>1. /\ op' \in [Ops -> Op] /\ \A p \in Ops : Weaker(op[p], op'[p])
        /\ scope' = NoEpoch
        /\ closedWith' \subseteq [epoch: Nat, lease: Credential]
        /\ ClosedScopeStopsItsOperations'
        /\ KillTypeOK' /\ KillInv'
    BY <2>0, CloseScopeStep
  <2>2. /\ life' = Stable("auth-required", epoch + 1)
        /\ epoch = life.epoch
        /\ reports' = Append(reports, epoch + 1)
        /\ busy' = NoAttempt /\ lossReported' = life'.epoch
        /\ cred' = NoCred /\ refreshTok' = NoCred /\ aging' = FALSE /\ authConfirmed' = FALSE
    BY <1>8 DEF LosesSession, DropSession, AuthRequired, ClearTokens, OnAuthLost
  <2>3. /\ life' \in LifecycleState /\ life'.epoch = life.epoch + 1
        /\ life'.kind = "auth-required"
    BY <1>0, <2>2 DEF Stable, LifecycleState, StableKinds, LoggedOutKinds
  <2>4. TypeOK'
    <3>1. reports' \in Seq(Nat)
      BY <1>0, <2>2 DEF IInv, TypeOK
    <3>2. kills' \subseteq [owner: Nat, victim: Credential, by: Credential]
      BY <2>1 DEF KillTypeOK
    <3>3. SessionTypeOK'
      <4>1. /\ life' \in LifecycleState /\ lossReported' \in Nat
        BY <1>0, <2>2, <2>3
      <4>3. /\ cred' \in Credential /\ refreshTok' \in Credential
            /\ aging' \in BOOLEAN /\ authConfirmed' \in BOOLEAN
        BY <2>2, CredTypes
      <4>2. /\ slot' \in Refreshes \cup {NoRefresh} /\ promise' \in [Refreshes -> Promise]
            /\ prior' \in LoggedOutKinds \cup {"none"} /\ attempt' \in [Attempts -> Attempt]
        BY <1>1 DEF IInv, TypeOK, SessionTypeOK
      <4> QED BY <4>1, <4>2, <4>3 DEF SessionTypeOK
    <3> QED BY <2>1, <2>2, <3>1, <3>2, <3>3 DEF IInv, TypeOK, NoEpoch
  <2>5. QuietBeforeMount'
    BY <1>3 DEF QuietBeforeMount
  <2>6. SessionInv'
    BY <1>3, <2>1, <2>2, <2>3 DEF SessionInv, Mounted, NoCred, LoggedOutKinds
  <2>7. PromiseInv'
    <3>1. ASSUME NEW f \in Refreshes
          PROVE  /\ promise'[f].pc # "free" =>
                      /\ promise'[f].epoch <= life'.epoch
                      /\ promise'[f].epoch # life'.epoch
                 /\ promise'[f].pc \in {"config", "exchange"} => promise'[f] = promise[f]
      BY <1>0, <1>1, <2>3 DEF IInv, PromiseInv, Promise
    <3>2. slot' # NoRefresh => promise'[slot'].pc \in {"config", "exchange", "settled"}
      BY <1>0, <1>1 DEF IInv, PromiseInv
    <3>3. cred'.mode # "oauth"
      BY <2>2 DEF NoCred
    <3> QED BY <3>1, <3>2, <3>3 DEF IInv, PromiseInv, Unsettled, Resolves
  <2>8. OpInv'
    BY <1>0, <1>2, <2>1, <2>3, OpsKept
  <2>9. RefreshingIsBacked'
    BY <2>3 DEF RefreshingIsBacked
  <2>10. ReportInv'
    <3>1. reports \in Seq(Nat) /\ \A i \in 1..Len(reports) : reports[i] <= life.epoch
      BY DEF IInv, TypeOK, ReportInv
    <3>2. /\ Len(reports') = Len(reports) + 1
          /\ \A i \in 1..Len(reports) : reports'[i] = reports[i]
          /\ reports'[Len(reports) + 1] = life.epoch + 1
      BY <3>1, <2>2, <1>0
    <3>3. \A i \in 1..Len(reports') : i = Len(reports) + 1 \/ i \in 1..Len(reports)
      BY <3>1, <3>2
    <3>4. \A i \in 1..Len(reports) : reports[i] \in Nat
      BY <3>1
    <3>5. \A i \in 1..Len(reports') : reports'[i] <= life'.epoch
      BY <1>0, <2>3, <3>1, <3>2, <3>3, <3>4
    <3>6. AuthLossReportedOnce'
      <4> SUFFICES ASSUME NEW i \in 1..Len(reports'), NEW j \in 1..Len(reports'), i # j
                   PROVE  reports'[i] # reports'[j]
        BY DEF AuthLossReportedOnce
      <4>1. CASE i \in 1..Len(reports) /\ j \in 1..Len(reports)
        BY <3>2, <4>1 DEF IInv, ReportInv, AuthLossReportedOnce
      <4>2. CASE ~(i \in 1..Len(reports) /\ j \in 1..Len(reports))
        BY <1>0, <3>1, <3>2, <3>3, <3>4, <4>2
      <4> QED BY <4>1, <4>2
    <3> QED BY <2>2, <3>5, <3>6 DEF ReportInv
  <2> QED BY <2>1, <2>4, <2>5, <2>6, <2>7, <2>8, <2>9, <2>10 DEF IInv
<1>9. LossIsStale(epoch) \/ (AlreadyLost(epoch) /\ ~LossIsReportable(epoch))
        => ~LosesSession(epoch)
  BY DEF LossIsStale, AlreadyLost, LosesSession
<1> QED BY <1>6, <1>7, <1>8, <1>9 DEF RequireAuthentication

LEMMA OperationLossStep ==
  ASSUME IInv, NEW q \in Ops, PreflightLost(q) \/ NotSignedIn(q) \/ Denied(q)
  PROVE  IInv'
<1>1. PICK epoch \in Nat : RequireAuthentication(epoch, Without(q))
  BY DEF PreflightLost, NotSignedIn, Denied, IInv, TypeOK, SessionTypeOK, LifecycleState, Op
<1>2. Without(q) \in [Ops -> Op] /\ \A p \in Ops : Weaker(op[p], Without(q)[p])
  BY CredTypes DEF Without, Weaker, IInv, TypeOK
<1>3. UNCHANGED lossFrame /\ Mounted
  BY BusyIsMounted DEF PreflightLost, NotSignedIn, Denied
<1> QED BY <1>1, <1>2, <1>3, LossStep DEF lossFrame

LEMMA RefreshRefusedStep ==
  ASSUME IInv, NEW f \in Refreshes, RefreshRefused(f)
  PROVE  IInv'
<1>1. promise[f].epoch \in Nat /\ Mounted
  BY DEF RefreshRefused, IInv, TypeOK, SessionTypeOK, Promise, QuietBeforeMount
<1>2. op \in [Ops -> Op] /\ \A p \in Ops : Weaker(op[p], op[p])
  BY DEF Weaker, IInv, TypeOK
<1>3. \E g \in Refreshes : /\ promise[g].pc = "exchange" /\ promise[g].epoch = promise[f].epoch
                           /\ promise[f].epoch = life.epoch
                           /\ SettleWith(g, "false")
  BY DEF RefreshRefused, StaleRefresh
<1>4. /\ RequireAuthentication(promise[f].epoch, op)
      /\ UNCHANGED <<slot, prior, attempt, phase>>
  BY DEF RefreshRefused
<1> QED BY <1>1, <1>2, <1>3, <1>4, LossStep

-----------------------------------------------------------------------------
(* A refresh promise moves on within its epoch *)

LEMMA PromiseChange ==
  ASSUME IInv, NEW f \in Refreshes, NEW n \in Promise,
         promise' = [promise EXCEPT ![f] = n],
         promise[f].pc # "free", n.pc # "free",
         n.epoch = promise[f].epoch, n.tok = promise[f].tok,
         n.pc \in {"config", "exchange"} => promise[f].pc \in {"config", "exchange"},
         n.pc \in {"settled", "done"} /\ n.epoch = life.epoch =>
           n.value # "false" /\ (n.value = "true" => cred'.mode = "oauth"),
         \/ slot' = slot /\ (f = slot => n.pc # "done")
         \/ slot' = NoRefresh /\ slot = f /\ n.pc = "done",
         life' \in LifecycleState, life'.epoch = life.epoch,
         life'.kind \in LoggedOutKinds \cup {"reauthenticating"}
           <=> life.kind \in LoggedOutKinds \cup {"reauthenticating"},
         life'.kind = "refreshing" =>
           life.kind = "refreshing" /\ (f = slot => n.pc \in {"config", "exchange"}),
         aging' \in BOOLEAN,
         \/ cred' = cred /\ refreshTok' = refreshTok
         \/ /\ cred.mode = "oauth" /\ cred'.mode = "oauth" /\ cred' \in Credential
            /\ Belongs(cred', life.epoch)
            /\ refreshTok' = refreshTok
                 \/ (refreshTok' \in Credential /\ Redeemable(refreshTok', life.epoch)),
         UNCHANGED <<authConfirmed, lossReported, prior, attempt, appVars>>
  PROVE  IInv'
<1> USE DEF appVars
<1>0. /\ life.epoch \in Nat /\ promise \in [Refreshes -> Promise]
      /\ slot \in Refreshes \cup {NoRefresh} /\ cred \in Credential /\ refreshTok \in Credential
      /\ promise'[f] = n
      /\ \A g \in Refreshes \ {f} : promise'[g] = promise[g]
  BY DEF IInv, TypeOK, SessionTypeOK, LifecycleState
<1>m. Mounted
  BY DEF IInv, QuietBeforeMount
<1>1. TypeOK'
  <2>1. cred' \in Credential /\ refreshTok' \in Credential
    BY <1>0
  <2> QED BY <1>0, <2>1 DEF IInv, TypeOK, SessionTypeOK
<1>2. QuietBeforeMount'
  BY <1>m DEF QuietBeforeMount, Mounted
<1>3. SessionInv'
  <2>1. (cred.mode = "oauth" => cred # NoCred) /\ (cred'.mode = "oauth" => cred' # NoCred)
    BY DEF NoCred
  <2> QED BY <1>m, <2>1 DEF IInv, SessionInv, Mounted
<1>4. PromiseInv'
  <2>1. cred.mode = "oauth" <=> cred'.mode = "oauth"
    OBVIOUS
  <2>2. slot' # NoRefresh => promise'[slot'].pc \in {"config", "exchange", "settled"}
    BY <1>0 DEF IInv, PromiseInv, Promise
  <2>3. ASSUME NEW g \in Refreshes
        PROVE  /\ promise'[g].epoch = promise[g].epoch /\ promise'[g].tok = promise[g].tok
               /\ promise'[g].pc # "free" => promise[g].pc # "free"
               /\ Unsettled(g)' => Unsettled(g)
    BY <1>0 DEF Unsettled
  <2>4. ASSUME NEW g \in Refreshes
        PROVE  Resolves(g)' /\ promise'[g].epoch = life.epoch =>
                 /\ promise'[g].value # "false"
                 /\ promise'[g].value = "true" => cred'.mode = "oauth"
    <3>1. CASE g = f
      BY <1>0, <3>1 DEF Resolves
    <3>2. CASE g # f
      BY <1>0, <2>1, <3>2 DEF IInv, PromiseInv, Resolves
    <3> QED BY <3>1, <3>2
  <2>5. ASSUME NEW g \in Refreshes, Unsettled(g)', promise'[g].epoch = life.epoch
        PROVE  slot' = g /\ cred'.mode = "oauth"
    <3>1. slot = g /\ cred.mode = "oauth"
      BY <2>3, <2>5 DEF IInv, PromiseInv
    <3>2. g = f => n.pc \in {"config", "exchange"}
      BY <1>0, <2>5 DEF Unsettled
    <3>4. slot' = slot
      BY <3>1, <3>2
    <3> QED BY <2>1, <3>1, <3>4
  <2> QED BY <2>2, <2>3, <2>4, <2>5 DEF IInv, PromiseInv
<1>5. OpInv'
  <2>1. \A p \in Ops : Weaker(op[p], op'[p])
    BY DEF Weaker
  <2>2. cred # NoCred => cred' # NoCred
    BY DEF NoCred
  <2>3. \A g \in Refreshes : promise[g].pc # "free" =>
           promise'[g].pc # "free" /\ promise'[g].epoch = promise[g].epoch
    BY <1>0
  <2>4. op' \in [Ops -> Op] /\ life'.epoch \in Nat /\ life'.epoch >= life.epoch
    BY <1>0 DEF IInv, TypeOK
  <2> QED BY <2>1, <2>2, <2>3, <2>4, OpsKept
<1>6. RefreshingIsBacked'
  BY <1>0 DEF IInv, RefreshingIsBacked
<1>7. ClosedScopeStopsItsOperations' /\ KillInv'
  BY DEF IInv, ClosedScopeStopsItsOperations, Registered, KillInv, KillUsesOwnSession
<1>8. ReportInv'
  BY DEF IInv, ReportInv, AuthLossReportedOnce
<1> QED BY <1>1, <1>2, <1>3, <1>4, <1>5, <1>6, <1>7, <1>8 DEF IInv

LEMMA EndRefreshKeeps ==
  ASSUME NEW s \in LifecycleState, NEW e \in Nat
  PROVE  /\ EndRefresh(s, e) \in LifecycleState /\ EndRefresh(s, e).epoch = s.epoch
         /\ EndRefresh(s, e).kind \in LoggedOutKinds \cup {"reauthenticating"}
              <=> s.kind \in LoggedOutKinds \cup {"reauthenticating"}
         /\ EndRefresh(s, e).kind = "refreshing" => s.kind = "refreshing" /\ s.epoch # e
<1>1. CASE s.epoch # e
  BY <1>1 DEF EndRefresh
<1>2. CASE s.epoch = e /\ s.kind = "refreshing"
  <2>1. s.resume \in RefreshableKinds
        /\ s = [kind |-> "refreshing", epoch |-> e, resume |-> s.resume]
    BY <1>2 DEF LifecycleState, StableKinds, RefreshableKinds, LoggedOutKinds
  <2> QED BY <1>2, <2>1
          DEF EndRefresh, Stable, LifecycleState, StableKinds, RefreshableKinds, LoggedOutKinds
<1>3. CASE s.epoch = e /\ s.kind # "refreshing"
  BY <1>3 DEF EndRefresh, Stable, LifecycleState, StableKinds, RefreshableKinds, LoggedOutKinds
<1> QED BY <1>1, <1>2, <1>3

LEMMA TransportOfflineKeeps ==
  ASSUME NEW s \in LifecycleState, NEW e \in Nat
  PROVE  /\ TransportOffline(s, e) \in LifecycleState /\ TransportOffline(s, e).epoch = s.epoch
         /\ TransportOffline(s, e).kind \in LoggedOutKinds \cup {"reauthenticating"}
              <=> s.kind \in LoggedOutKinds \cup {"reauthenticating"}
         /\ TransportOffline(s, e).kind = "refreshing" => s.kind = "refreshing"
<1>1. CASE s.epoch # e
  BY <1>1 DEF TransportOffline
<1>2. CASE s.epoch = e /\ s.kind = "refreshing"
  <2>1. s.resume \in RefreshableKinds
        /\ s = [kind |-> "refreshing", epoch |-> e, resume |-> s.resume]
    BY <1>2 DEF LifecycleState, StableKinds, RefreshableKinds, LoggedOutKinds
  <2> QED BY <1>2, <2>1
          DEF TransportOffline, Stable, LifecycleState, StableKinds, RefreshableKinds, LoggedOutKinds
<1>3. CASE s.epoch = e /\ s.kind # "refreshing"
  BY <1>3 DEF TransportOffline, Stable, LifecycleState, StableKinds, RefreshableKinds, LoggedOutKinds
<1> QED BY <1>1, <1>2, <1>3

LEMMA RefreshProgress ==
  ASSUME IInv, NEW f \in Refreshes,
         ConfigResolved(f) \/ TokensArrive(f) \/ RefreshFails(f) \/ Finally(f)
  PROVE  IInv'
<1>0. /\ life \in LifecycleState /\ life.epoch \in Nat
      /\ promise \in [Refreshes -> Promise] /\ promise[f] \in Promise
      /\ promise[f].epoch \in Nat /\ aging \in BOOLEAN
  BY DEF IInv, TypeOK, SessionTypeOK, LifecycleState, Promise
<1>1. CASE promise[f].pc = "config" /\ AwaitExchange(f) /\ UNCHANGED refreshFrame
  <2> DEFINE n == [promise[f] EXCEPT !.pc = "exchange"]
  <2>1. /\ n \in Promise /\ n.pc = "exchange" /\ n.epoch = promise[f].epoch
        /\ n.tok = promise[f].tok
    BY <1>0 DEF Promise
  <2>2. promise' = [promise EXCEPT ![f] = n]
    BY <1>1 DEF AwaitExchange
  <2> HIDE DEF n
  <2> QED BY <1>0, <1>1, <2>1, <2>2, PromiseChange DEF AwaitExchange, refreshFrame
<1>2. CASE /\ promise[f].pc \in {"config", "exchange"} /\ DropStaleRefresh(f)
           /\ UNCHANGED refreshFrame
  <2> DEFINE n == [promise[f] EXCEPT !.pc = "settled", !.value = "false"]
  <2>1. /\ n \in Promise /\ n.pc = "settled" /\ n.epoch = promise[f].epoch
        /\ n.tok = promise[f].tok
    BY <1>0 DEF Promise
  <2>2. promise' = [promise EXCEPT ![f] = n]
    BY <1>2 DEF DropStaleRefresh, SettleWith
  <2>3. promise[f].epoch # life.epoch
    BY <1>2 DEF DropStaleRefresh, StaleRefresh
  <2>4. life.kind = "refreshing" => f # slot
    BY <2>3 DEF IInv, RefreshingIsBacked
  <2>5. UNCHANGED <<life, cred, refreshTok, aging>>
    BY <1>2 DEF DropStaleRefresh
  <2> HIDE DEF n
  <2> QED BY <1>0, <1>2, <2>1, <2>2, <2>3, <2>4, <2>5, PromiseChange DEF refreshFrame
<1>3. CASE /\ promise[f].pc = "exchange" /\ promise[f].tok # NoCred
           /\ StoreRefreshedTokens(f) /\ UNCHANGED refreshFrame
  <2> DEFINE n == [promise[f] EXCEPT !.pc = "settled", !.value = "true"]
  <2>1. /\ n \in Promise /\ n.pc = "settled" /\ n.epoch = promise[f].epoch
        /\ n.tok = promise[f].tok /\ n.value = "true"
    BY <1>0 DEF Promise
  <2>2. promise' = [promise EXCEPT ![f] = n]
    BY <1>3 DEF StoreRefreshedTokens, SettleWith
  <2>3. promise[f].epoch = life.epoch /\ Redeemable(promise[f].tok, life.epoch)
        /\ cred.mode = "oauth" /\ promise[f].tok \in Credential
    BY <1>0, <1>3
       DEF StoreRefreshedTokens, StaleRefresh, IInv, PromiseInv, Unsettled, Promise
  <2>4. /\ cred' = Redeemed(f) /\ refreshTok' \in {refreshTok, promise[f].tok}
        /\ aging' = FALSE /\ life' = EndRefresh(life, life.epoch)
    BY <1>3, <2>3 DEF StoreRefreshedTokens
  <2>5. /\ life' \in LifecycleState /\ life'.epoch = life.epoch
        /\ life'.kind # "refreshing"
        /\ life'.kind \in LoggedOutKinds \cup {"reauthenticating"}
             <=> life.kind \in LoggedOutKinds \cup {"reauthenticating"}
    BY <1>0, <2>4, EndRefreshKeeps
  <2>6. /\ cred' \in Credential /\ cred'.mode = "oauth"
        /\ Belongs(cred', life.epoch)
    BY <1>0, <2>3, <2>4 DEF Redeemed, Redeemable, Belongs, Credential
  <2>7. UNCHANGED <<slot, authConfirmed, lossReported, prior, attempt, appVars>>
    BY <1>3 DEF refreshFrame
  <2> HIDE DEF n
  <2> QED BY <1>3, <2>1, <2>2, <2>3, <2>4, <2>5, <2>6, <2>7, PromiseChange
<1>4. CASE RefreshFails(f)
  <2> DEFINE n == [promise[f] EXCEPT !.pc = "settled", !.value = "reject"]
             e == promise[f].epoch
  <2>1. /\ n \in Promise /\ n.pc = "settled" /\ n.epoch = promise[f].epoch
        /\ n.tok = promise[f].tok /\ n.value = "reject"
    BY <1>0 DEF Promise
  <2>2. promise' = [promise EXCEPT ![f] = n] /\ promise[f].pc \in {"config", "exchange"}
    BY <1>4 DEF RefreshFails, FailRefresh, SettleWith
  <2>3. life' = EndRefresh(TransportOffline(life, e), e)
    BY <1>4 DEF RefreshFails, FailRefresh
  <2> DEFINE u == TransportOffline(life, e)
  <2>4. /\ u \in LifecycleState /\ u.epoch = life.epoch
        /\ u.kind \in LoggedOutKinds \cup {"reauthenticating"}
             <=> life.kind \in LoggedOutKinds \cup {"reauthenticating"}
        /\ u.kind = "refreshing" => life.kind = "refreshing"
    BY <1>0, TransportOfflineKeeps
  <2>u. life' = EndRefresh(u, e)
    BY <2>3
  <2> HIDE DEF u
  <2>5. /\ life' \in LifecycleState /\ life'.epoch = life.epoch
        /\ life'.kind \in LoggedOutKinds \cup {"reauthenticating"}
             <=> life.kind \in LoggedOutKinds \cup {"reauthenticating"}
        /\ life'.kind = "refreshing" => life.kind = "refreshing" /\ life.epoch # e
    <3> HIDE DEF e
    <3>1. e \in Nat
      BY <1>0 DEF e
    <3>2. /\ EndRefresh(u, e) \in LifecycleState /\ EndRefresh(u, e).epoch = u.epoch
          /\ EndRefresh(u, e).kind \in LoggedOutKinds \cup {"reauthenticating"}
               <=> u.kind \in LoggedOutKinds \cup {"reauthenticating"}
          /\ EndRefresh(u, e).kind = "refreshing" => u.kind = "refreshing" /\ u.epoch # e
      BY <2>4, <3>1, EndRefreshKeeps
    <3> QED BY <2>u, <2>4, <3>2
  <2>6. life'.kind = "refreshing" => f # slot
    BY <2>5 DEF IInv, RefreshingIsBacked
  <2>7. UNCHANGED <<slot, cred, refreshTok, aging, authConfirmed, lossReported, prior,
                    attempt, appVars>>
    BY <1>4 DEF RefreshFails, FailRefresh, refreshFrame
  <2> HIDE DEF n
  <2> QED BY <1>0, <2>1, <2>2, <2>5, <2>6, <2>7, PromiseChange
<1>5. CASE Finally(f)
  <2> DEFINE n == [promise[f] EXCEPT !.pc = "done"]
  <2>1. /\ n \in Promise /\ n.pc = "done" /\ n.epoch = promise[f].epoch
        /\ n.tok = promise[f].tok /\ n.value = promise[f].value
    BY <1>0 DEF Promise
  <2>2. promise' = [promise EXCEPT ![f] = n] /\ promise[f].pc = "settled"
    BY <1>5 DEF Finally, ReleaseSlot
  <2>3. promise[f].epoch = life.epoch =>
          promise[f].value # "false" /\ (promise[f].value = "true" => cred.mode = "oauth")
    BY <2>2 DEF IInv, PromiseInv, Resolves
  <2>4. life.kind = "refreshing" => f # slot
    BY <2>2 DEF IInv, RefreshingIsBacked
  <2>5. slot' = IF slot = f THEN NoRefresh ELSE slot
    BY <1>5 DEF Finally, ReleaseSlot
  <2>6. UNCHANGED <<life, cred, refreshTok, aging, authConfirmed, lossReported, prior,
                    attempt, appVars>>
    BY <1>5 DEF Finally
  <2> HIDE DEF n
  <2> QED BY <1>0, <2>1, <2>2, <2>3, <2>4, <2>5, <2>6, PromiseChange
<1> QED BY <1>1, <1>2, <1>3, <1>4, <1>5 DEF ConfigResolved, TokensArrive

-----------------------------------------------------------------------------
(* Bootstrap, sign-in and sign-out *)

\* Nothing but the session moves to a later epoch, and no refresh of it has begun.
LEMMA NewEpoch ==
  ASSUME IInv, life' \in LifecycleState, life'.epoch > life.epoch,
         life'.kind # "refreshing",
         op' \in [Ops -> Op], \A p \in Ops : Weaker(op[p], op'[p]),
         UNCHANGED <<slot, promise, reports>>,
         cred'.mode # "oauth" \/ \A f \in Refreshes : promise[f].pc = "free"
  PROVE  PromiseInv' /\ OpInv' /\ RefreshingIsBacked' /\ ReportInv'
<1>1. life.epoch \in Nat /\ life'.epoch \in Nat
  BY DEF IInv, TypeOK, SessionTypeOK, LifecycleState
<1>2. PromiseInv' /\ OpInv'
  BY <1>1, PromisesOutlived, OpsKept
<1>3. RefreshingIsBacked'
  BY DEF RefreshingIsBacked
<1>4. ReportInv'
  <2>1. \A i \in 1..Len(reports) : reports[i] \in Nat /\ reports[i] <= life.epoch
    BY DEF IInv, TypeOK, ReportInv
  <2> QED BY <1>1, <2>1 DEF IInv, ReportInv, AuthLossReportedOnce
<1> QED BY <1>2, <1>3, <1>4

LEMMA AuthenticationPriorType ==
  ASSUME IInv
  PROVE  AuthenticationPrior \in LoggedOutKinds
BY DEF AuthenticationPrior, LoggedOutKinds, IInv, TypeOK, SessionTypeOK

LEMMA ConnectStep ==
  ASSUME IInv, NEW a \in Attempts, Connect(a)
  PROVE  IInv'
<1>0. /\ life \in LifecycleState /\ life.epoch \in Nat /\ op \in [Ops -> Op]
      /\ \A p \in Ops : Weaker(op[p], op[p])
  BY DEF IInv, TypeOK, SessionTypeOK, LifecycleState, Weaker
<1>1. /\ phase # "boot" /\ scope = NoEpoch
      /\ prior' = AuthenticationPrior
      /\ life' = Stable("reauthenticating", life.epoch + 1)
      /\ attempt' = [attempt EXCEPT ![a] = [pc |-> "probing", epoch |-> life.epoch + 1,
                                            prior |-> AuthenticationPrior]]
      /\ busy' = a
      /\ UNCHANGED <<cred, refreshTok, aging, authConfirmed, slot, promise, lossReported,
                     phase, scope, closedWith, op, kills, reports>>
  BY DEF Connect, StartAttempt, StartAuthentication
<1>2. life' \in LifecycleState /\ life'.epoch = life.epoch + 1
      /\ life'.kind = "reauthenticating"
  BY <1>0, <1>1 DEF Stable, LifecycleState, StableKinds
<1>3. TypeOK'
  <2>1. attempt' \in [Attempts -> Attempt]
    <3>1. [pc |-> "probing", epoch |-> life.epoch + 1, prior |-> AuthenticationPrior] \in Attempt
      BY <1>0, AuthenticationPriorType DEF Attempt
    <3> QED BY <1>1, <3>1 DEF IInv, TypeOK, SessionTypeOK
  <2> QED BY <1>1, <1>2, <2>1, AuthenticationPriorType DEF IInv, TypeOK, SessionTypeOK
<1>4. QuietBeforeMount'
  BY <1>1 DEF IInv, QuietBeforeMount, Mounted
<1>5. SessionInv'
  <2>1. phase # "login" => cred = NoCred /\ refreshTok = NoCred
    <3>1. phase \in {"login", "shell", "retired"}
      BY <1>1 DEF IInv, TypeOK
    <3> QED BY <1>1, <3>1 DEF IInv, SessionInv, Mounted
  <2> QED BY <1>1, <1>2, <2>1 DEF IInv, SessionInv, Mounted
<1>6. PromiseInv' /\ OpInv' /\ RefreshingIsBacked' /\ ReportInv'
  <2>1. life'.epoch > life.epoch
    BY <1>0, <1>2
  <2>2. cred'.mode # "oauth" \/ \A f \in Refreshes : promise[f].pc = "free"
    BY <1>1 DEF IInv, QuietBeforeMount, SessionInv, NoCred
  <2> QED BY <1>0, <1>1, <1>2, <2>1, <2>2, NewEpoch
<1>7. ClosedScopeStopsItsOperations' /\ KillInv'
  BY <1>1 DEF IInv, ClosedScopeStopsItsOperations, Registered, KillInv, KillUsesOwnSession
<1> QED BY <1>3, <1>4, <1>5, <1>6, <1>7 DEF IInv

LEMMA AttemptFailsStep ==
  ASSUME IInv, NEW a \in Attempts, AttemptFails(a)
  PROVE  IInv'
<1>0. /\ life \in LifecycleState /\ life.epoch \in Nat /\ op \in [Ops -> Op]
      /\ attempt[a] \in Attempt /\ attempt[a].prior \in LoggedOutKinds
      /\ \A p \in Ops : Weaker(op[p], op[p])
  BY DEF IInv, TypeOK, SessionTypeOK, LifecycleState, Weaker, Attempt
<1>1. /\ life' = FailedAuthentication(life, attempt[a].epoch, attempt[a].prior)
      /\ prior' \in {"none", prior}
      /\ attempt' = [attempt EXCEPT ![a] = IdleAttempt]
      /\ busy' \in {NoAttempt, busy}
      /\ UNCHANGED <<cred, refreshTok, aging, authConfirmed, slot, promise, lossReported,
                     phase, scope, closedWith, op, kills, reports>>
  BY DEF AttemptFails, FailAttempt, ReleaseForm
<1>2. SameSession
  BY <1>0, <1>1 DEF SameSession, FailedAuthentication, Stable, LifecycleState, StableKinds,
                    LoggedOutKinds
<1>3. TypeOK'
  <2>1. IdleAttempt \in Attempt
    BY DEF IdleAttempt, Attempt, LoggedOutKinds
  <2> QED BY <1>1, <1>2, <2>1 DEF SameSession, IInv, TypeOK, SessionTypeOK
<1>4. QuietBeforeMount'
  BY <1>1 DEF IInv, QuietBeforeMount, Mounted
<1>5. SessionInv'
  BY <1>1, <1>2 DEF SameSession, IInv, SessionInv, Mounted
<1>6. PromiseInv'
  BY <1>1, <1>2 DEF SameSession, IInv, PromiseInv, Unsettled, Resolves
<1>7. OpInv'
  BY <1>0, <1>1, <1>2, OpsKept DEF SameSession
<1>8. RefreshingIsBacked'
  BY <1>1, <1>2 DEF SameSession, IInv, RefreshingIsBacked
<1>9. ClosedScopeStopsItsOperations' /\ KillInv'
  BY <1>1 DEF IInv, ClosedScopeStopsItsOperations, Registered, KillInv, KillUsesOwnSession
<1>10. ReportInv'
  BY <1>1, <1>2 DEF SameSession, IInv, ReportInv, AuthLossReportedOnce
<1> QED BY <1>3, <1>4, <1>5, <1>6, <1>7, <1>8, <1>9, <1>10 DEF IInv

LEMMA AttemptSucceedsStep ==
  ASSUME IInv, NEW a \in Attempts, AttemptSucceeds(a)
  PROVE  IInv'
<1>0. /\ life \in LifecycleState /\ life.epoch \in Nat /\ op \in [Ops -> Op]
      /\ \A p \in Ops : Weaker(op[p], op[p])
  BY DEF IInv, TypeOK, SessionTypeOK, LifecycleState, Weaker
<1>1. /\ life.kind = "reauthenticating"
      /\ cred' = Basic(life.epoch + 1) /\ aging' = FALSE /\ authConfirmed' = FALSE
      /\ life' = Stable("starting", life.epoch + 1)
      /\ prior' = "none"
      /\ attempt' = [attempt EXCEPT ![a] = IdleAttempt]
      /\ busy' \in {NoAttempt, busy}
      /\ phase' = "shell" /\ scope' = life'.epoch
      /\ UNCHANGED <<refreshTok, slot, promise, lossReported, closedWith, op, kills, reports>>
  BY DEF AttemptSucceeds, CommitAttempt, AttemptIsCurrent, CredentialsInstalled, ReleaseForm
<1>2. /\ life' \in LifecycleState /\ life'.epoch = life.epoch + 1 /\ life'.kind = "starting"
      /\ cred' \in Credential /\ cred' # NoCred /\ Belongs(cred', life.epoch + 1)
      /\ cred'.mode = "basic"
  BY <1>0, <1>1 DEF Stable, LifecycleState, StableKinds, RefreshableKinds, Basic, NoCred, Credential,
                         Belongs
<1>3. scope = NoEpoch
  BY <1>1 DEF IInv, QuietBeforeMount, SessionInv, Mounted
<1>4. TypeOK'
  <2>1. IdleAttempt \in Attempt
    BY DEF IdleAttempt, Attempt, LoggedOutKinds
  <2>2. scope' \in Nat
    BY <1>0, <1>1, <1>2
  <2> QED BY <1>1, <1>2, <2>1, <2>2 DEF IInv, TypeOK, SessionTypeOK
<1>5. QuietBeforeMount'
  BY <1>1 DEF QuietBeforeMount, Mounted
<1>6. SessionInv'
  <2>1. scope' # NoEpoch
    BY <1>0, <1>1, <1>2 DEF NoEpoch
  <2> QED BY <1>1, <1>2, <2>1 DEF SessionInv, Mounted, LoggedOutKinds, NoCred
<1>7. PromiseInv' /\ OpInv' /\ RefreshingIsBacked' /\ ReportInv'
  <2>1. life'.epoch > life.epoch
    BY <1>0, <1>2
  <2> QED BY <1>0, <1>1, <1>2, <2>1, NewEpoch
<1>8. ClosedScopeStopsItsOperations'
  <2>1. \A p \in Ops : Registered(op[p]) => op[p].stopped
    BY <1>3 DEF IInv, ClosedScopeStopsItsOperations, Registered
  <2> QED BY <1>1, <2>1 DEF ClosedScopeStopsItsOperations, Registered
<1>9. KillInv'
  BY <1>1 DEF IInv, KillInv, KillUsesOwnSession
<1> QED BY <1>4, <1>5, <1>6, <1>7, <1>8, <1>9 DEF IInv

LEMMA SignOutStep ==
  ASSUME IInv, SignOut
  PROVE  IInv'
<1>0. /\ Mounted /\ life \in LifecycleState /\ life.epoch \in Nat /\ op \in [Ops -> Op]
      /\ \A p \in Ops : Weaker(op[p], op[p])
  BY DEF SignOut, IInv, TypeOK, SessionTypeOK, LifecycleState, Weaker, Mounted
<1>1. /\ op' \in [Ops -> Op] /\ \A p \in Ops : Weaker(op[p], op'[p])
      /\ scope' = NoEpoch
      /\ closedWith' \subseteq [epoch: Nat, lease: Credential]
      /\ ClosedScopeStopsItsOperations'
      /\ KillTypeOK' /\ KillInv'
  <2>1. CloseScope(CancellationLease(life.epoch), life.epoch, op)
    BY DEF SignOut
  <2> QED BY <1>0, <2>1, CloseScopeStep
<1>2. /\ life' = Stable("signed-out", life.epoch + 1) /\ prior' = "none"
      /\ cred' = NoCred /\ refreshTok' = NoCred /\ aging' = FALSE /\ authConfirmed' = FALSE
      /\ phase' = "retired" /\ busy' = NoAttempt
      /\ UNCHANGED <<slot, promise, lossReported, attempt, reports>>
  BY DEF SignOut, EndSession, SignedOut, ClearTokens
<1>3. /\ life' \in LifecycleState /\ life'.epoch = life.epoch + 1 /\ life'.kind = "signed-out"
  BY <1>0, <1>2 DEF Stable, LifecycleState, StableKinds, LoggedOutKinds
<1>4. TypeOK'
  BY <1>1, <1>2, <1>3, CredTypes DEF IInv, TypeOK, SessionTypeOK, KillTypeOK
<1>5. QuietBeforeMount'
  BY <1>2 DEF QuietBeforeMount, Mounted
<1>6. SessionInv'
  BY <1>1, <1>2, <1>3 DEF SessionInv, Mounted, LoggedOutKinds, NoCred
<1>7. PromiseInv' /\ OpInv' /\ RefreshingIsBacked' /\ ReportInv'
  <2>1. life'.epoch > life.epoch
    BY <1>0, <1>3
  <2>2. cred'.mode # "oauth"
    BY <1>2 DEF NoCred
  <2> QED BY <1>1, <1>2, <1>3, <2>1, <2>2, NewEpoch
<1> QED BY <1>1, <1>4, <1>5, <1>6, <1>7 DEF IInv

LEMMA BootStep ==
  ASSUME IInv, BootCallback \/ BootSignedIn \/ BootLogin
  PROVE  IInv'
<1>0. /\ phase = "boot" /\ ~Mounted
      /\ life \in LifecycleState /\ life.epoch \in Nat
  BY DEF BootCallback, BootSignedIn, BootLogin, Mounted, IInv, TypeOK, SessionTypeOK,
         LifecycleState
<1>1. CASE BootCallback
  <2>1. PICK tok \in {Oauth(1), refreshTok} : /\ life.epoch = 0 /\ InstallTokens
                                               /\ refreshTok' = tok
    BY <1>1 DEF BootCallback, InstallTokens, RefreshTokensAfterLogin
  <2>r. /\ tok \in Credential
        /\ tok # NoCred => Redeemable(tok, 1)
    <3>1. refreshTok # NoCred => Redeemable(refreshTok, 0)
      BY <1>0, <2>1 DEF IInv, SessionInv
    <3>2. Oauth(1) \in Credential /\ Redeemable(Oauth(1), 1)
      BY DEF Oauth, Credential, Redeemable
    <3> QED BY <2>1, <3>1, <3>2 DEF IInv, TypeOK, SessionTypeOK, Redeemable
  <2>2. /\ life' = Stable("starting", 1) /\ cred' = Oauth(1) /\ refreshTok' = tok
        /\ aging' = FALSE /\ authConfirmed' = FALSE /\ prior' = "none"
        /\ UNCHANGED <<slot, promise, lossReported, attempt, appVars>>
    BY <1>1, <2>1 DEF BootCallback, InstallTokens, CredentialsInstalled
  <2>3. /\ life' \in LifecycleState /\ life'.epoch = 1 /\ life'.kind = "starting"
        /\ cred' \in Credential /\ Belongs(cred', 1) /\ cred' # NoCred
        /\ refreshTok' \in Credential
    BY <2>2, <2>r DEF Stable, LifecycleState, StableKinds, RefreshableKinds, Oauth, NoCred,
                      Credential, Belongs
  <2>4. TypeOK'
    BY <2>2, <2>3 DEF appVars, IInv, TypeOK, SessionTypeOK
  <2>5. QuietBeforeMount'
    BY <2>2 DEF appVars, IInv, QuietBeforeMount, Mounted
  <2>6. SessionInv'
    <3>1. phase' = "boot" /\ scope' = NoEpoch
      BY <1>0, <2>2 DEF appVars, IInv, QuietBeforeMount
    <3> QED BY <2>r, <2>2, <2>3, <3>1 DEF SessionInv, Mounted, LoggedOutKinds, NoCred, Oauth
  <2>7. PromiseInv' /\ OpInv' /\ RefreshingIsBacked' /\ ReportInv'
    <3>1. life'.epoch > life.epoch
      BY <2>1, <2>3
    <3>2. op' \in [Ops -> Op] /\ \A p \in Ops : Weaker(op[p], op'[p])
      BY <2>2 DEF appVars, Weaker, IInv, TypeOK
    <3>3. \A f \in Refreshes : promise[f].pc = "free"
      BY <1>0 DEF IInv, QuietBeforeMount
    <3> QED BY <2>2, <2>3, <3>1, <3>2, <3>3, NewEpoch DEF appVars
  <2>8. ClosedScopeStopsItsOperations' /\ KillInv'
    BY <2>2 DEF appVars, IInv, ClosedScopeStopsItsOperations, Registered, KillInv,
                KillUsesOwnSession
  <2> QED BY <2>4, <2>5, <2>6, <2>7, <2>8 DEF IInv
<1>2. CASE BootSignedIn
  <2>1. /\ cred # NoCred /\ phase' = "shell" /\ scope' = life.epoch
        /\ UNCHANGED <<sessionVars, closedWith, op, busy, kills, reports>>
    BY <1>2 DEF BootSignedIn
  <2>2. TypeOK'
    BY <1>0, <2>1 DEF sessionVars, IInv, TypeOK, SessionTypeOK
  <2>3. QuietBeforeMount'
    BY <2>1 DEF QuietBeforeMount, Mounted
  <2>4. SessionInv'
    <3>1. scope' # NoEpoch
      BY <1>0, <2>1 DEF NoEpoch
    <3> QED BY <1>0, <2>1, <3>1 DEF sessionVars, IInv, SessionInv, Mounted
  <2>5. PromiseInv' /\ RefreshingIsBacked' /\ OpInv'
    BY <2>1 DEF sessionVars, IInv, PromiseInv, RefreshingIsBacked, OpInv, OpOK, Unsettled,
                Resolves, Registered
  <2>6. ClosedScopeStopsItsOperations'
    BY <1>0, <2>1 DEF IInv, QuietBeforeMount, ClosedScopeStopsItsOperations, Registered
  <2>7. KillInv' /\ ReportInv'
    BY <2>1 DEF sessionVars, IInv, KillInv, KillUsesOwnSession, ReportInv, AuthLossReportedOnce
  <2> QED BY <2>2, <2>3, <2>4, <2>5, <2>6, <2>7 DEF IInv
<1>3. CASE BootLogin
  <2>1. /\ phase' = "login"
        /\ UNCHANGED <<sessionVars, scope, closedWith, op, busy, kills, reports>>
    BY <1>3 DEF BootLogin
  <2>2. TypeOK'
    BY <2>1 DEF sessionVars, IInv, TypeOK, SessionTypeOK
  <2>3. QuietBeforeMount'
    BY <1>0, <2>1 DEF sessionVars, IInv, QuietBeforeMount, Mounted
  <2>4. SessionInv'
    BY <1>0, <2>1 DEF sessionVars, IInv, QuietBeforeMount, SessionInv, Mounted
  <2>5. PromiseInv' /\ RefreshingIsBacked' /\ OpInv'
    BY <2>1 DEF sessionVars, IInv, PromiseInv, RefreshingIsBacked, OpInv, OpOK, Unsettled,
                Resolves, Registered
  <2>6. ClosedScopeStopsItsOperations' /\ KillInv' /\ ReportInv'
    BY <2>1 DEF sessionVars, IInv, ClosedScopeStopsItsOperations, Registered, KillInv,
                KillUsesOwnSession, ReportInv, AuthLossReportedOnce
  <2> QED BY <2>2, <2>3, <2>4, <2>5, <2>6 DEF IInv
<1> QED BY <1>1, <1>2, <1>3

\* A step that changes nothing but whether the bearer is old, or which attempt holds
\* the form.
LEMMA QuietStep ==
  ASSUME IInv, RevealLogin \/ Age \/ UNCHANGED vars
  PROVE  IInv'
<1>1. /\ aging' \in BOOLEAN /\ busy' \in Attempts \cup {NoAttempt}
      /\ UNCHANGED <<life, cred, refreshTok, authConfirmed, slot, promise, lossReported,
                     prior, attempt, phase, scope, closedWith, op, kills, reports>>
  BY DEF RevealLogin, Age, vars, sessionVars, appVars, IInv, TypeOK, SessionTypeOK
<1>2. TypeOK'
  BY <1>1 DEF IInv, TypeOK, SessionTypeOK
<1>3. QuietBeforeMount' /\ SessionInv'
  BY <1>1 DEF IInv, QuietBeforeMount, SessionInv, Mounted
<1>4. PromiseInv' /\ RefreshingIsBacked' /\ OpInv'
  BY <1>1 DEF IInv, PromiseInv, RefreshingIsBacked, OpInv, OpOK, Unsettled, Resolves,
              Registered
<1>5. ClosedScopeStopsItsOperations' /\ KillInv' /\ ReportInv'
  BY <1>1 DEF IInv, ClosedScopeStopsItsOperations, Registered, KillInv, KillUsesOwnSession,
              ReportInv, AuthLossReportedOnce
<1> QED BY <1>2, <1>3, <1>4, <1>5 DEF IInv

-----------------------------------------------------------------------------

LEMMA InitInv == Init => IInv
<1> SUFFICES ASSUME Init
             PROVE  IInv
  OBVIOUS
<1>1. TypeOK
  <2>1. FreePromise \in Promise /\ IdleAttempt \in Attempt
    BY CredTypes DEF FreePromise, Promise, IdleAttempt, Attempt, LoggedOutKinds
  <2>2. life \in LifecycleState /\ cred \in Credential /\ refreshTok \in Credential
        /\ aging \in BOOLEAN
    <3>1. Basic(0) \in Credential /\ Oauth(0) \in Credential
      BY DEF Basic, Oauth, Credential
    <3>2. Stable("signed-out", 0) \in LifecycleState /\ Stable("starting", 0) \in LifecycleState
      BY DEF Stable, LifecycleState, StableKinds, LoggedOutKinds, RefreshableKinds
    <3> QED BY <3>1, <3>2, CredTypes DEF Init, SessionInit
  <2>3. SessionTypeOK
    BY <2>1, <2>2 DEF Init, SessionInit, SessionTypeOK, NoEpoch
  <2>4. op \in [Ops -> Op] /\ reports \in Seq(Nat)
    BY CredTypes DEF Init
  <2> QED BY <2>3, <2>4 DEF Init, TypeOK
<1>2. QuietBeforeMount
  BY DEF Init, SessionInit, QuietBeforeMount, FreePromise, IdleOp
<1>3. SessionInv
  BY DEF Init, SessionInit, SessionInv, Mounted, Stable, LoggedOutKinds, NoCred, Basic, Oauth,
         Belongs, Redeemable
<1>4. PromiseInv
  BY DEF Init, SessionInit, PromiseInv, FreePromise, Unsettled, Resolves
<1>5. OpInv
  BY DEF Init, SessionInit, OpInv, OpOK, IdleOp, Registered, Stable, NoEpoch
<1>6. RefreshingIsBacked
  BY DEF Init, SessionInit, RefreshingIsBacked, Stable
<1>7. ClosedScopeStopsItsOperations
  BY DEF Init, ClosedScopeStopsItsOperations, Registered, IdleOp
<1>8. KillInv
  BY DEF Init, KillInv, KillUsesOwnSession
<1>9. ReportInv
  BY DEF Init, ReportInv, AuthLossReportedOnce
<1> QED BY <1>1, <1>2, <1>3, <1>4, <1>5, <1>6, <1>7, <1>8, <1>9 DEF IInv

LEMMA NextInv == IInv /\ [Next]_vars => IInv'
<1> SUFFICES ASSUME IInv, [Next]_vars
             PROVE  IInv'
  OBVIOUS
<1>1. CASE UserStep
  BY <1>1, BootStep, QuietStep, SignOutStep, ConnectStep, BeginStep, RequestUnscopedStep,
     CancelStep DEF UserStep
<1>2. ASSUME NEW a \in Attempts, AttemptStep(a)
      PROVE  IInv'
  BY <1>2, AttemptFailsStep, AttemptSucceedsStep DEF AttemptStep
<1>3. ASSUME NEW q \in Ops, OpStep(q)
      PROVE  IInv'
  BY <1>3, ResumeStep, ReleaseEndStep, RegisterStep, RegisterLateStep, LocalEndStep,
     OperationLossStep, RequestStep, ProgressStep, TransportStep, AuthExpiredStep, RetryStep
     DEF OpStep, PreflightStops
<1>4. ASSUME NEW f \in Refreshes, RefreshStep(f)
      PROVE  IInv'
  BY <1>4, RefreshProgress, RefreshRefusedStep DEF RefreshStep
<1>5. CASE UNCHANGED vars
  BY <1>5, QuietStep
<1> QED BY <1>1, <1>2, <1>3, <1>4, <1>5 DEF Next

\* IInv holds in every reachable state.
THEOREM Invariance == Spec => []IInv
<1>1. Init => IInv
  BY InitInv
<1>2. IInv /\ [Next]_vars => IInv'
  BY NextInv
<1> QED BY <1>1, <1>2, PTL DEF Spec

\* The variables keep their types: in particular a failed sign-in always finds a
\* logged-out kind to return to.
THEOREM TypeCorrect == Spec => []TypeOK
<1>1. IInv => TypeOK
  BY DEF IInv
<1> QED BY <1>1, Invariance, PTL

\* A request carries a credential of the session it was started under
\* (authenticated-clickhouse-request.ts:129-199).
THEOREM RequestsKeepTheirSession == Spec => []RequestUsesOwnSession
<1>1. IInv => RequestUsesOwnSession
  <2> SUFFICES ASSUME IInv, NEW q \in Ops, op[q].pc \in {"fetch", "peek", "reason"}
               PROVE  op[q].bearer # NoCred /\ Belongs(op[q].bearer, op[q].epoch)
    BY DEF RequestUsesOwnSession
  <2> QED BY DEF IInv, OpInv, OpOK
<1> QED BY <1>1, Invariance, PTL

\* A session holds a credential of its own exactly while it is signed in
\* (connection-session.ts:239-293).
THEOREM CredentialIsLive == Spec => []CredentialOfLiveEpoch
<1>1. IInv => CredentialOfLiveEpoch
  BY DEF IInv, SessionInv, CredentialOfLiveEpoch, Mounted
<1> QED BY <1>1, Invariance, PTL

\* A "refreshing" status is backed by an unsettled refresh (connection-session.ts:490-538).
THEOREM RefreshingNeverHangs == Spec => []RefreshingIsBacked
<1>1. IInv => RefreshingIsBacked
  BY DEF IInv
<1> QED BY <1>1, Invariance, PTL

\* Two unsettled refreshes never hold the same refresh token (connection-session.ts:496).
THEOREM RefreshIsSingleFlight == Spec => []RefreshTokenNotShared
<1>1. IInv => RefreshTokenNotShared
  <2> SUFFICES ASSUME IInv, NEW f \in Refreshes, NEW g \in Refreshes, f # g,
                      Unsettled(f), Unsettled(g), promise[f].tok # NoCred
               PROVE  promise[f].tok # promise[g].tok
    BY DEF RefreshTokenNotShared, Unsettled
  <2> QED BY DEF IInv, PromiseInv
<1> QED BY <1>1, Invariance, PTL

\* Neither a closing scope, a late registration nor a cancel sends a KILL with a
\* replacement's credential (authenticated-execution-scope.ts:86-142, app.ts:459-468).
THEOREM KillsKeepTheirSession == Spec => []KillUsesOwnSession
<1>1. IInv => KillUsesOwnSession
  BY DEF IInv, KillInv
<1> QED BY <1>1, Invariance, PTL

\* No operation runs on unstopped after its scope (authenticated-execution-scope.ts:100-142).
THEOREM ClosingStopsEverything == Spec => []ClosedScopeStopsItsOperations
<1>1. IInv => ClosedScopeStopsItsOperations
  BY DEF IInv
<1> QED BY <1>1, Invariance, PTL

\* Each loss of authentication is reported once (connection-session.ts:465-488).
THEOREM LossesAreReportedOnce == Spec => []AuthLossReportedOnce
<1>1. IInv => AuthLossReportedOnce
  BY DEF IInv, ReportInv
<1> QED BY <1>1, Invariance, PTL

\* Requests and kills together (authenticated-clickhouse-request.ts, authenticated-execution-scope.ts).
THEOREM NothingCrossesSessions == Spec => []WireUsesOwnSession
<1>1. RequestUsesOwnSession /\ KillUsesOwnSession => WireUsesOwnSession
  BY DEF WireUsesOwnSession
<1> QED BY <1>1, RequestsKeepTheirSession, KillsKeepTheirSession, PTL

\* The loss is told once and the scope it ends is closed (authenticated-execution-scope.ts).
THEOREM SessionsEndCleanly == Spec => []SessionEndsCleanly
<1>1. ClosedScopeStopsItsOperations /\ AuthLossReportedOnce => SessionEndsCleanly
  BY DEF SessionEndsCleanly
<1> QED BY <1>1, ClosingStopsEverything, LossesAreReportedOnce, PTL
=============================================================================
