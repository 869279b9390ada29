------------------- MODULE AuthenticatedExecution_refinement -------------------
(***************************************************************************)
(* AuthenticatedExecution implements SessionFence, and a request of a      *)
(* replaced session is inert, for any number of operations, refresh        *)
(* promises and sign-in attempts.                                          *)
(*                                                                         *)
(* The proof goes by the steps of AuthenticatedExecution.  IInv says what  *)
(* the mapping needs: a mounted session holds nothing but a credential of  *)
(* its live epoch, and a request under way has a bearer.                   *)
(***************************************************************************)
EXTENDS AuthenticatedExecution_proofs

\* The refinement mapping of Fence, by name.
Holder  == IF Mounted /\ cred # NoCred THEN cred.epoch ELSE -1
Wire(o) == IF o.pc = "fetch" THEN o.bearer.epoch ELSE -1
WireNow == [q \in Ops |-> Wire(op[q])]

\* The same connection: nobody signs in or out.
SameHolder == life'.epoch = life.epoch /\ UNCHANGED <<cred, phase>>

-----------------------------------------------------------------------------
(* What the session must do for each step of SessionFence *)

LEMMA FenceStutters ==
  ASSUME life'.epoch = life.epoch, Holder' = Holder, WireNow' = WireNow
  PROVE  UNCHANGED Fence!fenceVars
BY DEF Fence!fenceVars, Holder, WireNow, Wire

LEMMA FenceOpens ==
  ASSUME Holder = -1, Holder' = life'.epoch, life'.epoch \in {life.epoch, life.epoch + 1},
         WireNow' = WireNow
  PROVE  Fence!Next
<1>1. Fence!Open
  BY DEF Fence!Open, Fence!NoSession, Holder, WireNow, Wire
<1> QED BY <1>1 DEF Fence!Next

LEMMA FenceCloses ==
  ASSUME Holder # -1, Holder' = -1, life'.epoch = life.epoch + 1, WireNow' = WireNow
  PROVE  Fence!Next
<1>1. Fence!Close
  BY DEF Fence!Close, Fence!NoSession, Holder, WireNow, Wire
<1> QED BY <1>1 DEF Fence!Next

LEMMA FenceTicks ==
  ASSUME Holder = -1, Holder' = -1, life'.epoch = life.epoch + 1, WireNow' = WireNow
  PROVE  Fence!Next
<1>1. Fence!Tick
  BY DEF Fence!Tick, Fence!NoSession, Holder, WireNow, Wire
<1> QED BY <1>1 DEF Fence!Next

LEMMA FenceSends ==
  ASSUME NEW q \in Ops, Holder # -1, Wire(op[q]) = -1, SameHolder,
         op' \in [Ops -> Op], \A p \in Ops \ {q} : op'[p] = op[p],
         Wire(op'[q]) = Holder
  PROVE  Fence!Next
<1>1. Fence!Send(q)
  <2>1. [p \in Ops |-> Wire(op'[p])] = [[p \in Ops |-> Wire(op[p])] EXCEPT ![q] = Holder]
    BY DEF Wire
  <2>2. Holder' = Holder /\ life'.epoch = life.epoch
    BY DEF Holder, SameHolder, Mounted
  <2> QED BY <2>1, <2>2 DEF Fence!Send, Fence!NoSession, Holder, Wire
<1> QED BY <1>1 DEF Fence!Next

LEMMA FenceSettles ==
  ASSUME NEW q \in Ops, Wire(op[q]) # -1, SameHolder,
         op' \in [Ops -> Op], \A p \in Ops \ {q} : op'[p] = op[p],
         Wire(op'[q]) = -1
  PROVE  Fence!Next
<1>1. Fence!Settle(q)
  <2>1. [p \in Ops |-> Wire(op'[p])] = [[p \in Ops |-> Wire(op[p])] EXCEPT ![q] = -1]
    BY DEF Wire
  <2>2. Holder' = Holder /\ life'.epoch = life.epoch
    BY DEF Holder, SameHolder, Mounted
  <2> QED BY <2>1, <2>2 DEF Fence!Settle, Fence!NoSession, Holder, Wire
<1> QED BY <1>1 DEF Fence!Next

-----------------------------------------------------------------------------
(* What IInv says of the mapping *)

LEMMA HolderIs ==
  ASSUME IInv
  PROVE  /\ ~Mounted \/ cred = NoCred => Holder = -1
         /\ Mounted /\ cred # NoCred => Holder = life.epoch /\ Holder # -1
BY DEF Holder, IInv, SessionInv, Mounted, TypeOK, SessionTypeOK, LifecycleState, Belongs

LEMMA WireIs ==
  ASSUME IInv, NEW q \in Ops
  PROVE  /\ op[q].pc = "fetch" => Wire(op[q]) # -1
         /\ op[q].pc # "fetch" => Wire(op[q]) = -1
         /\ op[q].pc = "fetch" => Wire(op[q]) = op[q].epoch
<1>1. op[q] \in Op /\ OpOK(op[q])
  BY DEF IInv, TypeOK, OpInv
<1> QED BY <1>1 DEF Wire, OpOK, Op, Credential, Belongs

LEMMA WiresKept ==
  ASSUME \A p \in Ops : Wire(op'[p]) = Wire(op[p])
  PROVE  WireNow' = WireNow
BY DEF WireNow, Wire

\* An operation whose scope is open was started under the live epoch.
LEMMA ScopedIsNotStale ==
  ASSUME IInv, NEW q \in Ops, Registered(op[q]), op[q].owner = scope
  PROVE  ~Stale(q)
<1>1. OpOK(op[q]) /\ scope # NoEpoch /\ scope = life.epoch
  BY DEF IInv, OpInv, Registered, SessionInv
<1> QED BY <1>1 DEF OpOK, Stale

LEMMA CurrentIsNotStale ==
  ASSUME IInv, NEW q \in Ops, op[q].pc = "preflight", Current(q)
  PROVE  ~Stale(q)
<1>1. Registered(op[q])
  BY DEF IInv, OpInv, OpOK, Registered
<1> QED BY <1>1, ScopedIsNotStale DEF Current

\* One operation moves within a session, to anything but a request on the wire.
LEMMA OneMoves ==
  ASSUME IInv, NEW q \in Ops, NEW n, op' = [op EXCEPT ![q] = n], n \in Op, n.pc # "fetch",
         SameHolder
  PROVE  [Fence!Next]_(Fence!fenceVars)
<1>1. /\ op' \in [Ops -> Op] /\ op'[q] = n
      /\ \A p \in Ops \ {q} : op'[p] = op[p]
  BY DEF IInv, TypeOK
<1>2. Wire(op'[q]) = -1
  BY <1>1 DEF Wire
<1>3. CASE op[q].pc = "fetch"
  BY <1>1, <1>2, <1>3, WireIs, FenceSettles
<1>4. CASE op[q].pc # "fetch"
  <2>1. Wire(op[q]) = -1
    BY <1>4, WireIs
  <2>2. \A p \in Ops : Wire(op'[p]) = Wire(op[p])
    BY <1>1, <1>2, <2>1
  <2>3. WireNow' = WireNow
    BY <2>2, WiresKept
  <2>4. Holder' = Holder
    BY DEF Holder, SameHolder, Mounted
  <2> QED BY <2>3, <2>4, FenceStutters DEF SameHolder
<1> QED BY <1>3, <1>4

\* Closing a scope stops operations of the live epoch and takes none off the wire.
LEMMA Closing ==
  ASSUME IInv, NEW ops \in [Ops -> Op], NEW lease, NEW leaseEpoch,
         CloseScope(lease, leaseEpoch, ops)
  PROVE  \A p \in Ops :
           /\ Wire(op'[p]) = Wire(ops[p])
           /\ op'[p] # ops[p] => Registered(ops[p]) /\ ops[p].owner = scope
<1> TAKE p \in Ops
<1>1. op'[p] = IF Registered(ops[p]) /\ ops[p].owner = scope
                 THEN [ops[p] EXCEPT !.stopped = TRUE] ELSE ops[p]
  BY DEF CloseScope
<1>2. Wire([ops[p] EXCEPT !.stopped = TRUE]) = Wire(ops[p])
  BY DEF Op, Wire
<1> QED BY <1>1, <1>2

\* requireAuthentication, called by an operation that is off the wire and ends, or by a
\* refresh: the session is closed, a signing-in one moves on, or nothing happens.
LEMMA LossRefines ==
  ASSUME IInv, Mounted, NEW epoch, NEW ops \in [Ops -> Op],
         \A p \in Ops : Wire(ops[p]) = Wire(op[p]),
         RequireAuthentication(epoch, ops), phase' = phase
  PROVE  [Fence!Next]_(Fence!fenceVars)
<1>1. CASE LosesSession(epoch) /\ DropSession(epoch)
           /\ OnAuthLost(epoch + 1, CancellationLease(epoch), epoch, ops)
  <2>1. WireNow' = WireNow
    BY <1>1, Closing, WiresKept DEF OnAuthLost
  <2>2. life'.epoch = life.epoch + 1 /\ cred' = NoCred
    BY <1>1 DEF LosesSession, DropSession, ClearTokens, AuthRequired, Stable
  <2>3. Holder' = -1
    BY <2>2 DEF Holder
  <2> QED BY <2>1, <2>2, <2>3, FenceCloses, FenceTicks
<1>2. CASE LossIsReportable(epoch) /\ ReportEmptySession(epoch)
           /\ OnAuthLost(epoch, NoCred, epoch, ops)
  <2>1. WireNow' = WireNow
    BY <1>2, Closing, WiresKept DEF OnAuthLost
  <2>2. life' = life /\ Holder' = Holder
    BY <1>2 DEF ReportEmptySession, Holder, Mounted
  <2> QED BY <2>1, <2>2, FenceStutters
<1>3. CASE op' = ops /\ UNCHANGED <<life, cred>>
  <2>1. WireNow' = WireNow
    BY <1>3, WiresKept
  <2>2. Holder' = Holder
    BY <1>3 DEF Holder, Mounted
  <2> QED BY <1>3, <2>1, <2>2, FenceStutters
<1> QED BY <1>1, <1>2, <1>3 DEF RequireAuthentication

-----------------------------------------------------------------------------
(* Every step of the session is a step of the fence or a stutter *)

LEMMA AwaitMoves ==
  ASSUME IInv, NEW q \in Ops, NEW o \in Op, AwaitToken(q, o) \/ AwaitRefresh(q, o)
  PROVE  /\ \E n \in Op : n.pc = o.pc /\ op' = [op EXCEPT ![q] = n]
         /\ life'.epoch = life.epoch
<1>0. /\ life \in LifecycleState /\ slot \in Refreshes \cup {NoRefresh} /\ cred \in Credential
      /\ NoCred \in Credential
  BY CredTypes DEF IInv, TypeOK, SessionTypeOK
<1>1. ASSUME NEW r \in Op, AwaitRefresh(q, r)
      PROVE  /\ \E n \in Op : n.pc = r.pc /\ op' = [op EXCEPT ![q] = n]
             /\ life'.epoch = life.epoch
  <2>1. PICK w \in Refreshes \cup {NoRefresh} :
          /\ op' = [op EXCEPT ![q] = [r EXCEPT !.wait = w]]
          /\ life' = life \/ life' = BeginRefresh(life, life.epoch)
    BY <1>0, <1>1 DEF AwaitRefresh, StartRefresh
  <2>2. [r EXCEPT !.wait = w] \in Op /\ [r EXCEPT !.wait = w].pc = r.pc
    BY DEF Op
  <2>3. BeginRefresh(life, life.epoch).epoch = life.epoch
    BY <1>0 DEF BeginRefresh, LifecycleState
  <2> QED BY <2>1, <2>2, <2>3
<1>2. CASE AwaitRefresh(q, o)
  BY <1>1, <1>2
<1>3. CASE AwaitToken(q, o) /\ cred.mode = "oauth" /\ aging
  <2>1. [o EXCEPT !.got = NoCred] \in Op /\ [o EXCEPT !.got = NoCred].pc = o.pc
    BY <1>0 DEF Op
  <2>2. AwaitRefresh(q, [o EXCEPT !.got = NoCred])
    BY <1>3 DEF AwaitToken
  <2> QED BY <1>1, <2>1, <2>2
<1>4. CASE AwaitToken(q, o) /\ ~(cred.mode = "oauth" /\ aging)
  <2> DEFINE n == [o EXCEPT !.wait = NoRefresh, !.got = cred]
  <2>1. n \in Op /\ n.pc = o.pc
    BY <1>0 DEF Op
  <2>2. op' = [op EXCEPT ![q] = n] /\ life' = life
    BY <1>4 DEF AwaitToken
  <2> QED BY <2>1, <2>2
<1> QED BY <1>2, <1>3, <1>4

\* Steps that call getToken or refresh.
LEMMA CallRefines ==
  ASSUME IInv, NEW q \in Ops,
         Register(q) \/ Request(q) \/ RequestUnscoped(q) \/ Retry(q) \/ AuthExpired(q)
  PROVE  [Fence!Next]_(Fence!fenceVars)
<1>1. op[q] \in Op /\ life.epoch \in Nat /\ IdleOp \in Op
  BY CredTypes DEF IInv, TypeOK, SessionTypeOK, LifecycleState
<1>2. PICK o \in Op : /\ o.pc # "fetch"
                      /\ AwaitToken(q, o) \/ AwaitRefresh(q, o)
  <2>1. CASE Register(q) \/ Request(q)
    <3>1. PICK pc \in {"preflight", "token"} :
            AwaitToken(q, [op[q] EXCEPT !.pc = pc, !.epoch = life.epoch])
      BY <2>1 DEF Register, Request
    <3>2. /\ [op[q] EXCEPT !.pc = pc, !.epoch = life.epoch] \in Op
          /\ [op[q] EXCEPT !.pc = pc, !.epoch = life.epoch].pc = pc
      BY <1>1 DEF Op
    <3> QED BY <3>1, <3>2
  <2>2. CASE RequestUnscoped(q)
    <3>1. AwaitToken(q, [IdleOp EXCEPT !.pc = "token", !.epoch = life.epoch])
      BY <2>2 DEF RequestUnscoped
    <3>2. /\ [IdleOp EXCEPT !.pc = "token", !.epoch = life.epoch] \in Op
          /\ [IdleOp EXCEPT !.pc = "token", !.epoch = life.epoch].pc = "token"
      BY <1>1 DEF Op
    <3> QED BY <3>1, <3>2
  <2>3. CASE Retry(q)
    <3>1. [op[q] EXCEPT !.pc = "retoken"] \in Op /\ [op[q] EXCEPT !.pc = "retoken"].pc = "retoken"
      BY <1>1 DEF Op
    <3> QED BY <2>3, <3>1 DEF Retry
  <2>4. CASE AuthExpired(q)
    <3>1. [op[q] EXCEPT !.pc = "refresh"] \in Op /\ [op[q] EXCEPT !.pc = "refresh"].pc = "refresh"
      BY <1>1 DEF Op
    <3> QED BY <2>4, <3>1 DEF AuthExpired
  <2> QED BY <2>1, <2>2, <2>3, <2>4
<1>3. UNCHANGED <<cred, phase>>
  BY DEF Register, Request, RequestUnscoped, Retry, AuthExpired, tokenFrame
<1> QED BY <1>2, <1>3, AwaitMoves, OneMoves DEF SameHolder

\* Steps of one operation that start no request and leave the credential alone.
LEMMA LocalRefines ==
  ASSUME IInv, NEW q \in Ops,
         \/ TokenRefreshed(q) \/ TokenNotRefreshed(q) \/ RefreshRejected(q)
         \/ Begin(q) \/ RegisterLate(q) \/ PreflightDropped(q) \/ Superseded(q)
         \/ FetchFails(q) \/ ResponseOk(q) \/ ResponseError(q) \/ ErrorReturned(q)
         \/ AuthExpiredAgain(q) \/ RetrySuperseded(q) \/ RetryRefused(q)
  PROVE  [Fence!Next]_(Fence!fenceVars)
<1>1. /\ op[q] \in Op /\ IdleOp \in Op /\ cred \in Credential /\ NoCred \in Credential
      /\ life \in LifecycleState /\ scope \in Nat \cup {NoEpoch}
  BY CredTypes DEF IInv, TypeOK, SessionTypeOK
<1>2. PICK n \in Op : op' = [op EXCEPT ![q] = n] /\ n.pc # "fetch"
  <2>1. CASE TokenRefreshed(q) \/ TokenNotRefreshed(q)
    <3>1. PICK c \in Credential :
            op' = [op EXCEPT ![q] = [op[q] EXCEPT !.wait = NoRefresh, !.got = c]]
      BY <1>1, <2>1 DEF TokenRefreshed, TokenNotRefreshed
    <3>2. /\ [op[q] EXCEPT !.wait = NoRefresh, !.got = c] \in Op
          /\ [op[q] EXCEPT !.wait = NoRefresh, !.got = c].pc # "fetch"
      BY <1>1, <2>1 DEF Op, TokenRefreshed, TokenNotRefreshed, AtGetToken
    <3> QED BY <3>1, <3>2
  <2>2. CASE op' = Without(q)
    BY <1>1, <2>2 DEF Without, IdleOp
  <2>3. CASE Begin(q)
    <3>1. /\ [IdleOp EXCEPT !.pc = "held", !.owner = scope] \in Op
          /\ [IdleOp EXCEPT !.pc = "held", !.owner = scope].pc # "fetch"
      BY <1>1 DEF Op
    <3> QED BY <2>3, <3>1 DEF Begin
  <2>4. CASE ResponseError(q) \/ AuthExpiredAgain(q)
    <3>1. PICK pc \in {"peek", "reason"} : op' = [op EXCEPT ![q] = [op[q] EXCEPT !.pc = pc]]
      BY <2>4 DEF ResponseError, AuthExpiredAgain
    <3>2. [op[q] EXCEPT !.pc = pc] \in Op /\ [op[q] EXCEPT !.pc = pc].pc # "fetch"
      BY <1>1 DEF Op
    <3> QED BY <3>1, <3>2
  <2>5. CASE RetryRefused(q)
    <3>1. /\ [op[q] EXCEPT !.pc = "reason", !.wait = NoRefresh] \in Op
          /\ [op[q] EXCEPT !.pc = "reason", !.wait = NoRefresh].pc # "fetch"
      BY <1>1 DEF Op
    <3> QED BY <2>5, <3>1 DEF RetryRefused
  <2> QED
    BY <2>1, <2>2, <2>3, <2>4, <2>5
       DEF RefreshRejected, RegisterLate, PreflightDropped, Superseded, FetchFails, ResponseOk,
           ErrorReturned, RetrySuperseded, End
<1>3. UNCHANGED <<cred, phase>>
  BY DEF TokenRefreshed, TokenNotRefreshed, RefreshRejected, Begin, RegisterLate,
         PreflightDropped, Superseded, FetchFails, ResponseOk, ResponseError, ErrorReturned,
         AuthExpiredAgain, RetrySuperseded, RetryRefused, tokenFrame, sessionVars
<1>4. life'.epoch = life.epoch
  <2>1. life' \in {life, TransportOffline(life, life.epoch), TransportConnected(life, life.epoch)}
    BY DEF TokenRefreshed, TokenNotRefreshed, RefreshRejected, Begin, RegisterLate,
           PreflightDropped, Superseded, FetchFails, ResponseOk, ResponseError, ErrorReturned,
           AuthExpiredAgain, RetrySuperseded, RetryRefused, sessionVars
  <2> QED BY <1>1, <2>1 DEF TransportOffline, TransportConnected, Stable, LifecycleState
<1> QED BY <1>2, <1>3, <1>4, OneMoves DEF SameHolder

LEMMA CancelRefines ==
  ASSUME IInv, NEW q \in Ops, Cancel(q)
  PROVE  [Fence!Next]_(Fence!fenceVars)
<1>1. op' = [op EXCEPT ![q] = [op[q] EXCEPT !.stopped = TRUE]] /\ UNCHANGED sessionVars
      /\ phase' = phase
  BY DEF Cancel
<1>2. Wire([op[q] EXCEPT !.stopped = TRUE]) = Wire(op[q])
  BY DEF IInv, TypeOK, Op, Wire
<1>3. WireNow' = WireNow
  BY <1>1, <1>2, WiresKept DEF IInv, TypeOK
<1>4. Holder' = Holder /\ life' = life
  BY <1>1 DEF Holder, Mounted, sessionVars
<1> QED BY <1>3, <1>4, FenceStutters

\* A request goes out with a credential of the session that is live.
LEMMA SendRefines ==
  ASSUME IInv, NEW q \in Ops, Send(q) \/ Resend(q)
  PROVE  [Fence!Next]_(Fence!fenceVars)
<1>1. /\ op[q] \in Op /\ OpOK(op[q]) /\ op \in [Ops -> Op]
      /\ Mounted
  BY BusyIsMounted DEF Send, Resend, IInv, TypeOK, OpInv
<1>2. PICK n : /\ op' = [op EXCEPT ![q] = n]
               /\ \/ n = [op[q] EXCEPT !.pc = "fetch", !.bearer = op[q].got]
                  \/ n = [op[q] EXCEPT !.pc = "fetch", !.bearer = op[q].got, !.retried = TRUE]
  BY DEF Send, Resend
<1>3. n \in Op /\ n.pc = "fetch" /\ n.bearer = op[q].got
  BY <1>1, <1>2 DEF Op
<1>4. cred # NoCred /\ op[q].got.epoch = life.epoch
  BY <1>1 DEF Send, Resend, Got, Stale, OpOK, Belongs
<1>5. Holder = life.epoch /\ Holder # -1 /\ Wire(op[q]) = -1
  BY <1>1, <1>4, HolderIs, WireIs DEF Send, Resend
<1>6. Wire(op'[q]) = Holder
  BY <1>1, <1>2, <1>3, <1>4, <1>5 DEF Wire
<1>7. op' \in [Ops -> Op] /\ \A p \in Ops \ {q} : op'[p] = op[p]
  BY <1>1, <1>2, <1>3
<1>8. SameHolder
  BY DEF SameHolder, Send, Resend, sessionVars
<1> QED BY <1>5, <1>6, <1>7, <1>8, FenceSends

LEMMA OperationLossRefines ==
  ASSUME IInv, NEW q \in Ops, PreflightLost(q) \/ NotSignedIn(q) \/ Denied(q)
  PROVE  [Fence!Next]_(Fence!fenceVars)
<1>1. PICK epoch : RequireAuthentication(epoch, Without(q))
  BY DEF PreflightLost, NotSignedIn, Denied
<1>2. op[q].pc \notin {"idle", "fetch"} /\ phase' = phase
  BY DEF PreflightLost, NotSignedIn, Denied, lossFrame
<1>3. Without(q) \in [Ops -> Op]
      /\ \A p \in Ops : Wire(Without(q)[p]) = Wire(op[p])
  BY <1>2, CredTypes DEF Without, IInv, TypeOK, Wire, IdleOp
<1>4. Mounted
  BY <1>2, BusyIsMounted
<1> QED BY <1>1, <1>2, <1>3, <1>4, LossRefines

\* A refresh replaces the bearer of the session that is live, or ends it.
LEMMA RefreshRefines ==
  ASSUME IInv, NEW f \in Refreshes, RefreshStep(f)
  PROVE  [Fence!Next]_(Fence!fenceVars)
<1>0. /\ life \in LifecycleState /\ op \in [Ops -> Op]
      /\ promise[f].pc # "free" => Mounted
  BY DEF IInv, TypeOK, SessionTypeOK, QuietBeforeMount
<1>1. CASE RefreshRefused(f)
  <2>1. Mounted /\ RequireAuthentication(promise[f].epoch, op) /\ phase' = phase
    BY <1>0, <1>1 DEF RefreshRefused
  <2> QED BY <1>0, <2>1, LossRefines
<1>2. CASE ConfigResolved(f) \/ TokensArrive(f) \/ RefreshFails(f) \/ Finally(f)
  <2>1. op' = op /\ phase' = phase
    BY <1>2 DEF ConfigResolved, TokensArrive, RefreshFails, Finally, refreshFrame, appVars
  <2>2. /\ life' = life \/ life' = EndRefresh(life, promise[f].epoch)
             \/ life' = EndRefresh(TransportOffline(life, promise[f].epoch), promise[f].epoch)
        /\ cred' = cred \/ (TokensArrive(f) /\ StoreRefreshedTokens(f) /\ promise[f].tok # NoCred)
    BY <1>2 DEF ConfigResolved, AwaitExchange, DropStaleRefresh, TokensArrive,
                StoreRefreshedTokens, RefreshFails, FailRefresh, Finally
  <2>3. life'.epoch = life.epoch
    BY <1>0, <2>2 DEF EndRefresh, TransportOffline, Stable, LifecycleState
  <2>4. WireNow' = WireNow
    BY <2>1 DEF WireNow, Wire
  <2>5. CASE cred' = cred
    <3>1. Holder' = Holder
      BY <2>1, <2>5 DEF Holder, Mounted
    <3> QED BY <2>3, <2>4, <3>1, FenceStutters
  <2>6. CASE TokensArrive(f) /\ StoreRefreshedTokens(f) /\ promise[f].tok # NoCred
    <3>1. /\ cred' = Redeemed(f) /\ promise[f].epoch = life.epoch /\ Unsettled(f) /\ Mounted
      BY <1>0, <2>6 DEF TokensArrive, StoreRefreshedTokens, StaleRefresh, Unsettled
    <3>2. cred'.epoch = life.epoch /\ cred' # NoCred /\ cred.mode = "oauth"
      <4>1. /\ promise[f].tok.mode = "oauth" /\ promise[f].tok \in Credential
            /\ cred.mode = "oauth"
        BY <2>6, <3>1 DEF IInv, PromiseInv, Redeemable, TypeOK, SessionTypeOK, Promise
      <4> QED BY <3>1, <4>1 DEF Redeemed, Credential, NoCred
    <3>3. Holder = life.epoch
      BY <3>1, <3>2, HolderIs DEF NoCred
    <3>4. Holder' = Holder
      BY <2>1, <3>1, <3>2, <3>3 DEF Holder, Mounted
    <3> QED BY <2>3, <2>4, <3>4, FenceStutters
  <2> QED BY <2>2, <2>5, <2>6
<1> QED BY <1>1, <1>2 DEF RefreshStep

LEMMA AttemptRefines ==
  ASSUME IInv, NEW a \in Attempts, Connect(a) \/ AttemptFails(a) \/ AttemptSucceeds(a)
  PROVE  [Fence!Next]_(Fence!fenceVars)
<1>0. life \in LifecycleState /\ life.epoch \in Nat
  BY DEF IInv, TypeOK, SessionTypeOK, LifecycleState
<1>1. WireNow' = WireNow
  BY DEF Connect, AttemptFails, AttemptSucceeds, WireNow, Wire
<1>2. CASE Connect(a)
  <2>1. Holder = -1
    BY <1>2, HolderIs DEF Connect, IInv, SessionInv
  <2>2. Holder' = Holder
    BY <1>2 DEF Connect, Holder, Mounted
  <2>3. life'.epoch = life.epoch + 1
    BY <1>2 DEF Connect, StartAttempt, StartAuthentication, Stable
  <2> QED BY <1>1, <2>1, <2>2, <2>3, FenceTicks
<1>3. CASE AttemptFails(a)
  <2>1. Holder' = Holder
    BY <1>3 DEF AttemptFails, Holder, Mounted
  <2>2. life'.epoch = life.epoch
    BY <1>0, <1>3 DEF AttemptFails, FailAttempt, FailedAuthentication, Stable
  <2> QED BY <1>1, <2>1, <2>2, FenceStutters
<1>4. CASE AttemptSucceeds(a)
  <2>1. life.kind = "reauthenticating"
    BY <1>4 DEF AttemptSucceeds, CommitAttempt, AttemptIsCurrent
  <2>2. Mounted => cred = NoCred
    BY <2>1 DEF IInv, SessionInv, Mounted
  <2>3. Holder = -1
    BY <2>2, HolderIs
  <2>4. life'.epoch = life.epoch + 1 /\ cred' = Basic(life.epoch + 1) /\ phase' = "shell"
    BY <1>4 DEF AttemptSucceeds, CommitAttempt, CredentialsInstalled, Stable
  <2>5. Holder' = life'.epoch
    BY <2>4 DEF Holder, Mounted, Basic, NoCred
  <2> QED BY <1>1, <2>3, <2>4, <2>5, FenceOpens
<1> QED BY <1>2, <1>3, <1>4

LEMMA SignOutRefines ==
  ASSUME IInv, SignOut
  PROVE  [Fence!Next]_(Fence!fenceVars)
<1>1. CloseScope(CancellationLease(life.epoch), life.epoch, op) /\ op \in [Ops -> Op]
  BY DEF SignOut, IInv, TypeOK
<1>2. WireNow' = WireNow
  BY <1>1, Closing, WiresKept
<1>3. life'.epoch = life.epoch + 1 /\ Holder' = -1
  BY DEF SignOut, EndSession, SignedOut, Stable, ClearTokens, Holder
<1> QED BY <1>2, <1>3, FenceCloses, FenceTicks

\* The bootstrap shows the workbench with the credential it found or the callback brought.
LEMMA BootRefines ==
  ASSUME IInv, BootCallback \/ BootSignedIn \/ BootLogin
  PROVE  [Fence!Next]_(Fence!fenceVars)
<1>1. Holder = -1 /\ phase = "boot" /\ life.epoch \in Nat
  BY HolderIs DEF BootCallback, BootSignedIn, BootLogin, Mounted, IInv, TypeOK,
                  SessionTypeOK, LifecycleState
<1>2. WireNow' = WireNow
  BY DEF BootCallback, BootSignedIn, BootLogin, WireNow, Wire, appVars
<1>3. CASE BootCallback
  <2>1. life'.epoch = life.epoch + 1 /\ phase' = "boot"
    BY <1>1, <1>3 DEF BootCallback, InstallTokens, CredentialsInstalled, Stable, appVars
  <2>2. Holder' = -1
    BY <2>1 DEF Holder, Mounted
  <2> QED BY <1>1, <1>2, <2>1, <2>2, FenceTicks
<1>4. CASE BootSignedIn
  <2>1. cred.epoch = life.epoch /\ cred # NoCred
    BY <1>1, <1>4 DEF BootSignedIn, IInv, SessionInv, Belongs
  <2>2. life' = life /\ cred' = cred /\ phase' = "shell"
    BY <1>4 DEF BootSignedIn, sessionVars
  <2>3. Holder' = life'.epoch
    BY <2>1, <2>2 DEF Holder, Mounted
  <2> QED BY <1>1, <1>2, <2>2, <2>3, FenceOpens
<1>5. CASE BootLogin
  <2>1. life' = life /\ phase' = "login"
    BY <1>5 DEF BootLogin, sessionVars
  <2>2. Holder' = -1
    BY <2>1 DEF Holder, Mounted
  <2> QED BY <1>1, <1>2, <2>1, <2>2, FenceStutters
<1> QED BY <1>3, <1>4, <1>5

LEMMA QuietRefines ==
  ASSUME IInv, RevealLogin \/ Age \/ UNCHANGED vars
  PROVE  [Fence!Next]_(Fence!fenceVars)
<1>1. UNCHANGED <<life, cred, phase, op>>
  BY DEF RevealLogin, Age, vars, sessionVars, appVars
<1>2. WireNow' = WireNow /\ Holder' = Holder
  BY <1>1 DEF WireNow, Wire, Holder, Mounted
<1> QED BY <1>1, <1>2, FenceStutters

LEMMA InitRefines == Init => Fence!Init
<1> SUFFICES ASSUME Init
             PROVE  Fence!Init
  OBVIOUS
<1>1. life.epoch = 0 /\ ~Mounted /\ \A q \in Ops : op[q].pc = "idle"
  BY DEF Init, SessionInit, Stable, Mounted, IdleOp
<1> QED BY <1>1 DEF Fence!Init, Fence!NoSession

LEMMA NextRefines == IInv /\ [Next]_vars => [Fence!Next]_(Fence!fenceVars)
<1> SUFFICES ASSUME IInv, [Next]_vars
             PROVE  [Fence!Next]_(Fence!fenceVars)
  OBVIOUS
<1>1. CASE UserStep
  BY <1>1, BootRefines, QuietRefines, SignOutRefines, AttemptRefines, LocalRefines,
     CallRefines, CancelRefines DEF UserStep
<1>2. ASSUME NEW a \in Attempts, AttemptStep(a)
      PROVE  [Fence!Next]_(Fence!fenceVars)
  BY <1>2, AttemptRefines DEF AttemptStep
<1>3. ASSUME NEW q \in Ops, OpStep(q)
      PROVE  [Fence!Next]_(Fence!fenceVars)
  BY <1>3, LocalRefines, CallRefines, SendRefines, OperationLossRefines
     DEF OpStep, PreflightStops
<1>4. ASSUME NEW f \in Refreshes, RefreshStep(f)
      PROVE  [Fence!Next]_(Fence!fenceVars)
  BY <1>4, RefreshRefines
<1>5. CASE UNCHANGED vars
  BY <1>5, QuietRefines
<1> QED BY <1>1, <1>2, <1>3, <1>4, <1>5 DEF Next

\* The session, with its refreshes, races and scopes, implements SessionFence: a request
\* goes on the wire only with a credential obtained for the session that is then live
\* (connection-session.ts, authenticated-clickhouse-request.ts:129-199).
THEOREM SessionImplementsFence == Spec => ImplementsFence
<1>1. Init => Fence!Init
  BY InitRefines
<1>2. IInv /\ [Next]_vars => [Fence!Next]_(Fence!fenceVars)
  BY NextRefines
<1> QED BY <1>1, <1>2, Invariance, PTL DEF Spec, ImplementsFence, Fence!Spec

-----------------------------------------------------------------------------
(* A request of a replaced session is inert *)

Inert == \A q \in Ops : op[q].pc \notin {"idle", "held"} /\ Stale(q) /\ op'[q] # op[q]
           => UNCHANGED <<life, cred, refreshTok, authConfirmed>>

\* A loss reaches, besides the operation that reports it, only operations of its scope.
LEMMA LossIsInert ==
  ASSUME IInv, NEW epoch, NEW ops \in [Ops -> Op],
         \A p \in Ops : ops[p] = op[p] \/ ~Stale(p),
         RequireAuthentication(epoch, ops)
  PROVE  Inert
<1> SUFFICES ASSUME NEW p \in Ops, Stale(p), op'[p] # op[p]
             PROVE  UNCHANGED <<life, cred, refreshTok, authConfirmed>>
  BY DEF Inert
<1>1. ops[p] = op[p] /\ ~(Registered(op[p]) /\ op[p].owner = scope)
  BY ScopedIsNotStale
<1>2. ASSUME NEW e, NEW lease, NEW leaseEpoch, OnAuthLost(e, lease, leaseEpoch, ops)
      PROVE  FALSE
  BY <1>1, <1>2, Closing DEF OnAuthLost
<1> QED BY <1>1, <1>2 DEF RequireAuthentication

\* No operation moves, or only one that is new or whose epoch is the live one.
LEMMA OneIsInert ==
  ASSUME NEW q \in Ops, ~Stale(q) \/ op[q].pc \in {"idle", "held"}
           \/ UNCHANGED <<life, cred, refreshTok, authConfirmed>>,
         \A p \in Ops \ {q} : op'[p] = op[p]
  PROVE  Inert
BY DEF Inert

LEMMA OpIsInert ==
  ASSUME IInv, NEW q \in Ops, OpStep(q) \/ Begin(q) \/ RequestUnscoped(q) \/ Cancel(q)
  PROVE  Inert
<1>0. op \in [Ops -> Op]
  BY DEF IInv, TypeOK
<1>1. CASE PreflightLost(q) \/ NotSignedIn(q) \/ Denied(q)
  <2>1. ~Stale(q)
    BY <1>1, CurrentIsNotStale DEF PreflightLost, NotSignedIn, Denied
  <2>2. PICK epoch : RequireAuthentication(epoch, Without(q))
    BY <1>1 DEF PreflightLost, NotSignedIn, Denied
  <2>3. /\ Without(q) \in [Ops -> Op]
        /\ \A p \in Ops : Without(q)[p] = op[p] \/ ~Stale(p)
    BY <1>0, <2>1, CredTypes DEF Without
  <2> QED BY <2>2, <2>3, LossIsInert
<1>2. CASE Register(q) \/ Request(q) \/ RequestUnscoped(q) \/ Retry(q) \/ AuthExpired(q)
  <2>1. \A p \in Ops \ {q} : op'[p] = op[p]
    BY <1>0, <1>2 DEF Register, Request, RequestUnscoped, Retry, AuthExpired, AwaitToken,
                      AwaitRefresh
  <2>2. ~Stale(q) \/ op[q].pc \in {"idle", "held"}
    BY <1>2, CurrentIsNotStale DEF Register, Request, RequestUnscoped, Retry, AuthExpired
  <2> QED BY <2>1, <2>2, OneIsInert
<1>3. CASE FetchFails(q) \/ ResponseOk(q)
  BY <1>0, <1>3, OneIsInert DEF FetchFails, ResponseOk, End, Without
<1>4. CASE \/ TokenRefreshed(q) \/ TokenNotRefreshed(q) \/ RefreshRejected(q)
           \/ RetrySuperseded(q) \/ RetryRefused(q)
  BY <1>0, <1>4, OneIsInert DEF TokenRefreshed, TokenNotRefreshed, RefreshRejected,
                                RetrySuperseded, RetryRefused, End, Without, tokenFrame
<1>5. CASE \/ Begin(q) \/ Cancel(q) \/ RegisterLate(q) \/ PreflightDropped(q)
           \/ Superseded(q) \/ Send(q) \/ Resend(q) \/ ResponseError(q) \/ ErrorReturned(q)
           \/ AuthExpiredAgain(q)
  BY <1>0, <1>5, OneIsInert DEF Begin, Cancel, RegisterLate, PreflightDropped, Superseded,
                                Send, Resend, ResponseError, ErrorReturned, AuthExpiredAgain,
                                End, Without, sessionVars
<1> QED BY <1>1, <1>2, <1>3, <1>4, <1>5 DEF OpStep, PreflightStops

LEMMA RefreshIsInert ==
  ASSUME IInv, NEW f \in Refreshes, RefreshStep(f)
  PROVE  Inert
<1>1. CASE RefreshRefused(f)
  <2>1. RequireAuthentication(promise[f].epoch, op)
    BY <1>1 DEF RefreshRefused
  <2>2. op \in [Ops -> Op]
    BY DEF IInv, TypeOK
  <2> QED BY <2>1, <2>2, LossIsInert
<1>2. CASE ConfigResolved(f) \/ TokensArrive(f) \/ RefreshFails(f) \/ Finally(f)
  BY <1>2 DEF ConfigResolved, TokensArrive, RefreshFails, Finally, refreshFrame, appVars, Inert
<1> QED BY <1>1, <1>2 DEF RefreshStep

LEMMA UserIsInert ==
  ASSUME IInv, \/ BootCallback \/ BootSignedIn \/ BootLogin \/ RevealLogin \/ Age
               \/ UNCHANGED vars
               \/ \E a \in Attempts : Connect(a) \/ AttemptStep(a)
  PROVE  Inert
<1>1. op' = op
  BY DEF BootCallback, BootSignedIn, BootLogin, RevealLogin, Age, Connect, AttemptStep,
         AttemptFails, AttemptSucceeds, vars, appVars
<1> QED BY <1>1 DEF Inert

LEMMA SignOutIsInert ==
  ASSUME IInv, SignOut
  PROVE  Inert
<1>1. CloseScope(CancellationLease(life.epoch), life.epoch, op) /\ op \in [Ops -> Op]
  BY DEF SignOut, IInv, TypeOK
<1> QED BY <1>1, Closing, ScopedIsNotStale DEF Inert

\* Whatever a request does after its session was replaced, it changes nothing of the
\* session (authenticated-clickhouse-request.ts:129-199).
THEOREM StaleRequestsAreInert == Spec => StaleRequestIsInert
<1>1. IInv /\ [Next]_vars => Inert
  BY OpIsInert, RefreshIsInert, UserIsInert, SignOutIsInert DEF Next, UserStep
<1>2. Inert => (\A q \in Ops : op[q].pc \notin {"idle", "held"} /\ Stale(q) /\ op'[q] # op[q]
                  => UNCHANGED <<life, cred, refreshTok, authConfirmed>>)
  BY DEF Inert
<1> QED BY <1>1, <1>2, Invariance, PTL DEF Spec, StaleRequestIsInert
=============================================================================
