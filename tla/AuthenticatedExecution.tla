----------------------- MODULE AuthenticatedExecution -----------------------
(***************************************************************************)
(* Operations that talk to ClickHouse while the session under them may be  *)
(* refreshed, lost, signed out or replaced: authenticatedRequest           *)
(* (net/authenticated-clickhouse-request.ts) and the execution scope       *)
(* (application/authenticated-execution-scope.ts) over ConnectionSession,  *)
(* wired as ui/app.ts wires them.                                          *)
(*                                                                         *)
(* An action is one stretch of JavaScript between two awaits.  Awaits that *)
(* are ready resume in any order, with other stretches in between, which   *)
(* over-approximates the microtask queue.                                  *)
(***************************************************************************)
EXTENDS ConnectionSession, Sequences, FiniteSets

CONSTANTS Ops,       \* operations running side by side; each is reused when it ends
          MaxEpoch   \* bound on the epochs that user actions may open

ASSUME MaxEpochAssumption == MaxEpoch \in Nat

VARIABLES
  phase,       \* the bootstrap and the surface: see Mounted
  scope,       \* epoch of activeExecutionScope, NoEpoch when it is null
  closedWith,  \* the closed scopes, each with the lease it was closed with
  op,          \* the operations
  busy,        \* the attempt that holds the login form
  kills,       \* KILL QUERY requests sent: owning scope, credential of the query, of the KILL
  reports      \* the epochs for which the shell was told that authentication is lost

appVars == <<phase, scope, closedWith, op, busy, kills, reports>>
vars == <<sessionVars, appVars>>

Op == [pc: {"idle", "held", "preflight", "token", "fetch", "peek", "refresh",
            "retoken", "reason"},
       owner: Nat \cup {NoEpoch},          \* the scope it was started under
       epoch: Nat,                         \* requestEpoch
       bearer: Credential,                 \* the credential of the latest attempt
       retried: BOOLEAN,                   \* attempt = 1
       wait: Refreshes \cup {NoRefresh},   \* the refresh promise it awaits
       got: Credential,                    \* what getToken has returned
       stopped: BOOLEAN]                   \* its AbortSignal has fired

IdleOp == [pc |-> "idle", owner |-> NoEpoch, epoch |-> 0, bearer |-> NoCred,
           retried |-> FALSE, wait |-> NoRefresh, got |-> NoCred, stopped |-> FALSE]

TypeOK ==
  /\ SessionTypeOK
  /\ phase \in {"boot", "login", "shell", "retired"}
  /\ scope \in Nat \cup {NoEpoch}
  /\ closedWith \subseteq [epoch: Nat, lease: Credential]
  /\ op \in [Ops -> Op]
  /\ busy \in Attempts \cup {NoAttempt}
  /\ kills \subseteq [owner: Nat, victim: Credential, by: Credential]
  /\ reports \in Seq(Nat)

\* The workbench has been shown once; "retired" is the login page after signOut.
Mounted == phase \in {"shell", "retired"}

Init ==
  /\ SessionInit
  /\ phase = "boot"
  /\ scope = NoEpoch
  /\ closedWith = {}
  /\ op = [q \in Ops |-> IdleOp]
  /\ busy = NoAttempt
  /\ kills = {}
  /\ reports = <<>>

Stale(q) == op[q].epoch # life.epoch

\* The operations after q settled: its registration is released.
Without(q) == [op EXCEPT ![q] = IdleOp]

End(q) == op' = Without(q)

-----------------------------------------------------------------------------
(* The execution scope *)

Registered(o) == o.owner # NoEpoch /\ o.pc \notin {"idle", "held"}

\* close(lease): abort every registered operation; KILL those with a query id.
CloseScope(lease, leaseEpoch, ops) ==
  LET closeLease == IF leaseEpoch = scope THEN lease ELSE NoCred
      active     == {q \in Ops : Registered(ops[q]) /\ ops[q].owner = scope}
      killed     == {q \in active : ops[q].pc # "preflight" /\ closeLease # NoCred}
  IN  /\ scope' = NoEpoch
      /\ closedWith' = closedWith \cup
           {[epoch |-> e, lease |-> closeLease] : e \in {scope} \ {NoEpoch}}
      /\ op' = [q \in Ops |-> IF q \in active THEN [ops[q] EXCEPT !.stopped = TRUE]
                                              ELSE ops[q]]
      /\ kills' = kills \cup {[owner |-> scope, victim |-> ops[q].bearer,
                               by |-> closeLease] : q \in killed}

\* onAuthLost: dispose of the scope, then reveal the login form afresh.
OnAuthLost(epoch, lease, leaseEpoch, ops) ==
  /\ CloseScope(lease, leaseEpoch, ops)
  /\ reports' = Append(reports, epoch)
  /\ busy' = NoAttempt

RequireAuthentication(epoch, ops) ==
  \/ /\ LossIsStale(epoch) \/ (AlreadyLost(epoch) /\ ~LossIsReportable(epoch))
     /\ op' = ops
     /\ UNCHANGED <<life, cred, refreshTok, aging, authConfirmed, lossReported,
                    scope, closedWith, kills, reports, busy>>
  \/ /\ LossIsReportable(epoch)
     /\ ReportEmptySession(epoch)
     /\ OnAuthLost(epoch, NoCred, epoch, ops)
  \/ /\ LosesSession(epoch)
     /\ DropSession(epoch)
     /\ OnAuthLost(epoch + 1, CancellationLease(epoch), epoch, ops)

\* Everything RequireAuthentication leaves alone.
lossFrame == <<slot, promise, prior, attempt, phase>>

-----------------------------------------------------------------------------
(* Bootstrap and interactive sign-in *)

\* A completed OAuth callback; it is handled before anything else runs.
BootCallback ==
  /\ phase = "boot" /\ life.epoch = 0
  /\ InstallTokens
  /\ UNCHANGED <<slot, promise, lossReported, attempt, appVars>>

BootSignedIn ==
  /\ phase = "boot" /\ cred # NoCred
  /\ phase' = "shell"
  /\ scope' = life.epoch
  /\ UNCHANGED <<sessionVars, closedWith, op, busy, kills, reports>>

\* isSignedIn allows no skew: an aging bearer may or may not have expired.
BootLogin ==
  /\ phase = "boot" /\ (cred = NoCred \/ aging)
  /\ phase' = "login"
  /\ UNCHANGED <<sessionVars, scope, closedWith, op, busy, kills, reports>>

\* The form is shown only while no scope is open.
Connect(a) ==
  /\ phase # "boot" /\ scope = NoEpoch
  /\ busy = NoAttempt /\ attempt[a].pc = "idle"
  /\ life.epoch + 3 <= MaxEpoch
  /\ StartAttempt(a)
  /\ busy' = a
  /\ UNCHANGED <<cred, refreshTok, aging, authConfirmed, slot, promise, lossReported,
                 phase, scope, closedWith, op, kills, reports>>

ReleaseForm(a) == busy' = IF busy = a THEN NoAttempt ELSE busy

\* A rejected probe, or one that a newer sign-in superseded.
AttemptFails(a) ==
  /\ attempt[a].pc = "probing"
  /\ FailAttempt(a)
  /\ ReleaseForm(a)
  /\ UNCHANGED <<cred, refreshTok, aging, authConfirmed, slot, promise, lossReported,
                 phase, scope, closedWith, op, kills, reports>>

\* actions.connect: commit the session and open its execution scope.
AttemptSucceeds(a) ==
  /\ attempt[a].pc = "probing"
  /\ CommitAttempt(a)
  /\ ReleaseForm(a)
  /\ phase' = "shell"
  /\ scope' = life'.epoch
  /\ UNCHANGED <<refreshTok, slot, promise, lossReported, closedWith, op, kills, reports>>

\* A user action without a session reveals the form again: it can be submitted anew.
RevealLogin ==
  /\ phase = "shell" /\ scope = NoEpoch /\ cred = NoCred /\ busy # NoAttempt
  /\ busy' = NoAttempt
  /\ UNCHANGED <<sessionVars, phase, scope, closedWith, op, kills, reports>>

SignOut ==
  /\ phase = "shell" /\ life.epoch < MaxEpoch
  /\ CloseScope(CancellationLease(life.epoch), life.epoch, op)
  /\ EndSession
  /\ phase' = "retired"
  /\ busy' = NoAttempt
  /\ UNCHANGED <<slot, promise, lossReported, attempt, reports>>

Age ==
  /\ cred.mode = "oauth" /\ ~aging
  /\ aging' = TRUE
  /\ UNCHANGED <<life, cred, refreshTok, authConfirmed, slot, promise, lossReported,
                 prior, attempt, appVars>>

-----------------------------------------------------------------------------
(* getToken and refresh, as an operation calls them *)

\* The last operation to resume from a promise lets go of it.
Released(q) ==
  LET f == op[q].wait
  IN  IF f = NoRefresh \/ (\E p \in Ops \ {q} : op[p].wait = f)
        THEN promise ELSE [promise EXCEPT ![f] = FreePromise]

\* q proceeds as o and awaits refresh(): false at once in Basic mode, the promise of
\* this epoch when there is one, a new promise otherwise.
AwaitRefresh(q, o) ==
  \/ /\ cred.mode = "basic"
     /\ op' = [op EXCEPT ![q] = [o EXCEPT !.wait = NoRefresh]]
     /\ promise' = Released(q)
     /\ UNCHANGED <<life, slot>>
  \/ /\ cred.mode # "basic" /\ JoinableSlot
     /\ op' = [op EXCEPT ![q] = [o EXCEPT !.wait = slot]]
     /\ promise' = Released(q)
     /\ UNCHANGED <<life, slot>>
  \/ /\ cred.mode # "basic" /\ ~JoinableSlot
     /\ \E f \in Refreshes :
          /\ promise[f].pc = "free"
          /\ StartRefresh(f, Released(q))
          /\ op' = [op EXCEPT ![q] = [o EXCEPT !.wait = f]]

\* q proceeds as o and awaits getToken(): a usable credential is returned as it is
\* now, an aging bearer waits for a refresh.
AwaitToken(q, o) ==
  \/ /\ cred.mode = "oauth" /\ aging
     /\ AwaitRefresh(q, [o EXCEPT !.got = NoCred])
  \/ /\ ~(cred.mode = "oauth" /\ aging)
     /\ op' = [op EXCEPT ![q] = [o EXCEPT !.wait = NoRefresh, !.got = cred]]
     /\ promise' = Released(q)
     /\ UNCHANGED <<life, slot>>

tokenFrame == <<cred, refreshTok, aging, authConfirmed, lossReported, prior, attempt,
                phase, scope, closedWith, busy, kills, reports>>

\* What q awaits has resolved to value.
Resolved(q, value) ==
  /\ op[q].wait # NoRefresh
  /\ promise[op[q].wait].pc = "done"
  /\ promise[op[q].wait].value = value

\* refresh() answers false at once in Basic mode.
Refused(q) == op[q].wait = NoRefresh \/ Resolved(q, "false")

AtGetToken(q) == op[q].pc \in {"preflight", "token", "retoken"}
Got(q)        == AtGetToken(q) /\ op[q].wait = NoRefresh

\* getToken after its refresh: the bearer now held, or, when the session was
\* replaced meanwhile, whatever credential the replacement holds.
TokenRefreshed(q) ==
  /\ AtGetToken(q) /\ Resolved(q, "true")
  /\ promise' = Released(q)
  /\ op' = [op EXCEPT ![q].wait = NoRefresh,
                      ![q].got = IF cred.mode = "oauth" THEN cred ELSE NoCred]
  /\ UNCHANGED <<life, slot, tokenFrame>>

TokenNotRefreshed(q) ==
  /\ AtGetToken(q) /\ Resolved(q, "false")
  /\ promise' = Released(q)
  /\ op' = [op EXCEPT ![q].wait = NoRefresh, ![q].got = IF Stale(q) THEN cred ELSE NoCred]
  /\ UNCHANGED <<life, slot, tokenFrame>>

\* The refresh was rejected: the operation fails with it.
RefreshRejected(q) ==
  /\ Resolved(q, "reject")
  /\ promise' = Released(q)
  /\ End(q)
  /\ UNCHANGED <<life, slot, tokenFrame>>

-----------------------------------------------------------------------------
(* One operation: scope, registration, preflight, request *)

\* requireAuthenticatedExecution() hands out the open scope.
Begin(q) ==
  /\ op[q].pc = "idle" /\ scope # NoEpoch
  /\ op' = [op EXCEPT ![q] = [IdleOp EXCEPT !.pc = "held", !.owner = scope]]
  /\ UNCHANGED <<sessionVars, phase, scope, closedWith, busy, kills, reports>>

\* register(), then the preflight getToken().
Register(q) ==
  /\ op[q].pc = "held" /\ scope = op[q].owner
  /\ AwaitToken(q, [op[q] EXCEPT !.pc = "preflight", !.epoch = life.epoch])
  /\ UNCHANGED tokenFrame

\* register() on a scope that closed meanwhile: stop the operation with its lease.
RegisterLate(q) ==
  /\ op[q].pc = "held" /\ scope # op[q].owner
  /\ kills' = kills \cup {[owner |-> op[q].owner, victim |-> op[q].bearer, by |-> c.lease] :
                          c \in {c \in closedWith : c.epoch = op[q].owner /\ c.lease # NoCred}}
  /\ End(q)
  /\ UNCHANGED <<sessionVars, phase, scope, closedWith, busy, reports>>

Current(q) == scope = op[q].owner /\ ~op[q].stopped

\* The caller of a preflight acts on its result only while its registration is current.
PreflightDropped(q) ==
  /\ op[q].pc = "preflight" /\ Got(q) /\ ~Current(q)
  /\ End(q)
  /\ UNCHANGED <<sessionVars, phase, scope, closedWith, busy, kills, reports>>

PreflightLost(q) ==
  /\ op[q].pc = "preflight" /\ Got(q) /\ Current(q) /\ op[q].got = NoCred
  /\ RequireAuthentication(life.epoch, Without(q))
  /\ UNCHANGED lossFrame

\* The loss is a second line of defence: a preflight that gets no token has always lost
\* its scope by then.
PreflightStops(q) == IF Current(q) THEN PreflightLost(q) ELSE PreflightDropped(q)

\* authenticatedRequest() starts: capture the epoch, await getToken().
Request(q) ==
  /\ op[q].pc = "preflight" /\ Got(q) /\ Current(q) /\ op[q].got # NoCred
  /\ AwaitToken(q, [op[q] EXCEPT !.pc = "token", !.epoch = life.epoch])
  /\ UNCHANGED tokenFrame

\* A request of an owner that keeps no registration, possibly a late continuation.
RequestUnscoped(q) ==
  /\ op[q].pc = "idle" /\ Mounted
  /\ AwaitToken(q, [IdleOp EXCEPT !.pc = "token", !.epoch = life.epoch])
  /\ UNCHANGED tokenFrame

\* A request superseded at one of its fences ends without touching the session.
Superseded(q) ==
  /\ \/ op[q].pc \in {"token", "retoken"} /\ Got(q)
     \/ op[q].pc \in {"fetch", "peek", "reason"}
  /\ Stale(q)
  /\ End(q)
  /\ UNCHANGED <<sessionVars, phase, scope, closedWith, busy, kills, reports>>

NotSignedIn(q) ==
  /\ op[q].pc = "token" /\ Got(q) /\ ~Stale(q) /\ op[q].got = NoCred
  /\ RequireAuthentication(op[q].epoch, Without(q))
  /\ UNCHANGED lossFrame

\* Mutant: no fence between getToken and fetch.
Send_Unfenced(q) ==
  /\ op[q].pc = "token" /\ Got(q) /\ op[q].got # NoCred
  /\ op' = [op EXCEPT ![q].pc = "fetch", ![q].bearer = op[q].got]
  /\ UNCHANGED <<sessionVars, phase, scope, closedWith, busy, kills, reports>>

Send(q) ==
  /\ op[q].pc = "token" /\ Got(q) /\ ~Stale(q) /\ op[q].got # NoCred
  /\ op' = [op EXCEPT ![q].pc = "fetch", ![q].bearer = op[q].got]
  /\ UNCHANGED <<sessionVars, phase, scope, closedWith, busy, kills, reports>>

Resend(q) ==
  /\ op[q].pc = "retoken" /\ Got(q) /\ ~Stale(q)
  /\ op' = [op EXCEPT ![q].pc = "fetch", ![q].bearer = op[q].got, ![q].retried = TRUE]
  /\ UNCHANGED <<sessionVars, phase, scope, closedWith, busy, kills, reports>>

\* Mutant: a rejected fetch marks the session offline whoever owns it now.
FetchFails_Unfenced(q) ==
  /\ op[q].pc = "fetch"
  /\ life' = IF op[q].stopped THEN life ELSE TransportOffline(life, life.epoch)
  /\ End(q)
  /\ UNCHANGED <<cred, refreshTok, aging, authConfirmed, slot, promise, lossReported,
                 prior, attempt, phase, scope, closedWith, busy, kills, reports>>

\* fetch rejects; an abort is not a transport failure.
FetchFails(q) ==
  /\ op[q].pc = "fetch" /\ ~Stale(q)
  /\ life' = IF op[q].stopped THEN life ELSE TransportOffline(life, life.epoch)
  /\ End(q)
  /\ UNCHANGED <<cred, refreshTok, aging, authConfirmed, slot, promise, lossReported,
                 prior, attempt, phase, scope, closedWith, busy, kills, reports>>

ResponseOk(q) ==
  /\ op[q].pc = "fetch" /\ ~Stale(q)
  /\ authConfirmed' = TRUE
  /\ life' = TransportConnected(life, life.epoch)
  /\ End(q)
  /\ UNCHANGED <<cred, refreshTok, aging, slot, promise, lossReported,
                 prior, attempt, phase, scope, closedWith, busy, kills, reports>>

\* Any other status: the body may still say that the authentication expired.
ResponseError(q) ==
  /\ op[q].pc = "fetch" /\ ~Stale(q)
  /\ op' = [op EXCEPT ![q].pc = "peek"]
  /\ UNCHANGED <<sessionVars, phase, scope, closedWith, busy, kills, reports>>

\* An error that is no authentication failure, or one after the login was confirmed.
ErrorReturned(q) ==
  /\ op[q].pc = "peek" \/ (op[q].pc = "fetch" /\ authConfirmed)
  /\ ~Stale(q)
  /\ End(q)
  /\ UNCHANGED <<sessionVars, phase, scope, closedWith, busy, kills, reports>>

\* 401, 403 or an expiry marker before the login was confirmed: refresh once.
AuthExpired(q) ==
  /\ op[q].pc \in {"fetch", "peek"} /\ ~Stale(q) /\ ~authConfirmed /\ ~op[q].retried
  /\ AwaitRefresh(q, [op[q] EXCEPT !.pc = "refresh"])
  /\ UNCHANGED tokenFrame

\* The retry failed as well: read the reason.
AuthExpiredAgain(q) ==
  /\ op[q].pc \in {"fetch", "peek"} /\ ~Stale(q) /\ ~authConfirmed /\ op[q].retried
  /\ op' = [op EXCEPT ![q].pc = "reason"]
  /\ UNCHANGED <<sessionVars, phase, scope, closedWith, busy, kills, reports>>

Retry(q) ==
  /\ op[q].pc = "refresh" /\ Resolved(q, "true") /\ ~Stale(q)
  /\ AwaitToken(q, [op[q] EXCEPT !.pc = "retoken"])
  /\ UNCHANGED tokenFrame

\* refresh() resolved, but under a replaced session.
RetrySuperseded(q) ==
  /\ op[q].pc = "refresh" /\ Stale(q)
  /\ Refused(q) \/ Resolved(q, "true")
  /\ promise' = Released(q)
  /\ End(q)
  /\ UNCHANGED <<life, slot, tokenFrame>>

RetryRefused(q) ==
  /\ op[q].pc = "refresh" /\ Refused(q) /\ ~Stale(q)
  /\ promise' = Released(q)
  /\ op' = [op EXCEPT ![q].pc = "reason", ![q].wait = NoRefresh]
  /\ UNCHANGED <<life, slot, tokenFrame>>

\* ClickHouse rejected the login itself.
Denied(q) ==
  /\ op[q].pc = "reason" /\ ~Stale(q)
  /\ RequireAuthentication(op[q].epoch, Without(q))
  /\ UNCHANGED lossFrame

\* The user cancels: local abort, and a KILL under the owner's epoch only.
Cancel(q) ==
  /\ Registered(op[q])
  /\ op' = [op EXCEPT ![q].stopped = TRUE]
  /\ kills' = kills \cup {[owner |-> op[q].owner, victim |-> op[q].bearer, by |-> lease] :
                          lease \in {CancellationLease(op[q].owner)} \ {NoCred}}
  /\ UNCHANGED <<sessionVars, phase, scope, closedWith, busy, reports>>

-----------------------------------------------------------------------------
(* Refresh promises settle *)

refreshFrame == <<slot, authConfirmed, lossReported, prior, attempt, appVars>>

ConfigResolved(f) ==
  /\ promise[f].pc = "config"
  /\ AwaitExchange(f) \/ DropStaleRefresh(f)
  /\ UNCHANGED refreshFrame

TokensArrive(f) ==
  /\ promise[f].pc = "exchange"
  /\ (promise[f].tok # NoCred /\ StoreRefreshedTokens(f)) \/ DropStaleRefresh(f)
  /\ UNCHANGED refreshFrame

\* The identity provider refused, or there was no refresh token to send.
RefreshRefused(f) ==
  /\ promise[f].pc = "exchange" /\ ~StaleRefresh(f)
  /\ SettleWith(f, "false")
  /\ RequireAuthentication(promise[f].epoch, op)
  /\ UNCHANGED <<slot, prior, attempt, phase>>

RefreshFails(f) ==
  /\ promise[f].pc = "config" \/ (promise[f].pc = "exchange" /\ promise[f].tok # NoCred)
  /\ FailRefresh(f)
  /\ UNCHANGED refreshFrame

Finally(f) ==
  /\ promise[f].pc = "settled"
  /\ ReleaseSlot(f)
  /\ UNCHANGED <<life, cred, refreshTok, aging, authConfirmed, lossReported, prior,
                 attempt, appVars>>
-----------------------------------------------------------------------------

RefreshStep(f) == ConfigResolved(f) \/ TokensArrive(f) \/ RefreshRefused(f)
                    \/ RefreshFails(f) \/ Finally(f)

AttemptStep(a) == AttemptFails(a) \/ AttemptSucceeds(a)

\* What a started operation does when something it awaits is ready.
OpStep(q) ==
  \/ TokenRefreshed(q) \/ TokenNotRefreshed(q) \/ RefreshRejected(q)
  \/ Register(q) \/ RegisterLate(q)
  \/ PreflightStops(q) \/ Request(q)
  \/ Superseded(q) \/ NotSignedIn(q) \/ Send(q) \/ Resend(q)
  \/ FetchFails(q) \/ ResponseOk(q) \/ ResponseError(q) \/ ErrorReturned(q)
  \/ AuthExpired(q) \/ AuthExpiredAgain(q)
  \/ Retry(q) \/ RetrySuperseded(q) \/ RetryRefused(q) \/ Denied(q)

UserStep ==
  \/ BootCallback \/ BootSignedIn \/ BootLogin \/ RevealLogin \/ SignOut \/ Age
  \/ \E a \in Attempts : Connect(a)
  \/ \E q \in Ops : Begin(q) \/ RequestUnscoped(q) \/ Cancel(q)

Next ==
  \/ UserStep
  \/ \E a \in Attempts : AttemptStep(a)
  \/ \E q \in Ops : OpStep(q)
  \/ \E f \in Refreshes : RefreshStep(f)

Spec == Init /\ [][Next]_vars

(* The network answers or fails every call, and ready continuations run.    *)
(* Nothing is assumed of the user, of expiry or of which answer comes.      *)
Fairness ==
  /\ \A a \in Attempts : WF_vars(AttemptStep(a))
  /\ \A q \in Ops : WF_vars(OpStep(q))
  /\ \A f \in Refreshes : WF_vars(RefreshStep(f))

FairSpec == Spec /\ Fairness
-----------------------------------------------------------------------------
(* Properties *)

\* c was obtained for the session of that epoch and derives from its login; or, where
\* an OAuth callback opened the session (epoch 1) and returned no refresh token, from
\* the one the page load still held (connection-session.ts:239-245).
Belongs(c, epoch) ==
  /\ c.epoch = epoch
  /\ c.login = epoch \/ (c.mode = "oauth" /\ epoch = 1 /\ c.login = 0)

\* Every request on the wire carries a credential of the session under which the request
\* was started, whatever was refreshed, lost or replaced since
\* (authenticated-clickhouse-request.ts:129, 156, 191, 195).
RequestUsesOwnSession ==
  \A q \in Ops : op[q].pc \in {"fetch", "peek", "reason"} =>
    op[q].bearer # NoCred /\ Belongs(op[q].bearer, op[q].epoch)

\* The credential held is one of the live session, and a session that is logged out or
\* signing in again holds neither a credential nor a refresh token it could send.
CredentialOfLiveEpoch ==
  Mounted =>
    /\ cred # NoCred => Belongs(cred, life.epoch)
    /\ cred = NoCred <=> life.kind \in LoggedOutKinds \cup {"reauthenticating"}
    /\ cred = NoCred => refreshTok = NoCred

\* The state says "refreshing" exactly as long as a refresh of the live epoch that
\* began from it is unsettled: no settlement order leaves it spinning.
RefreshingIsBacked ==
  life.kind = "refreshing" =>
    /\ slot # NoRefresh
    /\ promise[slot].epoch = life.epoch
    /\ promise[slot].pc \in {"config", "exchange"}

\* A refresh token, which the provider may rotate on use, is never in the hands of two
\* unsettled refreshes (connection-session.ts:496, and the comment at 670).
RefreshTokenNotShared ==
  \A f, g \in Refreshes :
    /\ f # g
    /\ promise[f].pc \in {"config", "exchange"}
    /\ promise[g].pc \in {"config", "exchange"}
    /\ promise[f].tok # NoCred
    => promise[f].tok # promise[g].tok

\* A KILL QUERY is authorised by the session that sent the query, never by a replacement
\* (authenticated-execution-scope.ts:137, connection-session.ts:571).
KillUsesOwnSession ==
  \A k \in kills : /\ Belongs(k.by, k.owner)
                   /\ k.victim # NoCred => Belongs(k.victim, k.owner)

\* An operation that outlives its scope has been told to stop, also when it registered
\* only after the scope had closed.
ClosedScopeStopsItsOperations ==
  \A q \in Ops : Registered(op[q]) /\ ~op[q].stopped => scope = op[q].owner

\* The shell is told at most once per epoch that authentication is lost, however many
\* requests discover it.
AuthLossReportedOnce ==
  \A i, j \in 1..Len(reports) : i # j => reports[i] # reports[j]

\* Whatever leaves this browser, a request or the KILL QUERY for it, is authorised by the
\* session it belongs to (authenticated-clickhouse-request.ts:129, connection-session.ts:571).
WireUsesOwnSession == RequestUsesOwnSession /\ KillUsesOwnSession

\* The end of a session is told once, and no operation of its scope runs on untold, in
\* whatever order its requests discover the loss and its late registrations arrive
\* (authenticated-execution-scope.ts:100-142, connection-session.ts:465-488).
SessionEndsCleanly == ClosedScopeStopsItsOperations /\ AuthLossReportedOnce

\* Whatever a request does after the session it was started under was replaced, it
\* changes nothing of the session: no sign-out, no status, no confirmation.
StaleRequestIsInert ==
  [][\A q \in Ops : op[q].pc \notin {"idle", "held"} /\ Stale(q) /\ op'[q] # op[q]
       => UNCHANGED <<life, cred, refreshTok, authConfirmed>>]_vars

\* The session as its operations may rely on it.
Fence == INSTANCE SessionFence WITH
  generation <- life.epoch,
  holder     <- IF Mounted /\ cred # NoCred THEN cred.epoch ELSE -1,
  wire       <- [q \in Ops |-> IF op[q].pc = "fetch" THEN op[q].bearer.epoch ELSE -1]

\* Every request goes out with a credential obtained for the session that is live at
\* that moment, and sessions replace each other only with the epoch.
ImplementsFence == Fence!Spec

\* A status of "refreshing" and a pending sign-in always come to an end.
TransientStatusEnds ==
  /\ (life.kind = "refreshing") ~> (life.kind # "refreshing")
  /\ (life.kind = "reauthenticating") ~> (life.kind # "reauthenticating")

\* Every operation that was started settles: no order of refreshes, losses and
\* replacements leaves one waiting on a promise that nobody settles.
OperationsSettle == \A q \in Ops : (op[q].pc # "idle") ~> (op[q].pc = "idle")

\* Once a request has succeeded, a 401 or 403 is a query error and no sign-in failure:
\* it is treated as one "only before auth is confirmed" (connection-session.ts:588-589).
DenialOnlyBeforeConfirmation ==
  [][\A q \in Ops : op[q].pc = "reason" /\ authConfirmed => ~(Denied(q) /\ life' # life)]_vars

\* A refresh redeems the refresh token of the login that started it: it is bound "to the
\* credential generation that started it" (connection-session.ts:497).
RefreshRedeemsOwnGeneration ==
  \A f \in Refreshes :
    promise[f].pc \in {"config", "exchange"} /\ promise[f].tok # NoCred =>
      promise[f].tok.login = promise[f].epoch
=============================================================================
