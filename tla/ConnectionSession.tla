-------------------------- MODULE ConnectionSession --------------------------
(***************************************************************************)
(* The state and the synchronous steps of createConnectionSession          *)
(* (application/connection-session.ts): the live credential, the refresh   *)
(* promises, interactive sign-in and the report of a lost authentication.  *)
(* Every operator below is one uninterrupted stretch of JavaScript, from   *)
(* one await to the next.  AuthenticatedExecution composes them with the   *)
(* requests and the execution scope that call them.                        *)
(*                                                                         *)
(* A credential is abstracted to its mode and to where it comes from: the  *)
(* epoch of the session it was obtained for, and the `login` (its epoch)   *)
(* that it derives from.  The two differ when a sign-in leaves an older    *)
(* refresh token in place and the new session redeems it.                  *)
(***************************************************************************)
EXTENDS ConnectionLifecycle, Integers

CONSTANTS Refreshes,   \* identities of refresh promises
          Attempts,    \* identities of interactive sign-in attempts
          NoRefresh, NoAttempt

ASSUME IdsDisjoint == NoRefresh \notin Refreshes /\ NoAttempt \notin Attempts

NoEpoch == -1   \* null, where the code keeps an epoch or null

Credential == [mode: {"none", "oauth", "basic"}, login: Nat, epoch: Nat]
NoCred     == [mode |-> "none", login |-> 0, epoch |-> 0]
Oauth(epoch) == [mode |-> "oauth", login |-> epoch, epoch |-> epoch]
Basic(epoch) == [mode |-> "basic", login |-> epoch, epoch |-> epoch]

VARIABLES
  life,           \* connectionSignal.value
  cred,           \* currentCredential(), with authMode
  refreshTok,     \* the refresh token held
  aging,          \* the bearer is inside getToken's 60 second expiry buffer
  authConfirmed,  \* chCtx.authConfirmed
  slot,           \* refreshSlot: the promise later callers join
  promise,        \* the refresh promises
  lossReported,   \* authLossReportedEpoch
  prior,          \* interactiveAuthenticationPrior; "none" is null
  attempt         \* the connectBasic calls in flight

sessionVars == <<life, cred, refreshTok, aging, authConfirmed, slot, promise,
                 lossReported, prior, attempt>>

Promise == [pc: {"free", "config", "exchange", "settled", "done"},
            epoch: Nat, tok: Credential, value: {"true", "false", "reject"}]
FreePromise == [pc |-> "free", epoch |-> 0, tok |-> NoCred, value |-> "false"]

Attempt == [pc: {"idle", "probing"}, epoch: Nat, prior: LoggedOutKinds]
IdleAttempt == [pc |-> "idle", epoch |-> 0, prior |-> "signed-out"]

SessionTypeOK ==
  /\ life \in LifecycleState
  /\ cred \in Credential
  /\ refreshTok \in Credential
  /\ aging \in BOOLEAN
  /\ authConfirmed \in BOOLEAN
  /\ slot \in Refreshes \cup {NoRefresh}
  /\ promise \in [Refreshes -> Promise]
  /\ lossReported \in Nat \cup {NoEpoch}
  /\ prior \in LoggedOutKinds \cup {"none"}
  /\ attempt \in [Attempts -> Attempt]

(* A page load: nothing stored, a Basic session, or an OAuth session whose *)
(* bearer may have aged and which may lack a refresh token.  A Basic login *)
(* over an expired OAuth session leaves that session's refresh token.      *)
SessionInit ==
  /\ \/ /\ cred = NoCred /\ refreshTok = NoCred /\ aging = FALSE
        /\ life = Stable("signed-out", 0)
     \/ /\ cred = Basic(0) /\ refreshTok \in {Oauth(0), NoCred} /\ aging = FALSE
        /\ life = Stable("starting", 0)
     \/ /\ cred = Oauth(0) /\ refreshTok \in {Oauth(0), NoCred} /\ aging \in BOOLEAN
        /\ life = Stable("starting", 0)
  /\ authConfirmed = FALSE
  /\ slot = NoRefresh
  /\ promise = [f \in Refreshes |-> FreePromise]
  /\ lossReported = NoEpoch
  /\ prior = "none"
  /\ attempt = [a \in Attempts |-> IdleAttempt]

\* captureCancellationLease(expectedEpoch): the credential a KILL may use, or NoCred.
CancellationLease(epoch) == IF life.epoch = epoch THEN cred ELSE NoCred

-----------------------------------------------------------------------------
(* Tokens *)

\* The refresh token after setTokens: a response without one leaves the one held.
RefreshTokensAfterLogin == {Oauth(life.epoch + 1), refreshTok}

\* setTokens: the OAuth callback of a fresh page.
InstallTokens ==
  /\ cred' = Oauth(life.epoch + 1)
  /\ refreshTok' \in RefreshTokensAfterLogin
  /\ aging' = FALSE
  /\ authConfirmed' = FALSE
  /\ life' = CredentialsInstalled(life)
  /\ prior' = "none"

ClearTokens ==
  /\ cred' = NoCred
  /\ refreshTok' = NoCred
  /\ aging' = FALSE
  /\ authConfirmed' = FALSE

\* signOut
EndSession ==
  /\ life' = SignedOut(life)
  /\ prior' = "none"
  /\ ClearTokens

-----------------------------------------------------------------------------
(* requireAuthentication(expectedEpoch): its three ways out. *)

LossIsStale(epoch)  == life.epoch # epoch
AlreadyLost(epoch)  == life.epoch = epoch /\ life.kind \in LoggedOutKinds
LosesSession(epoch) == life.epoch = epoch /\ life.kind \notin LoggedOutKinds

\* An already empty session: the shell is told once for this epoch.
LossIsReportable(epoch) == AlreadyLost(epoch) /\ lossReported # epoch

ReportEmptySession(epoch) ==
  /\ lossReported' = epoch
  /\ UNCHANGED <<life, cred, refreshTok, aging, authConfirmed>>

\* Mutant: the loss is recorded under the epoch it was discovered in.
DropSession_OldEpoch(epoch) ==
  /\ life' = AuthRequired(life, epoch)
  /\ lossReported' = epoch
  /\ ClearTokens

DropSession(epoch) ==
  /\ life' = AuthRequired(life, epoch)
  /\ lossReported' = life'.epoch
  /\ ClearTokens

-----------------------------------------------------------------------------
(* refresh() *)

\* Mutant: every caller refreshes for itself.
JoinableSlot_Never == FALSE

JoinableSlot == slot # NoRefresh /\ promise[slot].epoch = life.epoch

\* `promises` are the promises as the caller has already updated them.
StartRefresh(f, promises) ==
  /\ promise' = [promises EXCEPT ![f] = [pc |-> "config", epoch |-> life.epoch,
                                         tok |-> refreshTok, value |-> "false"]]
  /\ slot' = f
  /\ life' = BeginRefresh(life, life.epoch)

StaleRefresh(f) == promise[f].epoch # life.epoch

SettleWith(f, value) ==
  promise' = [promise EXCEPT ![f].pc = "settled", ![f].value = value]

\* Discovery, then the token endpoint; both are awaited.
AwaitExchange(f) ==
  /\ ~StaleRefresh(f)
  /\ promise' = [promise EXCEPT ![f].pc = "exchange"]
  /\ UNCHANGED <<life, cred, refreshTok, aging>>

\* Mutant: an early return that settles nothing.
DropStaleRefresh_Pending(f) ==
  /\ StaleRefresh(f)
  /\ UNCHANGED <<promise, life, cred, refreshTok, aging>>

\* A settlement under a replaced epoch publishes nothing.
DropStaleRefresh(f) ==
  /\ StaleRefresh(f)
  /\ SettleWith(f, "false")
  /\ UNCHANGED <<life, cred, refreshTok, aging>>

\* The bearer the token endpoint returns to f: of the login whose refresh token was
\* redeemed, obtained for the epoch that began the refresh.
Redeemed(f) == [promise[f].tok EXCEPT !.epoch = promise[f].epoch]

\* Mutant: a late token response is stored without comparing epochs.
StoreRefreshedTokens_Unfenced(f) ==
  /\ cred' = Redeemed(f)
  /\ refreshTok' \in {refreshTok, promise[f].tok}
  /\ aging' = FALSE
  /\ life' = EndRefresh(life, promise[f].epoch)
  /\ SettleWith(f, "true")

\* The new bearer, and a rotated refresh token when the response has one: it stands for
\* the one redeemed, as it derives from the same login.
StoreRefreshedTokens(f) ==
  /\ ~StaleRefresh(f)
  /\ cred' = Redeemed(f)
  /\ refreshTok' \in {refreshTok, promise[f].tok}
  /\ aging' = FALSE
  /\ life' = EndRefresh(life, promise[f].epoch)
  /\ SettleWith(f, "true")

\* Mutant: the catch block reports the outage but not the end of the refresh.
FailRefresh_StaysRefreshing(f) ==
  /\ life' = TransportOffline(life, promise[f].epoch)
  /\ SettleWith(f, "reject")
  /\ UNCHANGED <<cred, refreshTok, aging>>

\* The catch block: keep the credentials, show a recoverable connectivity state.
FailRefresh(f) ==
  /\ life' = EndRefresh(TransportOffline(life, promise[f].epoch), promise[f].epoch)
  /\ SettleWith(f, "reject")
  /\ UNCHANGED <<cred, refreshTok, aging>>

\* A late old `finally` must not erase a newer epoch's slot.
ReleaseSlot(f) ==
  /\ promise' = [promise EXCEPT ![f].pc = "done"]
  /\ slot' = IF slot = f THEN NoRefresh ELSE slot

-----------------------------------------------------------------------------
(* connectBasic *)

AuthenticationPrior ==
  CASE life.kind \in LoggedOutKinds                         -> life.kind
    [] life.kind = "reauthenticating" /\ prior # "none"     -> prior
    [] OTHER                                                -> "signed-out"

StartAttempt(a) ==
  /\ prior' = AuthenticationPrior
  /\ life' = StartAuthentication(life)
  /\ attempt' = [attempt EXCEPT ![a] = [pc |-> "probing", epoch |-> life.epoch + 1,
                                        prior |-> AuthenticationPrior]]

AttemptIsCurrent(a) == life.epoch = attempt[a].epoch /\ life.kind = "reauthenticating"

\* Mutant: a failed attempt leaves the status as it is.
FailAttempt_Silent(a) ==
  /\ attempt' = [attempt EXCEPT ![a] = IdleAttempt]
  /\ UNCHANGED <<life, prior>>

FailAttempt(a) ==
  /\ life' = FailedAuthentication(life, attempt[a].epoch, attempt[a].prior)
  /\ prior' = IF life'.epoch = attempt[a].epoch /\ life'.kind # "reauthenticating"
                THEN "none" ELSE prior
  /\ attempt' = [attempt EXCEPT ![a] = IdleAttempt]

\* The OAuth refresh token is kept, unread in Basic mode, until tokens are cleared.
CommitAttempt(a) ==
  /\ AttemptIsCurrent(a)
  /\ cred' = Basic(life.epoch + 1)
  /\ aging' = FALSE
  /\ authConfirmed' = FALSE
  /\ life' = CredentialsInstalled(life)
  /\ prior' = "none"
  /\ attempt' = [attempt EXCEPT ![a] = IdleAttempt]
=============================================================================
