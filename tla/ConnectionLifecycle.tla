------------------------- MODULE ConnectionLifecycle -------------------------
(***************************************************************************)
(* The pure connection-lifecycle reducer, core/connection-lifecycle.ts.    *)
(* One operator per event.  An event that is illegal in the current state, *)
(* or that carries the epoch of a replaced session, returns the state      *)
(* itself: the reducer's callers rely on that to drop late completions.    *)
(* The optional `detail` text of an event is left out.                     *)
(***************************************************************************)
EXTENDS Naturals

RefreshableKinds == {"connected", "starting", "offline"}
LoggedOutKinds   == {"auth-required", "signed-out"}
StableKinds      == RefreshableKinds \cup LoggedOutKinds \cup {"reauthenticating"}

(* `resume` is the stable state a refresh returns to; it always has the    *)
(* epoch of the refreshing state, so only its kind is kept.                *)
LifecycleState ==
  [kind: StableKinds, epoch: Nat, resume: {"none"}]
    \cup [kind: {"refreshing"}, epoch: Nat, resume: RefreshableKinds]

Stable(kind, epoch) == [kind |-> kind, epoch |-> epoch, resume |-> "none"]

StartAuthentication(s)  == Stable("reauthenticating", s.epoch + 1)

\* Mutant: new credentials installed within the old epoch.
CredentialsInstalled_SameEpoch(s) == Stable("starting", s.epoch)

CredentialsInstalled(s) == Stable("starting", s.epoch + 1)
SignedOut(s)            == Stable("signed-out", s.epoch + 1)

BeginRefresh(s, epoch) ==
  IF s.epoch = epoch /\ s.kind \in RefreshableKinds
    THEN [kind |-> "refreshing", epoch |-> epoch, resume |-> s.kind]
    ELSE s

\* refresh-succeeded and refresh-failed are the same transition.
EndRefresh(s, epoch) ==
  IF s.epoch = epoch /\ s.kind = "refreshing"
    THEN Stable(s.resume, epoch)
    ELSE s

\* During a refresh a transport result only moves the state to resume to.
TransportConnected(s, epoch) ==
  CASE s.epoch = epoch /\ s.kind = "refreshing"           -> [s EXCEPT !.resume = "connected"]
    [] s.epoch = epoch /\ s.kind \in {"starting", "offline"} -> Stable("connected", epoch)
    [] OTHER                                               -> s

TransportOffline(s, epoch) ==
  CASE s.epoch = epoch /\ s.kind = "refreshing"               -> [s EXCEPT !.resume = "offline"]
    [] s.epoch = epoch /\ s.kind \in {"starting", "connected"} -> Stable("offline", epoch)
    [] OTHER                                                   -> s

AuthRequired(s, epoch) ==
  IF s.epoch = epoch /\ s.kind \notin LoggedOutKinds
    THEN Stable("auth-required", epoch + 1)
    ELSE s

\* A failed interactive attempt restores the logged-out kind it started from.
FailedAuthentication(s, epoch, prior) ==
  IF s.epoch = epoch /\ s.kind = "reauthenticating"
    THEN Stable(prior, epoch)
    ELSE s
=============================================================================
