------------------------------- MODULE SignIn -------------------------------
(***************************************************************************)
(* How one person's account gets sessions and loses them again: sign-in    *)
(* with a password, a passkey or single sign-on, the acceptance of an      *)
(* invitation, password resets and changes, the lock after failed          *)
(* attempts, and suspension by an administrator.                           *)
(*                                                                         *)
(* Passwords are numbered in the order they are stored; 0 is none yet.     *)
(* unlocks, a history variable, counts the locks that ran out since the    *)
(* last successful sign-in.                                                *)
(***************************************************************************)
EXTENDS Sessions

CONSTANTS
  MaxPasswords,     \* bound on the passwords stored
  MaxTokens,        \* bound on the tokens issued, of each kind
  MaxFailedLogins,  \* failed attempts that lock an account
  MaxUnlocks        \* bound on the locks that run out

ASSUME SignInAssumption ==
  /\ MaxFailedLogins \in Nat \ {0} /\ IsFiniteSet(Requests)
  /\ MaxPasswords \in Nat \ {0} /\ MaxUnlocks \in Nat

VARIABLES account, token

signInVars == <<account, token>>

Kinds == {"invite", "reset"}
Passwords == 1..MaxPasswords
Numbers == 1..MaxTokens

AccountOK ==
  /\ account \in [password : 0..MaxPasswords, activated : BOOLEAN,
                  suspended : BOOLEAN, attempts : Nat, locked : BOOLEAN,
                  unlocks : 0..MaxUnlocks]
  /\ token \in [Kinds -> [Numbers -> {"none", "unused", "used"}]]

(* An account in use, or one just invited.                                 *)
SignInInit ==
  \E active \in BOOLEAN :
    /\ ~active => "accept" \in mix
    /\ account = [password |-> IF active THEN 1 ELSE 0, activated |-> active,
                  suspended |-> FALSE, attempts |-> 0, locked |-> FALSE,
                  unlocks |-> 0]
    /\ token = [k \in Kinds |-> [n \in Numbers |->
                  IF k = "invite" /\ n = 1 /\ ~active THEN "unused" ELSE "none"]]

-----------------------------------------------------------------------------
(* Sign-in.                                                                *)

(* Mutant: the lock is not looked at.                                      *)
MayTryAlways == account.password # 0

MayTry == account.password # 0 /\ ~account.locked

(* One read of the account; the password is checked against what it held.  *)
Login(r, typed) ==
  /\ MayTry
  /\ typed = account.password \/ "guess" \in mix
  /\ Begin(r, [op |-> "login", password |-> typed,
               at |-> IF typed = account.password THEN "clear" ELSE "fail",
               suspended |-> account.suspended, state |-> "setup_2fa"])
  /\ UNCHANGED <<mix, sess, account, token>>

RecordFailedLogin(r) ==
  /\ At(r, "login", "fail")
  /\ \/ account' = [account EXCEPT !.attempts = @ + 1,
                      !.locked = @ \/ account.attempts + 1 >= MaxFailedLogins]
     \/ Faults /\ UNCHANGED account
  /\ Done(r)
  /\ UNCHANGED <<mix, sess, token>>

ClearFailedLogin(r) ==
  /\ At(r, "login", "clear")
  /\ \/ account' = [account EXCEPT !.attempts = 0, !.locked = FALSE, !.unlocks = 0]
     \/ Faults /\ UNCHANGED account
  /\ IF req[r].suspended THEN Done(r) ELSE GoTo(r, "totp")
  /\ UNCHANGED <<mix, sess, token>>

LockExpires ==
  /\ account.locked /\ account.unlocks < MaxUnlocks
  /\ account' = [account EXCEPT !.locked = FALSE, !.unlocks = @ + 1]
  /\ UNCHANGED <<mix, req, sess, token>>

(* Both look up an existing account and pass over the second factor.  Whom *)
(* single sign-on creates is in module People.                             *)
ExternalSignIn(r, op) ==
  /\ ~account.suspended
  /\ Begin(r, [op |-> op, at |-> "create", password |-> 0,
               state |-> "pre_tenant"])
  /\ UNCHANGED <<mix, sess, account, token>>

FinishLogin(r) == ExternalSignIn(r, "passkey")
OIDCCallback(r) == ExternalSignIn(r, "sso")

CreateSession(r) ==
  /\ req[r].op \in {"login", "passkey", "sso", "accept"} /\ req[r].at = "create"
  /\ \E s \in Sessions :
       /\ sess[s] = NoSession
       /\ sess' = Created(s, req[r].state, req[r].password)
  /\ Done(r)
  /\ UNCHANGED <<mix, account, token>>

-----------------------------------------------------------------------------
(* Tokens, and the passwords set with them.                                *)

Unused(k) == {n \in Numbers : token[k][n] = "unused"}

IssueToken(r, k) ==
  /\ Begin(r, [op |-> "issue", at |-> "invalidate", kind |-> k])
  /\ UNCHANGED <<mix, sess, account, token>>

RequestPasswordReset(r) == account.password # 0 /\ IssueToken(r, "reset")
AdminResendInvite(r) == ~account.activated /\ IssueToken(r, "invite")

(* An error here is dropped.                                               *)
InvalidateTokens(r) ==
  LET k == req[r].kind IN
  /\ At(r, "issue", "invalidate")
  /\ \/ token' = [token EXCEPT ![k] = [n \in Numbers |->
                    IF n \in Unused(k) THEN "used" ELSE token[k][n]]]
     \/ Faults /\ UNCHANGED token
  /\ GoTo(r, "insert")
  /\ UNCHANGED <<mix, sess, account>>

InsertToken(r) ==
  /\ At(r, "issue", "insert")
  /\ \E n \in Numbers :
       /\ \A m \in Numbers : token[req[r].kind][m] = "none" <=> m >= n
       /\ token' = [token EXCEPT ![req[r].kind][n] = "unused"]
  /\ Done(r)
  /\ UNCHANGED <<mix, sess, account>>

(* Validate and the checks of the account.  The code an account with TOTP  *)
(* needs besides is taken as given.                                        *)
ConfirmPasswordReset(r, n) ==
  /\ n \in Unused("reset")
  /\ Begin(r, [op |-> "reset", at |-> "password", token |-> n])
  /\ UNCHANGED <<mix, sess, account, token>>

AcceptInvite(r, n) ==
  /\ n \in Unused("invite")
  /\ Begin(r, [op |-> "accept", at |-> "identity", token |-> n,
               password |-> 0, state |-> "pre_tenant"])
  /\ UNCHANGED <<mix, sess, account, token>>

AcceptLookup(r) ==
  /\ At(r, "accept", "identity")
  /\ IF account.activated \/ account.suspended THEN Done(r)
                                               ELSE GoTo(r, "password")
  /\ UNCHANGED <<mix, sess, account, token>>

(* A session's owner types the current password; an administrator need not. *)
ChangePassword(r, s) ==
  /\ account.password # 0
  /\ Admitted(s, "change")
  /\ Begin(r, [op |-> "change", at |-> "password"])
  /\ UNCHANGED <<mix, sess, account, token>>

AdminResetPassword(r) ==
  /\ Begin(r, [op |-> "set", at |-> "password"])
  /\ UNCHANGED <<mix, sess, account, token>>

UpdatePassword(r) ==
  /\ req[r].at = "password" /\ account.password < MaxPasswords
  /\ account' = [account EXCEPT !.password = @ + 1]
  /\ \/ req[r].op \in {"change", "set"} /\ Done(r)
     \/ req[r].op = "reset" /\ GoTo(r, "mark")
     \/ /\ req[r].op = "accept"
        /\ req' = [req EXCEPT ![r].at = "activate", ![r].password = account.password + 1]
  /\ UNCHANGED <<mix, sess, token>>

Activate(r) ==
  /\ At(r, "accept", "activate")
  /\ account' = [account EXCEPT !.activated = TRUE]
  /\ GoTo(r, "mark")
  /\ UNCHANGED <<mix, sess, token>>

(* An error is logged and the handler goes on.                             *)
MarkUsed(r) ==
  LET k == IF req[r].op = "accept" THEN "invite" ELSE "reset" IN
  /\ req[r].op \in {"accept", "reset"} /\ req[r].at = "mark"
  /\ \/ token' = [token EXCEPT ![k][req[r].token] = "used"]
     \/ Faults /\ UNCHANGED token
  /\ GoTo(r, IF k = "invite" THEN "create" ELSE "revoke")
  /\ UNCHANGED <<mix, sess, account>>

-----------------------------------------------------------------------------
(* Suspension, and the revocation it shares with the reset.                *)

AdminSuspendIdentity(r) ==
  /\ Begin(r, [op |-> "suspend", at |-> "suspend"])
  /\ UNCHANGED <<mix, sess, account, token>>

Suspend(r) ==
  /\ At(r, "suspend", "suspend")
  /\ IF account.suspended THEN Done(r) ELSE GoTo(r, "revoke")
  /\ account' = [account EXCEPT !.suspended = TRUE]
  /\ UNCHANGED <<mix, sess, token>>

(* Mutant: the other sessions only, as when signing out everywhere else.   *)
RevokeByIdentityButOne(r) ==
  /\ req[r].op \in {"reset", "suspend"} /\ req[r].at = "revoke"
  /\ \E s \in Sessions : sess' = Revoked(Sessions \ {s})
  /\ Done(r)
  /\ UNCHANGED <<mix, account, token>>

(* An error is logged, and the request succeeds all the same.              *)
RevokeByIdentity(r) ==
  /\ req[r].op \in {"reset", "suspend"} /\ req[r].at = "revoke"
  /\ \/ sess' = Revoked(Sessions)
     \/ Faults /\ UNCHANGED sess
  /\ Done(r)
  /\ UNCHANGED <<mix, account, token>>

Unsuspend ==
  /\ "suspend" \in mix
  /\ account.suspended
  /\ account' = [account EXCEPT !.suspended = FALSE]
  /\ UNCHANGED <<mix, req, sess, token>>

-----------------------------------------------------------------------------
SignInNext ==
  \/ \E r \in Requests :
       \/ \E p \in Passwords : Login(r, p)
       \/ RecordFailedLogin(r) \/ ClearFailedLogin(r)
       \/ FinishLogin(r) \/ OIDCCallback(r)
       \/ CreateSession(r)
       \/ RequestPasswordReset(r) \/ AdminResendInvite(r)
       \/ InvalidateTokens(r) \/ InsertToken(r)
       \/ \E n \in Numbers : ConfirmPasswordReset(r, n) \/ AcceptInvite(r, n)
       \/ AcceptLookup(r)
       \/ \E s \in Sessions : ChangePassword(r, s)
       \/ AdminResetPassword(r)
       \/ UpdatePassword(r) \/ Activate(r) \/ MarkUsed(r)
       \/ AdminSuspendIdentity(r) \/ Suspend(r) \/ RevokeByIdentity(r)
  \/ Unsuspend \/ LockExpires
=============================================================================
