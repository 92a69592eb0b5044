---------------------------- MODULE SecondFactor ----------------------------
(***************************************************************************)
(* The second factor: whether a password login asks for one, the TOTP      *)
(* secret and its enrolment, passkeys and their ceremonies.  Codes sent by *)
(* mail are checked but never sent yet; an account may still hold one.     *)
(*                                                                         *)
(* Secrets are numbered in the order they are stored.  confirmed, a        *)
(* history variable, holds those a valid code was entered for.             *)
(***************************************************************************)
EXTENDS Sessions, FiniteSetsExt

CONSTANT MaxSecrets  \* bound on the TOTP secrets stored

ASSUME SecretsAssumption == MaxSecrets \in Nat \ {0}

VARIABLES totp, confirmed, passkey, ceremony, code

factorVars == <<totp, confirmed, passkey, ceremony, code>>

Secrets == 1..MaxSecrets
NoSecret == [secret |-> 0, verified |-> FALSE]

(* Keys of the ceremonies in progress: one registration, and one challenge *)
(* for each session.                                                       *)
FactorOK ==
  /\ totp \in [secret : 0..MaxSecrets, verified : BOOLEAN]
  /\ confirmed \subseteq Secrets
  /\ passkey \in BOOLEAN
  /\ ceremony \subseteq Sessions \cup {"reg"}
  /\ code \in {"none", "unused", "used"}

FactorInit ==
  /\ \E enrolled \in BOOLEAN :
       /\ totp = IF enrolled THEN [secret |-> 1, verified |-> TRUE] ELSE NoSecret
       /\ confirmed = IF enrolled THEN {1} ELSE {}
  /\ passkey \in BOOLEAN
  /\ ceremony = {}
  /\ code = "none"

-----------------------------------------------------------------------------
(* get2FAMethods, in the middle of a login.  An error counts as "no".      *)

HasVerifiedTOTP(r) ==
  /\ At(r, "login", "totp")
  /\ \/ req' = [req EXCEPT ![r].at = "count",
                  ![r].state = IF totp.verified THEN "pre_auth" ELSE @]
     \/ Faults /\ GoTo(r, "count")
  /\ UNCHANGED <<mix, sess, factorVars>>

CountPasskeys(r) ==
  /\ At(r, "login", "count")
  /\ \/ req' = [req EXCEPT ![r].at = "create",
                  ![r].state = IF passkey THEN "pre_auth" ELSE @]
     \/ Faults /\ GoTo(r, "create")
  /\ UNCHANGED <<mix, sess, factorVars>>

-----------------------------------------------------------------------------
(* TOTP.                                                                   *)

(* A new secret replaces the one there is and is not verified yet.         *)
Enroll(r, s) ==
  /\ Admitted(s, "enroll")
  /\ Begin(r, [op |-> "enroll", at |-> "store"])
  /\ UNCHANGED <<mix, sess, factorVars>>

(* Mutant: the flag of the secret before stays.                            *)
StoreSecretVerified(r) ==
  /\ At(r, "enroll", "store")
  /\ totp.secret < MaxSecrets
  /\ totp' = [totp EXCEPT !.secret = @ + 1]
  /\ Done(r)
  /\ UNCHANGED <<mix, sess, confirmed, passkey, ceremony, code>>

StoreSecret(r) ==
  /\ At(r, "enroll", "store")
  /\ \E n \in Secrets :
       /\ n = Max(confirmed \cup {totp.secret}) + 1
       /\ totp' = [secret |-> n, verified |-> FALSE]
  /\ Done(r)
  /\ UNCHANGED <<mix, sess, confirmed, passkey, ceremony, code>>

HasSecret == totp # NoSecret

(* Verify (a challenge) and ConfirmEnroll: the secret is read and the code *)
(* checked against what was read.                                          *)
EnterTOTP(r, s, op) ==
  /\ op \in {"verify", "confirm"}
  /\ Admitted(s, op)
  /\ HasSecret
  /\ Begin(r, [op |-> op, sess |-> s, state |-> sess[s].state,
               at |-> IF op = "verify" /\ totp.verified THEN "promote"
                                                        ELSE "mark"])
  /\ confirmed' = confirmed \cup {totp.secret}
  /\ UNCHANGED <<mix, sess, totp, passkey, ceremony, code>>

(* Whichever secret is stored by now is marked.  A challenge goes on when  *)
(* that fails, an enrolment does not.                                      *)
MarkVerified(r) ==
  /\ req[r].op \in {"verify", "confirm"} /\ req[r].at = "mark"
  /\ \/ /\ HasSecret
        /\ totp' = [totp EXCEPT !.verified = TRUE]
        /\ IF req[r].op = "verify" \/ req[r].state = "setup_2fa"
             THEN GoTo(r, "promote") ELSE Done(r)
     \/ /\ Faults \/ ~HasSecret
        /\ IF req[r].op = "verify" THEN GoTo(r, "promote") ELSE Done(r)
        /\ UNCHANGED totp
  /\ UNCHANGED <<mix, sess, confirmed, passkey, ceremony, code>>

RemoveTOTP(r, s) ==
  /\ req[r] = Idle /\ "remove" \in mix
  /\ Admitted(s, "remove")
  /\ totp' = NoSecret
  /\ UNCHANGED <<mix, req, sess, confirmed, passkey, ceremony, code>>

-----------------------------------------------------------------------------
(* Passkeys.                                                               *)

(* A ceremony begun again replaces the one before.                         *)
SaveWebAuthnSession(key) ==
  /\ ceremony' = ceremony \cup {key}
  /\ UNCHANGED <<mix, req, sess, totp, confirmed, passkey, code>>

BeginRegistration(s) ==
  /\ "register" \in mix
  /\ Admitted(s, "register")
  /\ SaveWebAuthnSession("reg")

(* A challenge, if there is a passkey.                                     *)
Begin2FA(s) ==
  /\ "assert" \in mix
  /\ Admitted(s, "assert")
  /\ passkey
  /\ SaveWebAuthnSession(s)

(* The ceremony is read and deleted by one statement.  The answer of the   *)
(* authenticator is then right, or the request ends.                       *)
FinishCeremony(r, s, op) ==
  LET key == IF op = "register" THEN "reg" ELSE s IN
  /\ op \in {"register", "assert"}
  /\ Admitted(s, op)
  /\ key \in ceremony
  /\ ceremony' = ceremony \ {key}
  /\ Begin(r, [op |-> op, sess |-> s, state |-> sess[s].state,
               at |-> IF op = "register" THEN "add" ELSE "promote"])
  /\ UNCHANGED <<mix, sess, totp, confirmed, passkey, code>>

AddPasskey(r) ==
  /\ At(r, "register", "add")
  /\ passkey' = TRUE
  /\ Done(r)
  /\ UNCHANGED <<mix, sess, totp, confirmed, ceremony, code>>

DeletePasskey ==
  /\ "remove" \in mix
  /\ passkey /\ passkey' = FALSE
  /\ UNCHANGED <<mix, req, sess, totp, confirmed, ceremony, code>>

(* By its owner.                                                           *)
RemovePasskey(s) == Admitted(s, "remove") /\ DeletePasskey

(* By a super admin.                                                       *)
AdminDeletePasskey == DeletePasskey

-----------------------------------------------------------------------------
(* Codes by mail.                                                          *)

GenerateCode ==
  /\ "code" \in mix
  /\ code' = "unused"
  /\ UNCHANGED <<mix, req, sess, totp, confirmed, passkey, ceremony>>

VerifyCode(r, s) ==
  /\ Admitted(s, "code")
  /\ code = "unused"
  /\ Begin(r, [op |-> "code", sess |-> s, state |-> sess[s].state, at |-> "used"])
  /\ UNCHANGED <<mix, sess, factorVars>>

MarkCodeUsed(r) ==
  /\ At(r, "code", "used")
  /\ code' = "used"
  /\ GoTo(r, "promote")
  /\ UNCHANGED <<mix, sess, totp, confirmed, passkey, ceremony>>

-----------------------------------------------------------------------------
(* SetSecondFactor, the end of every challenge and of a first enrolment:   *)
(* the session is updated whatever state it is in by now.                  *)
SetSecondFactor(r) ==
  /\ req[r].op \in {"verify", "confirm", "assert", "code"}
  /\ req[r].at = "promote"
  /\ sess' = SecondFactorSet(req[r].sess)
  /\ Done(r)
  /\ UNCHANGED <<mix, factorVars>>

FactorNext ==
  \/ \E r \in Requests :
       \/ HasVerifiedTOTP(r) \/ CountPasskeys(r)
       \/ StoreSecret(r) \/ MarkVerified(r)
       \/ AddPasskey(r) \/ MarkCodeUsed(r) \/ SetSecondFactor(r)
       \/ \E s \in Sessions :
            \/ Enroll(r, s) \/ RemoveTOTP(r, s) \/ VerifyCode(r, s)
            \/ \E op \in mix : EnterTOTP(r, s, op) \/ FinishCeremony(r, s, op)
  \/ \E s \in Sessions : BeginRegistration(s) \/ Begin2FA(s) \/ RemovePasskey(s)
  \/ AdminDeletePasskey \/ GenerateCode
=============================================================================
