------------------------------ MODULE Account ------------------------------
(***************************************************************************)
(* One e-mail address: its account, the one-time codes mailed to it and    *)
(* the tokens that let its owner set a new password                        *)
(* (src/Backend/src/services/auth.service.js, otp.service.js).             *)
(*                                                                         *)
(* Nothing here runs in a transaction.  Every step below is one awaited    *)
(* database call; a request that fails stops where it is and leaves what   *)
(* it has written.  A code is the id of its row: two codes that happen to  *)
(* be the same six digits are not modelled.  Rows of other addresses do    *)
(* not interact, and deleteUser of the administration never removes an     *)
(* account: its transaction names a column that saved_jobs does not have.  *)
(***************************************************************************)
EXTENDS Requests, Sequences

CONSTANT MaxCodes   \* bound: codes made

ASSUME MaxCodesAssumption == MaxCodes \in Nat /\ MaxCodes > 0

Kinds == {"verification", "password_reset"}
CodeIds == 1..MaxCodes
NoToken == "no token"
ASSUME NoTokenAssumption == NoToken \notin Request

VARIABLES
  user,      \* the users row of the address
  static,    \* STATIC_OTP_ENABLED
  sent,      \* history: the codes made so far
  codes,     \* ids of the email_otps rows
  expired,   \* codes past their expires_at
  tokens,    \* password_reset_tokens rows, named for the request that made them
  lapsed,    \* tokens past their expires_at
  auth,      \* auth[r]: operation, position, code and token of request r
  passed,    \* history: requests that an accepted code, or an administrator, lets pass
  spent,     \* history, spent[c]: requests that had code c accepted
  used,      \* history, used[t]: requests that set a password with token t
  rivals     \* history: pairs of requests that held one code or token at once

accountVars == <<user, static, sent, codes, expired, tokens, lapsed, auth,
                 passed, spent, used, rivals>>

\* There is no account yet, or one that was never verified and has no code, or one
\* for a new password.
AccountInit ==
  /\ user \in [exists : BOOLEAN, verified : {FALSE}]
  /\ static \in BOOLEAN
  /\ sent \in {<<>>, <<[kind |-> "password_reset", after |-> 0]>>}
  /\ sent # <<>> => user.exists
  /\ codes = DOMAIN sent /\ expired = {}
  /\ tokens = {} /\ lapsed = {}
  /\ auth = [r \in Request |-> [op |-> "none", at |-> "idle", code |-> 0,
                                token |-> NoToken, before |-> 0]]
  /\ passed = {} /\ rivals = {}
  /\ spent = [c \in CodeIds |-> {}]
  /\ used = [t \in Request |-> {}]

AuthAt(r, at) == auth[r].at = at
AuthTo(r, at) == auth' = [auth EXCEPT ![r].at = at]

history == <<passed, spent, used, rivals>>

-----------------------------------------------------------------------------
(* Opening an account, asking for a code *)

\* The first read of an operation: it finds the account or does not, and the
\* operation goes on at the given position or is refused.
Begin(r, op, goesOn, next) ==
  /\ AuthAt(r, "idle")
  /\ auth' = [auth EXCEPT ![r].op = op, ![r].at = IF goesOn THEN next ELSE "refused"]
  /\ UNCHANGED <<user, static, sent, codes, expired, tokens, lapsed, history, faults>>

Register(r) == Begin(r, "register", ~user.exists, "create")
CreateUser(r) == Begin(r, "createUser", ~user.exists, "create")
ResendEmailOtp(r) == Begin(r, "resend", user.exists /\ ~user.verified, "clear")
ForgotPassword(r) == Begin(r, "forgot", user.exists, "clear")

\* The unique index on users.email refuses a second account.  An account that
\* an administrator creates is verified and gets no code.
Create(r) ==
  LET byAdmin == auth[r].op = "createUser" IN
  /\ AuthAt(r, "create")
  /\ IF user.exists
     THEN AuthTo(r, "failed") /\ UNCHANGED <<user, passed>>
     ELSE /\ user' = [exists |-> TRUE, verified |-> byAdmin]
          /\ AuthTo(r, IF byAdmin THEN "log" ELSE "clear")
          /\ passed' = IF byAdmin THEN passed \cup {r} ELSE passed
  /\ UNCHANGED <<static, sent, codes, expired, tokens, lapsed, spent, used, rivals, faults>>

\* The profile of the new candidate and the entry in the audit log.
LogUser(r) ==
  /\ AuthAt(r, "log")
  /\ AuthTo(r, "ok")
  /\ UNCHANGED <<user, static, sent, codes, expired, tokens, lapsed, history, faults>>

KindOf(op) == IF op \in {"forgot", "verifyReset"} THEN "password_reset" ELSE "verification"
OfKind(kind) == {c \in codes : sent[c].kind = kind}

\* generateAndSend: the older codes of this kind are deleted.
ClearCodes(r) ==
  /\ AuthAt(r, "clear")
  /\ codes' = codes \ OfKind(KindOf(auth[r].op))
  /\ auth' = [auth EXCEPT ![r].at = "issue", ![r].before = Len(sent)]
  /\ UNCHANGED <<user, static, sent, expired, tokens, lapsed, history, faults>>

\* ... and the new one is stored and mailed; a mail that cannot be sent is
\* only logged.
IssueCode(r) ==
  /\ AuthAt(r, "issue")
  /\ Len(sent) < MaxCodes
  /\ sent' = Append(sent, [kind |-> KindOf(auth[r].op), after |-> auth[r].before])
  /\ codes' = codes \cup {Len(sent) + 1}
  /\ auth' = [auth EXCEPT ![r].at = "ok", ![r].before = 0]
  /\ UNCHANGED <<user, static, expired, tokens, lapsed, history, faults>>

-----------------------------------------------------------------------------
(* Using a code *)

\* verifyEmailOtp and verifyPasswordResetOtp, with one of the codes mailed.
VerifyEmailOtp(r) == Begin(r, "verifyEmail", user.exists, "find")
VerifyPasswordResetOtp(r) == Begin(r, "verifyReset", user.exists, "find")

AcceptedTo(op) == IF op = "verifyEmail" THEN "save" ELSE "retire"

\* Requests other than r that hold code c, or token t, between find and destroy.
CodeHolders(r, c) == {q \in Request \ {r} : AuthAt(q, "destroy") /\ auth[q].code = c}
TokenHolders(r, t) ==
  {q \in Request \ {r} : auth[q].at \in {"account", "save password", "drop"} /\ auth[q].token = t}

Met(r, others) == rivals' = rivals \cup {{r, q} : q \in others}

\* verify finds a code of this kind that has not expired ...
FindCode(r, c) ==
  /\ AuthAt(r, "find")
  /\ IF c \in OfKind(KindOf(auth[r].op)) \ expired
     THEN /\ auth' = [auth EXCEPT ![r].at = "destroy", ![r].code = c]
          /\ Met(r, CodeHolders(r, c))
     ELSE AuthTo(r, "refused") /\ UNCHANGED rivals
  /\ UNCHANGED <<user, static, sent, codes, expired, tokens, lapsed, passed, spent, used, faults>>

\* Mutant: an accepted code stays.
Remaining_All(c) == codes

\* ... and deletes it, whether or not it is still there.
Remaining(c) == codes \ {c}

DestroyCode(r) ==
  LET c == auth[r].code IN
  /\ AuthAt(r, "destroy")
  /\ codes' = Remaining(c)
  /\ spent' = [spent EXCEPT ![c] = @ \cup {r}]
  /\ passed' = passed \cup {r}
  /\ auth' = [auth EXCEPT ![r].at = AcceptedTo(auth[r].op), ![r].code = 0]
  /\ UNCHANGED <<user, static, sent, expired, tokens, lapsed, used, rivals, faults>>

\* The static code of a test installation deletes every code of the kind.
StaticCode(r) ==
  /\ AuthAt(r, "find")
  /\ static
  /\ codes' = codes \ OfKind(KindOf(auth[r].op))
  /\ passed' = passed \cup {r}
  /\ AuthTo(r, AcceptedTo(auth[r].op))
  /\ UNCHANGED <<user, static, sent, expired, tokens, lapsed, spent, used, rivals, faults>>

SaveVerified(r) ==
  /\ AuthAt(r, "save")
  /\ user' = [user EXCEPT !.verified = TRUE]
  /\ AuthTo(r, "ok")
  /\ UNCHANGED <<static, sent, codes, expired, tokens, lapsed, history, faults>>

-----------------------------------------------------------------------------
(* The reset of a password *)

RetireTokens(r) ==
  /\ AuthAt(r, "retire")
  /\ tokens' = {}
  /\ AuthTo(r, "grant")
  /\ UNCHANGED <<user, static, sent, codes, expired, lapsed, history, faults>>

GrantToken(r) ==
  /\ AuthAt(r, "grant")
  /\ tokens' = tokens \cup {r}
  /\ AuthTo(r, "ok")
  /\ UNCHANGED <<user, static, sent, codes, expired, lapsed, history, faults>>

\* resetPassword finds the token it was sent, if it has not expired, ...
ResetPassword(r, t) ==
  /\ AuthAt(r, "idle")
  /\ IF t \in tokens \ lapsed
     THEN /\ auth' = [auth EXCEPT ![r].op = "reset", ![r].at = "account", ![r].token = t]
          /\ Met(r, TokenHolders(r, t))
     ELSE /\ auth' = [auth EXCEPT ![r].op = "reset", ![r].at = "refused"]
          /\ UNCHANGED rivals
  /\ UNCHANGED <<user, static, sent, codes, expired, tokens, lapsed, passed, spent, used, faults>>

\* ... the account ...
FindAccount(r) ==
  /\ AuthAt(r, "account")
  /\ AuthTo(r, IF user.exists THEN "save password" ELSE "refused")
  /\ UNCHANGED <<user, static, sent, codes, expired, tokens, lapsed, history, faults>>

\* ... saves the password ...
SavePassword(r) ==
  /\ AuthAt(r, "save password")
  /\ used' = [used EXCEPT ![auth[r].token] = @ \cup {r}]
  /\ AuthTo(r, "drop")
  /\ UNCHANGED <<user, static, sent, codes, expired, tokens, lapsed, passed, spent, rivals, faults>>

\* ... and deletes the token.
DropToken(r) ==
  /\ AuthAt(r, "drop")
  /\ tokens' = tokens \ {auth[r].token}
  /\ AuthTo(r, "ok")
  /\ UNCHANGED <<user, static, sent, codes, expired, lapsed, history, faults>>

-----------------------------------------------------------------------------
(* Time and failures *)

\* Ten minutes pass for a code or for a token.
ExpireCode(c) ==
  /\ c \in codes \ expired
  /\ expired' = expired \cup {c}
  /\ UNCHANGED <<user, static, sent, codes, tokens, lapsed, auth, history, faults>>

ExpireToken(t) ==
  /\ t \in tokens \ lapsed
  /\ lapsed' = lapsed \cup {t}
  /\ UNCHANGED <<user, static, sent, codes, expired, tokens, auth, history, faults>>

AuthFinal == {"ok", "refused", "failed"}
AuthSteps == {"create", "log", "clear", "issue", "find", "destroy", "save", "retire", "grant",
              "account", "save password", "drop"}

\* A call of the request fails, or the process dies.
AuthFails(r) ==
  /\ auth[r].at \in AuthSteps
  /\ Fault
  /\ AuthTo(r, "failed")
  /\ UNCHANGED <<user, static, sent, codes, expired, tokens, lapsed, history>>

AccountStep(r) ==
  \/ Register(r) \/ CreateUser(r) \/ ResendEmailOtp(r) \/ ForgotPassword(r)
  \/ Create(r) \/ LogUser(r) \/ ClearCodes(r) \/ IssueCode(r)
  \/ VerifyEmailOtp(r) \/ VerifyPasswordResetOtp(r)
  \/ \E c \in DOMAIN sent : FindCode(r, c)
  \/ DestroyCode(r) \/ StaticCode(r) \/ SaveVerified(r)
  \/ RetireTokens(r) \/ GrantToken(r)
  \/ \E t \in Request : ResetPassword(r, t)
  \/ FindAccount(r) \/ SavePassword(r) \/ DropToken(r)
  \/ AuthFails(r)

AccountTime ==
  \/ \E c \in codes : ExpireCode(c)
  \/ \E t \in tokens : ExpireToken(t)

AccountNext == AccountTime \/ \E r \in Request : AccountStep(r)

AccountSpec == AccountInit /\ faults = 0 /\ [][AccountNext]_<<accountVars, faults>>

-----------------------------------------------------------------------------
(* Properties *)

AuthRow == [op : {"none", "register", "createUser", "resend", "forgot", "verifyEmail",
                  "verifyReset", "reset"},
            at : {"idle"} \cup AuthSteps \cup AuthFinal,
            code : 0..MaxCodes, token : Request \cup {NoToken}, before : 0..MaxCodes]
SentRow == [kind : Kinds, after : 0..MaxCodes]

AccountTypeOK ==
  /\ user \in [exists : BOOLEAN, verified : BOOLEAN]
  /\ static \in BOOLEAN
  /\ sent \in Seq(SentRow) /\ Len(sent) <= MaxCodes
  /\ codes \subseteq 1..Len(sent) /\ expired \subseteq 1..Len(sent)
  /\ tokens \subseteq Request /\ lapsed \subseteq Request
  /\ auth \in [Request -> AuthRow]
  /\ passed \subseteq Request
  /\ spent \in [CodeIds -> SUBSET Request]
  /\ used \in [Request -> SUBSET Request]
  /\ rivals \subseteq SUBSET Request

\* Two codes of one kind are active only when the later request deleted the
\* older codes before the earlier one stored its own.
ActiveCodesCrossed ==
  \A c, d \in codes : c < d /\ sent[c].kind = sent[d].kind => c > sent[d].after

\* A code that lets two requests pass was held by both at once.
CodesSpentOnce ==
  \A c \in CodeIds : \A r, q \in spent[c] : r # q => {r, q} \in rivals

\* A token that sets two passwords was held by both requests at once, or the
\* request that used it first failed before it deleted it.
TokensUsedOnce ==
  \A t \in Request : \A r, q \in used[t] :
    r # q => {r, q} \in rivals \/ AuthAt(r, "failed") \/ AuthAt(q, "failed")

\* A verified account, a reset token and a new password each go back to an
\* accepted code of their kind (or to an administrator), and an accepted code
\* is lost only by a request that failed before its last save.
PassesAreEarned ==
  /\ user.verified => \E r \in passed : auth[r].op \in {"verifyEmail", "createUser"}
  /\ \A t \in Request : t \in tokens \/ used[t] # {} =>
       t \in passed /\ auth[t].op = "verifyReset"
  /\ \A c \in CodeIds : \A r \in spent[c] : sent[c].kind = KindOf(auth[r].op)
  /\ \A r \in passed : auth[r].op = "verifyEmail" =>
       user.verified \/ AuthAt(r, "save") \/ AuthAt(r, "failed")

\* The one-time codes and tokens of an account are accounted for: they are
\* active twice, spent twice or lost only where two requests crossed or one failed.
CodesAccounted ==
  /\ ActiveCodesCrossed
  /\ CodesSpentOnce
  /\ TokensUsedOnce
  /\ PassesAreEarned
=============================================================================
