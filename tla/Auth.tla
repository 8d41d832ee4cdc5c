---------------------------------- MODULE Auth ----------------------------------
(***************************************************************************)
(* The way into one account: its address is verified by a link, then each  *)
(* login is a password and a code sent by mail (AuthService,               *)
(* LoginOtpService, EmailVerificationService), counted by                  *)
(* LoginThrottleService.                                                   *)
(*                                                                         *)
(* Every await is a step: a counter is read, then written; the codes of    *)
(* the account are deleted and the new one inserted in one transaction.    *)
(* The visits of an account overlap.  The counter by address stands for    *)
(* the one by IP too, which the same calls write.                          *)
(***************************************************************************)
EXTENDS Integers, FiniteSets

CONSTANTS
  Visits,           \* requests of one account to login, resend or verify
  MaxCodes,         \* bound on the codes sent
  MaxAttempts,      \* MAX_ATTEMPTS
  AuthLimits        \* how many visits may be in progress at once

VARIABLES
  verified,         \* users.email_verified_at is set
  enabled,          \* users.status = active
  link,             \* a verification link is pending
  codes,            \* rows of login_otps, numbered in the order of sending
  lapsed,           \* codes sent more than ten minutes ago
  sent,             \* the last code numbered
  counter,          \* login_attempts: count of each scope, 0 without a live window
  visit,            \* progress of login, resendLoginOtp and verifyLoginOtp
  tried,            \* wrong codes answered since the window was last empty
  opened,           \* sessions opened by each code
  authLimit         \* the bound of this behaviour, one of AuthLimits

authVars ==
  <<verified, enabled, link, codes, lapsed, sent, counter, visit, tried, opened, authLimit>>

CodeNumbers == 1 .. MaxCodes

ASSUME AuthAssumption ==
  /\ IsFiniteSet(Visits)
  /\ MaxCodes \in Nat
  /\ MaxAttempts \in Nat \ {0}
  /\ AuthLimits \subseteq Nat \ {0}

-----------------------------------------------------------------------------

Scopes == {"email", "otp", "otp_verify"}

\* Named for what the visit is about to do.
VisitSteps ==
  {"idle", "password", "pending", "drop", "issue", "compare", "consume", "admit",
   "hit", "count"}

\* A visit that counts an attempt: its scope, whether it found a live window,
\* and what it does once it has counted. One that compares a code: whether it
\* found the account active.
NoVisit == [step |-> "idle", scope |-> "email", live |-> FALSE, then |-> "idle", code |-> 0,
            dropped |-> {}]

AuthTypeOK ==
  /\ verified \in BOOLEAN /\ enabled \in BOOLEAN /\ link \in BOOLEAN
  /\ codes \subseteq CodeNumbers /\ lapsed \subseteq CodeNumbers
  /\ sent \in 0 .. MaxCodes
  /\ counter \in [Scopes -> Nat]
  /\ visit \in [Visits -> [step : VisitSteps, scope : Scopes, live : BOOLEAN,
                           then : {"idle", "drop"}, code : 0 .. MaxCodes,
                           dropped : SUBSET CodeNumbers]]
  /\ tried \in Nat
  /\ opened \in [CodeNumbers -> Nat]
  /\ authLimit \in AuthLimits

\* register: an active account, and a link sent to its address.
AuthInit ==
  /\ verified = FALSE /\ enabled = TRUE /\ link = TRUE
  /\ codes = {} /\ lapsed = {} /\ sent = 0
  /\ counter = [s \in Scopes |-> 0]
  /\ visit = [v \in Visits |-> NoVisit]
  /\ tried = 0
  /\ opened = [c \in CodeNumbers |-> 0]
  /\ authLimit \in AuthLimits

-----------------------------------------------------------------------------
(* The address, the account and the passing of time.                       *)

\* consume, and verifyEmail: the link is deleted and the address verified.
FollowLink ==
  /\ link
  /\ link' = FALSE /\ verified' = TRUE
  /\ UNCHANGED <<enabled, codes, lapsed, sent, counter, visit, tried, opened, authLimit>>

LapseLink ==
  /\ link
  /\ link' = FALSE
  /\ UNCHANGED <<verified, enabled, codes, lapsed, sent, counter, visit, tried, opened, authLimit>>

\* resendVerification, of an account that is not verified.
ResendLink ==
  /\ ~verified /\ enabled
  /\ link' = TRUE
  /\ UNCHANGED <<verified, enabled, codes, lapsed, sent, counter, visit, tried, opened, authLimit>>

\* An operator blocks or restores the account.
SwitchAccount ==
  /\ enabled' = ~enabled
  /\ UNCHANGED <<verified, link, codes, lapsed, sent, counter, visit, tried, opened, authLimit>>

LapseCode(c) ==
  /\ c \in codes \ lapsed
  /\ lapsed' = lapsed \cup {c}
  /\ UNCHANGED <<verified, enabled, link, codes, sent, counter, visit, tried, opened, authLimit>>

CloseWindow(s) ==
  /\ counter[s] > 0
  /\ counter' = [counter EXCEPT ![s] = 0]
  /\ tried' = IF s = "otp_verify" THEN 0 ELSE tried
  /\ UNCHANGED <<verified, enabled, link, codes, lapsed, sent, visit, opened, authLimit>>

-----------------------------------------------------------------------------
(* LoginThrottleService.                                                   *)

\* Blocked: the limit is passed before it blocks.
BlockedLate(s) == counter[s] > MaxAttempts

Blocked(s) == counter[s] >= MaxAttempts

At(v, step) == visit[v].step = step

GoTo(v, step) == visit' = [visit EXCEPT ![v].step = step]

Leave(v) == visit' = [visit EXCEPT ![v] = NoVisit]

\* hit reads the window first...
Hit(v) ==
  /\ At(v, "hit")
  /\ visit' = [visit EXCEPT ![v].step = "count", ![v].live = counter[visit[v].scope] > 0]
  /\ UNCHANGED <<verified, enabled, link, codes, lapsed, sent, counter, tried, opened, authLimit>>

\* ...and increments a live one, or starts one at 1 over whatever it has become;
\* an increment of a window that was cleared meanwhile fails.
Counted(v) ==
  LET s == visit[v].scope IN
  IF visit[v].live THEN IF counter[s] > 0 THEN counter[s] + 1 ELSE 0 ELSE 1

Count(v) ==
  /\ At(v, "count")
  /\ counter' = [counter EXCEPT ![visit[v].scope] = Counted(v)]
  /\ tried' = IF visit[v].scope = "otp_verify" /\ Counted(v) > 0 THEN tried + 1 ELSE tried
  /\ visit' = [visit EXCEPT ![v] = [NoVisit EXCEPT !.step = visit[v].then]]
  /\ UNCHANGED <<verified, enabled, link, codes, lapsed, sent, opened, authLimit>>

Attempt(v, scope, then) ==
  visit' = [visit EXCEPT ![v] = [NoVisit EXCEPT !.step = "hit", !.scope = scope, !.then = then]]

-----------------------------------------------------------------------------
(* login and resendLoginOtp.                                               *)

MayEnter(v) ==
  /\ At(v, "idle")
  /\ Cardinality({w \in Visits : ~At(w, "idle")}) < authLimit

Login(v) ==
  /\ MayEnter(v) /\ ~Blocked("email")
  /\ GoTo(v, "password")
  /\ UNCHANGED <<verified, enabled, link, codes, lapsed, sent, counter, tried, opened, authLimit>>

WrongPassword(v) ==
  /\ At(v, "password")
  /\ Attempt(v, "email", "idle")
  /\ UNCHANGED <<verified, enabled, link, codes, lapsed, sent, counter, tried, opened, authLimit>>

\* An address never verified gets a link, unless one is pending.
RightPassword(v) ==
  /\ At(v, "password") /\ enabled
  /\ counter' = [counter EXCEPT !["email"] = 0]
  /\ link' = (link \/ ~verified)
  /\ IF verified THEN GoTo(v, "pending") ELSE Leave(v)
  /\ UNCHANGED <<verified, enabled, codes, lapsed, sent, tried, opened, authLimit>>

\* A code still valid is not sent again; a code too many is not sent.
FindPendingCode(v) ==
  /\ At(v, "pending")
  /\ IF codes \subseteq lapsed /\ ~Blocked("otp") THEN Attempt(v, "otp", "drop") ELSE Leave(v)
  /\ UNCHANGED <<verified, enabled, link, codes, lapsed, sent, counter, tried, opened, authLimit>>

\* Resend: the address is not looked at.
ResendUnverified(v) ==
  /\ MayEnter(v) /\ ~Blocked("otp")
  /\ IF enabled THEN Attempt(v, "otp", "drop") ELSE Attempt(v, "otp", "idle")
  /\ UNCHANGED <<verified, enabled, link, codes, lapsed, sent, counter, tried, opened, authLimit>>

\* Answered alike, sent or not.
Resend(v) ==
  /\ MayEnter(v) /\ ~Blocked("otp")
  /\ IF verified /\ enabled THEN Attempt(v, "otp", "drop") ELSE Attempt(v, "otp", "idle")
  /\ UNCHANGED <<verified, enabled, link, codes, lapsed, sent, counter, tried, opened, authLimit>>

\* send: the codes it sees are deleted, and the new one inserted, at the commit.
DropCodes(v) ==
  /\ At(v, "drop") /\ sent < MaxCodes
  /\ sent' = sent + 1
  /\ visit' = [visit EXCEPT ![v].step = "issue", ![v].code = sent + 1, ![v].dropped = codes]
  /\ UNCHANGED <<verified, enabled, link, codes, lapsed, counter, tried, opened, authLimit>>

IssueCode(v) ==
  /\ At(v, "issue")
  /\ codes' = (codes \ visit[v].dropped) \cup {visit[v].code}
  /\ Leave(v)
  /\ UNCHANGED <<verified, enabled, link, lapsed, sent, counter, tried, opened, authLimit>>

-----------------------------------------------------------------------------
(* verifyLoginOtp.                                                         *)

Verify(v) ==
  /\ MayEnter(v) /\ ~Blocked("otp_verify")
  /\ GoTo(v, "compare")
  /\ UNCHANGED <<verified, enabled, link, codes, lapsed, sent, counter, tried, opened, authLimit>>

Latest(c) == c \in codes /\ \A d \in codes : d <= c

\* The account is read (live: it was active), then its latest code, which only
\* its number matches.
RightCode(v) ==
  /\ At(v, "compare")
  /\ \E c \in codes \ lapsed :
       /\ Latest(c)
       /\ visit' = [visit EXCEPT ![v].step = "consume", ![v].code = c, ![v].live = enabled]
  /\ UNCHANGED <<verified, enabled, link, codes, lapsed, sent, counter, tried, opened, authLimit>>

WrongCode(v) ==
  /\ At(v, "compare")
  /\ Attempt(v, "otp_verify", "idle")
  /\ UNCHANGED <<verified, enabled, link, codes, lapsed, sent, counter, tried, opened, authLimit>>

\* Consume: the code used is not deleted.
ConsumeNothing(v) ==
  /\ At(v, "consume")
  /\ IF visit[v].live THEN GoTo(v, "admit") ELSE Attempt(v, "otp_verify", "idle")
  /\ UNCHANGED <<verified, enabled, link, codes, lapsed, sent, counter, tried, opened, authLimit>>

\* Every code of the account is deleted, one sent meanwhile included.
Consume(v) ==
  /\ At(v, "consume")
  /\ codes' = {}
  /\ IF visit[v].live THEN GoTo(v, "admit") ELSE Attempt(v, "otp_verify", "idle")
  /\ UNCHANGED <<verified, enabled, link, lapsed, sent, counter, tried, opened, authLimit>>

\* The counters are cleared and the session is created.
Admit(v) ==
  /\ At(v, "admit")
  /\ counter' = [counter EXCEPT !["otp"] = 0, !["otp_verify"] = 0]
  /\ tried' = 0
  /\ opened' = [opened EXCEPT ![visit[v].code] = @ + 1]
  /\ Leave(v)
  /\ UNCHANGED <<verified, enabled, link, codes, lapsed, sent, authLimit>>

\* The mail is refused, or the API stops: what was written remains.
LoseVisit(v) ==
  /\ ~At(v, "idle")
  /\ Leave(v)
  /\ UNCHANGED <<verified, enabled, link, codes, lapsed, sent, counter, tried, opened, authLimit>>

-----------------------------------------------------------------------------

AuthNext ==
  \/ FollowLink \/ LapseLink \/ ResendLink \/ SwitchAccount
  \/ \E c \in CodeNumbers : LapseCode(c)
  \/ \E s \in Scopes : CloseWindow(s)
  \/ \E v \in Visits :
       \/ Login(v) \/ WrongPassword(v) \/ RightPassword(v) \/ FindPendingCode(v)
       \/ Resend(v) \/ DropCodes(v) \/ IssueCode(v)
       \/ Verify(v) \/ RightCode(v) \/ WrongCode(v) \/ Consume(v) \/ Admit(v)
       \/ Hit(v) \/ Count(v) \/ LoseVisit(v)

AuthSpec == AuthInit /\ [][AuthNext]_authVars

-----------------------------------------------------------------------------

\* A code is of single use ("code de connexion à usage unique"): it opens no
\* more sessions than there are visits in progress at once, one if they do not
\* overlap, whatever is resent, expires or fails meanwhile.
CodeOpensOnce == \A c \in CodeNumbers : opened[c] <= authLimit

\* No session before the address is verified, although verifyLoginOtp does not
\* look: a code is only ever sent to an account whose address is.
OnlyVerifiedEnter == \A c \in CodeNumbers : opened[c] > 0 => verified

\* Wrong codes are bounded within one window: MAX_ATTEMPTS one at a time. When
\* visits overlap, each that found no window restarts the count at 1 however far
\* it has got, and those that passed the check meanwhile come on top.
AttemptsAreBounded ==
  2 * tried <= authLimit * (2 * MaxAttempts + authLimit - 1)
=============================================================================
