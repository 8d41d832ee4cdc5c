------------------------------- MODULE AuthProofs -------------------------------
(***************************************************************************)
(* Theorems of Auth, for any number of visits, of codes and of attempts.   *)
(***************************************************************************)
EXTENDS Auth, FiniteSetTheorems, TLAPS

-----------------------------------------------------------------------------
(* Type correctness.                                                       *)

\* What a visit remembers between its steps.
VisitRecords ==
  [step : VisitSteps, scope : Scopes, live : BOOLEAN, then : {"idle", "drop"},
   code : 0 .. MaxCodes, dropped : SUBSET CodeNumbers]

RowsOK ==
  /\ verified \in BOOLEAN /\ enabled \in BOOLEAN /\ link \in BOOLEAN
  /\ codes \subseteq CodeNumbers /\ lapsed \subseteq CodeNumbers
  /\ sent \in 0 .. MaxCodes
  /\ counter \in [Scopes -> Nat]
  /\ tried \in Nat
  /\ opened \in [CodeNumbers -> Nat]
  /\ authLimit \in AuthLimits

LEMMA NoVisitOK == NoVisit \in VisitRecords
BY AuthAssumption DEF AuthAssumption, NoVisit, VisitRecords, VisitSteps, Scopes

\* A visit that holds a code holds one that was numbered.
CodesNamed ==
  \A v \in Visits : visit[v].step \in {"issue", "consume", "admit"} => visit[v].code \in CodeNumbers

Typed == RowsOK /\ visit \in [Visits -> VisitRecords] /\ CodesNamed

LEMMA InitTyped == AuthInit => Typed
<1> SUFFICES ASSUME AuthInit PROVE Typed
  OBVIOUS
<1>1. RowsOK
  <2>1. verified \in BOOLEAN /\ enabled \in BOOLEAN /\ link \in BOOLEAN
    BY DEF AuthInit
  <2>2. codes \subseteq CodeNumbers /\ lapsed \subseteq CodeNumbers /\ authLimit \in AuthLimits
    BY DEF AuthInit
  <2>3. sent \in 0 .. MaxCodes /\ tried \in Nat
    BY AuthAssumption DEF AuthInit, AuthAssumption
  <2>4. counter \in [Scopes -> Nat] /\ opened \in [CodeNumbers -> Nat]
    BY DEF AuthInit
  <2> QED
    BY <2>1, <2>2, <2>3, <2>4 DEF RowsOK
<1>2. CodesNamed
  BY DEF AuthInit, CodesNamed, NoVisit
<1> QED
  BY <1>1, <1>2, NoVisitOK DEF AuthInit, Typed

\* A visit that changes into another one that holds no code, or holds the same.
LEMMA VisitBecomes ==
  ASSUME Typed, NEW v \in Visits, NEW q \in VisitRecords, visit' = [visit EXCEPT ![v] = q],
         q.step \in {"issue", "consume", "admit"} => q.code \in CodeNumbers
  PROVE  visit' \in [Visits -> VisitRecords] /\ CodesNamed'
BY DEF Typed, CodesNamed

LEMMA VisitLeaves ==
  ASSUME Typed, NEW v \in Visits, Leave(v)
  PROVE  visit' \in [Visits -> VisitRecords] /\ CodesNamed'
BY NoVisitOK, VisitBecomes DEF Leave, NoVisit

LEMMA VisitGoes ==
  ASSUME Typed, NEW v \in Visits, NEW step \in VisitSteps, GoTo(v, step),
         step \in {"issue", "consume", "admit"} => visit[v].code \in CodeNumbers
  PROVE  visit' \in [Visits -> VisitRecords] /\ CodesNamed'
<1> DEFINE q == [visit[v] EXCEPT !.step = step]
<1>1. q \in VisitRecords /\ q.step = step /\ q.code = visit[v].code
  BY DEF Typed, VisitRecords
<1>2. visit' = [visit EXCEPT ![v] = q]
  BY DEF GoTo
<1> HIDE DEF q
<1> QED
  BY <1>1, <1>2, VisitBecomes

LEMMA VisitAttempts ==
  ASSUME Typed, NEW v \in Visits, NEW scope \in Scopes, NEW then \in {"idle", "drop"},
         Attempt(v, scope, then)
  PROVE  visit' \in [Visits -> VisitRecords] /\ CodesNamed'
<1> DEFINE q == [NoVisit EXCEPT !.step = "hit", !.scope = scope, !.then = then]
<1>1. q \in VisitRecords /\ q.step = "hit"
  BY NoVisitOK DEF VisitRecords, VisitSteps
<1>2. visit' = [visit EXCEPT ![v] = q]
  BY DEF Attempt
<1> HIDE DEF q
<1> QED
  BY <1>1, <1>2, VisitBecomes

LEMMA NextTyped == Typed /\ [AuthNext]_authVars => Typed'
<1> SUFFICES ASSUME Typed, [AuthNext]_authVars
             PROVE  RowsOK' /\ visit' \in [Visits -> VisitRecords] /\ CodesNamed'
  BY DEF Typed
<1>0. RowsOK /\ visit \in [Visits -> VisitRecords] /\ CodesNamed
  BY DEF Typed
<1>a. /\ \A step \in {"password", "pending", "compare", "consume", "admit"} : step \in VisitSteps
      /\ {"email", "otp", "otp_verify"} = Scopes
      /\ MaxCodes \in Nat
  BY AuthAssumption DEF AuthAssumption, VisitSteps, Scopes
<1> USE <1>0, <1>a
<1>1. CASE FollowLink \/ LapseLink \/ ResendLink \/ SwitchAccount
  BY <1>1 DEF FollowLink, LapseLink, ResendLink, SwitchAccount, RowsOK, CodesNamed
<1>2. ASSUME NEW c \in CodeNumbers, LapseCode(c)
      PROVE  RowsOK' /\ visit' \in [Visits -> VisitRecords] /\ CodesNamed'
  BY <1>2 DEF LapseCode, RowsOK, CodesNamed
<1>3. ASSUME NEW s \in Scopes, CloseWindow(s)
      PROVE  RowsOK' /\ visit' \in [Visits -> VisitRecords] /\ CodesNamed'
  BY <1>3 DEF CloseWindow, RowsOK, CodesNamed
<1>4. ASSUME NEW v \in Visits, Login(v) \/ Verify(v)
      PROVE  RowsOK' /\ visit' \in [Visits -> VisitRecords] /\ CodesNamed'
  BY <1>4, VisitGoes DEF Login, Verify, RowsOK
<1>5. ASSUME NEW v \in Visits, WrongPassword(v) \/ WrongCode(v) \/ FindPendingCode(v) \/ Resend(v)
      PROVE  RowsOK' /\ visit' \in [Visits -> VisitRecords] /\ CodesNamed'
  <2>1. Leave(v) \/ \E scope \in Scopes, then \in {"idle", "drop"} : Attempt(v, scope, then)
    BY <1>5 DEF WrongPassword, WrongCode, FindPendingCode, Resend
  <2> QED
    BY <1>5, <2>1, VisitLeaves, VisitAttempts
       DEF WrongPassword, WrongCode, FindPendingCode, Resend, RowsOK
<1>6. ASSUME NEW v \in Visits, RightPassword(v)
      PROVE  RowsOK' /\ visit' \in [Visits -> VisitRecords] /\ CodesNamed'
  <2>1. visit' \in [Visits -> VisitRecords] /\ CodesNamed'
    BY <1>6, VisitLeaves, VisitGoes DEF RightPassword
  <2>2. (link \/ ~verified) \in BOOLEAN
    OBVIOUS
  <2> QED
    BY <1>6, <2>1, <2>2 DEF RightPassword, RowsOK
<1>7. ASSUME NEW v \in Visits, DropCodes(v)
      PROVE  RowsOK' /\ visit' \in [Visits -> VisitRecords] /\ CodesNamed'
  <2> DEFINE q == [visit[v] EXCEPT !.step = "issue", !.code = sent + 1, !.dropped = codes]
  <2>1. /\ sent + 1 \in 0 .. MaxCodes /\ sent + 1 \in CodeNumbers
        /\ codes \in SUBSET CodeNumbers
    BY <1>7 DEF DropCodes, RowsOK, CodeNumbers
  <2>2. q \in VisitRecords /\ q.code \in CodeNumbers
    BY <2>1 DEF VisitRecords, VisitSteps
  <2>3. visit' = [visit EXCEPT ![v] = q]
    BY <1>7 DEF DropCodes
  <2> HIDE DEF q
  <2>4. visit' \in [Visits -> VisitRecords] /\ CodesNamed'
    BY <2>2, <2>3, VisitBecomes
  <2> QED
    BY <1>7, <2>1, <2>4 DEF DropCodes, RowsOK
<1>8. ASSUME NEW v \in Visits, IssueCode(v)
      PROVE  RowsOK' /\ visit' \in [Visits -> VisitRecords] /\ CodesNamed'
  <2>1. visit[v].code \in CodeNumbers
    BY <1>8 DEF IssueCode, CodesNamed, At
  <2> QED
    BY <1>8, <2>1, VisitLeaves DEF IssueCode, RowsOK
<1>9. ASSUME NEW v \in Visits, RightCode(v)
      PROVE  RowsOK' /\ visit' \in [Visits -> VisitRecords] /\ CodesNamed'
  <2>1. PICK c \in CodeNumbers :
          visit' = [visit EXCEPT ![v].step = "consume", ![v].code = c, ![v].live = enabled]
    BY <1>9 DEF RightCode, RowsOK
  <2> DEFINE q == [visit[v] EXCEPT !.step = "consume", !.code = c, !.live = enabled]
  <2>2. c \in 0 .. MaxCodes /\ enabled \in BOOLEAN
    BY DEF CodeNumbers, RowsOK
  <2>3. q \in VisitRecords /\ q.code \in CodeNumbers
    BY <2>2 DEF VisitRecords
  <2>4. visit' = [visit EXCEPT ![v] = q]
    BY <2>1
  <2> HIDE DEF q
  <2> QED
    BY <1>9, <2>3, <2>4, VisitBecomes DEF RightCode, RowsOK
<1>10. ASSUME NEW v \in Visits, Consume(v)
      PROVE  RowsOK' /\ visit' \in [Visits -> VisitRecords] /\ CodesNamed'
  <2>1. visit[v].code \in CodeNumbers
    BY <1>10 DEF Consume, CodesNamed, At
  <2>2. visit' \in [Visits -> VisitRecords] /\ CodesNamed'
    BY <1>10, <2>1, VisitGoes, VisitAttempts DEF Consume
  <2> QED
    BY <1>10, <2>2 DEF Consume, RowsOK
<1>11. ASSUME NEW v \in Visits, Admit(v)
      PROVE  RowsOK' /\ visit' \in [Visits -> VisitRecords] /\ CodesNamed'
  <2>1. visit[v].code \in CodeNumbers
    BY <1>11 DEF Admit, CodesNamed, At
  <2>2. opened' \in [CodeNumbers -> Nat]
    BY <1>11, <2>1 DEF Admit, RowsOK
  <2>3. counter' \in [Scopes -> Nat] /\ tried' \in Nat
    BY <1>11 DEF Admit, RowsOK
  <2>4. visit' \in [Visits -> VisitRecords] /\ CodesNamed'
    BY <1>11, VisitLeaves DEF Admit
  <2> QED
    BY <1>11, <2>2, <2>3, <2>4 DEF Admit, RowsOK
<1>12. ASSUME NEW v \in Visits, Hit(v)
      PROVE  RowsOK' /\ visit' \in [Visits -> VisitRecords] /\ CodesNamed'
  <2> DEFINE found == counter[visit[v].scope] > 0
             q == [visit[v] EXCEPT !.step = "count", !.live = found]
  <2>0. found \in BOOLEAN
    OBVIOUS
  <2> HIDE DEF found
  <2>1. q \in VisitRecords /\ q.step = "count"
    BY <2>0 DEF VisitRecords, VisitSteps
  <2>2. visit' = [visit EXCEPT ![v] = q]
    BY <1>12 DEF Hit, found
  <2> HIDE DEF q
  <2> QED
    BY <1>12, <2>1, <2>2, VisitBecomes DEF Hit, RowsOK
<1>13. ASSUME NEW v \in Visits, Count(v)
      PROVE  RowsOK' /\ visit' \in [Visits -> VisitRecords] /\ CodesNamed'
  <2> DEFINE q == [NoVisit EXCEPT !.step = visit[v].then]
  <2>1. visit[v].then \in {"idle", "drop"} /\ visit[v].scope \in Scopes
    BY DEF VisitRecords
  <2>2. q \in VisitRecords /\ q.step \in {"idle", "drop"}
    BY <2>1, NoVisitOK DEF VisitRecords, VisitSteps
  <2>3. visit' = [visit EXCEPT ![v] = q]
    BY <1>13 DEF Count
  <2> HIDE DEF q
  <2>4. visit' \in [Visits -> VisitRecords] /\ CodesNamed'
    BY <2>2, <2>3, VisitBecomes
  <2>5. Counted(v) \in Nat
    BY <2>1 DEF Counted, RowsOK
  <2>6. counter' \in [Scopes -> Nat] /\ tried' \in Nat
    BY <1>13, <2>1, <2>5 DEF Count, RowsOK
  <2> QED
    BY <1>13, <2>4, <2>6 DEF Count, RowsOK
<1>14. ASSUME NEW v \in Visits, LoseVisit(v)
      PROVE  RowsOK' /\ visit' \in [Visits -> VisitRecords] /\ CodesNamed'
  BY <1>14, VisitLeaves DEF LoseVisit, RowsOK
<1>15. CASE UNCHANGED authVars
  BY <1>15 DEF authVars, RowsOK, CodesNamed
<1> QED
  BY <1>1, <1>2, <1>3, <1>4, <1>5, <1>6, <1>7, <1>8, <1>9, <1>10, <1>11, <1>12, <1>13, <1>14,
     <1>15 DEF AuthNext

LEMMA AlwaysTyped == AuthSpec => []Typed
BY InitTyped, NextTyped, PTL DEF AuthSpec

\* Every reachable state is typed.
THEOREM AuthTyped == AuthSpec => []AuthTypeOK
<1>1. Typed => AuthTypeOK
  BY DEF Typed, RowsOK, VisitRecords, AuthTypeOK
<1> QED
  BY <1>1, AlwaysTyped, PTL

-----------------------------------------------------------------------------
(* The address is verified first.                                          *)

\* A code exists, is being sent or is being consumed only once it is.
EntryInv ==
  /\ codes # {} => verified
  /\ \A v \in Visits :
       visit[v].step \in {"pending", "drop", "issue", "consume", "admit"} \/ visit[v].then = "drop"
         => verified
  /\ OnlyVerifiedEnter

LEMMA InitEntryInv == AuthInit => EntryInv
BY DEF AuthInit, EntryInv, OnlyVerifiedEnter, NoVisit

LEMMA NextEntryInv == Typed /\ EntryInv /\ [AuthNext]_authVars => EntryInv'
<1> SUFFICES ASSUME Typed, EntryInv, [AuthNext]_authVars PROVE EntryInv'
  OBVIOUS
<1>0. RowsOK /\ visit \in [Visits -> VisitRecords] /\ CodesNamed
  BY DEF Typed
<1> USE <1>0 DEF EntryInv, OnlyVerifiedEnter, At, VisitRecords
<1>1. CASE FollowLink \/ LapseLink \/ ResendLink \/ SwitchAccount
  BY <1>1 DEF FollowLink, LapseLink, ResendLink, SwitchAccount
<1>2. ASSUME NEW c \in CodeNumbers, LapseCode(c) PROVE EntryInv'
  BY <1>2 DEF LapseCode
<1>3. ASSUME NEW s \in Scopes, CloseWindow(s) PROVE EntryInv'
  BY <1>3 DEF CloseWindow
<1>4. ASSUME NEW v \in Visits, Login(v) \/ Verify(v) PROVE EntryInv'
  BY <1>4 DEF Login, Verify, GoTo
<1>5. ASSUME NEW v \in Visits, WrongPassword(v) \/ WrongCode(v) \/ FindPendingCode(v) \/ Resend(v)
      PROVE  EntryInv'
  <2>1. CASE WrongPassword(v) \/ WrongCode(v)
    BY <2>1 DEF WrongPassword, WrongCode, Attempt, NoVisit
  <2>2. CASE FindPendingCode(v)
    <3>1. verified
      BY <2>2 DEF FindPendingCode
    <3> QED
      BY <2>2, <3>1 DEF FindPendingCode
  <2>3. CASE Resend(v)
    <3>1. CASE verified
      BY <2>3, <3>1 DEF Resend
    <3>2. CASE ~verified
      <4>1. Attempt(v, "otp", "idle") /\ UNCHANGED <<verified, codes, opened>>
        BY <2>3, <3>2 DEF Resend
      <4> QED
        BY <4>1 DEF Attempt, NoVisit
    <3> QED
      BY <3>1, <3>2
  <2> QED
    BY <1>5, <2>1, <2>2, <2>3
<1>6. ASSUME NEW v \in Visits, RightPassword(v) PROVE EntryInv'
  BY <1>6 DEF RightPassword, Leave, GoTo, NoVisit
<1>7. ASSUME NEW v \in Visits, DropCodes(v) PROVE EntryInv'
  BY <1>7 DEF DropCodes
<1>8. ASSUME NEW v \in Visits, IssueCode(v) PROVE EntryInv'
  BY <1>8 DEF IssueCode, Leave, NoVisit
<1>9. ASSUME NEW v \in Visits, RightCode(v) PROVE EntryInv'
  BY <1>9 DEF RightCode
<1>10. ASSUME NEW v \in Visits, Consume(v) PROVE EntryInv'
  BY <1>10 DEF Consume, GoTo, Attempt, NoVisit
<1>11. ASSUME NEW v \in Visits, Admit(v) PROVE EntryInv'
  BY <1>11 DEF Admit, Leave, NoVisit
<1>12. ASSUME NEW v \in Visits, Hit(v) PROVE EntryInv'
  BY <1>12 DEF Hit
<1>13. ASSUME NEW v \in Visits, Count(v) PROVE EntryInv'
  BY <1>13 DEF Count, NoVisit
<1>14. ASSUME NEW v \in Visits, LoseVisit(v) PROVE EntryInv'
  BY <1>14 DEF LoseVisit, Leave, NoVisit
<1>15. CASE UNCHANGED authVars
  BY <1>15 DEF authVars
<1> QED
  BY <1>1, <1>2, <1>3, <1>4, <1>5, <1>6, <1>7, <1>8, <1>9, <1>10, <1>11, <1>12, <1>13, <1>14,
     <1>15 DEF AuthNext

\* No session is opened before the address is verified, although nothing looks
\* at it once a code is entered (login, resendLoginOtp, verifyLoginOtp).
THEOREM SessionsAreVerified == AuthSpec => []OnlyVerifiedEnter
<1>1. AuthInit => Typed /\ EntryInv
  BY InitTyped, InitEntryInv
<1>2. Typed /\ EntryInv /\ [AuthNext]_authVars => Typed' /\ EntryInv'
  BY NextTyped, NextEntryInv
<1>3. EntryInv => OnlyVerifiedEnter
  BY DEF EntryInv
<1> QED
  BY <1>1, <1>2, <1>3, PTL DEF AuthSpec

-----------------------------------------------------------------------------
(* A code is of single use.                                                *)

Busy == {v \in Visits : ~At(v, "idle")}

\* The visits that found a code right and have not opened its session yet.
Holders(c) == {v \in Visits : visit[v].step \in {"consume", "admit"} /\ visit[v].code = c}

Sends(v, c) == visit[v].step = "issue" /\ visit[v].code = c

\* A code that is not sent yet, or is being sent by the one visit that numbered
\* it, is nowhere else; one that can still be found opened nothing.
SingleUseOf(c) ==
  /\ c > sent \/ (\E v \in Visits : Sends(v, c)) =>
       c \notin codes /\ opened[c] = 0 /\ Holders(c) = {}
  /\ \A v, w \in Visits : Sends(v, c) => c <= sent /\ (Sends(w, c) => v = w)
  /\ c \in codes => opened[c] = 0 /\ \A v \in Holders(c) : visit[v].step = "consume"

\* Those who found a code in time are in progress.
SingleUse ==
  /\ Cardinality(Busy) <= authLimit
  /\ \A c \in CodeNumbers : SingleUseOf(c) /\ opened[c] + Cardinality(Holders(c)) <= authLimit

LEMMA BusyIsFinite ==
  /\ IsFiniteSet(Busy) /\ Cardinality(Busy) \in Nat
  /\ \A c : /\ Holders(c) \subseteq Busy
            /\ IsFiniteSet(Holders(c)) /\ Cardinality(Holders(c)) \in Nat
            /\ Cardinality(Holders(c)) <= Cardinality(Busy)
<1>1. IsFiniteSet(Visits) /\ Busy \in SUBSET Visits
  BY AuthAssumption DEF AuthAssumption, Busy
<1>2. IsFiniteSet(Busy) /\ Cardinality(Busy) \in Nat
  BY <1>1, FS_Subset, FS_CardinalityType
<1>3. ASSUME NEW c
      PROVE  /\ Holders(c) \subseteq Busy
             /\ IsFiniteSet(Holders(c)) /\ Cardinality(Holders(c)) \in Nat
             /\ Cardinality(Holders(c)) <= Cardinality(Busy)
  <2>1. Holders(c) \in SUBSET Busy
    BY DEF Holders, Busy, At
  <2> QED
    BY <1>2, <2>1, FS_Subset, FS_CardinalityType
<1> QED
  BY <1>2, <1>3

LEMMA NumbersOK ==
  ASSUME Typed
  PROVE  /\ authLimit \in Nat /\ sent \in Int
         /\ \A c \in CodeNumbers : c \in Int /\ opened[c] \in Nat
BY AuthAssumption DEF Typed, RowsOK, AuthAssumption, CodeNumbers

LEMMA InitSingleUse == AuthInit => SingleUse
<1> SUFFICES ASSUME AuthInit PROVE SingleUse
  OBVIOUS
<1>1. Busy = {} /\ \A c : Holders(c) = {}
  BY DEF AuthInit, Busy, Holders, At, NoVisit
<1>2. authLimit \in Nat
  BY InitTyped, NumbersOK
<1>3. \A c \in CodeNumbers : SingleUseOf(c) /\ opened[c] = 0
  BY <1>1 DEF AuthInit, SingleUseOf, Sends, NoVisit
<1> QED
  BY <1>1, <1>2, <1>3, FS_EmptySet DEF SingleUse

\* A step after which nobody holds or sends what nobody did before.
LEMMA OthersKeepSingleUse ==
  ASSUME Typed, Typed', SingleUse, Cardinality(Busy)' <= authLimit',
         codes' \subseteq codes, UNCHANGED <<sent, opened, authLimit>>,
         \A w \in Visits, c \in CodeNumbers :
           /\ Sends(w, c)' => Sends(w, c)
           /\ w \in Holders(c)' => w \in Holders(c)
           /\ c \in codes' /\ w \in Holders(c)' => visit'[w].step = visit[w].step
  PROVE  SingleUse'
<1>1. ASSUME NEW c \in CodeNumbers
      PROVE  SingleUseOf(c)' /\ opened'[c] + Cardinality(Holders(c))' <= authLimit'
  <2>1. Holders(c)' \subseteq Holders(c)
    BY DEF Holders
  <2>2. Cardinality(Holders(c))' <= Cardinality(Holders(c)) /\ Cardinality(Holders(c))' \in Nat
    BY <2>1, BusyIsFinite, FS_Subset, FS_CardinalityType
  <2>3. opened'[c] + Cardinality(Holders(c))' <= authLimit'
    BY <2>2, BusyIsFinite, NumbersOK DEF SingleUse
  <2>4. SingleUseOf(c)
    BY DEF SingleUse
  <2>5. c > sent' \/ (\E w \in Visits : Sends(w, c)') =>
           c \notin codes' /\ opened'[c] = 0 /\ Holders(c)' = {}
    BY <2>1, <2>4 DEF SingleUseOf
  <2>6. ASSUME NEW w \in Visits, NEW u \in Visits, Sends(w, c)'
        PROVE  c <= sent' /\ (Sends(u, c)' => w = u)
    BY <2>4, <2>6 DEF SingleUseOf
  <2>7. ASSUME c \in codes' PROVE opened'[c] = 0
    BY <2>4, <2>7 DEF SingleUseOf
  <2>8. ASSUME c \in codes', NEW w \in Holders(c)' PROVE visit'[w].step = "consume"
    <3>1. w \in Visits /\ w \in Holders(c)
      BY <2>1 DEF Holders
    <3>2. visit'[w].step = visit[w].step /\ c \in codes
      BY <2>8, <3>1
    <3> QED
      BY <2>4, <3>1, <3>2 DEF SingleUseOf
  <2>9. SingleUseOf(c)'
    BY <2>5, <2>6, <2>7, <2>8 DEF SingleUseOf
  <2> QED
    BY <2>3, <2>9
<1> QED
  BY <1>1 DEF SingleUse

\* A step of one visit that holds and sends nothing afterwards.
LEMMA LeavingKeepsSingleUse ==
  ASSUME Typed, Typed', SingleUse, NEW v \in Visits, Cardinality(Busy)' <= authLimit',
         codes' \subseteq codes, UNCHANGED <<sent, opened, authLimit>>,
         \A w \in Visits \ {v} : visit'[w] = visit[w],
         visit'[v].step \notin {"issue", "consume", "admit"}
  PROVE  SingleUse'
BY OthersKeepSingleUse DEF Holders, Sends

\* The visits in progress stay within the limit unless one starts.
LEMMA BusyShrinks ==
  ASSUME SingleUse, Typed, UNCHANGED authLimit,
         \A w \in Visits : visit[w].step = "idle" => visit'[w].step = "idle"
  PROVE  Cardinality(Busy)' <= authLimit'
<1>1. Busy' \subseteq Busy
  BY DEF Busy, At
<1>2. Cardinality(Busy') <= Cardinality(Busy) /\ Cardinality(Busy') \in Nat
  BY <1>1, BusyIsFinite, FS_Subset, FS_CardinalityType
<1> QED
  BY <1>2, BusyIsFinite, NumbersOK DEF SingleUse

LEMMA BusyStarts ==
  ASSUME SingleUse, Typed, UNCHANGED authLimit, NEW v \in Visits, MayEnter(v),
         \A w \in Visits \ {v} : visit'[w] = visit[w]
  PROVE  Cardinality(Busy)' <= authLimit'
<1>1. Busy' \in SUBSET (Busy \cup {v})
  BY DEF Busy, At
<1>2. v \notin Busy /\ Cardinality(Busy) < authLimit
  BY DEF Busy, MayEnter
<1>3. IsFiniteSet(Busy \cup {v}) /\ Cardinality(Busy \cup {v}) = Cardinality(Busy) + 1
  BY <1>2, BusyIsFinite, FS_AddElement
<1>4. Cardinality(Busy') <= Cardinality(Busy \cup {v}) /\ Cardinality(Busy') \in Nat
  BY <1>1, <1>3, FS_Subset, FS_CardinalityType
<1> QED
  BY <1>2, <1>3, <1>4, BusyIsFinite, NumbersOK

\* A code is numbered for one visit, then inserted, in place of those it saw.
LEMMA SendingKeepsSingleUse ==
  ASSUME Typed, SingleUse, NEW v \in Visits, DropCodes(v) \/ IssueCode(v)
  PROVE  SingleUse'
<1> USE NumbersOK DEF At, NoVisit
<1>0. visit \in [Visits -> VisitRecords]
  BY DEF Typed
<1>1. Cardinality(Busy)' <= authLimit'
  <2>1. UNCHANGED authLimit /\ \A w \in Visits : visit[w].step = "idle" => visit'[w].step = "idle"
    BY <1>0 DEF DropCodes, IssueCode, Leave, VisitRecords
  <2> QED
    BY <2>1, BusyShrinks
<1>2. ASSUME NEW c \in CodeNumbers
      PROVE  Holders(c)' = Holders(c) /\ opened'[c] = opened[c] /\ authLimit' = authLimit
  BY <1>0 DEF DropCodes, IssueCode, Leave, VisitRecords, Holders
<1>3. ASSUME NEW c \in CodeNumbers PROVE SingleUseOf(c)'
  <2>0. SingleUseOf(c) /\ c \in Int /\ Holders(c)' = Holders(c) /\ opened'[c] = opened[c]
    BY <1>2 DEF SingleUse
  <2>1. CASE DropCodes(v)
    <3>1. /\ sent' = sent + 1 /\ codes' = codes /\ visit[v].step = "drop"
          /\ \A w \in Visits \ {v} : visit'[w] = visit[w]
          /\ visit'[v].step = "issue" /\ visit'[v].code = sent + 1
      BY <1>0, <2>1 DEF DropCodes, VisitRecords
    <3>2. \A w \in Visits : Sends(w, c)' <=> Sends(w, c) \/ (w = v /\ c = sent + 1)
      BY <3>1 DEF Sends
    <3>3. ASSUME c > sent' \/ (\E w \in Visits : Sends(w, c)')
          PROVE  c \notin codes' /\ opened'[c] = 0 /\ Holders(c)' = {}
      <4>1. c > sent \/ (\E w \in Visits : Sends(w, c))
        BY <3>1, <3>2, <3>3
      <4> QED
        BY <2>0, <3>1, <4>1 DEF SingleUseOf
    <3>4. ASSUME NEW w \in Visits, NEW u \in Visits, Sends(w, c)'
          PROVE  c <= sent' /\ (Sends(u, c)' => w = u)
      <4>1. \A x, y \in Visits : Sends(x, c) => c <= sent /\ (Sends(y, c) => x = y)
        BY <2>0 DEF SingleUseOf
      <4>2. CASE c = sent + 1
        BY <3>1, <3>2, <3>4, <4>1, <4>2
      <4>3. CASE c # sent + 1
        BY <3>1, <3>2, <3>4, <4>1, <4>3
      <4> QED
        BY <4>2, <4>3
    <3>5. \A w \in Holders(c) : w \in Visits /\ w # v
      BY <3>1 DEF Holders
    <3>6. c \in codes' => opened'[c] = 0 /\ \A w \in Holders(c)' : visit'[w].step = "consume"
      BY <2>0, <3>1, <3>5 DEF SingleUseOf
    <3> QED
      BY <3>3, <3>4, <3>6 DEF SingleUseOf
  <2>2. CASE IssueCode(v)
    <3>1. /\ sent' = sent /\ codes' \subseteq codes \cup {visit[v].code} /\ visit[v].step = "issue"
          /\ \A w \in Visits \ {v} : visit'[w] = visit[w]
          /\ visit'[v].step = "idle"
      BY <1>0, <2>2 DEF IssueCode, Leave
    <3>2. \A w \in Visits : Sends(w, c)' => Sends(w, c) /\ w # v
      BY <3>1 DEF Sends
    <3>3. CASE Sends(v, c)
      <4>1. opened[c] = 0 /\ Holders(c) = {} /\ c <= sent /\ \A w \in Visits : ~Sends(w, c)'
        BY <2>0, <3>2, <3>3 DEF SingleUseOf
      <4> QED
        BY <2>0, <3>1, <4>1 DEF SingleUseOf
    <3>4. CASE ~Sends(v, c)
      <4>1. c \in codes' => c \in codes
        BY <3>1, <3>4 DEF Sends
      <4>2. \A w \in Holders(c) : w \in Visits /\ w # v
        BY <3>1 DEF Holders
      <4>3. c > sent' \/ (\E w \in Visits : Sends(w, c)') =>
              c \notin codes' /\ opened'[c] = 0 /\ Holders(c)' = {}
        BY <2>0, <3>1, <3>2, <4>1 DEF SingleUseOf
      <4>4. \A w, u \in Visits : Sends(w, c)' => c <= sent' /\ (Sends(u, c)' => w = u)
        BY <2>0, <3>1, <3>2 DEF SingleUseOf
      <4>5. c \in codes' => opened'[c] = 0 /\ \A w \in Holders(c)' : visit'[w].step = "consume"
        BY <2>0, <3>1, <4>1, <4>2 DEF SingleUseOf
      <4> QED
        BY <4>3, <4>4, <4>5 DEF SingleUseOf
    <3> QED
      BY <3>3, <3>4
  <2> QED
    BY <2>1, <2>2
<1> QED
  BY <1>1, <1>2, <1>3 DEF SingleUse

\* A code found is one nobody sends, that opened nothing yet.
LEMMA FindingKeepsSingleUse ==
  ASSUME Typed, SingleUse, NEW v \in Visits, RightCode(v)
  PROVE  SingleUse'
<1> USE NumbersOK
<1>0. visit \in [Visits -> VisitRecords] /\ codes \subseteq CodeNumbers
  BY DEF Typed, RowsOK
<1>1. PICK d \in codes \ lapsed :
        visit' = [visit EXCEPT ![v].step = "consume", ![v].code = d, ![v].live = enabled]
  BY DEF RightCode
<1>2. /\ UNCHANGED <<codes, sent, opened, authLimit>> /\ visit[v].step = "compare"
      /\ \A w \in Visits \ {v} : visit'[w] = visit[w]
      /\ visit'[v].step = "consume" /\ visit'[v].code = d
  BY <1>0, <1>1 DEF RightCode, At, VisitRecords
<1>3. Cardinality(Busy)' <= authLimit'
  BY <1>2, BusyShrinks
<1>4. ASSUME NEW c \in CodeNumbers
      PROVE  SingleUseOf(c)' /\ opened'[c] + Cardinality(Holders(c))' <= authLimit'
  <2>0. SingleUseOf(c) /\ opened[c] + Cardinality(Holders(c)) <= authLimit
    BY DEF SingleUse
  <2>1. \A w \in Visits : Sends(w, c)' <=> Sends(w, c)
    BY <1>2 DEF Sends
  <2>2. CASE c = d
    <3>1. c \in codes /\ opened[c] = 0 /\ c <= sent /\ \A w \in Visits : ~Sends(w, c)
      BY <2>0, <2>2 DEF SingleUseOf
    <3>2. \A w \in Holders(c) : visit[w].step = "consume"
      BY <2>0, <3>1 DEF SingleUseOf
    <3>3. Holders(c)' = Holders(c) \cup {v}
      BY <1>2, <2>2 DEF Holders
    <3>4. \A w \in Holders(c)' : visit'[w].step = "consume"
      BY <1>2, <3>2, <3>3 DEF Holders
    <3>5. SingleUseOf(c)'
      BY <1>2, <2>1, <3>1, <3>4 DEF SingleUseOf
    <3>6. Holders(c)' \in SUBSET Busy' /\ Busy' \in SUBSET Visits
      BY DEF Holders, Busy, At
    <3>7. Cardinality(Holders(c)') <= Cardinality(Busy') /\ Cardinality(Busy') \in Nat
          /\ Cardinality(Holders(c)') \in Nat
      BY <3>6, AuthAssumption, FS_Subset, FS_CardinalityType DEF AuthAssumption
    <3>8. opened'[c] + Cardinality(Holders(c))' <= authLimit'
      BY <1>2, <1>3, <3>1, <3>7
    <3> QED
      BY <3>5, <3>8
  <2>3. CASE c # d
    <3>1. Holders(c)' = Holders(c) /\ v \notin Holders(c)
      BY <1>2, <2>3 DEF Holders
    <3>2. \A w \in Holders(c) : w \in Visits /\ visit'[w] = visit[w]
      BY <1>2, <3>1 DEF Holders
    <3> QED
      BY <1>2, <2>0, <2>1, <3>1, <3>2 DEF SingleUseOf
  <2> QED
    BY <2>2, <2>3
<1> QED
  BY <1>3, <1>4 DEF SingleUse

\* Once its codes are deleted a visit opens its session at most.
LEMMA ConsumingKeepsSingleUse ==
  ASSUME Typed, Typed', SingleUse, NEW v \in Visits, Consume(v)
  PROVE  SingleUse'
<1>0. visit \in [Visits -> VisitRecords]
  BY DEF Typed
<1>1. /\ UNCHANGED <<sent, opened, authLimit>> /\ visit[v].step = "consume" /\ codes' = {}
      /\ \A w \in Visits \ {v} : visit'[w] = visit[w]
  BY <1>0 DEF Consume, At, GoTo, Attempt
<1>2. visit'[v].step = "hit" \/ (visit'[v].step = "admit" /\ visit'[v].code = visit[v].code)
  <2>1. CASE visit[v].live
    BY <1>0, <2>1 DEF Consume, GoTo, VisitRecords
  <2>2. CASE ~visit[v].live
    BY <1>0, <2>2 DEF Consume, Attempt, NoVisit
  <2> QED
    BY <2>1, <2>2
<1>3. Cardinality(Busy)' <= authLimit'
  BY <1>1, BusyShrinks
<1>4. \A w \in Visits, c \in CodeNumbers :
        /\ Sends(w, c)' => Sends(w, c)
        /\ w \in Holders(c)' => w \in Holders(c)
  BY <1>1, <1>2 DEF Sends, Holders
<1> QED
  BY <1>1, <1>3, <1>4, OthersKeepSingleUse

\* The session opened takes the place of the visit that held the code.
LEMMA AdmittingKeepsSingleUse ==
  ASSUME Typed, SingleUse, NEW v \in Visits, Admit(v)
  PROVE  SingleUse'
<1> USE NumbersOK
<1>0. visit \in [Visits -> VisitRecords] /\ opened \in [CodeNumbers -> Nat]
  BY DEF Typed, RowsOK
<1> DEFINE d == visit[v].code
<1>1. /\ UNCHANGED <<codes, sent, authLimit>> /\ visit[v].step = "admit" /\ d \in CodeNumbers
      /\ \A w \in Visits \ {v} : visit'[w] = visit[w]
      /\ visit'[v].step = "idle"
      /\ opened' = [opened EXCEPT ![d] = @ + 1]
  BY <1>0 DEF Admit, Leave, At, NoVisit, Typed, CodesNamed
<1> HIDE DEF d
<1>2. Cardinality(Busy)' <= authLimit'
  BY <1>1, BusyShrinks
<1>3. ASSUME NEW c \in CodeNumbers
      PROVE  SingleUseOf(c)' /\ opened'[c] + Cardinality(Holders(c))' <= authLimit'
  <2>0. SingleUseOf(c) /\ opened[c] + Cardinality(Holders(c)) <= authLimit
    BY DEF SingleUse
  <2>1. \A w \in Visits : Sends(w, c)' <=> Sends(w, c)
    BY <1>1 DEF Sends
  <2>2. Holders(c)' = Holders(c) \ {v} /\ Holders(c) \subseteq Visits
    BY <1>1 DEF Holders
  <2>3. CASE c = d
    <3>1. v \in Holders(c)
      BY <1>1, <2>3 DEF Holders, d
    <3>2. c \notin codes /\ ~(c > sent) /\ \A w \in Visits : ~Sends(w, c)
      BY <1>1, <2>0, <3>1 DEF SingleUseOf
    <3>3. SingleUseOf(c)'
      BY <1>1, <2>1, <3>2 DEF SingleUseOf
    <3>4. Cardinality(Holders(c) \ {v}) = Cardinality(Holders(c)) - 1
      BY <3>1, BusyIsFinite, FS_RemoveElement
    <3>5. opened'[c] + Cardinality(Holders(c))' <= authLimit'
      BY <1>0, <1>1, <2>0, <2>2, <2>3, <3>4, BusyIsFinite
    <3> QED
      BY <3>3, <3>5
  <2>4. CASE c # d
    <3>1. v \notin Holders(c) /\ opened'[c] = opened[c]
      BY <1>0, <1>1, <2>4 DEF Holders, d
    <3>2. Holders(c)' = Holders(c) /\ \A w \in Holders(c) : visit'[w] = visit[w]
      BY <1>1, <2>2, <3>1
    <3> QED
      BY <1>1, <2>0, <2>1, <3>1, <3>2 DEF SingleUseOf
  <2> QED
    BY <2>3, <2>4
<1> QED
  BY <1>2, <1>3 DEF SingleUse

LEMMA NextSingleUse == Typed /\ SingleUse /\ [AuthNext]_authVars => SingleUse'
<1> SUFFICES ASSUME Typed, SingleUse, [AuthNext]_authVars PROVE SingleUse'
  OBVIOUS
<1>0. Typed' /\ visit \in [Visits -> VisitRecords]
  BY NextTyped DEF Typed
<1>1. ASSUME codes' \subseteq codes, UNCHANGED <<sent, opened, authLimit, visit>>
      PROVE  SingleUse'
  BY <1>0, <1>1, BusyShrinks, OthersKeepSingleUse DEF Sends, Holders
<1>2. ASSUME NEW v \in Visits, ~At(v, "idle"),
             codes' \subseteq codes, UNCHANGED <<sent, opened, authLimit>>,
             \A w \in Visits \ {v} : visit'[w] = visit[w],
             visit'[v].step \notin {"issue", "consume", "admit"}
      PROVE  SingleUse'
  BY <1>0, <1>2, BusyShrinks, LeavingKeepsSingleUse DEF At
<1>3. ASSUME NEW v \in Visits, MayEnter(v), UNCHANGED <<codes, sent, opened, authLimit>>,
             \A w \in Visits \ {v} : visit'[w] = visit[w],
             visit'[v].step \notin {"issue", "consume", "admit"}
      PROVE  SingleUse'
  BY <1>0, <1>3, BusyStarts, LeavingKeepsSingleUse
<1> USE <1>0
<1>4. CASE FollowLink \/ LapseLink \/ ResendLink \/ SwitchAccount \/ UNCHANGED authVars
  BY <1>1, <1>4 DEF FollowLink, LapseLink, ResendLink, SwitchAccount, authVars
<1>5. ASSUME NEW c \in CodeNumbers, LapseCode(c) PROVE SingleUse'
  BY <1>1, <1>5 DEF LapseCode
<1>6. ASSUME NEW s \in Scopes, CloseWindow(s) PROVE SingleUse'
  BY <1>1, <1>6 DEF CloseWindow
<1>7. ASSUME NEW v \in Visits, Login(v) \/ Verify(v) PROVE SingleUse'
  BY <1>3, <1>7 DEF Login, Verify, GoTo, VisitRecords
<1>8. ASSUME NEW v \in Visits, Resend(v) PROVE SingleUse'
  <2>1. \E then \in {"idle", "drop"} : Attempt(v, "otp", then)
    BY <1>8 DEF Resend
  <2>2. visit'[v].step = "hit" /\ \A w \in Visits \ {v} : visit'[w] = visit[w]
    BY <2>1 DEF Attempt, NoVisit
  <2> QED
    BY <1>3, <1>8, <2>2 DEF Resend
<1>9. ASSUME NEW v \in Visits, WrongPassword(v) \/ WrongCode(v) PROVE SingleUse'
  BY <1>2, <1>9 DEF WrongPassword, WrongCode, Attempt, NoVisit, At
<1>10. ASSUME NEW v \in Visits, RightPassword(v) \/ FindPendingCode(v) PROVE SingleUse'
  <2>1. GoTo(v, "pending") \/ Leave(v) \/ Attempt(v, "otp", "drop")
    BY <1>10 DEF RightPassword, FindPendingCode
  <2>2. /\ visit'[v].step \in {"pending", "idle", "hit"}
        /\ \A w \in Visits \ {v} : visit'[w] = visit[w]
    <3>1. CASE GoTo(v, "pending")
      BY <3>1 DEF GoTo, VisitRecords
    <3>2. CASE Leave(v)
      BY <3>2 DEF Leave, NoVisit
    <3>3. CASE Attempt(v, "otp", "drop")
      BY <3>3 DEF Attempt, NoVisit
    <3> QED
      BY <2>1, <3>1, <3>2, <3>3
  <2>3. ~At(v, "idle") /\ UNCHANGED <<codes, sent, opened, authLimit>>
    BY <1>10 DEF RightPassword, FindPendingCode, At
  <2> QED
    BY <1>2, <2>2, <2>3
<1>11. ASSUME NEW v \in Visits, LoseVisit(v) \/ Hit(v) PROVE SingleUse'
  <2>1. CASE LoseVisit(v)
    BY <1>2, <2>1 DEF LoseVisit, Leave, NoVisit, At
  <2>2. CASE Hit(v)
    BY <1>2, <2>2 DEF Hit, VisitRecords, At
  <2> QED
    BY <1>11, <2>1, <2>2
<1>12. ASSUME NEW v \in Visits, Count(v) PROVE SingleUse'
  <2>1. visit'[v].step \in {"idle", "drop"} /\ \A w \in Visits \ {v} : visit'[w] = visit[w]
    BY <1>12 DEF Count, NoVisit, VisitRecords
  <2> QED
    BY <1>2, <1>12, <2>1 DEF Count, At
<1>13. ASSUME NEW v \in Visits, DropCodes(v) \/ IssueCode(v) \/ RightCode(v) PROVE SingleUse'
  BY <1>13, SendingKeepsSingleUse, FindingKeepsSingleUse
<1>14. ASSUME NEW v \in Visits, Consume(v) \/ Admit(v) PROVE SingleUse'
  BY <1>14, ConsumingKeepsSingleUse, AdmittingKeepsSingleUse
<1> QED
  BY <1>4, <1>5, <1>6, <1>7, <1>8, <1>9, <1>10, <1>11, <1>12, <1>13, <1>14 DEF AuthNext

\* A code opens no more sessions than there are visits in progress at once: one
\* when they do not overlap (LoginOtpService.verify, verifyLoginOtp).
THEOREM CodesOpenOnce == AuthSpec => []CodeOpensOnce
<1>1. AuthInit => Typed /\ SingleUse
  BY InitTyped, InitSingleUse
<1>2. Typed /\ SingleUse /\ [AuthNext]_authVars => Typed' /\ SingleUse'
  BY NextTyped, NextSingleUse
<1>3. Typed /\ SingleUse => CodeOpensOnce
  BY NumbersOK, BusyIsFinite DEF SingleUse, CodeOpensOnce
<1> QED
  BY <1>1, <1>2, <1>3, PTL DEF AuthSpec

-----------------------------------------------------------------------------
(* Wrong codes are bounded.  Two kinds of visits may still count one: the   *)
(* stale ones, which found no window and will restart the count at 1, and   *)
(* the others, which will increment it.  Between two restarts the counter   *)
(* climbs to MAX_ATTEMPTS - 1 one visit at a time, and every place not held *)
(* by a stale visit may then be taken before the counter blocks; each       *)
(* restart frees one place more for the next round.                         *)

Tries == counter["otp_verify"]

IsStale(q) == q.step = "count" /\ q.scope = "otp_verify" /\ ~q.live

IsTrying(q) ==
  \/ q.step \in {"compare", "consume"}
  \/ q.step \in {"hit", "count"} /\ q.scope = "otp_verify" /\ ~IsStale(q)

Stale == {v \in Visits : IsStale(visit[v])}

Trying == {v \in Visits : IsTrying(visit[v])}

\* Wrong codes left to this round, after k, with s stale visits and p others.
Round(k, s, p) ==
  IF k < MaxAttempts THEN MaxAttempts - k - 1 + authLimit - s ELSE p

\* Twice those of the s rounds that the stale visits will open.
Rounds(s) == s * (2 * MaxAttempts + 2 * authLimit - s - 1)

Budget == authLimit * (2 * MaxAttempts + authLimit - 1)

Fits(k, t, s, p) ==
  /\ k = 0 => t = 0
  /\ k > 0 => 2 * t + 2 * Round(k, s, p) + Rounds(s) <= Budget

TriesInv == Fits(Tries, tried, Cardinality(Stale), Cardinality(Trying))

LEMMA BoundsOK == MaxAttempts \in Nat \ {0} /\ (Typed => authLimit \in Nat \ {0})
BY AuthAssumption DEF AuthAssumption, Typed, RowsOK

\* One stale visit less: the round it would have opened is worth one more place.
LEMMA RoundOpened ==
  ASSUME MaxAttempts \in Nat \ {0}, authLimit \in Nat \ {0}, NEW s \in Nat, 0 < s
  PROVE  Rounds(s) - Rounds(s - 1) = 2 * (MaxAttempts + authLimit - s)
<1>1. \A a \in Int : (s - 1) * a = s * a - a
  OBVIOUS
<1>2. Rounds(s - 1) = (s - 1) * (2 * MaxAttempts + 2 * authLimit - s)
  BY DEF Rounds
<1>3. \A a \in Int : s * (a - 1) = s * a - s
  OBVIOUS
<1>4. Rounds(s) = s * ((2 * MaxAttempts + 2 * authLimit - s) - 1)
  BY DEF Rounds
<1> DEFINE a == 2 * MaxAttempts + 2 * authLimit - s
<1>5. a \in Int
  OBVIOUS
<1>6. Rounds(s - 1) = s * a - a /\ Rounds(s) = s * a - s
  BY <1>1, <1>2, <1>3, <1>4, <1>5
<1>7. s * a \in Int
  BY <1>5
<1> QED
  BY <1>6, <1>7

\* No number of stale visits is worth more than the budget.
LEMMA RoundsFit ==
  ASSUME MaxAttempts \in Nat \ {0}, authLimit \in Nat \ {0}, NEW s \in Nat, s <= authLimit
  PROVE  Rounds(s) <= Budget
<1> DEFINE d == authLimit - s
<1>1. d \in Nat /\ authLimit = s + d
  OBVIOUS
<1>2. Budget - Rounds(s) = d * (2 * MaxAttempts + d - 1)
  <2>1. Budget = (s + d) * (2 * MaxAttempts + s + d - 1)
    BY <1>1 DEF Budget
  <2>2. Rounds(s) = s * (2 * MaxAttempts + s + 2 * d - 1)
    BY <1>1 DEF Rounds
  <2> HIDE DEF d
  <2> QED
    BY <1>1, <2>1, <2>2
<1>3. 2 * MaxAttempts + d - 1 \in Nat
  BY <1>1
<1>4. d * (2 * MaxAttempts + d - 1) \in Nat
  BY <1>1, <1>3
<1>5. Budget \in Int /\ Rounds(s) \in Int
  BY DEF Budget, Rounds
<1> HIDE DEF d
<1> QED
  BY <1>2, <1>4, <1>5

\* What the four kinds of steps do to the count.
LEMMA CountFits ==
  ASSUME MaxAttempts \in Nat \ {0}, authLimit \in Nat \ {0},
         NEW k \in Nat, NEW t \in Nat, NEW s \in Nat, NEW p \in Nat, s + p <= authLimit,
         Fits(k, t, s, p)
  PROVE  /\ \A q \in Nat : q <= p \/ k < MaxAttempts => Fits(k, t, s, q)
         /\ 0 < s => Fits(k, t, s - 1, p)
         /\ 0 < p /\ 0 < k => Fits(k + 1, t + 1, s, p - 1)
         /\ 0 < s => Fits(1, t + 1, s - 1, p)
<1>0. Budget \in Int /\ \A n \in Int : Rounds(n) \in Int
  BY DEF Budget, Rounds
<1> HIDE DEF Rounds, Budget
<1> USE <1>0
<1>1. ASSUME NEW q \in Nat, q <= p \/ k < MaxAttempts PROVE Fits(k, t, s, q)
  BY <1>1 DEF Fits, Round
<1>2. ASSUME 0 < s PROVE Fits(k, t, s - 1, p)
  BY <1>2, RoundOpened DEF Fits, Round
<1>3. ASSUME 0 < p, 0 < k PROVE Fits(k + 1, t + 1, s, p - 1)
  BY <1>3 DEF Fits, Round
<1>4. ASSUME 0 < s PROVE Fits(1, t + 1, s - 1, p)
  <2>1. 1 + Round(1, s - 1, p) <= MaxAttempts + authLimit - s /\ Round(1, s - 1, p) \in Int
    BY <1>4 DEF Round
  <2>2. 2 + 2 * Round(1, s - 1, p) + Rounds(s - 1) <= Rounds(s)
    BY <1>4, <2>1, RoundOpened
  <2>3. CASE k = 0
    BY <1>4, <2>1, <2>2, <2>3, RoundsFit DEF Fits
  <2>4. CASE k > 0
    <3>1. Round(k, s, p) \in Nat
      BY <2>4 DEF Round
    <3> QED
      BY <2>1, <2>2, <2>4, <3>1 DEF Fits
  <2> QED
    BY <2>3, <2>4
<1> QED
  BY <1>1, <1>2, <1>3, <1>4

LEMMA TriesCounted ==
  ASSUME Typed, SingleUse
  PROVE  /\ Tries \in Nat /\ tried \in Nat
         /\ IsFiniteSet(Stale) /\ Cardinality(Stale) \in Nat
         /\ IsFiniteSet(Trying) /\ Cardinality(Trying) \in Nat
         /\ Cardinality(Stale) + Cardinality(Trying) <= authLimit
<1>1. Tries \in Nat /\ tried \in Nat
  BY DEF Typed, RowsOK, Tries, Scopes
<1>2. Stale \in SUBSET Busy /\ Trying \in SUBSET Busy /\ Stale \cap Trying = {}
  BY DEF Stale, Trying, IsStale, IsTrying, Busy, At
<1>3. /\ IsFiniteSet(Stale) /\ Cardinality(Stale) \in Nat
      /\ IsFiniteSet(Trying) /\ Cardinality(Trying) \in Nat
  BY <1>2, BusyIsFinite, FS_Subset, FS_CardinalityType
<1>4. Cardinality(Stale \cup Trying) = Cardinality(Stale) + Cardinality(Trying)
  BY <1>2, <1>3, FS_Union, FS_EmptySet
<1>5. Stale \cup Trying \in SUBSET Busy
  BY <1>2
<1>6. Cardinality(Stale \cup Trying) <= Cardinality(Busy)
  BY <1>5, BusyIsFinite, FS_Subset
<1> QED
  BY <1>1, <1>3, <1>4, <1>6, BusyIsFinite, NumbersOK DEF SingleUse

\* What a step makes of the count, in the numbers before it.
LEMMA FitsAfter ==
  ASSUME UNCHANGED authLimit, NEW k, NEW t, NEW s, NEW p, Fits(k, t, s, p),
         Tries' = k, tried' = t, Cardinality(Stale)' = s, Cardinality(Trying)' = p
  PROVE  TriesInv'
BY DEF TriesInv, Fits, Round, Rounds, Budget

\* A step that counts nothing, of a visit that was no stale one.
LEMMA QuietKeepsTries ==
  ASSUME Typed, SingleUse, TriesInv, UNCHANGED <<tried, authLimit>>,
         Tries' = Tries, NEW v \in Visits, \A w \in Visits \ {v} : visit'[w] = visit[w],
         IsStale(visit'[v]) <=> IsStale(visit[v]),
         IsTrying(visit'[v]) => IsTrying(visit[v]) \/ Tries < MaxAttempts
  PROVE  TriesInv'
<1>1. Stale' = Stale
  BY DEF Stale
<1>2. Tries < MaxAttempts \/ Trying' \in SUBSET Trying
  BY DEF Trying
<1>3. Tries < MaxAttempts \/ Cardinality(Trying') <= Cardinality(Trying)
  BY <1>2, TriesCounted, FS_Subset
<1>4. Cardinality(Trying)' \in Nat
  <2>1. Trying' \in SUBSET Visits
    BY DEF Trying
  <2> QED
    BY <2>1, AuthAssumption, FS_Subset, FS_CardinalityType DEF AuthAssumption
<1>5. Fits(Tries, tried, Cardinality(Stale), Cardinality(Trying)')
  BY <1>3, <1>4, BoundsOK, TriesCounted, CountFits DEF TriesInv
<1> QED
  BY <1>1, <1>5, FitsAfter

\* A visit that stops being stale, or trying.
LEMMA VisitStops ==
  ASSUME Typed, SingleUse, NEW v \in Visits, \A w \in Visits \ {v} : visit'[w] = visit[w],
         ~IsStale(visit'[v]), ~IsTrying(visit'[v])
  PROVE  /\ IsStale(visit[v]) =>
              /\ Cardinality(Stale)' = Cardinality(Stale) - 1 /\ 0 < Cardinality(Stale)
              /\ Cardinality(Trying)' = Cardinality(Trying)
         /\ IsTrying(visit[v]) =>
              /\ Cardinality(Trying)' = Cardinality(Trying) - 1 /\ 0 < Cardinality(Trying)
              /\ Cardinality(Stale)' = Cardinality(Stale)
<1>1. ASSUME IsStale(visit[v])
      PROVE  v \in Stale /\ Stale' = Stale \ {v} /\ Trying' = Trying
  BY <1>1 DEF Stale, Trying, IsTrying, IsStale
<1>2. ASSUME IsTrying(visit[v])
      PROVE  v \in Trying /\ Trying' = Trying \ {v} /\ Stale' = Stale
  BY <1>2 DEF Stale, Trying, IsTrying, IsStale
<1>3. ASSUME NEW S, IsFiniteSet(S), v \in S
      PROVE  Cardinality(S \ {v}) = Cardinality(S) - 1 /\ 0 < Cardinality(S)
  BY <1>3, FS_RemoveElement, FS_EmptySet, FS_CardinalityType
<1> QED
  BY <1>1, <1>2, <1>3, TriesCounted

\* A stale visit restarts the count, the others increment a live one.
LEMMA CountKeepsTries ==
  ASSUME Typed, SingleUse, TriesInv, NEW v \in Visits, Count(v)
  PROVE  TriesInv'
<1>0. visit \in [Visits -> VisitRecords] /\ counter \in [Scopes -> Nat]
  BY DEF Typed, RowsOK
<1>1. /\ UNCHANGED authLimit /\ \A w \in Visits \ {v} : visit'[w] = visit[w]
      /\ visit[v].step = "count" /\ visit[v].scope \in Scopes /\ visit[v].live \in BOOLEAN
      /\ visit'[v].step \in {"idle", "drop"}
  BY <1>0 DEF Count, At, NoVisit, VisitRecords
<1>2. ~IsStale(visit'[v]) /\ ~IsTrying(visit'[v])
  BY <1>1 DEF IsStale, IsTrying
<1>3. CASE visit[v].scope # "otp_verify"
  <2>1. Tries' = Tries /\ tried' = tried
    BY <1>0, <1>1, <1>3 DEF Count, Tries, Scopes
  <2>2. ~IsStale(visit[v])
    BY <1>3 DEF IsStale
  <2> QED
    BY <1>1, <1>2, <2>1, <2>2, QuietKeepsTries
<1>4. CASE visit[v].scope = "otp_verify" /\ visit[v].live /\ Tries = 0
  <2>1. Tries' = Tries /\ tried' = tried
    BY <1>0, <1>1, <1>4 DEF Count, Tries, Scopes, Counted
  <2>2. ~IsStale(visit[v])
    BY <1>4 DEF IsStale
  <2> QED
    BY <1>1, <1>2, <2>1, <2>2, QuietKeepsTries
<1>5. CASE visit[v].scope = "otp_verify" /\ visit[v].live /\ Tries > 0
  <2>1. Tries' = Tries + 1 /\ tried' = tried + 1
    BY <1>0, <1>1, <1>5 DEF Count, Tries, Scopes, Counted
  <2>2. IsTrying(visit[v])
    BY <1>1, <1>5 DEF IsTrying, IsStale
  <2>3. /\ Cardinality(Trying)' = Cardinality(Trying) - 1 /\ 0 < Cardinality(Trying)
        /\ Cardinality(Stale)' = Cardinality(Stale)
    BY <1>1, <1>2, <2>2, VisitStops
  <2>4. Fits(Tries + 1, tried + 1, Cardinality(Stale), Cardinality(Trying) - 1)
    BY <1>5, <2>3, BoundsOK, TriesCounted, CountFits DEF TriesInv
  <2> QED
    BY <1>1, <2>1, <2>3, <2>4, FitsAfter
<1>6. CASE visit[v].scope = "otp_verify" /\ ~visit[v].live
  <2>1. Tries' = 1 /\ tried' = tried + 1
    BY <1>0, <1>1, <1>6 DEF Count, Tries, Scopes, Counted
  <2>2. IsStale(visit[v])
    BY <1>1, <1>6 DEF IsStale
  <2>3. /\ Cardinality(Stale)' = Cardinality(Stale) - 1 /\ 0 < Cardinality(Stale)
        /\ Cardinality(Trying)' = Cardinality(Trying)
    BY <1>1, <1>2, <2>2, VisitStops
  <2>4. Fits(1, tried + 1, Cardinality(Stale) - 1, Cardinality(Trying))
    BY <2>3, BoundsOK, TriesCounted, CountFits DEF TriesInv
  <2> QED
    BY <1>1, <2>1, <2>3, <2>4, FitsAfter
<1> QED
  BY <1>1, <1>3, <1>4, <1>5, <1>6, TriesCounted

\* The place of a stale visit that is lost.
LEMMA LosingKeepsTries ==
  ASSUME Typed, SingleUse, TriesInv, NEW v \in Visits, LoseVisit(v)
  PROVE  TriesInv'
<1>0. visit \in [Visits -> VisitRecords]
  BY DEF Typed
<1>1. /\ UNCHANGED <<tried, authLimit>> /\ Tries' = Tries
      /\ \A w \in Visits \ {v} : visit'[w] = visit[w]
      /\ visit'[v].step = "idle"
  BY <1>0 DEF LoseVisit, Leave, NoVisit, Tries
<1>2. ~IsStale(visit'[v]) /\ ~IsTrying(visit'[v])
  BY <1>1 DEF IsStale, IsTrying
<1>3. CASE IsStale(visit[v])
  <2>1. /\ Cardinality(Stale)' = Cardinality(Stale) - 1 /\ 0 < Cardinality(Stale)
        /\ Cardinality(Trying)' = Cardinality(Trying)
    BY <1>1, <1>2, <1>3, VisitStops
  <2>2. Fits(Tries, tried, Cardinality(Stale) - 1, Cardinality(Trying))
    BY <2>1, BoundsOK, TriesCounted, CountFits DEF TriesInv
  <2> QED
    BY <1>1, <2>1, <2>2, FitsAfter
<1>4. CASE ~IsStale(visit[v])
  BY <1>1, <1>2, <1>4, QuietKeepsTries
<1> QED
  BY <1>3, <1>4

LEMMA InitTriesInv == AuthInit => TriesInv
<1> SUFFICES ASSUME AuthInit PROVE TriesInv
  OBVIOUS
<1>1. Tries = 0 /\ tried = 0
  BY DEF AuthInit, Tries, Scopes
<1> QED
  BY <1>1 DEF TriesInv, Fits

LEMMA NextTriesInv ==
  Typed /\ SingleUse /\ TriesInv /\ [AuthNext]_authVars => TriesInv'
<1> SUFFICES ASSUME Typed, SingleUse, TriesInv, [AuthNext]_authVars PROVE TriesInv'
  OBVIOUS
<1>0. visit \in [Visits -> VisitRecords] /\ counter \in [Scopes -> Nat]
  BY DEF Typed, RowsOK
<1> USE <1>0
<1>1. ASSUME Tries' = Tries, UNCHANGED <<tried, authLimit, visit>> PROVE TriesInv'
  BY <1>1 DEF TriesInv, Fits, Round, Rounds, Budget, Stale, Trying
<1>2. ASSUME Tries' = 0, tried' = 0 PROVE TriesInv'
  BY <1>2 DEF TriesInv, Fits
\* Most steps: a visit that takes its place among the others, or leaves.
<1>3. ASSUME NEW v \in Visits, Tries' = Tries, UNCHANGED <<tried, authLimit>>,
             \A w \in Visits \ {v} : visit'[w] = visit[w],
             ~IsStale(visit[v]), ~IsStale(visit'[v]),
             IsTrying(visit'[v]) => IsTrying(visit[v]) \/ Tries < MaxAttempts
      PROVE  TriesInv'
  BY <1>3, QuietKeepsTries
<1>4. CASE FollowLink \/ LapseLink \/ ResendLink \/ SwitchAccount \/ UNCHANGED authVars
  BY <1>1, <1>4 DEF FollowLink, LapseLink, ResendLink, SwitchAccount, authVars, Tries
<1>5. ASSUME NEW c \in CodeNumbers, LapseCode(c) PROVE TriesInv'
  BY <1>1, <1>5 DEF LapseCode, Tries
<1>6. ASSUME NEW s \in Scopes, CloseWindow(s) PROVE TriesInv'
  <2>1. CASE s = "otp_verify"
    BY <1>2, <1>6, <2>1 DEF CloseWindow, Tries
  <2>2. CASE s # "otp_verify"
    BY <1>1, <1>6, <2>2 DEF CloseWindow, Tries
  <2> QED
    BY <2>1, <2>2
<1>7. ASSUME NEW v \in Visits, Login(v) \/ Verify(v) PROVE TriesInv'
  <2>1. /\ visit[v].step = "idle" /\ \A w \in Visits \ {v} : visit'[w] = visit[w]
        /\ \/ Login(v) /\ visit'[v].step = "password"
           \/ Verify(v) /\ visit'[v].step = "compare"
        /\ UNCHANGED <<counter, tried, authLimit>>
    BY <1>7 DEF Login, Verify, MayEnter, At, GoTo, VisitRecords
  <2>2. Verify(v) => Tries < MaxAttempts
    BY AuthAssumption DEF Verify, Blocked, Tries, Scopes, AuthAssumption
  <2> QED
    BY <1>3, <2>1, <2>2 DEF IsStale, IsTrying, Tries
<1>8. ASSUME NEW v \in Visits, Resend(v) \/ WrongPassword(v) \/ RightPassword(v) \/ FindPendingCode(v)
      PROVE  TriesInv'
  <2>1. visit[v].step \in {"idle", "password", "pending"}
    BY <1>8 DEF Resend, MayEnter, WrongPassword, RightPassword, FindPendingCode, At
  <2>2. GoTo(v, "pending") \/ Leave(v) \/
          \E scope \in {"email", "otp"}, then \in {"idle", "drop"} : Attempt(v, scope, then)
    BY <1>8 DEF Resend, WrongPassword, RightPassword, FindPendingCode
  <2>3. /\ \A w \in Visits \ {v} : visit'[w] = visit[w]
        /\ \/ visit'[v].step \in {"pending", "idle"}
           \/ visit'[v].step = "hit" /\ visit'[v].scope \in {"email", "otp"}
    <3>1. CASE GoTo(v, "pending")
      BY <3>1 DEF GoTo, VisitRecords
    <3>2. CASE Leave(v)
      BY <3>2 DEF Leave, NoVisit
    <3>3. CASE \E scope \in {"email", "otp"}, then \in {"idle", "drop"} : Attempt(v, scope, then)
      BY <3>3 DEF Attempt, NoVisit
    <3> QED
      BY <2>2, <3>1, <3>2, <3>3
  <2>4. Tries' = Tries /\ UNCHANGED <<tried, authLimit>>
    BY <1>8 DEF Resend, WrongPassword, RightPassword, FindPendingCode, Tries, Scopes
  <2> QED
    BY <1>3, <2>1, <2>3, <2>4 DEF IsStale, IsTrying
<1>9. ASSUME NEW v \in Visits, DropCodes(v) \/ IssueCode(v) PROVE TriesInv'
  <2>1. /\ visit[v].step \in {"drop", "issue"} /\ visit'[v].step \in {"issue", "idle"}
        /\ \A w \in Visits \ {v} : visit'[w] = visit[w]
        /\ UNCHANGED <<counter, tried, authLimit>>
    BY <1>9 DEF DropCodes, IssueCode, At, Leave, NoVisit, VisitRecords
  <2> QED
    BY <1>3, <2>1 DEF IsStale, IsTrying, Tries
<1>10. ASSUME NEW v \in Visits, WrongCode(v) \/ RightCode(v) \/ Consume(v) PROVE TriesInv'
  <2>1. visit[v].step \in {"compare", "consume"} /\ UNCHANGED <<counter, tried, authLimit>>
    BY <1>10 DEF WrongCode, RightCode, Consume, At
  <2>2. visit'[v].step \in {"hit", "consume", "admit"} /\ \A w \in Visits \ {v} : visit'[w] = visit[w]
    <3>1. CASE Attempt(v, "otp_verify", "idle")
      BY <3>1 DEF Attempt, NoVisit
    <3>2. CASE GoTo(v, "admit")
      BY <3>2 DEF GoTo, VisitRecords
    <3>3. CASE RightCode(v)
      BY <3>3 DEF RightCode, VisitRecords
    <3> QED
      BY <1>10, <3>1, <3>2, <3>3 DEF WrongCode, Consume
  <2> QED
    BY <1>3, <2>1, <2>2 DEF IsStale, IsTrying, Tries
<1>11. ASSUME NEW v \in Visits, Admit(v) PROVE TriesInv'
  BY <1>2, <1>11 DEF Admit, Tries, Scopes
\* A window found closed makes the visit a stale one only while nothing is counted.
<1>12. ASSUME NEW v \in Visits, Hit(v) PROVE TriesInv'
  <2>1. /\ visit[v].step = "hit" /\ visit'[v].step = "count"
        /\ visit'[v].scope = visit[v].scope /\ visit'[v].live = (counter[visit[v].scope] > 0)
        /\ \A w \in Visits \ {v} : visit'[w] = visit[w]
        /\ UNCHANGED <<counter, tried, authLimit>>
    BY <1>12 DEF Hit, At, VisitRecords
  <2>2. CASE Tries = 0
    <3>1. Tries' = 0 /\ tried' = 0
      BY <2>1, <2>2 DEF TriesInv, Fits, Tries
    <3> QED
      BY <1>2, <3>1
  <2>3. CASE Tries # 0
    <3>1. Tries > 0
      BY <2>3, TriesCounted
    <3>2. visit[v].scope = "otp_verify" => visit'[v].live
      BY <2>1, <3>1 DEF Tries
    <3> QED
      BY <1>3, <2>1, <3>2 DEF IsStale, IsTrying, Tries
  <2> QED
    BY <2>2, <2>3
<1>13. ASSUME NEW v \in Visits, Count(v) \/ LoseVisit(v) PROVE TriesInv'
  BY <1>13, CountKeepsTries, LosingKeepsTries
<1> QED
  BY <1>4, <1>5, <1>6, <1>7, <1>8, <1>9, <1>10, <1>11, <1>12, <1>13 DEF AuthNext

\* However the visits overlap, no more wrong codes are answered within a window
\* than MAX_ATTEMPTS, less one, for each visit at once and one for each pair of
\* them allows: MAX_ATTEMPTS when they do not overlap (LoginThrottleService).
THEOREM AttemptsBounded == AuthSpec => []AttemptsAreBounded
<1>1. AuthInit => Typed /\ SingleUse /\ TriesInv
  BY InitTyped, InitSingleUse, InitTriesInv
<1>2. Typed /\ SingleUse /\ TriesInv /\ [AuthNext]_authVars => Typed' /\ SingleUse' /\ TriesInv'
  BY NextTyped, NextSingleUse, NextTriesInv
<1>3. Typed /\ SingleUse /\ TriesInv => AttemptsAreBounded
  <2> SUFFICES ASSUME Typed, SingleUse, TriesInv PROVE 2 * tried <= Budget
    BY DEF AttemptsAreBounded, Budget
  <2>1. /\ Tries \in Nat /\ tried \in Nat /\ authLimit \in Nat \ {0} /\ MaxAttempts \in Nat \ {0}
        /\ Cardinality(Stale) \in Nat /\ Cardinality(Trying) \in Nat
        /\ Cardinality(Stale) + Cardinality(Trying) <= authLimit
    BY BoundsOK, TriesCounted
  <2> DEFINE s == Cardinality(Stale)
             p == Cardinality(Trying)
  <2>2. Fits(Tries, tried, s, p) /\ s \in Nat /\ p \in Nat /\ s <= authLimit
    BY <2>1 DEF TriesInv
  <2> HIDE DEF s, p
  <2>3. Budget \in Nat
    <3>1. 2 * MaxAttempts + authLimit - 1 \in Nat
      BY <2>1
    <3> QED
      BY <2>1, <3>1 DEF Budget
  <2>4. CASE Tries = 0
    BY <2>2, <2>3, <2>4 DEF Fits
  <2>5. CASE Tries > 0
    <3>1. Round(Tries, s, p) \in Nat
      BY <2>1, <2>2 DEF Round
    <3>2. Rounds(s) \in Nat
      <4>1. 2 * MaxAttempts + 2 * authLimit - s - 1 \in Nat
        BY <2>1, <2>2
      <4> QED
        BY <2>2, <4>1 DEF Rounds
    <3> QED
      BY <2>1, <2>2, <2>3, <2>5, <3>1, <3>2 DEF Fits
  <2> QED
    BY <2>1, <2>4, <2>5
<1> QED
  BY <1>1, <1>2, <1>3, PTL DEF AuthSpec
=============================================================================
