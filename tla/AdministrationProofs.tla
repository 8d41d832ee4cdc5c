------------------------- MODULE AdministrationProofs -------------------------
(***************************************************************************)
(* The administration of a tenant and of the platform: theorems of Terms,  *)
(* Team, Providers and Setup, for any number of requests, members,         *)
(* providers and superadministrators.                                      *)
(***************************************************************************)
EXTENDS Terms, Team, Providers, Setup, FiniteSetTheorems, TLAPS

(***************************************************************************)
(* The distribution terms.                                                 *)
(***************************************************************************)

\* The versions committed are the first n, the last one is in force, and a
\* publication that may still insert its own has locked what is in force.
VersionsFollow(n) ==
  /\ published = 1 .. n
  /\ inForce = {v \in published : v = n}
  /\ \A p \in Publications :
       publication[p].step # "idle" =>
         /\ publication[p].latest <= n /\ publication[p].latest < MaxVersion
         /\ (publication[p].latest = n /\ publication[p].step = "deactivated")
              => publication[p].locked = inForce

TermsInv == TermsTypeOK /\ \E n \in 0 .. MaxVersion : VersionsFollow(n)

LEMMA InitTermsInv == TermsInit => TermsInv
<1> SUFFICES ASSUME TermsInit PROVE TermsInv
  OBVIOUS
<1> USE TermsAssumption DEF TermsAssumption, TermsInit, Versions, NotPublishing
<1>1. TermsTypeOK
  BY DEF TermsTypeOK
<1>2. CASE published = {}
  <2>1. VersionsFollow(0)
    BY <1>2 DEF VersionsFollow
  <2> QED
    BY <1>1, <2>1 DEF TermsInv
<1>3. CASE published = {1}
  <2>1. VersionsFollow(1) /\ 1 \in 0 .. MaxVersion
    BY <1>3 DEF VersionsFollow
  <2> QED
    BY <1>1, <2>1 DEF TermsInv
<1> QED
  BY <1>2, <1>3

LEMMA LatestVersionIs ==
  ASSUME NEW n \in 0 .. MaxVersion, published = 1 .. n
  PROVE  LatestVersion = n
<1>1. n \in published \cup {0} /\ \A w \in published : w <= n
  BY TermsAssumption DEF TermsAssumption
<1>2. \A v \in published \cup {0} : (\A w \in published : w <= v) => v = n
  BY TermsAssumption DEF TermsAssumption
<1> QED
  BY <1>1, <1>2 DEF LatestVersion

\* A creation accepts one of the versions, or none.
LEMMA AcceptedIsVersion ==
  ASSUME NEW n \in 0 .. MaxVersion, VersionsFollow(n), NEW c \in Creations, ReadTerms(c)
  PROVE  \E v \in 0 .. MaxVersion :
           creation' = [creation EXCEPT ![c] = [step |-> "read", terms |-> v]]
<1> DEFINE v == CHOOSE v \in inForce \cup {0} : \A w \in inForce : w <= v
<1>1. inForce \subseteq {n} /\ n \in Int
  BY TermsAssumption DEF VersionsFollow, TermsAssumption
<1>2. \E u \in inForce \cup {0} : \A w \in inForce : w <= u
  BY <1>1
<1>3. v \in inForce \cup {0}
  BY <1>2
<1>4. creation' = [creation EXCEPT ![c] = [step |-> "read", terms |-> v]]
  BY DEF ReadTerms
<1> HIDE DEF v
<1>5. v \in 0 .. MaxVersion
  BY <1>1, <1>3, TermsAssumption DEF TermsAssumption
<1> QED
  BY <1>4, <1>5

LEMMA NextTermsInv == TermsInv /\ [TermsNext]_termsVars => TermsInv'
<1> SUFFICES ASSUME TermsInv, [TermsNext]_termsVars PROVE TermsInv'
  OBVIOUS
<1>0. PICK n \in 0 .. MaxVersion : VersionsFollow(n)
  BY DEF TermsInv
<1>a. n \in Int /\ MaxVersion \in Nat
  BY TermsAssumption DEF TermsAssumption
<1>b. SUFFICES TermsTypeOK' /\ (VersionsFollow(n)' \/ (n + 1 <= MaxVersion /\ VersionsFollow(n + 1)'))
  BY <1>a DEF TermsInv
<1> USE <1>0, <1>a DEF TermsInv, TermsTypeOK
<1>1. ASSUME NEW p \in Publications, ReadLatest(p)
      PROVE  TermsTypeOK' /\ VersionsFollow(n)'
  <2>1. publication' = [publication EXCEPT ![p].step = "read", ![p].latest = n] /\ n < MaxVersion
    BY <1>1, LatestVersionIs DEF ReadLatest, VersionsFollow
  <2>2. /\ publication'[p].step = "read" /\ publication'[p].latest = n
        /\ \A q \in Publications \ {p} : publication'[q] = publication[q]
    BY <2>1
  <2>3. VersionsFollow(n)'
    BY <1>1, <2>1, <2>2 DEF ReadLatest, VersionsFollow
  <2>4. TermsTypeOK'
    <3>1. publication'[p] = [publication[p] EXCEPT !.step = "read", !.latest = n]
      BY <2>1
    <3>2. publication'[p] \in [step : {"idle", "read", "deactivated"},
                               latest : 0 .. MaxVersion, locked : SUBSET Versions]
      BY <3>1
    <3> QED
      BY <1>1, <2>1, <3>2 DEF ReadLatest
  <2> QED
    BY <2>3, <2>4
<1>2. ASSUME NEW p \in Publications, Deactivate(p)
      PROVE  TermsTypeOK' /\ VersionsFollow(n)'
  <2>1. publication' = [publication EXCEPT ![p].step = "deactivated", ![p].locked = inForce]
    BY <1>2 DEF Deactivate
  <2>2. /\ publication'[p].latest = publication[p].latest /\ publication'[p].locked = inForce
        /\ \A q \in Publications \ {p} : publication'[q] = publication[q]
    BY <2>1
  <2>3. publication[p].latest <= n /\ publication[p].latest < MaxVersion
    BY <1>2 DEF Deactivate, VersionsFollow
  <2>4. VersionsFollow(n)'
    BY <1>2, <2>2, <2>3 DEF Deactivate, VersionsFollow
  <2>5. TermsTypeOK'
    <3>1. publication'[p] = [publication[p] EXCEPT !.step = "deactivated", !.locked = inForce]
      BY <2>1
    <3>2. publication'[p] \in [step : {"idle", "read", "deactivated"},
                               latest : 0 .. MaxVersion, locked : SUBSET Versions]
      BY <3>1
    <3> QED
      BY <1>2, <2>1, <3>2 DEF Deactivate
  <2> QED
    BY <2>4, <2>5
<1>3. ASSUME NEW p \in Publications, Publish(p)
      PROVE  TermsTypeOK' /\ n + 1 <= MaxVersion /\ VersionsFollow(n + 1)'
  <2>1. /\ publication[p].step = "deactivated"
        /\ publication[p].latest <= n /\ publication[p].latest < MaxVersion
        /\ publication[p].latest \in 0 .. MaxVersion
        /\ publication[p].latest + 1 \notin 1 .. n
    BY <1>3 DEF Publish, VersionIsFree, NextVersion, VersionsFollow
  <2>2. publication[p].latest = n /\ n + 1 <= MaxVersion
    BY <2>1
  <2>3. publication[p].locked = inForce
    BY <2>1, <2>2 DEF VersionsFollow
  <2>4. published' = published \cup {n + 1} /\ inForce' = {n + 1}
    BY <1>3, <2>2, <2>3 DEF Publish, NextVersion
  <2>5. /\ publication'[p].step = "idle"
        /\ \A q \in Publications \ {p} : publication'[q] = publication[q]
    BY <1>3 DEF Publish, NotPublishing
  <2>6. n + 1 \in Versions
    BY <2>2 DEF Versions
  <2>7. TermsTypeOK'
    <3>1. publication' \in [Publications -> [step : {"idle", "read", "deactivated"},
                                             latest : 0 .. MaxVersion, locked : SUBSET Versions]]
      BY <1>3, <2>1 DEF Publish, NotPublishing
    <3> QED
      BY <1>3, <2>4, <2>6, <3>1 DEF Publish
  <2>8. published' = 1 .. (n + 1) /\ inForce' = {v \in published' : v = n + 1}
    BY <2>4 DEF VersionsFollow
  <2>9. VersionsFollow(n + 1)'
    BY <2>5, <2>8 DEF VersionsFollow
  <2> QED
    BY <2>2, <2>7, <2>9
<1>4. ASSUME NEW p \in Publications, RollBackPublication(p)
      PROVE  TermsTypeOK' /\ VersionsFollow(n)'
  BY <1>4 DEF RollBackPublication, VersionsFollow, NotPublishing
<1>5. ASSUME NEW c \in Creations, ReadTerms(c)
      PROVE  TermsTypeOK' /\ VersionsFollow(n)'
  <2>1. PICK v \in 0 .. MaxVersion :
          creation' = [creation EXCEPT ![c] = [step |-> "read", terms |-> v]]
    BY <1>5, AcceptedIsVersion
  <2> QED
    BY <1>5, <2>1 DEF ReadTerms, VersionsFollow
<1>6. ASSUME NEW c \in Creations, CreatePublisher(c)
      PROVE  TermsTypeOK' /\ VersionsFollow(n)'
  BY <1>6 DEF CreatePublisher, VersionsFollow
<1>7. CASE UNCHANGED termsVars
  BY <1>7 DEF termsVars, VersionsFollow
<1> QED
  BY <1>1, <1>2, <1>3, <1>4, <1>5, <1>6, <1>7 DEF TermsNext

LEMMA TermsInvariant == TermsSpec => []TermsInv
BY InitTermsInv, NextTermsInv, PTL DEF TermsSpec

\* Every reachable state of the terms is typed.
THEOREM TermsTyped == TermsSpec => []TermsTypeOK
BY TermsInvariant, PTL DEF TermsInv

\* However publications overlap, the latest version alone is in force
\* (DistributionTermsService.publish).
THEOREM LatestAlone == TermsSpec => []LatestIsInForce
<1>1. TermsInv => LatestIsInForce
  <2> SUFFICES ASSUME NEW n \in 0 .. MaxVersion, VersionsFollow(n)
               PROVE  LatestIsInForce
    BY DEF TermsInv
  <2>1. \A v \in published : v = n <=> \A w \in published : w <= v
    BY TermsAssumption DEF VersionsFollow, TermsAssumption
  <2> QED
    BY <2>1 DEF VersionsFollow, LatestIsInForce
<1> QED
  BY <1>1, TermsInvariant, PTL

(***************************************************************************)
(* The team.                                                               *)
(***************************************************************************)

LEMMA InitTeamTypeOK == TeamInit => TeamTypeOK
BY TeamAssumption DEF TeamAssumption, TeamInit, TeamTypeOK, TenantMemberRole,
   TenantMemberStatus, NoMember, AskingNothing

LEMMA RolesOfOK ==
  ASSUME TeamTypeOK, NEW u \in Users
  PROVE  RolesOf(u) \subseteq TenantMemberRole \cup {"platform"}
BY DEF TeamTypeOK, RolesOf, ActiveRows

\* What a request remembers between its steps.
AskRecords ==
  [step : {"idle", "resolved", "checked"}, caller : Users \cup {Nobody},
   as : TenantMemberRole \cup {"platform", "none"}, change : {"none", "updateRole", "remove"},
   of : Memberships, role : TenantMemberRole]

LEMMA AskStaysTyped ==
  ASSUME TeamTypeOK, NEW r \in TeamRequests, NEW q \in AskRecords,
         ask' = [ask EXCEPT ![r] = q], UNCHANGED <<member, teamLimit>>
  PROVE  TeamTypeOK'
<1>1. ask \in [TeamRequests -> AskRecords] /\ ask' \in [TeamRequests -> AskRecords]
  BY DEF TeamTypeOK, AskRecords
<1> QED
  BY <1>1 DEF TeamTypeOK, AskRecords

LEMMA NextTeamTypeOK == TeamTypeOK /\ [TeamNext]_teamVars => TeamTypeOK'
<1> SUFFICES ASSUME TeamTypeOK, [TeamNext]_teamVars PROVE TeamTypeOK'
  OBVIOUS
<1> USE DEF TeamTypeOK, TenantMemberRole, TenantMemberStatus
<1>1. ASSUME NEW m \in Memberships, AcceptInvitation(m) PROVE TeamTypeOK'
  BY <1>1 DEF AcceptInvitation
<1>2. ASSUME NEW r \in TeamRequests, NEW u \in Users, ResolveCaller(r, u) PROVE TeamTypeOK'
  <2>1. PICK role \in TenantMemberRole \cup {"platform"} :
          ask' = [ask EXCEPT ![r].step = "resolved", ![r].caller = u, ![r].as = role]
    BY <1>2, RolesOfOK DEF ResolveCaller
  <2> DEFINE q == [ask[r] EXCEPT !.step = "resolved", !.caller = u, !.as = role]
  <2>2. q \in AskRecords
    BY DEF AskRecords
  <2>3. ask' = [ask EXCEPT ![r] = q]
    BY <2>1
  <2> HIDE DEF q
  <2> QED
    BY <1>2, <2>2, <2>3, AskStaysTyped DEF ResolveCaller
<1>3. ASSUME NEW r \in TeamRequests, NEW m \in Memberships, NEW u \in Users,
             NEW role \in TenantMemberRole, Invite(r, m, u, role)
      PROVE  TeamTypeOK'
  BY <1>3 DEF Invite, Answered, AskingNothing
<1>4. ASSUME NEW r \in TeamRequests, NEW m \in Memberships, NEW role \in TenantMemberRole,
             CheckRole(r, m, role)
      PROVE  TeamTypeOK'
  <2> DEFINE q == [ask[r] EXCEPT !.step = "checked", !.change = "updateRole", !.of = m,
                                 !.role = role]
  <2>1. q \in AskRecords
    BY DEF AskRecords
  <2>2. ask' = [ask EXCEPT ![r] = q]
    BY <1>4 DEF CheckRole
  <2> HIDE DEF q
  <2> QED
    BY <1>4, <2>1, <2>2, AskStaysTyped DEF CheckRole
<1>5. ASSUME NEW r \in TeamRequests, NEW m \in Memberships, CheckRemoval(r, m)
      PROVE  TeamTypeOK'
  <2> DEFINE q == [ask[r] EXCEPT !.step = "checked", !.change = "remove", !.of = m]
  <2>1. q \in AskRecords
    BY DEF AskRecords
  <2>2. ask' = [ask EXCEPT ![r] = q]
    BY <1>5 DEF CheckRemoval
  <2> HIDE DEF q
  <2> QED
    BY <1>5, <2>1, <2>2, AskStaysTyped DEF CheckRemoval
<1>6. ASSUME NEW r \in TeamRequests, WriteRole(r) PROVE TeamTypeOK'
  <2>1. ask[r].role \in TenantMemberRole /\ ask[r].of \in Memberships
    OBVIOUS
  <2>2. member' \in [Memberships -> [user : Users \cup {Nobody}, role : TenantMemberRole,
                                    status : TenantMemberStatus]]
    BY <1>6, <2>1 DEF WriteRole
  <2>3. ask' = [ask EXCEPT ![r] = AskingNothing(ask[r].of)] /\ teamLimit' = teamLimit
    BY <1>6 DEF WriteRole, Answered
  <2> QED
    BY <2>1, <2>2, <2>3 DEF AskingNothing
<1>7. ASSUME NEW r \in TeamRequests, WriteRemoval(r) PROVE TeamTypeOK'
  BY <1>7 DEF WriteRemoval, Answered, AskingNothing
<1>8. ASSUME NEW r \in TeamRequests, RefuseTeamRequest(r) PROVE TeamTypeOK'
  BY <1>8 DEF RefuseTeamRequest, Answered, AskingNothing
<1>9. CASE UNCHANGED teamVars
  BY <1>9 DEF teamVars
<1> QED
  BY <1>1, <1>2, <1>3, <1>4, <1>5, <1>6, <1>7, <1>8, <1>9 DEF TeamNext

\* Every reachable state of the team is typed.
THEOREM TeamTyped == TeamSpec => []TeamTypeOK
BY InitTeamTypeOK, NextTeamTypeOK, PTL DEF TeamSpec

-----------------------------------------------------------------------------
(* Requests one at a time.                                                 *)

LEMMA ResolvesAlone ==
  ASSUME teamLimit = 1, NEW r \in TeamRequests, NEW u \in Users, ResolveCaller(r, u)
  PROVE  \A q \in TeamRequests : ask[q].step = "idle"
<1> DEFINE Busy == {q \in TeamRequests : ask[q].step # "idle"}
<1>1. IsFiniteSet(Busy)
  BY TeamAssumption, FS_Subset DEF TeamAssumption
<1>2. Cardinality(Busy) \in Nat /\ Cardinality(Busy) < 1
  BY <1>1, FS_CardinalityType DEF ResolveCaller
<1>3. Busy = {}
  BY <1>1, <1>2, FS_EmptySet
<1> QED
  BY <1>3

ActiveOwner(m) == member[m].role = "owner" /\ member[m].status = "active"

\* The request in progress is alone: the role read for its caller still stands,
\* and so does what it checked of the row it is about to write.
OneTeamRequest ==
  /\ \E m \in Memberships : ActiveOwner(m)
  /\ \A q, r \in TeamRequests : ask[q].step # "idle" /\ ask[r].step # "idle" => q = r
  /\ \A r \in TeamRequests : ask[r].step # "idle" => ask[r].as \in RolesOf(Caller(r))
  /\ \A r \in TeamRequests : ask[r].step = "checked" =>
       /\ ask[r].change = "updateRole" /\ ask[r].role = "owner"
            => ask[r].as \in {"owner", "platform"}
       /\ ~(ask[r].change = "updateRole" /\ ask[r].role = "owner")
            => (member[ask[r].of].role = "owner" => AnotherOwner(ask[r].of))

TeamInv == teamLimit = 1 => OneTeamRequest

LEMMA InitTeamInv == TeamInit => TeamInv
BY DEF TeamInit, TeamInv, OneTeamRequest, ActiveOwner, AskingNothing, NoMember

LEMMA NextTeamInv == TeamTypeOK /\ TeamInv /\ [TeamNext]_teamVars => TeamInv'
<1> SUFFICES ASSUME TeamTypeOK, TeamInv, [TeamNext]_teamVars, teamLimit' = 1
             PROVE  OneTeamRequest'
  BY DEF TeamInv
<1>0. teamLimit = 1 /\ OneTeamRequest
  BY DEF TeamInv, TeamNext, teamVars, AcceptInvitation, ResolveCaller, Invite, CheckRole,
         CheckRemoval, WriteRole, WriteRemoval, RefuseTeamRequest
<1> USE <1>0 DEF TeamTypeOK, OneTeamRequest, ActiveOwner, AnotherOwner, Caller
<1>1. ASSUME NEW m \in Memberships, AcceptInvitation(m) PROVE OneTeamRequest'
  <2>1. ask' = ask
    BY <1>1 DEF AcceptInvitation
  <2>2. \A n \in Memberships : /\ member'[n].role = member[n].role
                               /\ member'[n].user = member[n].user
                               /\ member[n].status = "active" => member'[n].status = "active"
    BY <1>1 DEF AcceptInvitation
  <2>3. \A u : RolesOf(u) \subseteq RolesOf(u)'
    BY <2>2 DEF RolesOf, ActiveRows
  <2> QED
    BY <2>1, <2>2, <2>3
<1>2. ASSUME NEW r \in TeamRequests, NEW u \in Users, ResolveCaller(r, u) PROVE OneTeamRequest'
  <2>1. PICK role \in RolesOf(u) :
          ask' = [ask EXCEPT ![r].step = "resolved", ![r].caller = u, ![r].as = role]
    BY <1>2 DEF ResolveCaller
  <2>2. \A q \in TeamRequests \ {r} : ask'[q].step = "idle"
    BY <1>2, <2>1, ResolvesAlone
  <2>3. ask'[r].step = "resolved" /\ ask'[r].caller = u /\ ask'[r].as = role
    BY <2>1
  <2>4. RolesOf(u)' = RolesOf(u)
    BY <1>2 DEF ResolveCaller, RolesOf, ActiveRows
  <2> QED
    BY <1>2, <2>2, <2>3, <2>4 DEF ResolveCaller
<1>3. ASSUME NEW r \in TeamRequests, NEW m \in Memberships, NEW u \in Users,
             NEW role \in TenantMemberRole, Invite(r, m, u, role)
      PROVE  OneTeamRequest'
  <2>1. \A q \in TeamRequests : ask'[q].step = "idle"
    BY <1>3 DEF Invite, Answered, AskingNothing
  <2>2. \A n \in Memberships : ActiveOwner(n) => n # m /\ member'[n] = member[n]
    BY <1>3 DEF Invite
  <2> QED
    BY <2>1, <2>2
<1>4. ASSUME NEW r \in TeamRequests, NEW m \in Memberships, NEW role \in TenantMemberRole,
             CheckRole(r, m, role)
      PROVE  OneTeamRequest'
  <2>1. /\ ask'[r].step = "checked" /\ ask'[r].change = "updateRole" /\ ask'[r].of = m
        /\ ask'[r].role = role /\ ask'[r].caller = ask[r].caller /\ ask'[r].as = ask[r].as
        /\ \A q \in TeamRequests \ {r} : ask'[q] = ask[q]
    BY <1>4 DEF CheckRole
  <2>2. member' = member /\ \A u : RolesOf(u)' = RolesOf(u)
    BY <1>4 DEF CheckRole, RolesOf, ActiveRows
  <2>3. ask[r].step # "idle"
    BY <1>4 DEF CheckRole
  <2>4. /\ role = "owner" => ask[r].as \in {"owner", "platform"}
        /\ member[m].role = "owner" /\ role # "owner" => AnotherOwner(m)
    BY <1>4 DEF CheckRole, MayAssign
  <2>5. \A q \in TeamRequests \ {r} : ask'[q].step = "idle"
    BY <2>1, <2>3
  <2>6. ask'[r].as \in RolesOf(Caller(r))'
    BY <2>1, <2>2, <2>3
  <2> QED
    BY <2>1, <2>2, <2>4, <2>5, <2>6
<1>5. ASSUME NEW r \in TeamRequests, NEW m \in Memberships, CheckRemoval(r, m)
      PROVE  OneTeamRequest'
  <2>1. /\ ask'[r].step = "checked" /\ ask'[r].change = "remove" /\ ask'[r].of = m
        /\ ask'[r].caller = ask[r].caller /\ ask'[r].as = ask[r].as
        /\ \A q \in TeamRequests \ {r} : ask'[q] = ask[q]
    BY <1>5 DEF CheckRemoval
  <2>2. member' = member /\ \A u : RolesOf(u)' = RolesOf(u)
    BY <1>5 DEF CheckRemoval, RolesOf, ActiveRows
  <2>3. ask[r].step # "idle"
    BY <1>5 DEF CheckRemoval
  <2>4. member[m].role = "owner" => AnotherOwner(m)
    BY <1>5 DEF CheckRemoval
  <2>5. \A q \in TeamRequests \ {r} : ask'[q].step = "idle"
    BY <2>1, <2>3
  <2>6. ask'[r].as \in RolesOf(Caller(r))'
    BY <2>1, <2>2, <2>3
  <2> QED
    BY <2>1, <2>2, <2>4, <2>5, <2>6
<1>6. ASSUME NEW r \in TeamRequests, WriteRole(r) PROVE OneTeamRequest'
  <2>1. \A q \in TeamRequests : ask'[q].step = "idle"
    BY <1>6 DEF WriteRole, Answered, AskingNothing
  <2>2. /\ member'[ask[r].of].role = ask[r].role
        /\ member'[ask[r].of].status = member[ask[r].of].status
        /\ \A n \in Memberships \ {ask[r].of} : member'[n] = member[n]
    BY <1>6 DEF WriteRole
  <2>3. ask[r].role = "owner" \/ member[ask[r].of].role # "owner" \/ AnotherOwner(ask[r].of)
    BY <1>6 DEF WriteRole
  <2>4. \E n \in Memberships : ActiveOwner(n)'
    BY <2>2, <2>3
  <2> QED
    BY <2>1, <2>4
<1>7. ASSUME NEW r \in TeamRequests, WriteRemoval(r) PROVE OneTeamRequest'
  <2>1. \A q \in TeamRequests : ask'[q].step = "idle"
    BY <1>7 DEF WriteRemoval, Answered, AskingNothing
  <2>2. \A n \in Memberships \ {ask[r].of} : member'[n] = member[n]
    BY <1>7 DEF WriteRemoval
  <2>3. member[ask[r].of].role # "owner" \/ AnotherOwner(ask[r].of)
    BY <1>7 DEF WriteRemoval
  <2>4. \E n \in Memberships : ActiveOwner(n)'
    BY <2>2, <2>3
  <2> QED
    BY <2>1, <2>4
<1>8. ASSUME NEW r \in TeamRequests, RefuseTeamRequest(r) PROVE OneTeamRequest'
  <2>1. \A q \in TeamRequests : ask'[q].step = "idle"
    BY <1>8 DEF RefuseTeamRequest, Answered, AskingNothing
  <2> QED
    BY <1>8, <2>1 DEF RefuseTeamRequest
<1>9. CASE UNCHANGED teamVars
  <2>1. member' = member /\ ask' = ask
    BY <1>9 DEF teamVars
  <2>2. \A u : RolesOf(u)' = RolesOf(u)
    BY <2>1 DEF RolesOf, ActiveRows
  <2> QED
    BY <2>1, <2>2
<1> QED
  BY <1>1, <1>2, <1>3, <1>4, <1>5, <1>6, <1>7, <1>8, <1>9 DEF TeamNext

LEMMA TeamInvariant == TeamSpec => [](TeamTypeOK /\ TeamInv)
<1>1. TeamInit => TeamTypeOK /\ TeamInv
  BY InitTeamTypeOK, InitTeamInv
<1>2. TeamTypeOK /\ TeamInv /\ [TeamNext]_teamVars => (TeamTypeOK /\ TeamInv)'
  BY NextTeamTypeOK, NextTeamInv
<1> QED
  BY <1>1, <1>2, PTL DEF TeamSpec

\* A publisher keeps an active owner as long as requests to its team do not
\* overlap (TeamService.updateRole, remove, assertNotLastOwner).
THEOREM AnOwnerRemains == TeamSpec => []OwnerRemains
<1>1. TeamInv => OwnerRemains
  BY DEF TeamInv, OneTeamRequest, ActiveOwner, OwnerRemains
<1> QED
  BY <1>1, TeamInvariant, PTL

\* Where the policies bind, an owner is made by an owner or the platform, and when
\* requests overlap by one who manages the team at that moment, or by the founder
\* inviting itself again (invite, updateRole, assertCanAssignOwner).
THEOREM OwnersMakeOwnersAlways ==
  ASSUME PoliciesBind = TRUE
  PROVE  TeamSpec => OwnersMakeOwners
<1> DEFINE Made(m) ==
      \E r \in TeamRequests :
        /\ ask[r].step # "idle" /\ ask'[r].step = "idle"
        /\ IF teamLimit = 1
           THEN RolesOf(Caller(r)) \cap {"owner", "platform"} # {}
           ELSE \/ RolesOf(Caller(r)) \cap Managers # {}
                \/ Caller(r) = Founder /\ member'[m].user = Founder
    Kept == \A m \in Memberships :
              member'[m].role = "owner" /\ member[m].role # "owner" => Made(m)
<1>1. TeamTypeOK /\ TeamInv /\ [TeamNext]_teamVars => [Kept]_teamVars
  <2> SUFFICES ASSUME TeamTypeOK, TeamInv, TeamNext, NEW m \in Memberships,
                      member'[m].role = "owner", member[m].role # "owner"
               PROVE  Made(m)
    OBVIOUS
  <2> USE DEF TeamTypeOK
  <2>1. ASSUME NEW r \in TeamRequests, NEW n \in Memberships, NEW u \in Users,
               NEW role \in TenantMemberRole, Invite(r, n, u, role)
        PROVE  Made(m)
    <3>1. role = "owner"
      BY <2>1 DEF Invite
    <3>2. ask[r].step = "resolved" /\ ask'[r].step = "idle"
      BY <2>1 DEF Invite, Answered, AskingNothing
    <3>3. CASE teamLimit = 1
      BY <2>1, <3>1, <3>2, <3>3 DEF Invite, MayAssign, TeamInv, OneTeamRequest
    <3>4. CASE teamLimit # 1
      <4>1. n = m /\ member'[m].user = u
        BY <2>1 DEF Invite
      <4> QED
        BY <2>1, <3>2, <3>4, <4>1 DEF Invite, MayInsert, MayWrite
    <3> QED
      BY <3>3, <3>4
  <2>2. ASSUME NEW r \in TeamRequests, WriteRole(r)
        PROVE  Made(m)
    <3>1. ask[r].role = "owner"
      BY <2>2 DEF WriteRole
    <3>2. ask[r].step = "checked" /\ ask'[r].step = "idle"
      BY <2>2 DEF WriteRole, Answered, AskingNothing
    <3>3. CASE teamLimit = 1
      BY <2>2, <3>1, <3>2, <3>3 DEF WriteRole, TeamInv, OneTeamRequest
    <3>4. CASE teamLimit # 1
      BY <2>2, <3>2, <3>4 DEF WriteRole, MayWrite
    <3> QED
      BY <3>3, <3>4
  <2>3. \A n \in Memberships : ~AcceptInvitation(n)
    BY DEF AcceptInvitation
  <2>4. \A r \in TeamRequests : ~WriteRemoval(r)
    BY DEF WriteRemoval
  <2> QED
    BY <2>1, <2>2, <2>3, <2>4
       DEF TeamNext, ResolveCaller, CheckRole, CheckRemoval, RefuseTeamRequest
<1> QED
  BY <1>1, TeamInvariant, PTL DEF TeamSpec, OwnersMakeOwners

\* What a request to make an owner was allowed when its caller was resolved.
OwnersAsked ==
  \A r \in TeamRequests :
    ask[r].step = "checked" /\ ask[r].change = "updateRole" /\ ask[r].role = "owner"
      => ask[r].as \in {"owner", "platform"}

LEMMA NextOwnersAsked ==
  TeamTypeOK /\ OwnersAsked /\ [TeamNext]_teamVars => OwnersAsked'
<1> SUFFICES ASSUME TeamTypeOK, OwnersAsked, [TeamNext]_teamVars PROVE OwnersAsked'
  OBVIOUS
<1> USE DEF TeamTypeOK, OwnersAsked
<1>1. ASSUME NEW r \in TeamRequests, NEW u \in Users, ResolveCaller(r, u) PROVE OwnersAsked'
  <2>1. ask'[r].step = "resolved" /\ \A q \in TeamRequests \ {r} : ask'[q] = ask[q]
    BY <1>1 DEF ResolveCaller
  <2> QED
    BY <2>1
<1>2. ASSUME NEW r \in TeamRequests, NEW m \in Memberships, NEW role \in TenantMemberRole,
             CheckRole(r, m, role)
      PROVE  OwnersAsked'
  <2>1. /\ ask'[r].role = role /\ ask'[r].as = ask[r].as
        /\ \A q \in TeamRequests \ {r} : ask'[q] = ask[q]
    BY <1>2 DEF CheckRole
  <2>2. role = "owner" => ask[r].as \in {"owner", "platform"}
    BY <1>2 DEF CheckRole, MayAssign
  <2> QED
    BY <2>1, <2>2
<1>3. ASSUME NEW r \in TeamRequests, NEW m \in Memberships, CheckRemoval(r, m)
      PROVE  OwnersAsked'
  <2>1. ask'[r].change = "remove" /\ \A q \in TeamRequests \ {r} : ask'[q] = ask[q]
    BY <1>3 DEF CheckRemoval
  <2> QED
    BY <2>1
<1>4. ASSUME NEW r \in TeamRequests, Answered(r) PROVE OwnersAsked'
  BY <1>4 DEF Answered, AskingNothing
<1>5. CASE UNCHANGED ask
  BY <1>5
<1> QED
  BY <1>1, <1>2, <1>3, <1>4, <1>5
     DEF TeamNext, teamVars, AcceptInvitation, Invite, WriteRole, WriteRemoval,
         RefuseTeamRequest

\* Whatever overlaps and whether or not the policies bind, an owner is made by a
\* request whose caller was an owner, or the platform, when the guard read its
\* role; one request at a time, the caller still is (invite, updateRole,
\* assertCanAssignOwner).
OwnersWereOwners ==
  [][\A m \in Memberships :
       member'[m].role = "owner" /\ member[m].role # "owner" =>
         \E r \in TeamRequests :
           /\ ask[r].step # "idle" /\ ask'[r].step = "idle"
           /\ ask[r].as \in {"owner", "platform"}
           /\ teamLimit = 1 => ask[r].as \in RolesOf(Caller(r))
    ]_teamVars

\* The rule that the check of a role is for, without the policies of the
\* database: it is the code's own (assertCanAssignOwner).
THEOREM OwnersComeFromOwners == TeamSpec => OwnersWereOwners
<1> DEFINE Made(m) ==
      \E r \in TeamRequests :
        /\ ask[r].step # "idle" /\ ask'[r].step = "idle"
        /\ ask[r].as \in {"owner", "platform"}
        /\ teamLimit = 1 => ask[r].as \in RolesOf(Caller(r))
    Kept == \A m \in Memberships :
              member'[m].role = "owner" /\ member[m].role # "owner" => Made(m)
<1>1. TeamTypeOK /\ TeamInv /\ OwnersAsked /\ [TeamNext]_teamVars => [Kept]_teamVars
  <2> SUFFICES ASSUME TeamTypeOK, TeamInv, OwnersAsked, TeamNext, NEW m \in Memberships,
                      member'[m].role = "owner", member[m].role # "owner"
               PROVE  Made(m)
    OBVIOUS
  <2> USE DEF TeamTypeOK
  <2>1. ASSUME NEW r \in TeamRequests, NEW n \in Memberships, NEW u \in Users,
               NEW role \in TenantMemberRole, Invite(r, n, u, role)
        PROVE  Made(m)
    <3>1. role = "owner"
      BY <2>1 DEF Invite
    <3>2. ask[r].step = "resolved" /\ ask'[r].step = "idle"
      BY <2>1 DEF Invite, Answered, AskingNothing
    <3> QED
      BY <2>1, <3>1, <3>2 DEF Invite, MayAssign, TeamInv, OneTeamRequest
  <2>2. ASSUME NEW r \in TeamRequests, WriteRole(r)
        PROVE  Made(m)
    <3>1. ask[r].role = "owner"
      BY <2>2 DEF WriteRole
    <3>2. ask[r].step = "checked" /\ ask'[r].step = "idle"
      BY <2>2 DEF WriteRole, Answered, AskingNothing
    <3> QED
      BY <2>2, <3>1, <3>2 DEF WriteRole, OwnersAsked, TeamInv, OneTeamRequest
  <2>3. \A n \in Memberships : ~AcceptInvitation(n)
    BY DEF AcceptInvitation
  <2>4. \A r \in TeamRequests : ~WriteRemoval(r)
    BY DEF WriteRemoval
  <2> QED
    BY <2>1, <2>2, <2>3, <2>4
       DEF TeamNext, ResolveCaller, CheckRole, CheckRemoval, RefuseTeamRequest
<1>2. TeamInit => OwnersAsked
  BY DEF TeamInit, OwnersAsked, AskingNothing
<1> QED
  BY <1>1, <1>2, NextOwnersAsked, TeamInvariant, PTL DEF TeamSpec, OwnersWereOwners

-----------------------------------------------------------------------------
(* Providers: type correctness.                                            *)

\* A request in progress is about a provider.
RequestsName == \A r \in ProviderRequests : admin[r].step # "idle" => admin[r].of \in Providers

LEMMA InitProvidersTypeOK == ProvidersInit => ProvidersTypeOK /\ RequestsName
<1> SUFFICES ASSUME ProvidersInit PROVE ProvidersTypeOK /\ RequestsName
  OBVIOUS
<1> USE ProvidersAssumption DEF ProvidersAssumption, ProvidersInit
<1>1. missing \in [Providers -> Nat]
  OBVIOUS
<1>2. admin = [r \in ProviderRequests |-> NoRequest]
  OBVIOUS
<1> QED
  BY <1>1, <1>2 DEF ProvidersTypeOK, RequestsName, NoRequest, AdminOperations

LEMMA NextProvidersTypeOK ==
  ProvidersTypeOK /\ RequestsName /\ [ProvidersNext]_providerVars
    => ProvidersTypeOK' /\ RequestsName'
<1> SUFFICES ASSUME ProvidersTypeOK, RequestsName, [ProvidersNext]_providerVars
             PROVE  ProvidersTypeOK' /\ RequestsName'
  OBVIOUS
<1> USE DEF ProvidersTypeOK, RequestsName, AdminOperations, Step, Done, NoRequest, Judged
<1>1. ASSUME NEW r \in ProviderRequests, NEW p \in Providers, NEW o \in AdminOperations,
             FindProvider(r, p, o)
      PROVE  ProvidersTypeOK' /\ RequestsName'
  BY <1>1 DEF FindProvider
<1>2. ASSUME NEW r \in ProviderRequests, CheckDefault(r) \/ CheckRemove(r)
      PROVE  ProvidersTypeOK' /\ RequestsName'
  BY <1>2 DEF CheckDefault, CheckRemove
<1>3. ASSUME NEW r \in ProviderRequests, SetDefault(r)
      PROVE  ProvidersTypeOK' /\ RequestsName'
  BY <1>3 DEF SetDefault
<1>4. ASSUME NEW r \in ProviderRequests, RemoveProvider(r) \/ UpdateStatus(r) \/ LeaveProviders(r)
      PROVE  ProvidersTypeOK' /\ RequestsName'
  BY <1>4 DEF RemoveProvider, UpdateStatus, LeaveProviders
<1>5. ASSUME NEW r \in ProviderRequests, SetCredential(r)
      PROVE  ProvidersTypeOK' /\ RequestsName'
  BY <1>5 DEF SetCredential
<1>6. CASE UNCHANGED providerVars
  BY <1>6 DEF providerVars
<1> QED
  BY <1>1, <1>2, <1>3, <1>4, <1>5, <1>6 DEF ProvidersNext

\* Every reachable state is typed.
THEOREM ProvidersTyped == ProvidersSpec => []ProvidersTypeOK
BY InitProvidersTypeOK, NextProvidersTypeOK, PTL DEF ProvidersSpec

-----------------------------------------------------------------------------
(* The default.                                                            *)

LEMMA FindsAlone ==
  ASSUME providerLimit = 1, NEW r \in ProviderRequests, NEW p, NEW o, FindProvider(r, p, o)
  PROVE  \A q \in ProviderRequests : admin[q].step = "idle"
<1> DEFINE Busy == {q \in ProviderRequests : admin[q].step # "idle"}
<1>1. IsFiniteSet(Busy)
  BY ProvidersAssumption, FS_Subset DEF ProvidersAssumption
<1>2. Cardinality(Busy) \in Nat /\ Cardinality(Busy) < 1
  BY <1>1, FS_CardinalityType DEF FindProvider
<1>3. Busy = {}
  BY <1>1, <1>2, FS_EmptySet
<1> QED
  BY <1>3

\* What a request found and judged still holds when it writes: the credentials
\* always, that the provider stands and is not the default if it is alone.
JudgedStill ==
  /\ \A r \in ProviderRequests :
       Step(r, "setDefault", "ready") => admin[r].of \in Installed /\ missing[admin[r].of] = 0
  /\ providerLimit = 1 =>
       /\ \A q, r \in ProviderRequests :
            admin[q].step # "idle" /\ admin[r].step # "idle" => q = r
       /\ \A r \in ProviderRequests : admin[r].step # "idle" => admin[r].of \notin removed
       /\ \A r \in ProviderRequests : Step(r, "remove", "ready") => admin[r].of # default

DefaultInv == DefaultStands /\ JudgedStill

LEMMA NextDefaultInv ==
  ProvidersTypeOK /\ RequestsName /\ DefaultInv /\ [ProvidersNext]_providerVars => DefaultInv'
<1> SUFFICES ASSUME ProvidersTypeOK, RequestsName, DefaultInv, [ProvidersNext]_providerVars
             PROVE  DefaultInv'
  OBVIOUS
<1> USE ProvidersAssumption
    DEF ProvidersTypeOK, RequestsName, DefaultInv, DefaultStands, JudgedStill, Step, Done,
        NoRequest, Judged
<1>1. ASSUME NEW r \in ProviderRequests, NEW p \in Providers, NEW o \in AdminOperations,
             FindProvider(r, p, o)
      PROVE  DefaultInv'
  <2>1. /\ admin'[r] = [step |-> "found", operation |-> o, of |-> p] /\ p \notin removed
        /\ \A q \in ProviderRequests \ {r} : admin'[q] = admin[q]
        /\ UNCHANGED <<removed, active, missing, default, providerLimit>>
    BY <1>1 DEF FindProvider
  <2>2. providerLimit = 1 => \A q \in ProviderRequests : admin[q].step = "idle"
    BY <1>1, FindsAlone
  <2> QED
    BY <2>1, <2>2
<1>2. ASSUME NEW r \in ProviderRequests, CheckDefault(r) \/ CheckRemove(r)
      PROVE  DefaultInv'
  <2>1. /\ admin'[r] = [admin[r] EXCEPT !.step = "ready"]
        /\ \A q \in ProviderRequests \ {r} : admin'[q] = admin[q]
        /\ UNCHANGED <<removed, active, missing, default, providerLimit>>
        /\ admin[r].step = "found"
    BY <1>2 DEF CheckDefault, CheckRemove
  <2>2. /\ admin'[r].step = "ready" /\ admin'[r].operation = admin[r].operation
        /\ admin'[r].of = admin[r].of
    BY <2>1
  <2>3. /\ admin[r].operation = "setDefault" => admin[r].of \in Installed /\ missing[admin[r].of] = 0
        /\ admin[r].operation = "remove" => admin[r].of # default
    BY <1>2 DEF CheckDefault, CheckRemove
  <2> QED
    BY <2>1, <2>2, <2>3
<1>3. ASSUME NEW r \in ProviderRequests, SetDefault(r)
      PROVE  DefaultInv'
  <2>1. /\ default' = admin[r].of /\ admin[r].step = "ready" /\ admin[r].operation = "setDefault"
        /\ admin'[r].step = "idle"
        /\ \A q \in ProviderRequests \ {r} : admin'[q] = admin[q]
        /\ UNCHANGED <<removed, active, missing, providerLimit>>
    BY <1>3 DEF SetDefault
  <2> QED
    BY <2>1
<1>4. ASSUME NEW r \in ProviderRequests, RemoveProvider(r)
      PROVE  DefaultInv'
  <2>1. /\ removed' = removed \cup {admin[r].of}
        /\ admin[r].step = "ready" /\ admin[r].operation = "remove"
        /\ admin'[r].step = "idle"
        /\ \A q \in ProviderRequests \ {r} : admin'[q] = admin[q]
        /\ UNCHANGED <<missing, default, providerLimit>>
    BY <1>4 DEF RemoveProvider
  <2> QED
    BY <2>1
<1>5. ASSUME NEW r \in ProviderRequests, UpdateStatus(r) \/ LeaveProviders(r)
      PROVE  DefaultInv'
  <2>1. /\ admin'[r].step = "idle" /\ admin'[r].operation = "none"
        /\ \A q \in ProviderRequests \ {r} : admin'[q] = admin[q]
        /\ UNCHANGED <<removed, missing, default, providerLimit>>
    BY <1>5 DEF UpdateStatus, LeaveProviders
  <2> QED
    BY <2>1
<1>6. ASSUME NEW r \in ProviderRequests, SetCredential(r)
      PROVE  DefaultInv'
  <2>1. /\ missing[admin[r].of] > 0
        /\ \A p \in Providers \ {admin[r].of} : missing'[p] = missing[p]
        /\ UNCHANGED <<removed, active, default, admin, providerLimit>>
    BY <1>6 DEF SetCredential
  <2> QED
    BY <2>1
<1>7. CASE UNCHANGED providerVars
  BY <1>7 DEF providerVars
<1> QED
  BY <1>1, <1>2, <1>3, <1>4, <1>5, <1>6, <1>7 DEF ProvidersNext

\* The default has a driver and its credentials however requests overlap, and is
\* not removed as long as they do not (setDefault, remove, setMany).
THEOREM TheDefaultStands == ProvidersSpec => []DefaultStands
<1> DEFINE Inv == ProvidersTypeOK /\ RequestsName /\ DefaultInv
<1>1. ProvidersInit => Inv
  BY InitProvidersTypeOK DEF ProvidersInit, DefaultInv, DefaultStands, JudgedStill, Step, NoRequest
<1>2. Inv /\ [ProvidersNext]_providerVars => Inv'
  BY NextProvidersTypeOK, NextDefaultInv
<1>3. Inv => DefaultStands
  BY DEF DefaultInv
<1> HIDE DEF Inv
<1> QED
  BY <1>1, <1>2, <1>3, PTL DEF ProvidersSpec

-----------------------------------------------------------------------------
(* The first account of the platform.                                      *)

\* A request in progress names an account.
AccountsNamed == \A s \in Setups : setup[s].step # "idle" => setup[s].account \in Accounts

SetupTyping == SetupTypeOK /\ AccountsNamed

LEMMA InitSetupTyping == SetupInit => SetupTyping
BY DEF SetupInit, SetupTyping, SetupTypeOK, AccountsNamed, NoSetup

LEMMA NextSetupTyping == SetupTyping /\ [SetupNext]_setupVars => SetupTyping'
<1> SUFFICES ASSUME SetupTyping, [SetupNext]_setupVars PROVE SetupTyping'
  OBVIOUS
<1> USE DEF SetupTyping, SetupTypeOK, AccountsNamed
<1>1. ASSUME NEW s \in Setups, NEW a \in Accounts, OpenSetup(s, a) \/ AskWipe(s, a)
      PROVE  SetupTyping'
  BY <1>1 DEF OpenSetup, AskWipe
<1>2. ASSUME NEW s \in Setups, StillNone(s) PROVE SetupTyping'
  BY <1>2 DEF StillNone
<1>3. ASSUME NEW s \in Setups, CreateSuperadmin(s) \/ WipePlatform(s) \/ RefuseSetup(s)
      PROVE  SetupTyping'
  <2>1. setup' = [setup EXCEPT ![s] = NoSetup] /\ superadmins' \subseteq Accounts
    BY <1>3 DEF CreateSuperadmin, WipePlatform, RefuseSetup
  <2> QED
    BY <2>1 DEF NoSetup
<1>4. CASE UNCHANGED setupVars
  BY <1>4 DEF setupVars
<1> QED
  BY <1>1, <1>2, <1>3, <1>4 DEF SetupNext

\* Every reachable state of createSuperadmin and wipePlatform is typed.
THEOREM SetupTyped == SetupSpec => []SetupTypeOK
BY InitSetupTyping, NextSetupTyping, PTL DEF SetupSpec, SetupTyping

\* The requests that saw nobody within their transaction, and have not committed.
Convinced == {s \in Setups : setup[s].step = "alone"}

\* Each may still add its account; a wipe adds none.
SuperadminsInv ==
  /\ IsFiniteSet(superadmins)
  /\ Cardinality(superadmins) + Cardinality(Convinced) <= Cardinality(Setups)

LEMMA ConvincedIsFinite ==
  ASSUME IsFiniteSet(Setups)
  PROVE  /\ IsFiniteSet(Convinced) /\ Cardinality(Convinced) \in Nat
         /\ Cardinality(Convinced) <= Cardinality(Setups) /\ Cardinality(Setups) \in Nat
<1>1. Convinced \in SUBSET Setups
  BY DEF Convinced
<1> QED
  BY <1>1, FS_Subset, FS_CardinalityType

LEMMA InitSuperadminsInv == ASSUME IsFiniteSet(Setups), SetupInit PROVE SuperadminsInv
<1>1. superadmins = {}
  BY DEF SetupInit
<1> QED
  BY <1>1, ConvincedIsFinite, FS_EmptySet DEF SuperadminsInv

LEMMA NextSuperadminsInv ==
  ASSUME IsFiniteSet(Setups), SetupTyping, SuperadminsInv, [SetupNext]_setupVars
  PROVE  SuperadminsInv'
<1> USE DEF SuperadminsInv
<1>0. /\ setup \in [Setups -> [step : {"idle", "open", "alone", "wipe"},
                               account : Accounts \cup {"none"}]]
      /\ Cardinality(superadmins) \in Nat
  BY FS_CardinalityType DEF SetupTyping, SetupTypeOK
<1>1. ASSUME superadmins' \subseteq superadmins, Convinced' \subseteq Convinced PROVE SuperadminsInv'
  <2>1. superadmins' \in SUBSET superadmins /\ Convinced' \in SUBSET Convinced
    BY <1>1
  <2>2. /\ IsFiniteSet(superadmins') /\ Cardinality(superadmins') <= Cardinality(superadmins)
        /\ Cardinality(superadmins') \in Nat
    BY <2>1, FS_Subset, FS_CardinalityType
  <2>3. Cardinality(Convinced') <= Cardinality(Convinced) /\ Cardinality(Convinced') \in Nat
    BY <2>1, ConvincedIsFinite, FS_Subset, FS_CardinalityType
  <2> QED
    BY <1>0, <2>2, <2>3, ConvincedIsFinite
<1>2. ASSUME NEW s \in Setups, NEW a \in Accounts, OpenSetup(s, a) \/ AskWipe(s, a)
      PROVE  SuperadminsInv'
  BY <1>0, <1>1, <1>2 DEF OpenSetup, AskWipe, Convinced
<1>3. ASSUME NEW s \in Setups, WipePlatform(s) \/ RefuseSetup(s) PROVE SuperadminsInv'
  BY <1>0, <1>1, <1>3 DEF WipePlatform, RefuseSetup, Convinced, NoSetup
\* Nobody has the role: however many are convinced at once, they are requests.
<1>4. ASSUME NEW s \in Setups, StillNone(s) PROVE SuperadminsInv'
  <2>1. superadmins' = {} /\ Cardinality({}) = 0 /\ IsFiniteSet({})
    BY <1>4, FS_EmptySet DEF StillNone
  <2>2. Convinced' \in SUBSET Setups
    BY DEF Convinced
  <2>3. Cardinality(Convinced') <= Cardinality(Setups) /\ Cardinality(Convinced') \in Nat
    BY <2>2, FS_Subset, FS_CardinalityType
  <2> QED
    BY <2>1, <2>3, ConvincedIsFinite
\* The account takes the place of the request that adds it.
<1>5. ASSUME NEW s \in Setups, CreateSuperadmin(s) PROVE SuperadminsInv'
  <2>1. s \in Convinced /\ Convinced' = Convinced \ {s}
    BY <1>0, <1>5 DEF CreateSuperadmin, Convinced, NoSetup
  <2>2. Cardinality(Convinced') = Cardinality(Convinced) - 1
    BY <2>1, ConvincedIsFinite, FS_RemoveElement
  <2>3. IsFiniteSet(superadmins') /\ Cardinality(superadmins') = Cardinality(superadmins) + 1
    BY <1>5, FS_AddElement DEF CreateSuperadmin
  <2> QED
    BY <1>0, <2>2, <2>3, ConvincedIsFinite
<1>6. CASE UNCHANGED setupVars
  BY <1>1, <1>6 DEF setupVars, Convinced
<1> QED
  BY <1>2, <1>3, <1>4, <1>5, <1>6 DEF SetupNext

LEMMA SuperadminsInvariant ==
  ASSUME IsFiniteSet(Setups) PROVE SetupSpec => [](SetupTyping /\ SuperadminsInv)
<1>1. SetupInit => SetupTyping /\ SuperadminsInv
  BY InitSetupTyping, InitSuperadminsInv
<1>2. SetupTyping /\ SuperadminsInv /\ [SetupNext]_setupVars => SetupTyping' /\ SuperadminsInv'
  BY NextSetupTyping, NextSuperadminsInv
<1> QED
  BY <1>1, <1>2, PTL DEF SetupSpec

\* However setups and wipes overlap, no more accounts hold the role of the
\* platform than there are requests at once: nothing else limits them
\* (createSuperadmin, wipePlatform).
THEOREM SuperadminsAreBounded ==
  ASSUME IsFiniteSet(Setups)
  PROVE  SetupSpec => [](Cardinality(superadmins) <= Cardinality(Setups))
<1>1. SuperadminsInv => Cardinality(superadmins) <= Cardinality(Setups)
  BY ConvincedIsFinite, FS_CardinalityType DEF SuperadminsInv
<1> QED
  BY <1>1, SuperadminsInvariant, PTL

\* "deux configurations lancées à la même seconde [...] ne doivent pas produire
\* deux superadmins": they do not as long as requests are handled one at a time,
\* wipes included (createSuperadmin).
THEOREM OneSuperadminWhenSerial ==
  ASSUME IsFiniteSet(Setups), Cardinality(Setups) <= 1
  PROVE  SetupSpec => []OneSuperadmin
<1>1. SuperadminsInv => OneSuperadmin
  <2> SUFFICES ASSUME SuperadminsInv, NEW a \in superadmins, NEW b \in superadmins
               PROVE  a = b
    BY DEF OneSuperadmin
  <2>1. Cardinality(superadmins) <= 1 /\ IsFiniteSet(superadmins) /\ Cardinality(superadmins) \in Nat
    BY ConvincedIsFinite, FS_CardinalityType DEF SuperadminsInv
  <2>2. Cardinality(superadmins) = 1
    BY <2>1, FS_EmptySet
  <2>3. \E x : superadmins = {x}
    BY <2>1, <2>2, FS_Singleton
  <2> QED
    BY <2>3
<1> QED
  BY <1>1, SuperadminsInvariant, PTL
=============================================================================
