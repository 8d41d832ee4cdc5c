---------------------------------- MODULE Team ----------------------------------
(***************************************************************************)
(* The members of one publisher (tenant_members): invited, accepted, given *)
(* another role and removed by TeamService and TenantsService.             *)
(*                                                                         *)
(* The role of the caller is read before the handler runs (the guard of    *)
(* the back office), and the row a handler changes is read and checked     *)
(* before it is written: two requests may overlap at both places.  The     *)
(* policies of the database judge the caller again, when it writes.        *)
(***************************************************************************)
EXTENDS Integers, FiniteSets

CONSTANTS
  Memberships,      \* rows of tenant_members, created or not yet
  Users,            \* accounts
  Founder,          \* the account that created the publisher
  PlatformAdmins,   \* accounts with the role admin of the platform
  TeamRequests,     \* requests of the back office to the team
  TeamLimits,       \* how many of them may be in progress at once
  PoliciesBind,     \* whether the database role is subject to the policies
  Nobody            \* no account

VARIABLES
  member,           \* the rows
  ask,              \* progress of updateRole and remove
  teamLimit         \* the bound of this behaviour, one of TeamLimits

teamVars == <<member, ask, teamLimit>>

ASSUME TeamAssumption ==
  /\ IsFiniteSet(TeamRequests)
  /\ Founder \in Users /\ PlatformAdmins \subseteq Users
  /\ Nobody \notin Users
  /\ Memberships # {}
  /\ TeamLimits \subseteq Nat
  /\ PoliciesBind \in BOOLEAN

-----------------------------------------------------------------------------

\* "editor" stands for the five roles that do not manage the team.
TenantMemberRole == {"owner", "admin", "editor"}

TenantMemberStatus == {"none", "invited", "active", "removed"}

NoMember == [user |-> Nobody, role |-> "editor", status |-> "none"]

AskingNothing(m) ==
  [step |-> "idle", caller |-> Nobody, as |-> "none", change |-> "none", of |-> m,
   role |-> "editor"]

TeamTypeOK ==
  /\ member \in [Memberships -> [user : Users \cup {Nobody}, role : TenantMemberRole,
                                 status : TenantMemberStatus]]
  /\ ask \in [TeamRequests ->
                    [step : {"idle", "resolved", "checked"},
                     caller : Users \cup {Nobody},
                     as : TenantMemberRole \cup {"platform", "none"},
                     change : {"none", "updateRole", "remove"},
                     of : Memberships, role : TenantMemberRole]]
  /\ teamLimit \in TeamLimits

Exists(m) == member[m].status \in {"invited", "active"}

\* The creation of a publisher makes its creator an active owner.
TeamInit ==
  \E founding \in Memberships :
    /\ member = [m \in Memberships |->
                   IF m = founding THEN [user |-> Founder, role |-> "owner", status |-> "active"]
                   ELSE NoMember]
    /\ ask = [r \in TeamRequests |-> AskingNothing(founding)]
    /\ teamLimit \in TeamLimits

-----------------------------------------------------------------------------
(* The caller.                                                             *)

ActiveRows(u) == {m \in Memberships : member[m].user = u /\ member[m].status = "active"}

\* TenantContextService: a platform administrator, or the role of the active row.
RolesOf(u) ==
  IF u \in PlatformAdmins THEN {"platform"} ELSE {member[m].role : m \in ActiveRows(u)}

Managers == {"owner", "admin", "platform"}

ResolveCaller(r, u) ==
  /\ ask[r].step = "idle"
  /\ Cardinality({q \in TeamRequests : ask[q].step # "idle"}) < teamLimit
  /\ \E role \in RolesOf(u) :
       ask' = [ask EXCEPT ![r].step = "resolved", ![r].caller = u, ![r].as = role]
  /\ UNCHANGED <<member, teamLimit>>

\* tenant_members_select: a member, or the platform, sees the rows.
Sees(u) == PoliciesBind => RolesOf(u) # {}

\* tenant_members_update and delete: an active owner or admin, or the platform.
MayWrite(u) == PoliciesBind => RolesOf(u) \cap Managers # {}

\* tenant_members_insert: they too, or the founder for an owner's row of its own.
MayInsert(u, invited, role) ==
  MayWrite(u) \/ (u = Founder /\ invited = Founder /\ role = "owner")

Caller(r) == ask[r].caller

Answered(r) == ask' = [ask EXCEPT ![r] = AskingNothing(ask[r].of)]

-----------------------------------------------------------------------------
(* TeamService.invite and TenantsService.acceptInvitation.                 *)

\* MayAssign: whoever manages the team makes owners.
AssignAny(r, role) == ask[r].as \in Managers

\* assertCanAssignOwner: only an owner, or the platform, makes an owner.
MayAssign(r, role) == role = "owner" => ask[r].as \in {"owner", "platform"}

\* uq_tenant_members: one row for each account.
Invite(r, m, u, role) ==
  /\ ask[r].step = "resolved"
  /\ ask[r].as \in Managers
  /\ MayAssign(r, role)
  /\ MayInsert(Caller(r), u, role)
  /\ member[m].status = "none"
  /\ \A n \in Memberships : Exists(n) => member[n].user # u
  /\ member' = [member EXCEPT ![m] = [user |-> u, role |-> role, status |-> "invited"]]
  /\ Answered(r)
  /\ UNCHANGED teamLimit

AcceptInvitation(m) ==
  /\ member[m].status = "invited"
  /\ member' = [member EXCEPT ![m].status = "active"]
  /\ UNCHANGED <<ask, teamLimit>>

-----------------------------------------------------------------------------
(* TeamService.updateRole and remove.                                      *)

\* AnotherOwner: an owner who has not accepted counts.
AnotherOwnerInvited(m) == \E n \in Memberships \ {m} : Exists(n) /\ member[n].role = "owner"

\* assertNotLastOwner: an active owner besides the one concerned.
AnotherOwner(m) ==
  \E n \in Memberships \ {m} : member[n].role = "owner" /\ member[n].status = "active"

\* Only an owner, or the platform, touches an owner.
MayTouch(r, m) == member[m].role = "owner" => ask[r].as \in {"owner", "platform"}

CheckRole(r, m, role) ==
  /\ ask[r].step = "resolved"
  /\ Exists(m) /\ Sees(Caller(r))
  /\ ask[r].as \in Managers
  /\ MayTouch(r, m)
  /\ MayAssign(r, role)
  /\ member[m].role = "owner" /\ role # "owner" => AnotherOwner(m)
  /\ ask' = [ask EXCEPT ![r].step = "checked", ![r].change = "updateRole",
                                ![r].of = m, ![r].role = role]
  /\ UNCHANGED <<member, teamLimit>>

\* Whoever it is may leave.
CheckRemoval(r, m) ==
  /\ ask[r].step = "resolved"
  /\ Exists(m) /\ Sees(Caller(r))
  /\ member[m].user # Caller(r) => ask[r].as \in Managers /\ MayTouch(r, m)
  /\ member[m].role = "owner" => AnotherOwner(m)
  /\ ask' = [ask EXCEPT ![r].step = "checked", ![r].change = "remove", ![r].of = m]
  /\ UNCHANGED <<member, teamLimit>>

\* A row that is gone, or that the policies hide, makes the statement fail.
WriteRole(r) ==
  LET m == ask[r].of IN
  /\ ask[r].step = "checked" /\ ask[r].change = "updateRole"
  /\ Exists(m) /\ MayWrite(Caller(r))
  /\ member' = [member EXCEPT ![m].role = ask[r].role]
  /\ Answered(r)
  /\ UNCHANGED teamLimit

WriteRemoval(r) ==
  LET m == ask[r].of IN
  /\ ask[r].step = "checked" /\ ask[r].change = "remove"
  /\ Exists(m)
  /\ member[m].user # Caller(r) => MayWrite(Caller(r))
  /\ member' = [member EXCEPT ![m].status = "removed"]
  /\ Answered(r)
  /\ UNCHANGED teamLimit

\* A check refuses, or a statement fails: nothing is written.
RefuseTeamRequest(r) ==
  /\ ask[r].step # "idle"
  /\ Answered(r)
  /\ UNCHANGED <<member, teamLimit>>

-----------------------------------------------------------------------------

TeamNext ==
  \/ \E m \in Memberships : AcceptInvitation(m)
  \/ \E r \in TeamRequests, u \in Users : ResolveCaller(r, u)
  \/ \E r \in TeamRequests, m \in Memberships, u \in Users, role \in TenantMemberRole :
       Invite(r, m, u, role)
  \/ \E r \in TeamRequests, m \in Memberships, role \in TenantMemberRole : CheckRole(r, m, role)
  \/ \E r \in TeamRequests, m \in Memberships : CheckRemoval(r, m)
  \/ \E r \in TeamRequests : WriteRole(r) \/ WriteRemoval(r) \/ RefuseTeamRequest(r)

TeamSpec == TeamInit /\ [][TeamNext]_teamVars

-----------------------------------------------------------------------------

\* "Un espace doit toujours garder au moins un propriétaire actif", as long as
\* requests to the team do not overlap: promotions, demotions, departures and
\* invitations never leave a publisher without one.
OwnerRemains ==
  teamLimit = 1 =>
    \E m \in Memberships : member[m].role = "owner" /\ member[m].status = "active"

\* Whoever is made an owner is made one by someone who is an owner at that
\* moment, or by the platform: no chain of invitations, promotions and demotions
\* lets a team promote itself (assertCanAssignOwner).  When requests overlap the
\* policies still require one who manages the team at that moment, or the founder
\* inviting itself again.
OwnersMakeOwners ==
  [][\A m \in Memberships :
       member'[m].role = "owner" /\ member[m].role # "owner" =>
         \E r \in TeamRequests :
           /\ ask[r].step # "idle" /\ ask'[r].step = "idle"
           /\ IF teamLimit = 1
              THEN RolesOf(Caller(r)) \cap {"owner", "platform"} # {}
              ELSE \/ RolesOf(Caller(r)) \cap Managers # {}
                   \/ Caller(r) = Founder /\ member'[m].user = Founder]_teamVars
=============================================================================
