--------------------------------- MODULE Terms ---------------------------------
(***************************************************************************)
(* The versions of the distribution terms of one type of publisher         *)
(* (DistributionTermsService.publish), and the version each new publisher  *)
(* accepts (TenantsService.create).                                        *)
(*                                                                         *)
(* A publication is one transaction of three statements, under Read        *)
(* Committed: it reads the latest version, deactivates what is active, and *)
(* inserts the next one.  Publications may overlap.                        *)
(***************************************************************************)
EXTENDS Integers

CONSTANTS
  Publications,     \* requests to publish
  Creations,        \* requests to create a publisher
  MaxVersion        \* bound on the versions published

VARIABLES
  published,        \* versions committed
  inForce,          \* those with is_active
  publication,      \* progress of publish
  creation          \* progress of create, and the version it accepted

termsVars == <<published, inForce, publication, creation>>

Versions == 1 .. MaxVersion

ASSUME TermsAssumption == MaxVersion \in Nat

NotPublishing == [step |-> "idle", latest |-> 0, locked |-> {}]

TermsTypeOK ==
  /\ published \subseteq Versions
  /\ inForce \subseteq published
  /\ publication \in [Publications -> [step : {"idle", "read", "deactivated"},
                                       latest : 0 .. MaxVersion, locked : SUBSET Versions]]
  /\ creation \in [Creations -> [step : {"idle", "read", "done"}, terms : 0 .. MaxVersion]]

\* The seed publishes a version of each type; an empty table is possible too.
TermsInit ==
  /\ published \in {{}, {1}} \cap SUBSET Versions
  /\ inForce = published
  /\ publication = [p \in Publications |-> NotPublishing]
  /\ creation = [c \in Creations |-> [step |-> "idle", terms |-> 0]]

-----------------------------------------------------------------------------

LatestVersion == CHOOSE v \in published \cup {0} : \A w \in published : w <= v

ReadLatest(p) ==
  /\ publication[p].step = "idle"
  /\ LatestVersion < MaxVersion
  /\ publication' = [publication EXCEPT ![p].step = "read", ![p].latest = LatestVersion]
  /\ UNCHANGED <<published, inForce, creation>>

\* Rows that another transaction has updated make this one wait for its end.
Deactivate(p) ==
  /\ publication[p].step = "read"
  /\ \A q \in Publications : publication[q].locked \cap inForce = {}
  /\ publication' = [publication EXCEPT ![p].step = "deactivated", ![p].locked = inForce]
  /\ UNCHANGED <<published, inForce, creation>>

NextVersion(p) == publication[p].latest + 1

\* VersionIsFree: the constraint is missing.
VersionNeverTaken(p) == TRUE

\* uq_distribution_terms_type_version.
VersionIsFree(p) == NextVersion(p) \notin published

\* The insertion, and the commit of the three statements.
Publish(p) ==
  /\ publication[p].step = "deactivated"
  /\ VersionIsFree(p)
  /\ published' = published \cup {NextVersion(p)}
  /\ inForce' = (inForce \ publication[p].locked) \cup {NextVersion(p)}
  /\ publication' = [publication EXCEPT ![p] = NotPublishing]
  /\ UNCHANGED creation

\* The version exists, or the request is lost: the transaction leaves no trace.
RollBackPublication(p) ==
  /\ publication[p].step # "idle"
  /\ publication' = [publication EXCEPT ![p] = NotPublishing]
  /\ UNCHANGED <<published, inForce, creation>>

-----------------------------------------------------------------------------
(* create reads the version in force, then commits its acceptance with the *)
(* publisher; 0 when there is none to accept.                              *)

ReadTerms(c) ==
  /\ creation[c].step = "idle"
  /\ creation' = [creation EXCEPT ![c] = [step |-> "read", terms |->
       CHOOSE v \in inForce \cup {0} : \A w \in inForce : w <= v]]
  /\ UNCHANGED <<published, inForce, publication>>

CreatePublisher(c) ==
  /\ creation[c].step = "read"
  /\ creation' = [creation EXCEPT ![c].step = "done"]
  /\ UNCHANGED <<published, inForce, publication>>

TermsNext ==
  \/ \E p \in Publications :
       ReadLatest(p) \/ Deactivate(p) \/ Publish(p) \/ RollBackPublication(p)
  \/ \E c \in Creations : ReadTerms(c) \/ CreatePublisher(c)

TermsSpec == TermsInit /\ [][TermsNext]_termsVars

-----------------------------------------------------------------------------

\* However publications overlap, exactly the latest version is in force ("au
\* plus une version active par type à la fois, jamais deux en même temps"): the
\* loser of a race violates the unique version, and its deactivation is undone.
LatestIsInForce ==
  inForce = {v \in published : \A w \in published : w <= v}
=============================================================================
