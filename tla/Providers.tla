-------------------------------- MODULE Providers --------------------------------
(***************************************************************************)
(* The administration of the payment providers, one of which serves the    *)
(* payments that name none (AdminPaymentProvidersService and               *)
(* ProviderConfigService).  Nothing here locks: a request judges what it   *)
(* has read, and writes later.                                             *)
(***************************************************************************)
EXTENDS Integers, FiniteSets

CONSTANTS
  Providers,          \* rows of payment_providers
  Installed,          \* those with a pay-in driver
  RequiredFields,     \* credentials each of them requires
  ProviderRequests,   \* requests of the administration of the providers
  ProviderLimits,     \* how many of them may be in progress at once
  NoProvider          \* the setting is absent

VARIABLES
  removed,            \* providers with deleted_at
  active,             \* providers with the status active
  missing,            \* required credentials not recorded yet
  default,            \* the setting default_payment_provider
  admin,              \* progress of the requests about providers
  providerLimit       \* the bound of this behaviour, one of ProviderLimits

providerVars == <<removed, active, missing, default, admin, providerLimit>>

ASSUME ProvidersAssumption ==
  /\ IsFiniteSet(ProviderRequests)
  /\ Installed \subseteq Providers
  /\ RequiredFields \in [Providers -> Nat]
  /\ ProviderLimits \subseteq Nat
  /\ NoProvider \notin Providers

-----------------------------------------------------------------------------

AdminOperations == {"setDefault", "remove", "setConfiguration", "activate", "deactivate"}

NoRequest == [step |-> "idle", operation |-> "none", of |-> NoProvider]

ProvidersTypeOK ==
  /\ removed \subseteq Providers /\ active \subseteq Providers
  /\ missing \in [Providers -> Nat]
  /\ default \in Providers \cup {NoProvider}
  /\ admin \in [ProviderRequests ->
                  [step : {"idle", "found", "ready"},
                   operation : AdminOperations \cup {"none"},
                   of : Providers \cup {NoProvider}]]
  /\ providerLimit \in ProviderLimits

\* The variables of the environment may supply credentials; the default of the
\* seed needs none.
ProvidersInit ==
  /\ removed = {} /\ active \in {Providers, Installed}
  /\ missing \in {f \in [Providers -> UNION {0 .. RequiredFields[p] : p \in Providers}] :
                    \A p \in Providers : f[p] <= RequiredFields[p]}
  /\ default \in {NoProvider} \cup {p \in Installed : missing[p] = 0}
  /\ admin = [r \in ProviderRequests |-> NoRequest]
  /\ providerLimit \in ProviderLimits

-----------------------------------------------------------------------------
(* The administration of the providers.                                    *)

Step(r, operation, step) == admin[r].operation = operation /\ admin[r].step = step

Done(r) == admin' = [admin EXCEPT ![r] = NoRequest]

\* Every operation begins by reading the row.
FindProvider(r, p, operation) ==
  /\ admin[r].step = "idle"
  /\ Cardinality({q \in ProviderRequests : admin[q].step # "idle"}) < providerLimit
  /\ p \notin removed
  /\ admin' = [admin EXCEPT ![r] = [step |-> "found", operation |-> operation, of |-> p]]
  /\ UNCHANGED <<removed, active, missing, default, providerLimit>>

Judged(r) ==
  /\ admin' = [admin EXCEPT ![r].step = "ready"]
  /\ UNCHANGED <<removed, active, missing, default, providerLimit>>

\* isFullyConfigured, after the driver.
CheckDefault(r) ==
  /\ Step(r, "setDefault", "found")
  /\ admin[r].of \in Installed
  /\ missing[admin[r].of] = 0
  /\ Judged(r)

SetDefault(r) ==
  /\ Step(r, "setDefault", "ready")
  /\ default' = admin[r].of
  /\ Done(r)
  /\ UNCHANGED <<removed, active, missing, providerLimit>>

\* CheckRemove: the default is not spared.
RemoveAny(r) ==
  /\ Step(r, "remove", "found")
  /\ Judged(r)

CheckRemove(r) ==
  /\ Step(r, "remove", "found")
  /\ default # admin[r].of
  /\ Judged(r)

RemoveProvider(r) ==
  /\ Step(r, "remove", "ready")
  /\ removed' = removed \cup {admin[r].of}
  /\ active' = active \ {admin[r].of}
  /\ Done(r)
  /\ UNCHANGED <<missing, default, providerLimit>>

\* setMany records the credentials one by one and erases none; one that is
\* already there is replaced.
SetCredential(r) ==
  /\ Step(r, "setConfiguration", "found")
  /\ missing[admin[r].of] > 0
  /\ missing' = [missing EXCEPT ![admin[r].of] = @ - 1]
  /\ UNCHANGED <<removed, active, default, admin, providerLimit>>

\* updateStatus writes by code: the row may have been removed.
UpdateStatus(r) ==
  /\ Step(r, "activate", "found") \/ Step(r, "deactivate", "found")
  /\ active' = IF admin[r].operation = "activate" THEN active \cup {admin[r].of}
               ELSE active \ {admin[r].of}
  /\ Done(r)
  /\ UNCHANGED <<removed, missing, default, providerLimit>>

\* Refused, lost, or finished.
LeaveProviders(r) ==
  /\ admin[r].step # "idle"
  /\ Done(r)
  /\ UNCHANGED <<removed, active, missing, default, providerLimit>>

-----------------------------------------------------------------------------

ProvidersNext ==
  \/ \E r \in ProviderRequests, p \in Providers, operation \in AdminOperations :
       FindProvider(r, p, operation)
  \/ \E r \in ProviderRequests :
       \/ CheckDefault(r) \/ SetDefault(r)
       \/ CheckRemove(r) \/ RemoveProvider(r)
       \/ SetCredential(r) \/ UpdateStatus(r) \/ LeaveProviders(r)

ProvidersSpec == ProvidersInit /\ [][ProvidersNext]_providerVars

-----------------------------------------------------------------------------

\* Payments that name no provider have one to go to: the default has a driver and
\* all its credentials, however requests overlap, and has not been removed as long
\* as they do not ("désignez-en un autre avant de le supprimer").
DefaultStands ==
  default # NoProvider =>
    /\ default \in Installed
    /\ missing[default] = 0
    /\ providerLimit = 1 => default \notin removed
=============================================================================
