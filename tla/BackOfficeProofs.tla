---------------------------- MODULE BackOfficeProofs ----------------------------
(***************************************************************************)
(* The components of MCBackOffice side by side: no step of one reaches the *)
(* variables of another, so each keeps in every behaviour of the whole the *)
(* specification its own theorems are about.                               *)
(***************************************************************************)
EXTENDS MCBackOffice, AfterSaleProofs, AuthProofs, AdministrationProofs, EditorialProofs

\* A step of the whole is a step of one component and a stutter of the others.
LEMMA ComponentsStep ==
  [BackOfficeNext]_backOfficeVars =>
    /\ [PayoutNext]_payoutVars /\ [LibraryNext]_libraryVars /\ [AuthNext]_authVars
    /\ [TeamNext]_teamVars /\ [TermsNext]_termsVars /\ [EditorialNext]_editorialVars
    /\ [PreviewNext]_previewVars /\ [ProvidersNext]_providerVars /\ [SetupNext]_setupVars
<1> SUFFICES ASSUME [BackOfficeNext]_backOfficeVars
             PROVE  /\ [PayoutNext]_payoutVars /\ [LibraryNext]_libraryVars
                    /\ [AuthNext]_authVars /\ [TeamNext]_teamVars /\ [TermsNext]_termsVars
                    /\ [EditorialNext]_editorialVars /\ [PreviewNext]_previewVars
                    /\ [ProvidersNext]_providerVars /\ [SetupNext]_setupVars
  OBVIOUS
<1> QED
  BY DEF BackOfficeNext, backOfficeVars, PayoutFollowed, LibraryFollowed, AuthFollowed,
         TeamFollowed, TermsFollowed, EditorialFollowed, PreviewFollowed, ProvidersFollowed,
         SetupFollowed

\* What is proved of a component alone holds of it beside the others: the whole
\* implements the nine specifications.
THEOREM ComponentsKeepTheirSpecs ==
  BackOfficeSpec =>
    /\ PayoutSpec /\ LibrarySpec /\ AuthSpec /\ TeamSpec /\ TermsSpec
    /\ EditorialSpec /\ PreviewSpec /\ ProvidersSpec /\ SetupSpec
<1>1. BackOfficeInit =>
        /\ PayoutInit /\ LibraryInit /\ AuthInit /\ TeamInit /\ TermsInit
        /\ EditorialInit /\ PreviewInit /\ ProvidersInit /\ SetupInit
  BY DEF BackOfficeInit
<1> QED
  BY <1>1, ComponentsStep, PTL
     DEF BackOfficeSpec, PayoutSpec, LibrarySpec, AuthSpec, TeamSpec, TermsSpec,
         EditorialSpec, PreviewSpec, ProvidersSpec, SetupSpec

\* The variables of the nine components hold what their columns and their handlers
\* can hold, whatever the constants of each.
THEOREM BackOfficeTyped == BackOfficeSpec => []BackOfficeTypeOK
BY ComponentsKeepTheirSpecs, PayoutsTyped, LibraryTyped, AuthTyped, TeamTyped, TermsTyped,
   EditorialTyped, PreviewTyped, ProvidersTyped, SetupTyped, PTL DEF BackOfficeTypeOK
=============================================================================
