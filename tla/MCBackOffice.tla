------------------------------ MODULE MCBackOffice ------------------------------
(***************************************************************************)
(* Instances of the components that share no row with one another, run     *)
(* side by side: a behaviour follows the one in `focus` while the others   *)
(* stay where they began.  Their interleavings would multiply the states   *)
(* without relating anything.                                              *)
(***************************************************************************)
EXTENDS Payouts, Library, Auth, Team, Terms, Editorial, Preview, Providers,
        Setup, TLC

CONSTANTS d1, d2, d3, o1, o2, m1

VARIABLE focus

backOfficeVars ==
  <<focus, payoutVars, libraryVars, authVars, teamVars, termsVars, editorialVars,
    previewVars, providerVars, setupVars>>

-----------------------------------------------------------------------------

MCNetOf  == d1 :> 2 @@ d2 :> 3 @@ d3 :> 4
MCSaleOf == d1 :> o1 @@ d2 :> o1 @@ d3 :> o2

\* The first file of the format has two pages, the second one, the third three.
MCPagesOf == <<2, 1, 3>>

MCRequiredFields == "fake" :> 0 @@ "real" :> 1 @@ "bare" :> 0

-----------------------------------------------------------------------------
(* The choices of the components that are not followed are settled, so     *)
(* that they multiply nothing.                                             *)

BackOfficeInit ==
  /\ focus \in {"payouts", "library", "auth", "team", "terms",
               "editorial", "preview", "providers", "setup"}
  /\ PayoutInit /\ (focus # "payouts" => payoutLimit = 1 /\ rlsEnforced)
  /\ LibraryInit /\ (focus # "library" => hasFile /\ downloadLimit = 1 /\ readership = 1)
  /\ AuthInit /\ (focus # "auth" => authLimit = 1)
  /\ TeamInit /\ (focus # "team" => teamLimit = 1 /\ member[m1] # NoMember)
  /\ TermsInit /\ (focus # "terms" => published = {})
  /\ EditorialInit /\ (focus # "editorial" => editLimit = 1)
  /\ PreviewInit /\ (focus # "preview" => files = 0)
  /\ ProvidersInit /\ (focus # "providers" => default = NoProvider /\ active = Installed
                                     /\ missing = MCRequiredFields /\ providerLimit = 1)
  /\ SetupInit

PayoutFollowed ==
  /\ focus = "payouts" /\ PayoutNext
  /\ UNCHANGED <<focus, libraryVars, authVars, teamVars, termsVars,
                 editorialVars, previewVars, providerVars, setupVars>>

LibraryFollowed ==
  /\ focus = "library" /\ LibraryNext
  /\ UNCHANGED <<focus, payoutVars, authVars, teamVars, termsVars,
                 editorialVars, previewVars, providerVars, setupVars>>

AuthFollowed ==
  /\ focus = "auth" /\ AuthNext
  /\ UNCHANGED <<focus, payoutVars, libraryVars, teamVars, termsVars,
                 editorialVars, previewVars, providerVars, setupVars>>

TeamFollowed ==
  /\ focus = "team" /\ TeamNext
  /\ UNCHANGED <<focus, payoutVars, libraryVars, authVars, termsVars,
                 editorialVars, previewVars, providerVars, setupVars>>

TermsFollowed ==
  /\ focus = "terms" /\ TermsNext
  /\ UNCHANGED <<focus, payoutVars, libraryVars, authVars, teamVars,
                 editorialVars, previewVars, providerVars, setupVars>>

EditorialFollowed ==
  /\ focus = "editorial" /\ EditorialNext
  /\ UNCHANGED <<focus, payoutVars, libraryVars, authVars, teamVars,
                 termsVars, previewVars, providerVars, setupVars>>

PreviewFollowed ==
  /\ focus = "preview" /\ PreviewNext
  /\ UNCHANGED <<focus, payoutVars, libraryVars, authVars, teamVars,
                 termsVars, editorialVars, providerVars, setupVars>>

ProvidersFollowed ==
  /\ focus = "providers" /\ ProvidersNext
  /\ UNCHANGED <<focus, payoutVars, libraryVars, authVars, teamVars,
                 termsVars, editorialVars, previewVars, setupVars>>

SetupFollowed ==
  /\ focus = "setup" /\ SetupNext
  /\ UNCHANGED <<focus, payoutVars, libraryVars, authVars, teamVars,
                 termsVars, editorialVars, previewVars, providerVars>>

BackOfficeNext ==
  \/ PayoutFollowed
  \/ LibraryFollowed
  \/ AuthFollowed
  \/ TeamFollowed
  \/ TermsFollowed
  \/ EditorialFollowed
  \/ PreviewFollowed
  \/ ProvidersFollowed
  \/ SetupFollowed

\* Only the previews need fairness.
BackOfficeSpec ==
  BackOfficeInit /\ [][BackOfficeNext]_backOfficeVars /\ PreviewFairness

-----------------------------------------------------------------------------

\* The variables of the nine components hold what their columns and their
\* handlers can hold.
BackOfficeTypeOK ==
  /\ PayoutTypeOK /\ LibraryTypeOK /\ AuthTypeOK /\ TeamTypeOK
  /\ TermsTypeOK /\ EditorialTypeOK /\ PreviewTypeOK /\ ProvidersTypeOK
  /\ SetupTypeOK
=============================================================================
