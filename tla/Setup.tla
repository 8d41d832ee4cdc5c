---------------------------------- MODULE Setup ----------------------------------
(***************************************************************************)
(* The first account of the platform (SetupService.createSuperadmin): the  *)
(* route is open as long as nobody has the role, and requests overlap; and *)
(* the reset of the platform, which keeps no account but the one that asks *)
(* (SystemService.wipePlatform).                                           *)
(***************************************************************************)

CONSTANTS
  Accounts,           \* e-mail addresses the first account may have
  Setups              \* requests that hold the token, or a session

VARIABLES
  superadmins,        \* accounts with the role of the platform
  setup               \* progress of createSuperadmin and wipePlatform

setupVars == <<superadmins, setup>>

NoSetup == [step |-> "idle", account |-> "none"]

SetupTypeOK ==
  /\ superadmins \subseteq Accounts
  /\ setup \in [Setups -> [step : {"idle", "open", "alone", "wipe"}, account : Accounts \cup {"none"}]]

SetupInit ==
  /\ superadmins = {}
  /\ setup = [s \in Setups |-> NoSetup]

-----------------------------------------------------------------------------

\* status, before the token and the e-mail are examined.
OpenSetup(s, a) ==
  /\ setup[s].step = "idle"
  /\ superadmins = {}
  /\ setup' = [setup EXCEPT ![s] = [step |-> "open", account |-> a]]
  /\ UNCHANGED superadmins

\* The transaction reads again whether there is one: Read Committed.
StillNone(s) ==
  /\ setup[s].step = "open"
  /\ superadmins = {}
  /\ setup' = [setup EXCEPT ![s].step = "alone"]
  /\ UNCHANGED superadmins

\* The account and its role are committed; the e-mail is unique.
CreateSuperadmin(s) ==
  /\ setup[s].step = "alone"
  /\ setup[s].account \notin superadmins
  /\ superadmins' = superadmins \cup {setup[s].account}
  /\ setup' = [setup EXCEPT ![s] = NoSetup]

\* The guards find the role; one transaction then deletes whatever there is,
\* whether the caller still exists or not.
AskWipe(s, a) ==
  /\ setup[s].step = "idle"
  /\ a \in superadmins
  /\ setup' = [setup EXCEPT ![s] = [step |-> "wipe", account |-> a]]
  /\ UNCHANGED superadmins

WipePlatform(s) ==
  /\ setup[s].step = "wipe"
  /\ superadmins' = superadmins \cap {setup[s].account}
  /\ setup' = [setup EXCEPT ![s] = NoSetup]

\* Refused, or lost.
RefuseSetup(s) ==
  /\ setup[s].step # "idle"
  /\ setup' = [setup EXCEPT ![s] = NoSetup]
  /\ UNCHANGED superadmins

SetupNext ==
  \E s \in Setups :
    \/ \E a \in Accounts : OpenSetup(s, a) \/ AskWipe(s, a)
    \/ StillNone(s) \/ CreateSuperadmin(s) \/ WipePlatform(s) \/ RefuseSetup(s)

SetupSpec == SetupInit /\ [][SetupNext]_setupVars

-----------------------------------------------------------------------------

\* "deux configurations lancées à la même seconde avec le même jeton ne doivent
\* pas produire deux superadmins".
OneSuperadmin == \A a, b \in superadmins : a = b
=============================================================================
