-------------------------------- MODULE Library --------------------------------
(***************************************************************************)
(* Downloads of one purchased work (LibraryService.download): the access   *)
(* is checked, the file found, the downloads counted against the limit,    *)
(* the file read and verified, and the download recorded before the file   *)
(* is sent.  Each of these is a request of its own to the database or the  *)
(* storage, and the downloads of one reader may overlap.                   *)
(***************************************************************************)
EXTENDS Integers, FiniteSets

CONSTANTS
  Downloads,        \* requests to download
  DownloadLimits,   \* values of the setting download_limit, 0 for unlimited
  Readerships       \* how many downloads may be in progress at once

VARIABLES
  access,           \* reader_library.access_status
  hasFile,          \* the format has an active full file
  recorded,         \* rows of downloads, by the request that wrote each
  download,         \* progress of LibraryService.download
  downloadLimit,    \* the setting, written by the seed only
  readership        \* the bound of this behaviour, one of Readerships

libraryVars == <<access, hasFile, recorded, download, downloadLimit, readership>>

ASSUME LibraryAssumption ==
  /\ IsFiniteSet(Downloads)
  /\ DownloadLimits \subseteq Nat
  /\ Readerships \subseteq Nat \ {0}

\* Named for what the request is about to do; "served" once the file is sent.
DownloadSteps ==
  {"idle", "find", "count", "read", "send", "served", "refused"}

InProgress == {"find", "count", "read", "send"}

LibraryTypeOK ==
  /\ access \in {"none", "active", "revoked"}
  /\ hasFile \in BOOLEAN
  /\ recorded \subseteq Downloads
  /\ download \in [Downloads -> DownloadSteps]
  /\ downloadLimit \in DownloadLimits
  /\ readership \in Readerships

LibraryInit ==
  /\ access = "none"
  /\ hasFile \in BOOLEAN
  /\ recorded = {}
  /\ download = [r \in Downloads |-> "idle"]
  /\ downloadLimit \in DownloadLimits
  /\ readership \in Readerships

-----------------------------------------------------------------------------
(* The confirmation of a payment, its refund, and the editorial team.      *)

GrantAccess ==
  /\ access = "none"
  /\ access' = "active"
  /\ UNCHANGED <<hasFile, recorded, download, downloadLimit, readership>>

RevokeAccess ==
  /\ access = "active"
  /\ access' = "revoked"
  /\ UNCHANGED <<hasFile, recorded, download, downloadLimit, readership>>

UploadFullFile ==
  /\ ~hasFile
  /\ hasFile' = TRUE
  /\ UNCHANGED <<access, recorded, download, downloadLimit, readership>>

-----------------------------------------------------------------------------

Proceed(r, step) ==
  /\ download' = [download EXCEPT ![r] = step]
  /\ UNCHANGED <<access, hasFile, downloadLimit, readership>>

\* The access, of the reader's own library and nowhere else.
CheckAccess(r) ==
  /\ download[r] = "idle"
  /\ Cardinality({q \in Downloads : download[q] \in InProgress}) < readership
  /\ access # "none"
  /\ Proceed(r, IF access = "active" THEN "find" ELSE "refused")
  /\ UNCHANGED recorded

FindFile(r) ==
  /\ download[r] = "find"
  /\ Proceed(r, IF hasFile THEN "count" ELSE "refused")
  /\ UNCHANGED recorded

Unlimited == downloadLimit = 0

\* BelowLimit: one download too many.
UpToLimit == Unlimited \/ Cardinality(recorded) <= downloadLimit

\* The downloads recorded so far leave room for one more.
BelowLimit == Unlimited \/ Cardinality(recorded) < downloadLimit

CountDownloads(r) ==
  /\ download[r] = "count"
  /\ Proceed(r, IF BelowLimit THEN "read" ELSE "refused")
  /\ UNCHANGED recorded

\* The file is missing from the storage, or its checksum differs.
FailToRead(r) ==
  /\ download[r] = "read"
  /\ Proceed(r, "refused")
  /\ UNCHANGED recorded

RecordDownload(r) ==
  /\ download[r] = "read"
  /\ recorded' = recorded \cup {r}
  /\ Proceed(r, "send")

SendFile(r) ==
  /\ download[r] = "send"
  /\ Proceed(r, "served")
  /\ UNCHANGED recorded

\* The API stops: requests in progress are lost, what they wrote remains.
LoseDownloads ==
  /\ \E r \in Downloads : download[r] \in InProgress
  /\ download' = [r \in Downloads |->
                    IF download[r] \in InProgress THEN "refused" ELSE download[r]]
  /\ UNCHANGED <<access, hasFile, recorded, downloadLimit, readership>>

LibraryNext ==
  \/ GrantAccess \/ RevokeAccess \/ UploadFullFile \/ LoseDownloads
  \/ \E r \in Downloads :
       \/ CheckAccess(r) \/ FindFile(r) \/ CountDownloads(r)
       \/ FailToRead(r) \/ RecordDownload(r) \/ SendFile(r)

LibrarySpec == LibraryInit /\ [][LibraryNext]_libraryVars

-----------------------------------------------------------------------------

\* The downloads of a work exceed the limit by less than the number of
\* requests in progress at once; one at a time, they never exceed it.
LimitHolds ==
  Unlimited \/ Cardinality(recorded) < downloadLimit + readership
=============================================================================
