-------------------------------- MODULE Preview --------------------------------
(***************************************************************************)
(* The pages of a PDF format that can be leafed through before buying:     *)
(* their generation in the background after an upload or at a visit        *)
(* (PreviewGenerationService), what a visit announces (PreviewService),    *)
(* and who may see how many (preview-policy.ts).                           *)
(*                                                                         *)
(* A full file is the number of its upload; files are never deactivated    *)
(* nor deleted.  A rendered page is the file it was rendered from.         *)
(***************************************************************************)
EXTENDS Integers, Sequences

CONSTANTS
  Uploads,          \* requests that upload a full file
  PagesOf,          \* pages of the n-th file
  MaxRenderPages,   \* maxRenderPages
  PageCaps,         \* values of maxPagesPublic and maxPagesReader
  PreviewRestarts   \* bound on the restarts of the API

VARIABLES
  files,            \* how many full files the format has
  upload,           \* progress of uploadFormatFile
  previewStatus,    \* work_formats.preview_status
  previewPageCount, \* work_formats.preview_page_count
  stale,            \* the row was last updated more than ten minutes ago
  pages,            \* work_preview_pages: the file each page shows
  running,          \* the format is in PreviewGenerationService.running
  generation,       \* progress of generate
  restarts

previewVars ==
  <<files, upload, previewStatus, previewPageCount, stale, pages, running, generation, restarts>>

FileNumbers == 1 .. Len(PagesOf)

ASSUME PreviewAssumption ==
  /\ PagesOf \in Seq(Nat)
  /\ MaxRenderPages \in Nat \ {0}
  /\ PageCaps \subseteq Nat
  /\ PreviewRestarts \in Nat

-----------------------------------------------------------------------------

PreviewStatus == {"none", "pending", "ready", "failed"}

\* Steps of generate, named for what it is about to do.
Steps == {"idle", "read", "pend", "open", "clear", "render", "publish", "leave"}

Asleep == [step |-> "idle", file |-> 0, total |-> 0, page |-> 0]

PreviewTypeOK ==
  /\ files \in {0} \cup FileNumbers
  /\ upload \in [Uploads -> {"idle", "stored", "done"}]
  /\ previewStatus \in PreviewStatus
  /\ previewPageCount \in 0 .. MaxRenderPages
  /\ stale \in BOOLEAN
  /\ DOMAIN pages \subseteq 1 .. MaxRenderPages
  /\ \A n \in DOMAIN pages : pages[n] \in FileNumbers
  /\ running \in BOOLEAN
  /\ generation \in [step : Steps, file : {0} \cup FileNumbers,
                     total : 0 .. MaxRenderPages, page : 0 .. MaxRenderPages + 1]
  /\ restarts \in 0 .. PreviewRestarts

NoPage == [n \in {} |-> 0]

PreviewInit ==
  /\ files \in {0, 1} \cap (0 .. Len(PagesOf))
  /\ upload = [u \in Uploads |-> "idle"]
  /\ previewStatus = "none"
  /\ previewPageCount = 0
  /\ stale = FALSE
  /\ pages = NoPage
  /\ running = FALSE
  /\ generation = Asleep
  /\ restarts = 0

-----------------------------------------------------------------------------
(* generateInBackground and generate.                                      *)

\* One generation of a format at a time: a call finds it running and returns.
GenerateInBackground ==
  /\ running' = TRUE
  /\ generation' = IF running THEN generation ELSE [Asleep EXCEPT !.step = "read"]

GenerationAt(step) == generation.step = step

\* The latest full file, or nothing to do.
ReadLatestFile ==
  /\ GenerationAt("read")
  /\ generation' = IF files = 0 THEN [generation EXCEPT !.step = "leave"]
                   ELSE [generation EXCEPT !.step = "pend", !.file = files]
  /\ UNCHANGED <<files, upload, previewStatus, previewPageCount, stale, pages, running, restarts>>

\* MarkPending: the pages of the earlier file stay announced meanwhile.
KeepReady ==
  /\ GenerationAt("pend")
  /\ previewStatus' = IF previewStatus = "ready" THEN "ready" ELSE "pending"
  /\ stale' = FALSE
  /\ generation' = [generation EXCEPT !.step = "open"]
  /\ UNCHANGED <<files, upload, previewPageCount, pages, running, restarts>>

MarkPending ==
  /\ GenerationAt("pend")
  /\ previewStatus' = "pending"
  /\ stale' = FALSE
  /\ generation' = [generation EXCEPT !.step = "open"]
  /\ UNCHANGED <<files, upload, previewPageCount, pages, running, restarts>>

\* PagesToRender: without the bound.
EveryPage(file) == PagesOf[file]

PagesToRender(file) == IF PagesOf[file] < MaxRenderPages THEN PagesOf[file] ELSE MaxRenderPages

\* The file is read and its pages are counted.
OpenFile ==
  /\ GenerationAt("open")
  /\ generation' = [generation EXCEPT !.step = "clear", !.total = PagesToRender(generation.file)]
  /\ UNCHANGED <<files, upload, previewStatus, previewPageCount, stale, pages, running, restarts>>

\* Pages of an earlier file are deleted first.
ClearPages ==
  /\ GenerationAt("clear")
  /\ pages' = NoPage
  /\ generation' = [generation EXCEPT !.step = "render", !.page = 1]
  /\ UNCHANGED <<files, upload, previewStatus, previewPageCount, stale, running, restarts>>

WithPage(n, file) ==
  [m \in DOMAIN pages \cup {n} |-> IF m = n THEN file ELSE pages[m]]

RenderPage ==
  /\ GenerationAt("render")
  /\ generation.page <= generation.total
  /\ pages' = WithPage(generation.page, generation.file)
  /\ generation' = [generation EXCEPT !.page = @ + 1]
  /\ UNCHANGED <<files, upload, previewStatus, previewPageCount, stale, running, restarts>>

PublishPreview ==
  /\ GenerationAt("render")
  /\ generation.page > generation.total
  /\ previewStatus' = "ready"
  /\ previewPageCount' = generation.total
  /\ stale' = FALSE
  /\ generation' = [generation EXCEPT !.step = "leave"]
  /\ UNCHANGED <<files, upload, pages, running, restarts>>

\* The storage or the renderer fails.
FailPreview ==
  /\ GenerationAt("open") \/ (GenerationAt("render") /\ generation.page <= generation.total)
  /\ previewStatus' = "failed"
  /\ stale' = FALSE
  /\ generation' = [generation EXCEPT !.step = "leave"]
  /\ UNCHANGED <<files, upload, previewPageCount, pages, running, restarts>>

\* The continuation of the last write takes the format out of running.
LeaveRunning ==
  /\ GenerationAt("leave")
  /\ running' = FALSE
  /\ generation' = Asleep
  /\ UNCHANGED <<files, upload, previewStatus, previewPageCount, stale, pages, restarts>>

Generate ==
  \/ ReadLatestFile \/ MarkPending \/ OpenFile \/ ClearPages
  \/ RenderPage \/ PublishPreview \/ FailPreview \/ LeaveRunning

-----------------------------------------------------------------------------
(* uploadFormatFile and getPreview.                                        *)

StoreFile(u) ==
  /\ upload[u] = "idle"
  /\ files + 1 \in FileNumbers
  /\ files' = files + 1
  /\ upload' = [upload EXCEPT ![u] = "stored"]
  /\ UNCHANGED <<previewStatus, previewPageCount, stale, pages, running, generation, restarts>>

\* After the activity log, the pages of the new file are asked for.
TriggerPreview(u) ==
  /\ upload[u] = "stored"
  /\ upload' = [upload EXCEPT ![u] = "done"]
  /\ GenerateInBackground
  /\ UNCHANGED <<files, previewStatus, previewPageCount, stale, pages, restarts>>

\* NeedsGeneration: a generation in preparation is never resumed.
NeverRetried(byTeam) ==
  /\ files > 0
  /\ previewStatus = "none" \/ (previewStatus = "failed" /\ byTeam)

\* A visit by a reader, or by the team that may retry a failure.
NeedsGeneration(byTeam) ==
  /\ files > 0
  /\ \/ previewStatus = "none"
     \/ previewStatus = "pending" /\ stale
     \/ previewStatus = "failed" /\ byTeam

VisitPreview(byTeam) ==
  /\ NeedsGeneration(byTeam)
  /\ GenerateInBackground
  /\ UNCHANGED <<files, upload, previewStatus, previewPageCount, stale, pages, restarts>>

\* Ten minutes pass without a write to the format.
GrowStale ==
  /\ ~stale /\ previewStatus = "pending"
  /\ stale' = TRUE
  /\ UNCHANGED <<files, upload, previewStatus, previewPageCount, pages, running, generation, restarts>>

\* What is in memory is lost: running, the generation, the uploads in progress.
RestartPreview ==
  /\ restarts < PreviewRestarts
  /\ restarts' = restarts + 1
  /\ running' = FALSE
  /\ generation' = Asleep
  /\ upload' = [u \in Uploads |-> IF upload[u] = "stored" THEN "done" ELSE upload[u]]
  /\ UNCHANGED <<files, previewStatus, previewPageCount, stale, pages>>

PreviewNext ==
  \/ Generate
  \/ \E u \in Uploads : StoreFile(u) \/ TriggerPreview(u)
  \/ \E byTeam \in BOOLEAN : VisitPreview(byTeam)
  \/ GrowStale
  \/ RestartPreview

PreviewSpec == PreviewInit /\ [][PreviewNext]_previewVars

\* Node runs the generation it started, time passes, and readers come back.
PreviewFairness ==
  /\ WF_previewVars(Generate)
  /\ WF_previewVars(GrowStale)
  /\ WF_previewVars(VisitPreview(FALSE))

-----------------------------------------------------------------------------
(* preview-policy.ts.                                                      *)

Visitor ==
  [loggedIn : BOOLEAN, admin : BOOLEAN, team : BOOLEAN, buyer : BOOLEAN]

\* Roles and purchases belong to an account.
Visitors == {v \in Visitor : v.admin \/ v.team \/ v.buyer => v.loggedIn}

PolicyWork == [published : BOOLEAN, private : BOOLEAN, free : BOOLEAN]
PolicySettings == [enabled : BOOLEAN, public : PageCaps, reader : PageCaps]

\* maxPages is null: every rendered page.
NoCap == MaxRenderPages

\* ResolvePreviewPolicy: a buyer is recognised before the work is.
BuyersFirst(v, w, s) ==
  IF v.admin \/ v.team \/ v.buyer THEN NoCap
  ELSE IF ~w.published \/ w.private THEN 0
  ELSE IF ~s.enabled THEN 0
  ELSE IF w.free THEN NoCap
  ELSE IF v.loggedIn THEN s.reader ELSE s.public

\* The pages a visitor may see: none when the work does not exist for them.
ResolvePreviewPolicy(v, w, s) ==
  IF v.admin \/ v.team THEN NoCap
  ELSE IF ~w.published \/ w.private THEN 0
  ELSE IF v.buyer THEN NoCap
  ELSE IF ~s.enabled THEN 0
  ELSE IF w.free THEN NoCap
  ELSE IF v.loggedIn THEN s.reader ELSE s.public

\* Pages announced to a visitor, as the urls of getPreview.
AllowedPages(v, w, s) ==
  IF previewStatus # "ready" THEN 0
  ELSE LET cap == ResolvePreviewPolicy(v, w, s)
       IN  IF cap < previewPageCount THEN cap ELSE previewPageCount

-----------------------------------------------------------------------------

\* Every page announced exists, and all are of one file: a preview is ready
\* only with the pages 1 to previewPageCount of the same upload, whatever
\* regenerations, failures and restarts came before.
AnnouncedPagesExist ==
  previewStatus = "ready" =>
    \A v \in Visitors, w \in PolicyWork, s \in PolicySettings :
      \A m, n \in 1 .. AllowedPages(v, w, s) :
        m \in DOMAIN pages /\ n \in DOMAIN pages /\ pages[m] = pages[n]

\* The team sees at least what a buyer sees, who sees at least what any reader
\* sees; a work that is not published, or private, is for its team alone.
RightsOnlyAdd ==
  previewStatus = "ready" =>
    \A v \in Visitors, w \in PolicyWork, s \in PolicySettings :
      /\ v.loggedIn =>
           LET pagesOf(x) == AllowedPages(x, w, s)
           IN  /\ pagesOf(v) <= pagesOf([v EXCEPT !.buyer = TRUE])
               /\ pagesOf(v) <= pagesOf([v EXCEPT !.team = TRUE])
      /\ AllowedPages(v, w, s) > 0 => v.admin \/ v.team \/ (w.published /\ ~w.private)

\* A preview does not stay in preparation: a format with a file ends up ready
\* or failed, even if the API stops while it generates.
PreviewSettles ==
  files > 0 /\ previewStatus \in {"none", "pending"} ~> previewStatus \in {"ready", "failed"}

\* "dès qu'un fichier complet est envoyé, les pages consultables en aperçu se
\* régénèrent": at rest, a ready preview shows the latest file.
PreviewIsCurrent ==
  previewStatus = "ready" /\ ~running /\ (\A u \in Uploads : upload[u] # "stored")
    => \A n \in DOMAIN pages : pages[n] = files
=============================================================================
