---------------------------- MODULE EditorialProofs ----------------------------
(***************************************************************************)
(* Theorems of Editorial, for any number of requests and any choice of     *)
(* statuses, visibilities and authors, and of Preview, for any number of   *)
(* uploads, files, pages and restarts.                                     *)
(***************************************************************************)
EXTENDS Editorial, Preview, FiniteSetTheorems, TLAPS

-----------------------------------------------------------------------------
(* Type correctness.                                                       *)

\* A row of works, and what a request remembers of what it asked for.
WorkRows ==
  [exists : BOOLEAN, status : WorkStatus, visibility : WorkVisibility,
   author : Authors, featured : BOOLEAN, deleted : BOOLEAN]

EditRecords ==
  [step : {"idle", "update", "remove", "feature", "unfeature"}, role : Roles,
   status : WorkStatus \cup {Unchanged}, visibility : WorkVisibility \cup {Unchanged},
   author : Authors \cup {Unchanged}]

LEMMA RowsAreTyped ==
  EditorialTypeOK <=> /\ work \in WorkRows /\ chosen \in BOOLEAN /\ writer \in Roles
                      /\ edit \in [Edits -> EditRecords] /\ editLimit \in EditLimits
BY DEF EditorialTypeOK, WorkRows, EditRecords

LEMMA NewRowsOK == NoWork \in WorkRows /\ NoEdit \in EditRecords
BY EditorialAssumption
   DEF EditorialAssumption, NoWork, NoEdit, WorkRows, EditRecords, Roles, Unchanged, WorkStatus,
       WorkVisibility

\* What the writing of a request gives the row.
LEMMA WrittenRow ==
  ASSUME NEW w \in WorkRows, NEW status \in WorkStatus \cup {Unchanged},
         NEW explicit \in WorkVisibility \cup {Unchanged}, NEW author \in Authors \cup {Unchanged}
  PROVE  /\ Written(w, status, explicit, author) \in WorkRows
         /\ Written(w, status, explicit, author).exists = w.exists
         /\ Written(w, status, explicit, author).status
              = (IF status = Unchanged THEN w.status ELSE status)
         /\ Written(w, status, explicit, author).visibility
              = ResolveVisibility(status, explicit, w.visibility)
<1> DEFINE row == Written(w, status, explicit, author)
<1>1. ResolveVisibility(status, explicit, w.visibility) \in WorkVisibility
  BY DEF ResolveVisibility, WorkRows, WorkVisibility, Unchanged
<1>2. (IF status = Unchanged THEN w.status ELSE status) \in WorkStatus
  BY DEF WorkRows
<1>3. (IF author = Unchanged THEN w.author ELSE author) \in Authors
  BY DEF WorkRows
<1>4. row = [w EXCEPT !.status = IF status = Unchanged THEN w.status ELSE status,
                      !.visibility = ResolveVisibility(status, explicit, w.visibility),
                      !.author = IF author = Unchanged THEN w.author ELSE author]
  BY DEF Written, WorkRows
<1> QED
  BY <1>1, <1>2, <1>3, <1>4 DEF WorkRows

LEMMA ChoicesOK ==
  /\ Statuses \cup {Unchanged} \subseteq WorkStatus \cup {Unchanged}
  /\ Visibilities \cup {Unchanged} \subseteq WorkVisibility \cup {Unchanged}
BY EditorialAssumption DEF EditorialAssumption

LEMMA NextEditorialTypeOK == EditorialTypeOK /\ [EditorialNext]_editorialVars => EditorialTypeOK'
<1> SUFFICES ASSUME EditorialTypeOK, [EditorialNext]_editorialVars
             PROVE  EditorialTypeOK'
  OBVIOUS
<1>0. /\ work \in WorkRows /\ chosen \in BOOLEAN /\ writer \in Roles
      /\ edit \in [Edits -> EditRecords] /\ editLimit \in EditLimits
  BY RowsAreTyped
<1>a. SUFFICES /\ work' \in WorkRows /\ chosen' \in BOOLEAN /\ writer' \in Roles
               /\ edit' \in [Edits -> EditRecords] /\ editLimit' \in EditLimits
  BY DEF EditorialTypeOK, WorkRows, EditRecords
<1> USE <1>0, NewRowsOK DEF LeaveEdit
<1>1. ASSUME NEW role \in Roles, NEW status \in Statuses \cup {Unchanged},
             NEW visibility \in Visibilities \cup {Unchanged},
             NEW author \in Authors \cup {Unchanged}, CreateWork(role, status, visibility, author)
      PROVE  /\ work' \in WorkRows /\ chosen' \in BOOLEAN /\ writer' \in Roles
             /\ edit' \in [Edits -> EditRecords] /\ editLimit' \in EditLimits
  <2>1. [NoWork EXCEPT !.exists = TRUE] \in WorkRows
    BY DEF WorkRows
  <2> QED
    BY <1>1, <2>1, WrittenRow, ChoicesOK DEF CreateWork, ChosenAfter
<1>2. ASSUME NEW e \in Edits, NEW role \in Roles, NEW status \in Statuses \cup {Unchanged},
             NEW visibility \in Visibilities \cup {Unchanged},
             NEW author \in Authors \cup {Unchanged},
             CheckUpdate(e, role, status, visibility, author)
      PROVE  /\ work' \in WorkRows /\ chosen' \in BOOLEAN /\ writer' \in Roles
             /\ edit' \in [Edits -> EditRecords] /\ editLimit' \in EditLimits
  BY <1>2, ChoicesOK DEF CheckUpdate, EditRecords
<1>3. ASSUME NEW e \in Edits, NEW role \in Roles, CheckDeletion(e, role)
      PROVE  /\ work' \in WorkRows /\ chosen' \in BOOLEAN /\ writer' \in Roles
             /\ edit' \in [Edits -> EditRecords] /\ editLimit' \in EditLimits
  BY <1>3 DEF CheckDeletion, BeginEdit, EditRecords
<1>4. ASSUME NEW e \in Edits, NEW on \in BOOLEAN, CheckFeatured(e, on)
      PROVE  /\ work' \in WorkRows /\ chosen' \in BOOLEAN /\ writer' \in Roles
             /\ edit' \in [Edits -> EditRecords] /\ editLimit' \in EditLimits
  BY <1>4 DEF CheckFeatured, BeginEdit, EditRecords, Roles
<1>5. ASSUME NEW e \in Edits, WriteUpdate(e)
      PROVE  /\ work' \in WorkRows /\ chosen' \in BOOLEAN /\ writer' \in Roles
             /\ edit' \in [Edits -> EditRecords] /\ editLimit' \in EditLimits
  <2>1. /\ edit[e].role \in Roles /\ edit[e].status \in WorkStatus \cup {Unchanged}
        /\ edit[e].visibility \in WorkVisibility \cup {Unchanged}
        /\ edit[e].author \in Authors \cup {Unchanged}
    BY DEF EditRecords
  <2> QED
    BY <1>5, <2>1, WrittenRow DEF WriteUpdate, ChosenAfter
<1>6. ASSUME NEW e \in Edits, WriteDeletion(e) \/ WriteFeatured(e) \/ AbandonEdit(e)
      PROVE  /\ work' \in WorkRows /\ chosen' \in BOOLEAN /\ writer' \in Roles
             /\ edit' \in [Edits -> EditRecords] /\ editLimit' \in EditLimits
  <2>1. edit[e].role \in Roles
    BY DEF EditRecords
  <2>2. \A on \in BOOLEAN : /\ [work EXCEPT !.deleted = TRUE] \in WorkRows
                            /\ [work EXCEPT !.featured = on] \in WorkRows
    BY DEF WorkRows
  <2> QED
    BY <1>6, <2>1, <2>2 DEF WriteDeletion, WriteFeatured, AbandonEdit
<1>7. CASE UNCHANGED editorialVars
  BY <1>7 DEF editorialVars
<1> QED
  BY <1>1, <1>2, <1>3, <1>4, <1>5, <1>6, <1>7 DEF EditorialNext

\* Every reachable state is typed.
THEOREM EditorialTyped == EditorialSpec => []EditorialTypeOK
<1>1. EditorialInit => EditorialTypeOK
  BY NewRowsOK, RowsAreTyped DEF EditorialInit, Roles
<1> QED
  BY <1>1, NextEditorialTypeOK, PTL DEF EditorialSpec

-----------------------------------------------------------------------------
(* Visibility.                                                             *)

LEMMA VisibilityFollows ==
  ASSUME NEW w \in WorkRows, NEW status \in WorkStatus \cup {Unchanged},
         status = Unchanged => (w.visibility = "public" <=> w.status = "published"),
         NEW author \in Authors \cup {Unchanged},
         NEW row, row = Written(w, status, Unchanged, author)
  PROVE  row.visibility = "public" <=> row.status = "published"
<1>1. /\ row.status = (IF status = Unchanged THEN w.status ELSE status)
      /\ row.visibility = ResolveVisibility(status, Unchanged, w.visibility)
  BY WrittenRow
<1> QED
  BY <1>1 DEF ResolveVisibility

LEMMA NextPublicIffPublished ==
  EditorialTypeOK /\ PublicIffPublished /\ [EditorialNext]_editorialVars => PublicIffPublished'
<1> SUFFICES ASSUME EditorialTypeOK, PublicIffPublished, [EditorialNext]_editorialVars
             PROVE  PublicIffPublished'
  OBVIOUS
<1>0. /\ work \in WorkRows /\ chosen \in BOOLEAN /\ edit \in [Edits -> EditRecords]
  BY RowsAreTyped
<1> USE <1>0 DEF PublicIffPublished
<1>1. ASSUME NEW role \in Roles, NEW status \in Statuses \cup {Unchanged},
             NEW visibility \in Visibilities \cup {Unchanged},
             NEW author \in Authors \cup {Unchanged}, CreateWork(role, status, visibility, author)
      PROVE  PublicIffPublished'
  <2> DEFINE new == [NoWork EXCEPT !.exists = TRUE]
  <2>1. new \in WorkRows /\ new.status = "draft" /\ new.visibility = "private"
    BY NewRowsOK DEF WorkRows, NoWork
  <2>2. work' = Written(new, status, visibility, author)
    BY <1>1 DEF CreateWork
  <2>3. ~chosen' => visibility = Unchanged
    BY <1>1 DEF CreateWork, ChosenAfter
  <2> HIDE DEF new
  <2> QED
    BY <2>1, <2>2, <2>3, VisibilityFollows, ChoicesOK
<1>2. ASSUME NEW e \in Edits, WriteUpdate(e)
      PROVE  PublicIffPublished'
  <2>1. /\ edit[e].status \in WorkStatus \cup {Unchanged}
        /\ edit[e].author \in Authors \cup {Unchanged}
    BY DEF EditRecords
  <2>2. work' = Written(work, edit[e].status, edit[e].visibility, edit[e].author)
    BY <1>2 DEF WriteUpdate
  <2>3. ~chosen' => edit[e].visibility = Unchanged /\ (edit[e].status = Unchanged => ~chosen)
    BY <1>2 DEF WriteUpdate, ChosenAfter
  <2> QED
    BY <2>1, <2>2, <2>3, VisibilityFollows
<1>3. ASSUME NEW e \in Edits, WriteDeletion(e) \/ WriteFeatured(e)
      PROVE  PublicIffPublished'
  BY <1>3 DEF WriteDeletion, WriteFeatured, WorkRows
<1>4. CASE UNCHANGED <<work, chosen>>
  BY <1>4
<1> QED
  BY <1>1, <1>2, <1>3, <1>4
     DEF EditorialNext, CheckUpdate, CheckDeletion, CheckFeatured, AbandonEdit, editorialVars

\* Unless a visibility was asked for, a work is public exactly while it is
\* published, however requests overlap (resolveVisibility, create, update).
THEOREM VisibilityFollowsStatus == EditorialSpec => []PublicIffPublished
<1>1. EditorialInit => PublicIffPublished
  BY DEF EditorialInit, NoWork, PublicIffPublished
<1> QED
  BY <1>1, NextPublicIffPublished, EditorialTyped, PTL DEF EditorialSpec

-----------------------------------------------------------------------------
(* Publication.                                                            *)

LEMMA EditsAlone ==
  ASSUME editLimit = 1, NEW e \in Edits, MayEdit(e)
  PROVE  \A f \in Edits : edit[f].step = "idle"
<1> DEFINE Busy == {f \in Edits : edit[f].step # "idle"}
<1>1. IsFiniteSet(Busy)
  BY EditorialAssumption, FS_Subset DEF EditorialAssumption
<1>2. Cardinality(Busy) \in Nat /\ Cardinality(Busy) < 1
  BY <1>1, FS_CardinalityType DEF MayEdit
<1>3. Busy = {}
  BY <1>1, <1>2, FS_EmptySet
<1> QED
  BY <1>3

\* The update in progress is alone, about a work that exists, and what its role
\* was allowed still applies to the status of the row.
OneEdit ==
  /\ \A e, f \in Edits : edit[e].step # "idle" /\ edit[f].step # "idle" => e = f
  /\ \A e \in Edits : edit[e].step # "idle" => work.exists
  /\ \A e \in Edits : edit[e].step = "update" =>
       /\ AllowedStatus(edit[e].role, work.status, edit[e].status)
       /\ edit[e].role # "other"
       /\ edit[e].role = "author" => work.author = Oneself

EditInv == editLimit = 1 => OneEdit

LEMMA NextEditInv ==
  EditorialTypeOK /\ EditInv /\ [EditorialNext]_editorialVars => EditInv'
<1> SUFFICES ASSUME EditorialTypeOK, EditInv, [EditorialNext]_editorialVars, editLimit' = 1
             PROVE  OneEdit'
  BY DEF EditInv
<1>0. editLimit = 1 /\ OneEdit
  BY DEF EditInv, EditorialNext, editorialVars, CreateWork, CheckUpdate, CheckDeletion,
         CheckFeatured, WriteUpdate, WriteDeletion, WriteFeatured, AbandonEdit
<1>a. work \in WorkRows /\ edit \in [Edits -> EditRecords]
  BY RowsAreTyped
<1> USE <1>0, <1>a DEF OneEdit, LeaveEdit, NoEdit
<1>1. ASSUME NEW role \in Roles, NEW status \in Statuses \cup {Unchanged},
             NEW visibility \in Visibilities \cup {Unchanged},
             NEW author \in Authors \cup {Unchanged}, CreateWork(role, status, visibility, author)
      PROVE  OneEdit'
  <2>1. \A e \in Edits : edit'[e].step = "idle"
    BY <1>1 DEF CreateWork
  <2> QED
    BY <2>1
<1>2. ASSUME NEW e \in Edits, NEW role \in Roles, NEW status \in Statuses \cup {Unchanged},
             NEW visibility \in Visibilities \cup {Unchanged},
             NEW author \in Authors \cup {Unchanged},
             CheckUpdate(e, role, status, visibility, author)
      PROVE  OneEdit'
  <2>1. /\ edit'[e].step = "update" /\ edit'[e].role = role /\ edit'[e].status = status
        /\ \A f \in Edits \ {e} : edit'[f] = edit[f]
        /\ work' = work /\ work.exists
    BY <1>2 DEF CheckUpdate, Listed
  <2>2. \A f \in Edits : edit[f].step = "idle"
    BY <1>2, EditsAlone DEF CheckUpdate
  <2>3. /\ AllowedStatus(role, work.status, status)
        /\ role # "other" /\ (role = "author" => work.author = Oneself)
    BY <1>2 DEF CheckUpdate, CanWriteWork
  <2>4. AllowedStatus(edit'[e].role, work'.status, edit'[e].status)
    BY <2>1, <2>3
  <2> QED
    BY <2>1, <2>2, <2>3, <2>4 DEF AllowedStatus
<1>3. ASSUME NEW e \in Edits,
             WriteUpdate(e) \/ WriteDeletion(e) \/ WriteFeatured(e) \/ AbandonEdit(e)
      PROVE  OneEdit'
  <2>1. edit[e].step # "idle" /\ edit' = [edit EXCEPT ![e] = NoEdit]
    BY <1>3 DEF WriteUpdate, WriteDeletion, WriteFeatured, AbandonEdit
  <2>2. \A f \in Edits : edit'[f].step = "idle"
    BY <2>1
  <2> QED
    BY <2>2
<1>4. ASSUME NEW e \in Edits, NEW role \in Roles, CheckDeletion(e, role)
      PROVE  OneEdit'
  <2>1. /\ edit'[e].step = "remove" /\ work' = work /\ work.exists /\ MayEdit(e)
        /\ \A f \in Edits \ {e} : edit'[f] = edit[f]
    BY <1>4 DEF CheckDeletion, BeginEdit, Listed
  <2> QED
    BY <2>1, EditsAlone
<1>5. ASSUME NEW e \in Edits, NEW on \in BOOLEAN, CheckFeatured(e, on)
      PROVE  OneEdit'
  <2>1. /\ edit'[e].step \in {"feature", "unfeature"} /\ work' = work /\ work.exists /\ MayEdit(e)
        /\ \A f \in Edits \ {e} : edit'[f] = edit[f]
    BY <1>5 DEF CheckFeatured, BeginEdit, Listed
  <2> QED
    BY <2>1, EditsAlone
<1>6. CASE UNCHANGED editorialVars
  BY <1>6 DEF editorialVars, AllowedStatus
<1> QED
  BY <1>1, <1>2, <1>3, <1>4, <1>5, <1>6 DEF EditorialNext

LEMMA EditInvariant == EditorialSpec => [](EditorialTypeOK /\ EditInv)
<1>1. EditorialInit => EditorialTypeOK /\ EditInv
  <2>1. EditorialInit => EditorialTypeOK
    BY NewRowsOK, RowsAreTyped DEF EditorialInit, Roles
  <2> QED
    BY <2>1 DEF EditorialInit, EditInv, OneEdit, NoEdit
<1> QED
  BY <1>1, NextEditorialTypeOK, NextEditInv, PTL DEF EditorialSpec

\* As long as requests do not overlap, only the direction of the publisher
\* publishes (assertAllowedStatus, create, update).
THEOREM OnlyManagersPublishAlways == EditorialSpec => OnlyManagersPublish
<1> DEFINE Inv == EditorialTypeOK /\ EditInv
           Guarded == editLimit = 1 /\ work.status # "published" /\ work'.status = "published"
                        => writer' = "manager"
<1>1. Inv /\ [EditorialNext]_editorialVars => [Guarded]_editorialVars
  <2> SUFFICES ASSUME Inv, EditorialNext, editLimit = 1, work.status # "published",
                      work'.status = "published"
               PROVE  writer' = "manager"
    OBVIOUS
  <2>0. work \in WorkRows /\ edit \in [Edits -> EditRecords] /\ OneEdit
    BY RowsAreTyped DEF EditInv
  <2>1. ASSUME NEW role \in Roles, NEW status \in Statuses \cup {Unchanged},
               NEW visibility \in Visibilities \cup {Unchanged},
               NEW author \in Authors \cup {Unchanged},
               CreateWork(role, status, visibility, author)
        PROVE  writer' = "manager"
    <3> DEFINE new == [NoWork EXCEPT !.exists = TRUE]
    <3>1. new \in WorkRows /\ new.status = "draft"
      BY NewRowsOK DEF WorkRows, NoWork
    <3>2. work' = Written(new, status, visibility, author)
      BY <2>1 DEF CreateWork
    <3> HIDE DEF new
    <3>3. status = "published"
      BY <3>1, <3>2, WrittenRow, ChoicesOK
    <3>4. AllowedStatus(role, Unchanged, "published") /\ CanWriteWork(role, author)
      BY <2>1, <3>3 DEF CreateWork
    <3>5. role = "manager"
      BY <3>4 DEF AllowedStatus, CanWriteWork, Unchanged, PRE_REVIEW_STATUSES, Roles
    <3> QED
      BY <2>1, <3>5 DEF CreateWork
  <2>2. ASSUME NEW e \in Edits, WriteUpdate(e)
        PROVE  writer' = "manager"
    <3>1. /\ edit[e].status \in WorkStatus \cup {Unchanged} /\ edit[e].role \in Roles
          /\ edit[e].visibility \in WorkVisibility \cup {Unchanged}
          /\ edit[e].author \in Authors \cup {Unchanged}
      BY <2>0 DEF EditRecords
    <3>2. edit[e].status = "published"
      BY <2>0, <2>2, <3>1, WrittenRow DEF WriteUpdate
    <3>3. AllowedStatus(edit[e].role, work.status, "published") /\ edit[e].role # "other"
      BY <2>0, <2>2, <3>2 DEF WriteUpdate, OneEdit
    <3>4. edit[e].role = "manager"
      BY <3>1, <3>3 DEF AllowedStatus, Unchanged, PRE_REVIEW_STATUSES, Roles
    <3> QED
      BY <2>2, <3>4 DEF WriteUpdate
  <2>3. \A e \in Edits : ~WriteDeletion(e) /\ ~WriteFeatured(e)
    BY <2>0 DEF WriteDeletion, WriteFeatured, WorkRows
  <2> QED
    BY <2>1, <2>2, <2>3
       DEF EditorialNext, CheckUpdate, CheckDeletion, CheckFeatured, AbandonEdit
<1> QED
  BY <1>1, EditInvariant, PTL DEF EditorialSpec, OnlyManagersPublish

\* Who gives which status: the direction any; an editor the review of what was
\* submitted; the author of the work, whatever its status is, those before the
\* review.  So the author alone, besides the direction, takes back a published
\* work, which admin-works.service.ts:168-171 says it cannot (assertAllowedStatus,
\* update).
StatusesAreGiven ==
  [][editLimit = 1 /\ work.exists /\ work'.status # work.status =>
       \/ writer' = "manager"
       \/ writer' = "editor" /\ work.status = "submitted" /\ work'.status = "under_review"
       \/ writer' = "author" /\ work.author = Oneself /\ work'.status \in PRE_REVIEW_STATUSES
    ]_editorialVars

\* As long as requests do not overlap, what was judged of the row when it was
\* read decides what is written.
THEOREM StatusesAreGivenAlways == EditorialSpec => StatusesAreGiven
<1> DEFINE Given ==
      \/ writer' = "manager"
      \/ writer' = "editor" /\ work.status = "submitted" /\ work'.status = "under_review"
      \/ writer' = "author" /\ work.author = Oneself /\ work'.status \in PRE_REVIEW_STATUSES
    Guarded == editLimit = 1 /\ work.exists /\ work'.status # work.status => Given
<1>1. EditorialTypeOK /\ EditInv /\ [EditorialNext]_editorialVars => [Guarded]_editorialVars
  <2> SUFFICES ASSUME EditorialTypeOK, EditInv, EditorialNext, editLimit = 1, work.exists,
                      work'.status # work.status
               PROVE  Given
    OBVIOUS
  <2>0. work \in WorkRows /\ edit \in [Edits -> EditRecords] /\ OneEdit
    BY RowsAreTyped DEF EditInv
  <2>1. ASSUME NEW e \in Edits, WriteUpdate(e)
        PROVE  Given
    <3>1. /\ edit[e].status \in WorkStatus \cup {Unchanged} /\ edit[e].role \in Roles
          /\ edit[e].visibility \in WorkVisibility \cup {Unchanged}
          /\ edit[e].author \in Authors \cup {Unchanged}
      BY <2>0 DEF EditRecords
    <3>2. work'.status = edit[e].status /\ edit[e].status # Unchanged
      <4>1. work' = Written(work, edit[e].status, edit[e].visibility, edit[e].author)
        BY <2>1 DEF WriteUpdate
      <4>2. work'.status = (IF edit[e].status = Unchanged THEN work.status ELSE edit[e].status)
        BY <2>0, <3>1, <4>1, WrittenRow
      <4> QED
        BY <4>2
    <3>3. /\ AllowedStatus(edit[e].role, work.status, work'.status)
          /\ edit[e].role # "other" /\ (edit[e].role = "author" => work.author = Oneself)
      BY <2>0, <2>1, <3>2 DEF WriteUpdate, OneEdit
    <3>4. work.status # Unchanged /\ work'.status # Unchanged
      BY <2>0, <3>2 DEF WorkRows, WorkStatus, Unchanged
    <3>5. writer' = edit[e].role /\ edit[e].role \in {"manager", "editor", "author"}
      BY <2>1, <3>1, <3>3 DEF WriteUpdate, Roles
    <3> QED
      BY <3>3, <3>4, <3>5 DEF AllowedStatus
  <2>2. \A e \in Edits : ~WriteDeletion(e) /\ ~WriteFeatured(e)
    BY <2>0 DEF WriteDeletion, WriteFeatured, WorkRows
  <2> QED
    BY <2>1, <2>2
       DEF EditorialNext, CreateWork, CheckUpdate, CheckDeletion, CheckFeatured, AbandonEdit
<1> QED
  BY <1>1, EditInvariant, PTL DEF EditorialSpec, StatusesAreGiven

-----------------------------------------------------------------------------
(* Previews.  From MarkPending until the last page is written the format   *)
(* is not ready, so that nobody is announced the pages being replaced; a    *)
(* ready format has exactly the pages of one generation, of one file.       *)

GenerationRecords ==
  [step : Steps, file : {0} \cup FileNumbers,
   total : 0 .. MaxRenderPages, page : 0 .. MaxRenderPages + 1]

FileIsKnown ==
  generation.step \in {"pend", "open", "clear", "render"} => generation.file \in FileNumbers

HiddenWhileReplaced == generation.step \in {"open", "clear", "render"} => previewStatus # "ready"

RenderedSoFar ==
  generation.step = "render" =>
    /\ generation.page \in 1 .. generation.total + 1
    /\ DOMAIN pages = 1 .. generation.page - 1
    /\ \A n \in DOMAIN pages : pages[n] = generation.file

ReadyIsComplete ==
  previewStatus = "ready" =>
    \E file \in FileNumbers :
      /\ DOMAIN pages = 1 .. previewPageCount
      /\ \A n \in DOMAIN pages : pages[n] = file

PreviewInv ==
  /\ FileIsKnown
  /\ HiddenWhileReplaced
  /\ RenderedSoFar
  /\ ReadyIsComplete

LEMMA InitPreviewInv == PreviewInit => PreviewTypeOK /\ PreviewInv
<1> SUFFICES ASSUME PreviewInit PROVE PreviewTypeOK /\ PreviewInv
  OBVIOUS
<1> USE PreviewAssumption DEF PreviewAssumption, PreviewInit
<1>1. Len(PagesOf) \in Nat
  OBVIOUS
<1>2. Asleep \in GenerationRecords /\ Asleep.step = "idle"
  BY DEF Asleep, GenerationRecords, Steps
<1>3. files \in {0} \cup FileNumbers
  BY <1>1 DEF FileNumbers
<1>4. PreviewTypeOK
  <2>1. DOMAIN pages = {}
    BY DEF NoPage
  <2>2. restarts \in 0 .. PreviewRestarts /\ previewPageCount \in 0 .. MaxRenderPages
    OBVIOUS
  <2> QED
    BY <1>2, <1>3, <2>1, <2>2 DEF PreviewTypeOK, PreviewStatus, GenerationRecords
<1>5. PreviewInv
  BY <1>2 DEF PreviewInv, FileIsKnown, HiddenWhileReplaced, RenderedSoFar, ReadyIsComplete
<1> QED
  BY <1>4, <1>5

LEMMA PagesToRenderOK ==
  ASSUME NEW file \in FileNumbers
  PROVE  PagesToRender(file) \in 0 .. MaxRenderPages
<1>1. PagesOf[file] \in Nat
  BY PreviewAssumption DEF PreviewAssumption, FileNumbers
<1> QED
  BY <1>1, PreviewAssumption DEF PreviewAssumption, PagesToRender

\* A call while a generation runs changes nothing of it; else a new one begins.
LEMMA CallingGeneration ==
  ASSUME PreviewTypeOK, PreviewInv, GenerateInBackground,
         UNCHANGED <<previewStatus, previewPageCount, stale, pages, restarts>>,
         files' \in {0} \cup FileNumbers,
         upload' \in [Uploads -> {"idle", "stored", "done"}]
  PROVE  PreviewTypeOK' /\ PreviewInv'
<1>1. generation' = generation \/ (generation' \in GenerationRecords /\ generation'.step = "read")
  <2>1. [Asleep EXCEPT !.step = "read"] = [step |-> "read", file |-> 0, total |-> 0, page |-> 0]
    BY DEF Asleep
  <2> QED
    BY <2>1, PreviewAssumption DEF PreviewAssumption, GenerateInBackground, GenerationRecords, Steps
<1>2. PreviewTypeOK'
  BY <1>1 DEF PreviewTypeOK, GenerationRecords, GenerateInBackground
<1>3. PreviewInv'
  BY <1>1 DEF PreviewInv, FileIsKnown, HiddenWhileReplaced, RenderedSoFar, ReadyIsComplete
<1> QED
  BY <1>2, <1>3

LEMMA NextPreviewInv ==
  PreviewTypeOK /\ PreviewInv /\ [PreviewNext]_previewVars => PreviewTypeOK' /\ PreviewInv'
<1> SUFFICES ASSUME PreviewTypeOK, PreviewInv, [PreviewNext]_previewVars
             PROVE  PreviewTypeOK' /\ PreviewInv'
  OBVIOUS
<1> USE PreviewAssumption DEF PreviewAssumption
<1>0. MaxRenderPages \in Nat /\ generation \in GenerationRecords
  BY DEF PreviewTypeOK, GenerationRecords
<1>1. CASE ReadLatestFile
  <2>1. generation' \in GenerationRecords /\ generation'.step \in {"leave", "pend"}
    BY <1>0, <1>1 DEF ReadLatestFile, GenerationRecords, Steps, PreviewTypeOK
  <2>2. FileIsKnown'
    BY <1>0, <1>1 DEF ReadLatestFile, FileIsKnown, GenerationRecords, PreviewTypeOK
  <2> QED
    BY <1>1, <2>1, <2>2
       DEF ReadLatestFile, PreviewTypeOK, GenerationRecords, PreviewInv,
           HiddenWhileReplaced, RenderedSoFar, ReadyIsComplete
<1>2. CASE MarkPending
  <2>1. /\ generation' \in GenerationRecords /\ generation'.step = "open"
        /\ generation'.file = generation.file
    BY <1>0, <1>2 DEF MarkPending, GenerationRecords, Steps
  <2> QED
    BY <1>2, <2>1
       DEF MarkPending, GenerationAt, PreviewTypeOK, PreviewStatus, GenerationRecords, PreviewInv,
           FileIsKnown, HiddenWhileReplaced, RenderedSoFar, ReadyIsComplete
<1>3. CASE OpenFile
  <2>1. generation.file \in FileNumbers
    BY <1>3 DEF OpenFile, GenerationAt, PreviewInv, FileIsKnown
  <2>2. /\ generation' \in GenerationRecords /\ generation'.step = "clear"
        /\ generation'.file = generation.file
    BY <1>0, <1>3, <2>1, PagesToRenderOK DEF OpenFile, GenerationRecords, Steps
  <2> QED
    BY <1>3, <2>1, <2>2
       DEF OpenFile, GenerationAt, PreviewTypeOK, GenerationRecords, PreviewInv,
           FileIsKnown, HiddenWhileReplaced, RenderedSoFar, ReadyIsComplete
<1>4. CASE ClearPages
  <2>1. /\ generation' \in GenerationRecords /\ generation'.step = "render"
        /\ generation'.file = generation.file /\ generation'.page = 1
        /\ generation'.total = generation.total
    <3>1. 1 \in 0 .. MaxRenderPages + 1
      BY <1>0
    <3>2. "render" \in Steps
      BY DEF Steps
    <3>3. generation' = [generation EXCEPT !.step = "render", !.page = 1]
      BY <1>4 DEF ClearPages
    <3> QED
      BY <1>0, <3>1, <3>2, <3>3 DEF GenerationRecords
  <2>2. DOMAIN pages' = {} /\ 1 .. generation'.page - 1 = {}
    BY <1>4, <2>1 DEF ClearPages, NoPage
  <2>3. previewStatus # "ready" /\ generation.file \in FileNumbers /\ generation.total \in Nat
    BY <1>0, <1>4 DEF ClearPages, GenerationAt, PreviewInv, HiddenWhileReplaced, FileIsKnown,
                      GenerationRecords
  <2> QED
    BY <1>4, <2>1, <2>2, <2>3
       DEF ClearPages, PreviewTypeOK, GenerationRecords, PreviewInv,
           FileIsKnown, HiddenWhileReplaced, RenderedSoFar, ReadyIsComplete
<1>5. CASE RenderPage
  <2>1. /\ generation.page \in 1 .. generation.total /\ generation.total \in 0 .. MaxRenderPages
        /\ DOMAIN pages = 1 .. generation.page - 1
        /\ \A n \in DOMAIN pages : pages[n] = generation.file
        /\ generation.file \in FileNumbers /\ previewStatus # "ready"
    BY <1>0, <1>5 DEF RenderPage, GenerationAt, PreviewInv, RenderedSoFar, FileIsKnown,
                      HiddenWhileReplaced, GenerationRecords
  <2>2. /\ generation' \in GenerationRecords /\ generation'.step = "render"
        /\ generation'.file = generation.file /\ generation'.page = generation.page + 1
        /\ generation'.total = generation.total
    BY <1>0, <1>5, <2>1 DEF RenderPage, GenerationAt, GenerationRecords, Steps
  <2>3. /\ DOMAIN pages' = DOMAIN pages \cup {generation.page}
        /\ \A n \in DOMAIN pages' : pages'[n] = generation.file
    BY <1>5, <2>1 DEF RenderPage, WithPage
  <2>4. DOMAIN pages' = 1 .. generation'.page - 1
    BY <2>1, <2>2, <2>3
  <2>5. PreviewTypeOK'
    BY <1>5, <2>1, <2>2, <2>3 DEF RenderPage, PreviewTypeOK, GenerationRecords
  <2> QED
    BY <1>5, <2>1, <2>2, <2>3, <2>4, <2>5
       DEF RenderPage, PreviewInv, FileIsKnown, HiddenWhileReplaced, RenderedSoFar, ReadyIsComplete
<1>6. CASE PublishPreview
  <2>1. /\ generation.total \in 0 .. MaxRenderPages
        /\ generation.page = generation.total + 1
        /\ DOMAIN pages = 1 .. generation.total
        /\ \A n \in DOMAIN pages : pages[n] = generation.file
        /\ generation.file \in FileNumbers
    BY <1>0, <1>6 DEF PublishPreview, GenerationAt, PreviewInv, RenderedSoFar, FileIsKnown,
                      GenerationRecords
  <2>2. generation' \in GenerationRecords /\ generation'.step = "leave"
    BY <1>0, <1>6 DEF PublishPreview, GenerationRecords, Steps
  <2>3. PreviewTypeOK'
    BY <1>6, <2>1, <2>2 DEF PublishPreview, PreviewTypeOK, PreviewStatus, GenerationRecords
  <2>4. ReadyIsComplete'
    BY <1>6, <2>1 DEF PublishPreview, ReadyIsComplete
  <2> QED
    BY <2>2, <2>3, <2>4 DEF PreviewInv, FileIsKnown, HiddenWhileReplaced, RenderedSoFar
<1>7. CASE FailPreview
  <2>1. generation' \in GenerationRecords /\ generation'.step = "leave"
    BY <1>0, <1>7 DEF FailPreview, GenerationRecords, Steps
  <2> QED
    BY <1>7, <2>1
       DEF FailPreview, PreviewTypeOK, PreviewStatus, GenerationRecords, PreviewInv,
           FileIsKnown, HiddenWhileReplaced, RenderedSoFar, ReadyIsComplete
<1>8. CASE LeaveRunning \/ RestartPreview
  <2>1. generation' \in GenerationRecords /\ generation'.step = "idle"
    BY <1>8 DEF LeaveRunning, RestartPreview, Asleep, GenerationRecords, Steps
  <2>2. /\ restarts' \in 0 .. PreviewRestarts
        /\ upload' \in [Uploads -> {"idle", "stored", "done"}]
    BY <1>8 DEF LeaveRunning, RestartPreview, PreviewTypeOK
  <2>3. UNCHANGED <<files, previewStatus, previewPageCount, stale, pages>> /\ running' = FALSE
    BY <1>8 DEF LeaveRunning, RestartPreview
  <2>4. PreviewTypeOK'
    BY <2>1, <2>2, <2>3 DEF PreviewTypeOK, GenerationRecords
  <2> QED
    BY <2>1, <2>3, <2>4
       DEF PreviewInv, FileIsKnown, HiddenWhileReplaced, RenderedSoFar, ReadyIsComplete
<1>9. ASSUME NEW u \in Uploads, StoreFile(u)
      PROVE  PreviewTypeOK' /\ PreviewInv'
  BY <1>9 DEF StoreFile, PreviewTypeOK, PreviewInv, FileIsKnown, HiddenWhileReplaced,
              RenderedSoFar, ReadyIsComplete
<1>10. ASSUME NEW u \in Uploads, TriggerPreview(u)
       PROVE  PreviewTypeOK' /\ PreviewInv'
  BY <1>10, CallingGeneration DEF TriggerPreview, PreviewTypeOK
<1>11. ASSUME NEW byTeam \in BOOLEAN, VisitPreview(byTeam)
       PROVE  PreviewTypeOK' /\ PreviewInv'
  BY <1>11, CallingGeneration DEF VisitPreview, PreviewTypeOK
<1>12. CASE GrowStale \/ UNCHANGED previewVars
  BY <1>12 DEF GrowStale, previewVars, PreviewTypeOK, PreviewInv, FileIsKnown,
               HiddenWhileReplaced, RenderedSoFar, ReadyIsComplete
<1> QED
  BY <1>1, <1>2, <1>3, <1>4, <1>5, <1>6, <1>7, <1>8, <1>9, <1>10, <1>11, <1>12
     DEF PreviewNext, Generate

LEMMA PreviewInvariant == PreviewSpec => [](PreviewTypeOK /\ PreviewInv)
BY InitPreviewInv, NextPreviewInv, PTL DEF PreviewSpec

\* Every reachable state is typed: pages are numbered, and belong to files.
THEOREM PreviewTyped == PreviewSpec => []PreviewTypeOK
BY PreviewInvariant, PTL

\* Every page announced exists, and all are of one file, whatever regenerations,
\* failures, uploads and restarts came before (getPreview, generate).
THEOREM NoPageIsMissing == PreviewSpec => []AnnouncedPagesExist
<1>1. ASSUME PreviewTypeOK, PreviewInv PROVE AnnouncedPagesExist
  <2> SUFFICES ASSUME previewStatus = "ready",
                      NEW v \in Visitors, NEW w \in PolicyWork, NEW s \in PolicySettings,
                      NEW m \in 1 .. AllowedPages(v, w, s), NEW n \in 1 .. AllowedPages(v, w, s)
               PROVE  m \in DOMAIN pages /\ n \in DOMAIN pages /\ pages[m] = pages[n]
    BY <1>1 DEF AnnouncedPagesExist
  <2>1. ResolvePreviewPolicy(v, w, s) \in Nat
    BY PreviewAssumption DEF PreviewAssumption, ResolvePreviewPolicy, NoCap, PolicySettings
  <2>2. previewPageCount \in Nat
    BY <1>1 DEF PreviewTypeOK
  <2>3. AllowedPages(v, w, s) \in 0 .. previewPageCount
    BY <2>1, <2>2 DEF AllowedPages
  <2>4. m \in 1 .. previewPageCount /\ n \in 1 .. previewPageCount
    BY <2>2, <2>3
  <2> QED
    BY <1>1, <2>4 DEF PreviewInv, ReadyIsComplete
<1> QED
  BY <1>1, PreviewInvariant, PTL

\* The team sees at least what a buyer sees, who sees at least what any reader
\* sees, and a work that is not offered is for its team alone (resolvePreviewPolicy).
THEOREM RightsNeverSubtract == PreviewSpec => []RightsOnlyAdd
<1>1. ASSUME PreviewTypeOK PROVE RightsOnlyAdd
  <2> SUFFICES ASSUME previewStatus = "ready",
                      NEW v \in Visitors, NEW w \in PolicyWork, NEW s \in PolicySettings
               PROVE  /\ v.loggedIn =>
                           /\ AllowedPages(v, w, s) <= AllowedPages([v EXCEPT !.buyer = TRUE], w, s)
                           /\ AllowedPages(v, w, s) <= AllowedPages([v EXCEPT !.team = TRUE], w, s)
                      /\ AllowedPages(v, w, s) > 0 => v.admin \/ v.team \/ (w.published /\ ~w.private)
    BY <1>1 DEF RightsOnlyAdd
  <2>1. previewPageCount \in 0 .. MaxRenderPages /\ MaxRenderPages \in Nat
    BY <1>1, PreviewAssumption DEF PreviewAssumption, PreviewTypeOK
  <2>2. \A x : ResolvePreviewPolicy(x, w, s) \in Nat
    BY PreviewAssumption DEF PreviewAssumption, ResolvePreviewPolicy, NoCap, PolicySettings
  <2>3. \A x : AllowedPages(x, w, s) \in 0 .. previewPageCount
    BY <2>1, <2>2 DEF AllowedPages
  <2>4. \A x : ResolvePreviewPolicy(x, w, s) = NoCap => AllowedPages(x, w, s) = previewPageCount
    BY <2>1 DEF AllowedPages, NoCap
  <2>5. ResolvePreviewPolicy([v EXCEPT !.team = TRUE], w, s) = NoCap
    BY DEF ResolvePreviewPolicy, Visitors, Visitor
  <2>6. \/ ResolvePreviewPolicy([v EXCEPT !.buyer = TRUE], w, s) = NoCap
        \/ ResolvePreviewPolicy(v, w, s) = 0
    BY DEF ResolvePreviewPolicy, Visitors, Visitor
  <2>7. ResolvePreviewPolicy(v, w, s) = 0 => AllowedPages(v, w, s) = 0
    BY <2>1 DEF AllowedPages
  <2>8. ~(v.admin \/ v.team \/ (w.published /\ ~w.private)) => ResolvePreviewPolicy(v, w, s) = 0
    BY DEF ResolvePreviewPolicy, PolicyWork
  <2> QED
    BY <2>1, <2>3, <2>4, <2>5, <2>6, <2>7, <2>8
<1> QED
  BY <1>1, PreviewInvariant, PTL
=============================================================================
