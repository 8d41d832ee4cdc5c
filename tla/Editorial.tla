------------------------------- MODULE Editorial -------------------------------
(***************************************************************************)
(* The editorial life of one work of a publisher (AdminWorksService): who  *)
(* may give it which status, what its visibility becomes, its place in the *)
(* selection of the home page, and its soft deletion.                      *)
(*                                                                         *)
(* A handler reads the work and judges it, then writes by identifier: in   *)
(* between, another request may write.                                     *)
(***************************************************************************)
EXTENDS Integers, FiniteSets

CONSTANTS
  Edits,              \* requests to the administration of works
  Statuses,           \* the statuses requests choose from
  Visibilities,       \* the visibilities they choose from
  Authors,            \* rows of authors
  Employed,           \* those of the publisher
  Oneself,            \* the one whose account has the role author
  EditLimits,         \* how many requests may be in progress at once
  WorkPoliciesBind    \* whether the database role is subject to the policies

VARIABLES
  work,               \* the row
  chosen,             \* the last visibility written was asked for explicitly
  writer,             \* the role that wrote the row last
  edit,               \* progress of update, remove and setFeatured
  editLimit           \* the bound of this behaviour, one of EditLimits

editorialVars == <<work, chosen, writer, edit, editLimit>>

WorkStatus ==
  {"draft", "submitted", "under_review", "approved", "published", "rejected",
   "inactive", "archived"}

WorkVisibility == {"private", "tenant_only", "public"}

ASSUME EditorialAssumption ==
  /\ IsFiniteSet(Edits)
  /\ Employed \subseteq Authors /\ Oneself \in Employed
  /\ "undefined" \notin Authors
  /\ Statuses \subseteq WorkStatus
  /\ Visibilities \subseteq WorkVisibility
  /\ EditLimits \subseteq Nat
  /\ WorkPoliciesBind \in BOOLEAN

\* Who asks: the direction of the publisher (owner, admin) or the platform, an
\* editor, the author of the work, another member.
Roles == {"manager", "editor", "author", "other"}

\* undefined: the field is absent from the request.
Unchanged == "undefined"

NoEdit == [step |-> "idle", role |-> "other", status |-> Unchanged,
           visibility |-> Unchanged, author |-> Unchanged]

NoWork == [exists |-> FALSE, status |-> "draft", visibility |-> "private",
           author |-> Oneself, featured |-> FALSE, deleted |-> FALSE]

EditorialTypeOK ==
  /\ work \in [exists : BOOLEAN, status : WorkStatus, visibility : WorkVisibility,
               author : Authors, featured : BOOLEAN, deleted : BOOLEAN]
  /\ chosen \in BOOLEAN /\ writer \in Roles
  /\ edit \in [Edits -> [step : {"idle", "update", "remove", "feature", "unfeature"},
                         role : Roles,
                         status : WorkStatus \cup {Unchanged},
                         visibility : WorkVisibility \cup {Unchanged},
                         author : Authors \cup {Unchanged}]]
  /\ editLimit \in EditLimits

EditorialInit ==
  /\ work = NoWork
  /\ chosen = FALSE /\ writer = "other"
  /\ edit = [e \in Edits |-> NoEdit]
  /\ editLimit \in EditLimits

-----------------------------------------------------------------------------
(* What a role may do.                                                     *)

\* assertCanWriteWork, and the policies of the table, for a work of `author`.
CanWriteWork(role, author) ==
  role \in {"manager", "editor"} \/ (role = "author" /\ author = Oneself)

PRE_REVIEW_STATUSES == {"draft", "submitted"}

\* AllowedStatus: the author of the work is not restricted.
AllowedToAuthors(role, current, next) ==
  next \notin {Unchanged, current} =>
    (role = "editor" => \/ current = "submitted" /\ next = "under_review"
                        \/ current = Unchanged /\ next \in PRE_REVIEW_STATUSES)

\* assertAllowedStatus: `current` is Unchanged when the work is being created.
AllowedStatus(role, current, next) ==
  next \notin {Unchanged, current} =>
    /\ role = "author" => next \in PRE_REVIEW_STATUSES
    /\ role = "editor" => \/ current = "submitted" /\ next = "under_review"
                          \/ current = Unchanged /\ next \in PRE_REVIEW_STATUSES

\* ResolveVisibility: a work that is unpublished keeps its visibility.
ResolveOnPublication(status, explicit, old) ==
  IF explicit # Unchanged THEN explicit
  ELSE IF status = "published" THEN "public" ELSE old

\* resolveVisibility, where `old` is what the row holds.
ResolveVisibility(status, explicit, old) ==
  IF explicit # Unchanged THEN explicit
  ELSE IF status = Unchanged THEN old
  ELSE IF status = "published" THEN "public" ELSE "private"

Written(w, status, explicit, author) ==
  [w EXCEPT !.status = IF status = Unchanged THEN @ ELSE status,
            !.visibility = ResolveVisibility(status, explicit, @),
            !.author = IF author = Unchanged THEN @ ELSE author]

\* A visibility asked for stays so until a status decides again.
ChosenAfter(status, explicit) == explicit # Unchanged \/ (status = Unchanged /\ chosen)

Listed == work.exists /\ ~work.deleted

MayEdit(e) ==
  /\ edit[e].step = "idle"
  /\ Cardinality({f \in Edits : edit[f].step # "idle"}) < editLimit

BeginEdit(e, step, role) ==
  /\ MayEdit(e)
  /\ edit' = [edit EXCEPT ![e] = [NoEdit EXCEPT !.step = step, !.role = role]]

LeaveEdit(e) == edit' = [edit EXCEPT ![e] = NoEdit]

-----------------------------------------------------------------------------
(* create and update.                                                      *)

\* The publisher of the work is the one of its author, here and for ever.
CreateWork(role, status, visibility, author) ==
  /\ ~work.exists
  /\ author \in Employed
  /\ CanWriteWork(role, author) /\ AllowedStatus(role, Unchanged, status)
  /\ work' = Written([NoWork EXCEPT !.exists = TRUE], status, visibility, author)
  /\ chosen' = ChosenAfter(status, visibility)
  /\ writer' = role
  /\ UNCHANGED <<edit, editLimit>>

CheckUpdate(e, role, status, visibility, author) ==
  /\ MayEdit(e)
  /\ Listed
  /\ CanWriteWork(role, work.author) /\ AllowedStatus(role, work.status, status)
  /\ edit' = [edit EXCEPT ![e] = [step |-> "update", role |-> role, status |-> status,
                                  visibility |-> visibility, author |-> author]]
  /\ UNCHANGED <<work, chosen, writer, editLimit>>

\* The policy judges the row before and after.
WriteUpdate(e) ==
  /\ edit[e].step = "update"
  /\ work' = Written(work, edit[e].status, edit[e].visibility, edit[e].author)
  /\ WorkPoliciesBind =>
       \A w \in {work, work'} : CanWriteWork(edit[e].role, w.author)
  /\ chosen' = ChosenAfter(edit[e].status, edit[e].visibility)
  /\ writer' = edit[e].role
  /\ LeaveEdit(e)
  /\ UNCHANGED editLimit

-----------------------------------------------------------------------------
(* remove and setFeatured.                                                 *)

\* No check of the role: the policies judge the statement.
CheckDeletion(e, role) ==
  /\ BeginEdit(e, "remove", role)
  /\ Listed
  /\ UNCHANGED <<work, chosen, writer, editLimit>>

WriteDeletion(e) ==
  /\ edit[e].step = "remove"
  /\ WorkPoliciesBind => CanWriteWork(edit[e].role, work.author)
  /\ work' = [work EXCEPT !.deleted = TRUE]
  /\ writer' = edit[e].role
  /\ LeaveEdit(e)
  /\ UNCHANGED <<chosen, editLimit>>

Public(w) == w.status = "published" /\ w.visibility = "public"

\* Only the platform.
CheckFeatured(e, on) ==
  /\ BeginEdit(e, IF on THEN "feature" ELSE "unfeature", "manager")
  /\ Listed
  /\ on => Public(work)
  /\ UNCHANGED <<work, chosen, writer, editLimit>>

WriteFeatured(e) ==
  /\ edit[e].step \in {"feature", "unfeature"}
  /\ work' = [work EXCEPT !.featured = (edit[e].step = "feature")]
  /\ writer' = edit[e].role
  /\ LeaveEdit(e)
  /\ UNCHANGED <<chosen, editLimit>>

\* The statement fails, or the request is lost.
AbandonEdit(e) ==
  /\ edit[e].step # "idle"
  /\ LeaveEdit(e)
  /\ UNCHANGED <<work, chosen, writer, editLimit>>

-----------------------------------------------------------------------------

EditorialNext ==
  \/ \E role \in Roles, status \in Statuses \cup {Unchanged},
        visibility \in Visibilities \cup {Unchanged}, author \in Authors \cup {Unchanged} :
       \/ CreateWork(role, status, visibility, author)
       \/ \E e \in Edits : CheckUpdate(e, role, status, visibility, author)
  \/ \E e \in Edits, role \in Roles : CheckDeletion(e, role)
  \/ \E e \in Edits, on \in BOOLEAN : CheckFeatured(e, on)
  \/ \E e \in Edits : WriteUpdate(e) \/ WriteDeletion(e) \/ WriteFeatured(e) \/ AbandonEdit(e)

EditorialSpec == EditorialInit /\ [][EditorialNext]_editorialVars

-----------------------------------------------------------------------------

\* Nobody but the direction publishes, through any sequence of submissions,
\* withdrawals and reviews, as long as edits do not overlap: otherwise an author
\* who sends back the status `published` unchanged undoes an unpublication.
OnlyManagersPublish ==
  [][editLimit = 1 /\ work.status # "published" /\ work'.status = "published"
       => writer' = "manager"]_editorialVars

\* Unless a visibility was asked for, a work is public exactly while it is
\* published ("publier une œuvre la rend automatiquement public, tout autre
\* statut la rend private"), however edits overlap.
PublicIffPublished ==
  ~chosen => (work.visibility = "public" <=> work.status = "published")

\* "même tenant que l'auteur, toujours": a work and its author belong to the
\* same publisher.
SamePublisher == work.author \in Employed

\* "Ni l'un ni l'autre ne peut publier, dépublier ou archiver - seuls
\* owner/admin (ou le platform_admin) le peuvent": an author, an editor.
OnlyManagersUnpublish ==
  [][work.status = "published" /\ work'.status # "published" => writer' = "manager"
    ]_editorialVars
=============================================================================
