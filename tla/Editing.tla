------------------------------ MODULE Editing ------------------------------
(***************************************************************************)
(* The local editors of one database (taypeer-services editing.rs,         *)
(* draft.rs, persistence.rs, binary/icon_import.rs): forms for entries and *)
(* for groups or database metadata, the immutable snapshots taken when the *)
(* user saves, and the encrypted sidecar that carries both across locking  *)
(* and crashes.  A save writes the sidecar, the archive and the sidecar    *)
(* again; each write may fail or stay in doubt, and the worker or the host *)
(* may die between them.                                                   *)
(*                                                                         *)
(* The document is the sequence of the commands it has receipts of.  A     *)
(* form's fields are one value.                                            *)
(***************************************************************************)
EXTENDS Naturals, Sequences
LOCAL INSTANCE SequencesExt

CONSTANTS
  Entries, Groups,   \* objects of the database, open in entry and metadata forms
  Values,            \* what a form may hold
  Unfinished,        \* the values that validation refuses
  Operations,        \* identities of saves and other document commands, numbers
  Imports,           \* identities of icon imports
  None,
  MaxDrafts,         \* bound: forms ever begun
  MaxRevision        \* bound: inputs into one form

VARIABLES
  archive,    \* what the host serves, what the file shows, whether the store is in doubt
  sidecar,    \* the draft file: as it is visible and as it survives power loss
  session,    \* the worker's unlocked state, or None
  made,       \* draft identities used so far
  asked,      \* history: what the user asked each operation to save
  kept        \* history: the input of each form that was acknowledged and not undone

vars == <<archive, sidecar, session, made, asked, kept>>

Drafts == 1..MaxDrafts

-----------------------------------------------------------------------------
(* Forms.  A new object is named by its draft.                             *)

Blank == CHOOSE v \in Unfinished : TRUE
Original(object) == IF object \in Drafts THEN Blank ELSE 0

NewForm(kind, object, value) ==
  [kind |-> kind, object |-> object, new |-> value = Blank, revision |-> 0,
   value |-> value, baseline |-> value, interrupted |-> FALSE]

Dirty(form) == form.value # form.baseline
CanSave(form) == form.value \notin Unfinished

Input(form, v) ==
  IF form.value = v THEN form ELSE [form EXCEPT !.value = v, !.revision = @ + 1]

(* stage_icon moves the revision even if the icon is the same.             *)
StageIcon(form, v) == [form EXCEPT !.value = v, !.revision = @ + 1]

-----------------------------------------------------------------------------
(* DraftCollection                                                         *)

Empty ==
  [forms |-> [d \in Drafts |-> None], entry |-> None, metadata |-> None, pinned |-> None,
   attempts |-> [o \in Operations |-> None], cancelled |-> {}, imported |-> {}]
IsEmpty(c) == [c EXCEPT !.entry = None, !.metadata = None, !.pinned = None] = Empty

Has(c, d) == c.forms[d] # None
Active(c) == IF c.metadata # None THEN c.metadata ELSE c.entry
Retains(c, d) == Has(c, d) /\ (Dirty(c.forms[d]) \/ c.pinned = d)

ParkEntry(c) ==
  IF c.entry = None THEN c
  ELSE [c EXCEPT !.entry = None, !.forms[c.entry] = IF Retains(c, c.entry) THEN @ ELSE None]
ActivateEntry(c, d) == [ParkEntry(c) EXCEPT !.metadata = None, !.entry = d]
ActivateMetadata(c, d) == [ParkEntry(c) EXCEPT !.metadata = d]

Interrupt(c) ==
  [c EXCEPT !.forms = [d \in Drafts |->
     IF Has(c, d) /\ c.forms[d].kind = "entry" THEN [c.forms[d] EXCEPT !.interrupted = TRUE]
     ELSE c.forms[d]]]

(* Mutant of Stash: a pinned form alone is kept.                           *)
StashPinned(c) == Interrupt([c EXCEPT !.forms = [d \in Drafts |-> IF c.pinned = d THEN @[d] ELSE None]])

Stash(c) ==
  LET keep(d) == IF d # None /\ Retains(c, d) THEN d ELSE None IN
  Interrupt([c EXCEPT
    !.forms = [d \in Drafts |-> IF Retains(c, d) THEN @[d] ELSE None],
    !.entry = keep(@), !.metadata = keep(@)])

(* pin_active_form keeps the active editors.                               *)
RemoveCleanParked(c) ==
  [c EXCEPT !.forms = [d \in Drafts |->
     IF Retains(c, d) \/ d \in {c.entry, c.metadata} THEN @[d] ELSE None]]

-----------------------------------------------------------------------------
(* Snapshots.  A receipt of the document finishes the attempt that asked   *)
(* for it, and the form goes on from what was captured.                    *)

Receipts(doc) == {doc[i].operation : i \in DOMAIN doc}

Continue(form, captured) == [form EXCEPT !.baseline = captured.value, !.new = FALSE]

FinishSnapshot(c, o) ==
  LET a == c.attempts[o] IN
  [c EXCEPT
    !.forms[a.draft] = IF @ = None THEN None ELSE Continue(@, a.captured),
    !.attempts[o] = [a EXCEPT !.captured = None, !.outcome = "saved"]]

Pending(c) == {o \in Operations : c.attempts[o] # None /\ c.attempts[o].outcome = None}

Reconcile(c, doc) ==
  FoldLeft(LAMBDA acc, o : IF o \in Pending(acc) \cap Receipts(doc) THEN FinishSnapshot(acc, o) ELSE acc,
           c, SetToSortSeq(Operations, <))

-----------------------------------------------------------------------------
(* Storage.  The host publishes the sidecar: it fails, succeeds, or is     *)
(* visible without being known to be durable.                              *)

Stored(c) == IF IsEmpty(c) THEN None ELSE Interrupt(c)
Persists(c) == sidecar' = [visible |-> Stored(c), durable |-> Stored(c)]
PersistsInDoubt(c) == sidecar' = [sidecar EXCEPT !.visible = Stored(c)]
PersistFails == UNCHANGED sidecar

(* Coordinator::commit through ManagedState: certain, in doubt with the    *)
(* old snapshot served, or in doubt after the new one was put in place.    *)
Commits(doc) ==
  ~archive.doubt /\ archive' = [served |-> doc, visible |-> doc, doubt |-> FALSE]
CommitsInDoubt(doc) ==
  \/ archive.doubt /\ UNCHANGED archive
  \/ ~archive.doubt /\ archive' = [archive EXCEPT !.visible = doc, !.doubt = TRUE]
  \/ ~archive.doubt /\ archive' = [served |-> doc, visible |-> doc, doubt |-> TRUE]
CommitFails == ~archive.doubt /\ UNCHANGED archive

-----------------------------------------------------------------------------
(* Sessions                                                                *)

Init ==
  /\ archive = [served |-> <<>>, visible |-> <<>>, doubt |-> FALSE]
  /\ sidecar = [visible |-> None, durable |-> None]
  /\ session = None /\ made = 0
  /\ asked = [o \in Operations |-> None]
  /\ kept = [d \in Drafts |-> None]

Open ==
  /\ session = None
  /\ LET c == IF sidecar.visible = None THEN Empty ELSE sidecar.visible IN
     session' = [doc |-> archive.served, col |-> Reconcile(c, archive.served),
                 uncertain |-> FALSE, publishing |-> None, saving |-> None, untidy |-> FALSE]
  /\ UNCHANGED <<archive, sidecar, made, asked, kept>>

(* checked_mut: an open session without an uncertain publication.          *)
Ready == session # None /\ session.saving = None /\ session.publishing = None
Editable == Ready /\ ~session.uncertain

col == session.col
Holds(c) == session' = [session EXCEPT !.col = c]
Local == UNCHANGED <<archive, sidecar, made, asked, kept>>

(* reconcile_uncertain: the document that is served is read again.         *)
Reconciled ==
  IF session.uncertain
  THEN [session EXCEPT !.doc = archive.served, !.uncertain = FALSE, !.col = Reconcile(@, archive.served)]
  ELSE session

ReconcileUncertain == Ready /\ session.uncertain /\ session' = Reconciled /\ Local

-----------------------------------------------------------------------------
(* Beginning, resuming and filling forms.                                  *)

(* The value of an object is the last one saved.                           *)
Current(doc, object) ==
  LET saves == {i \in DOMAIN doc : doc[i].object = object} IN
  IF saves = {} THEN Original(object)
  ELSE doc[CHOOSE i \in saves : \A j \in saves : j <= i].value

Activate(c, d) ==
  IF c.forms[d].kind = "metadata" THEN ActivateMetadata(c, d)
  ELSE [(IF c.entry = d THEN c ELSE ActivateEntry(c, d)) EXCEPT !.forms[d].interrupted = FALSE]

(* start_create_entry and start_create_group.                              *)
StartCreate(kind) ==
  /\ Editable /\ made < MaxDrafts
  /\ made' = made + 1
  /\ Holds(Activate([col EXCEPT !.forms[made + 1] = NewForm(kind, made + 1, Blank)], made + 1))
  /\ UNCHANGED <<archive, sidecar, asked, kept>>

(* start_edit_entry and start_metadata_draft go on with the form of the    *)
(* object, if there is one.                                                *)
StartEdit(kind, object) ==
  /\ Editable
  /\ LET open == {d \in Drafts : Has(col, d) /\ col.forms[d].object = object /\ ~col.forms[d].new} IN
     \/ \E d \in open : Holds(Activate(col, d)) /\ UNCHANGED made
     \/ /\ open = {} /\ made < MaxDrafts
        /\ object \in Drafts => \E i \in DOMAIN session.doc : session.doc[i].object = object
        /\ made' = made + 1
        /\ LET form == NewForm(kind, object, Current(session.doc, object)) IN
           Holds(Activate([col EXCEPT !.forms[made + 1] = form], made + 1))
  /\ UNCHANGED <<archive, sidecar, asked, kept>>

(* resume_draft; restore_draft for the interrupted active entry.           *)
Resume(d) == Editable /\ Has(col, d) /\ Holds(Activate(col, d)) /\ Local

(* History: input that takes the form back to what is saved.              *)
Undone(d, v) == IF v = col.forms[d].baseline THEN [kept EXCEPT ![d] = None] ELSE kept

(* update_draft and set_draft_expiry_input fill the active entry form,     *)
(* patch_group_draft and patch_database_draft any metadata form.           *)
Update(d, v) ==
  /\ Editable /\ Has(col, d) /\ col.forms[d].revision < MaxRevision
  /\ col.forms[d].kind = "entry" => col.entry = d /\ ~col.forms[d].interrupted
  /\ Holds([col EXCEPT !.forms[d] = Input(@, v)])
  /\ kept' = Undone(d, v)
  /\ UNCHANGED <<archive, sidecar, made, asked>>

-----------------------------------------------------------------------------
(* Writing the sidecar.                                                    *)

(* History: what is acknowledged of the forms of c.                        *)
Acknowledged(c) ==
  [d \in Drafts |-> IF ~Has(c, d) THEN kept[d]
                    ELSE IF Dirty(c.forms[d]) THEN <<c.forms[d].revision, c.forms[d].value>> ELSE None]

PersistDrafts ==
  /\ Editable
  /\ \/ /\ Persists(Stash(col)) /\ kept' = Acknowledged(col)
        /\ session' = [session EXCEPT !.untidy = FALSE]
     \/ PersistsInDoubt(Stash(col)) /\ UNCHANGED <<session, kept>>
  /\ UNCHANGED <<archive, made, asked>>

PinActiveForm ==
  /\ Editable /\ Active(col) # None
  /\ LET c == RemoveCleanParked([col EXCEPT !.pinned = Active(col)]) IN
     \/ Persists(c) /\ Holds(c)
     \/ PersistsInDoubt(c) /\ UNCHANGED session
  /\ UNCHANGED <<archive, made, asked, kept>>

UnpinForm ==
  /\ Editable /\ col.pinned # None
  /\ LET c == [col EXCEPT !.pinned = None] IN
     \/ Persists(Stash(c)) /\ Holds(c)
     \/ PersistsInDoubt(Stash(c)) /\ UNCHANGED session
  /\ UNCHANGED <<archive, made, asked, kept>>

(* import_icon_stream, select_stored_favicon and edit_binary of a form: a  *)
(* candidate in doubt is kept and blocks the editor until it is confirmed. *)
ImportIcon(d, v, o) ==
  /\ Editable /\ Active(col) = d
  /\ o \notin col.imported /\ col.forms[d].revision < MaxRevision
  /\ LET c == [col EXCEPT !.forms[d] = [StageIcon(@, v) EXCEPT !.interrupted = FALSE],
                          !.imported = @ \cup {o}] IN
     \/ Persists(c) /\ Holds(c) /\ kept' = Acknowledged(c)
     \/ PersistsInDoubt(c) /\ session' = [session EXCEPT !.publishing = c] /\ kept' = Undone(d, v)
  /\ UNCHANGED <<archive, made, asked>>

ConfirmPendingIcon ==
  /\ session # None /\ session.publishing # None /\ ~session.uncertain
  /\ LET c == session.publishing IN
     /\ Persists(c) /\ kept' = Acknowledged(c)
     /\ session' = [session EXCEPT !.publishing = None, !.col = c]
  /\ UNCHANGED <<archive, made, asked>>

(* delete_draft: what was asked of the form and not saved is cancelled.    *)
DeleteDraft(d) ==
  /\ Ready /\ Has(Reconciled.col, d)
  /\ LET s == Reconciled
         gone == {o \in Pending(s.col) : s.col.attempts[o].draft = d}
         none(x) == IF x = d THEN None ELSE x
         c == [s.col EXCEPT !.forms[d] = None, !.entry = none(@), !.metadata = none(@), !.pinned = none(@),
                 !.attempts = [o \in Operations |-> IF o \in gone THEN None ELSE @[o]],
                 !.cancelled = @ \cup gone] IN
     \/ Persists(c) /\ session' = [s EXCEPT !.col = c]
     \/ PersistsInDoubt(c) /\ session' = s
  /\ kept' = [kept EXCEPT ![d] = None]
  /\ UNCHANGED <<archive, made, asked>>

-----------------------------------------------------------------------------
(* save_draft_snapshot, in three writes.  A client asks an operation again *)
(* only for the same form and revision.                                    *)

(* Mutant of Attempt: a retry takes the form as it is now.                 *)
AttemptAgain(c, d, revision, o) ==
  IF ~Has(c, d) THEN c ELSE
  [c EXCEPT !.attempts[o] =
     [draft |-> d, revision |-> c.forms[d].revision, captured |-> c.forms[d], outcome |-> None]]

Attempt(c, d, revision, o) ==
  IF c.attempts[o] # None THEN c
  ELSE [c EXCEPT !.attempts[o] = [draft |-> d, revision |-> revision, captured |-> c.forms[d], outcome |-> None]]

Acceptable(s, d, revision, o) ==
  /\ o \notin s.col.cancelled
  /\ LET a == s.col.attempts[o] IN
     IF a # None THEN a.draft = d /\ a.revision = revision /\ a.outcome = None
     ELSE /\ Has(s.col, d) /\ s.col.forms[d].revision = revision /\ CanSave(s.col.forms[d])
          /\ o \notin Receipts(s.doc)

SaveDraft(d, revision, o) ==
  /\ Ready
  /\ LET s == Reconciled
         c == Attempt(s.col, d, revision, o)
         unchanged == [c EXCEPT !.attempts[o].captured = None, !.attempts[o].outcome = "unchanged"]
         dirty == Dirty(c.attempts[o].captured) IN
     /\ Acceptable(s, d, revision, o)
     /\ asked[o] # None => asked[o] # <<>> /\ asked[o][1] = d /\ asked[o][2] = revision
     /\ asked' = [asked EXCEPT ![o] = IF s.col.attempts[o] = None THEN <<d, revision, s.col.forms[d].value>> ELSE @]
     /\ \/ dirty /\ Persists(c) /\ session' = [s EXCEPT !.col = c, !.saving = <<o, "commit">>]
        \/ dirty /\ PersistsInDoubt(c) /\ session' = [s EXCEPT !.col = c]
        \/ PersistFails /\ session' = [s EXCEPT !.col = c]
        \/ ~dirty /\ Persists(unchanged) /\ session' = [s EXCEPT !.col = unchanged]
        \/ ~dirty /\ PersistsInDoubt(unchanged) /\ session' = [s EXCEPT !.col = c]
  /\ UNCHANGED <<archive, made, kept>>

Saving(step) == session # None /\ session.saving # None /\ session.saving[2] = step

Command(o, object, value, d, revision) ==
  [operation |-> o, object |-> object, value |-> value, draft |-> d, revision |-> revision]

SaveCommit ==
  /\ Saving("commit")
  /\ LET o == session.saving[1]
         a == col.attempts[o]
         doc == Append(session.doc, Command(o, a.captured.object, a.captured.value, a.draft, a.revision)) IN
     \/ /\ Commits(doc)
        /\ session' = [session EXCEPT !.doc = doc, !.col = FinishSnapshot(col, o), !.saving = <<o, "tidy">>]
     \/ CommitsInDoubt(doc) /\ session' = [session EXCEPT !.uncertain = TRUE, !.saving = None]
     \/ CommitFails /\ session' = [session EXCEPT !.saving = None]
  /\ UNCHANGED <<sidecar, made, asked, kept>>

(* The sidecar no longer needs the snapshot.  The user is told Saved also  *)
(* if it cannot be rewritten.                                              *)
SaveTidy ==
  /\ Saving("tidy")
  /\ \/ Persists(col) /\ session' = [session EXCEPT !.saving = None, !.untidy = FALSE]
     \/ PersistsInDoubt(col) /\ session' = [session EXCEPT !.saving = None, !.untidy = TRUE]
     \/ PersistFails /\ session' = [session EXCEPT !.saving = None, !.untidy = TRUE]
  /\ LET a == col.attempts[session.saving[1]] IN kept' = [kept EXCEPT ![a.draft] = <<a.revision, Last(session.doc).value>>]
  /\ UNCHANGED <<archive, made, asked>>

(* Asking a finished operation again repeats its outcome, and the last     *)
(* write if that one failed.                                               *)
SaveAgain(d, revision, o) ==
  /\ Ready
  /\ LET s == Reconciled
         a == s.col.attempts[o] IN
     /\ a # None
     /\ a.draft = d /\ a.revision = revision /\ a.outcome # None
     /\ \/ s.untidy /\ Persists(s.col) /\ session' = [s EXCEPT !.untidy = FALSE]
        \/ s.untidy /\ PersistsInDoubt(s.col) /\ session' = s
        \/ ~s.untidy /\ session.uncertain /\ session' = s /\ UNCHANGED sidecar
  /\ UNCHANGED <<archive, made, asked, kept>>

(* Every other command that changes the document goes through change or    *)
(* command with a receipt of its own.  Clients make a new identity for     *)
(* every request.                                                          *)
Change(o) ==
  /\ Editable /\ asked[o] = None
  /\ asked' = [asked EXCEPT ![o] = <<>>]
  /\ LET doc == Append(session.doc, Command(o, None, None, None, None)) IN
     \/ Commits(doc) /\ session' = [session EXCEPT !.doc = doc]
     \/ CommitsInDoubt(doc) /\ session' = [session EXCEPT !.uncertain = TRUE]
  /\ UNCHANGED <<sidecar, made, kept>>

-----------------------------------------------------------------------------
(* stash_and_close: access ends also if the forms cannot be stored.        *)
Lock ==
  /\ session # None /\ session.saving = None
  /\ LET c == IF session.publishing # None THEN session.publishing ELSE col IN
     \/ Persists(Stash(c)) /\ kept' = Acknowledged(c)
     \/ PersistsInDoubt(Stash(c)) /\ UNCHANGED kept
     \/ PersistFails /\ UNCHANGED kept
  /\ session' = None
  /\ UNCHANGED <<archive, made, asked>>

(* The worker is killed.                                                   *)
Kill ==
  /\ session # None
  /\ session' = None
  /\ Local

(* The host restarts, after a power loss with what was durable.            *)
Restart ==
  /\ \E doc \in {archive.served, archive.visible} :
       archive' = [served |-> doc, visible |-> doc, doubt |-> FALSE]
  /\ \E c \in {sidecar.visible, sidecar.durable} : sidecar' = [visible |-> c, durable |-> c]
  /\ session' = None
  /\ UNCHANGED <<made, asked, kept>>

Next ==
  \/ Open \/ ReconcileUncertain
  \/ \E kind \in {"entry", "metadata"} : StartCreate(kind)
  \/ \E object \in Entries \cup Drafts : StartEdit("entry", object)
  \/ \E object \in Groups : StartEdit("metadata", object)
  \/ \E d \in Drafts : Resume(d) \/ DeleteDraft(d)
  \/ \E d \in Drafts, v \in Values : Update(d, v)
  \/ PersistDrafts \/ PinActiveForm \/ UnpinForm
  \/ \E d \in Drafts, v \in Values, o \in Imports : ImportIcon(d, v, o)
  \/ ConfirmPendingIcon
  \/ \E d \in Drafts, revision \in 0..MaxRevision, o \in Operations :
       SaveDraft(d, revision, o) \/ SaveAgain(d, revision, o)
  \/ SaveCommit \/ SaveTidy
  \/ \E o \in Operations : Change(o)
  \/ Lock \/ Kill \/ Restart

Spec == Init /\ [][Next]_vars

-----------------------------------------------------------------------------
(* Properties.                                                             *)

(* Input that was acknowledged, as stored or as saved, is found again      *)
(* after any crash: in the form or in the document, unless the user threw  *)
(* the form away.                                                          *)
InputKept ==
  \A d \in Drafts : kept[d] # None =>
    \A doc \in {archive.served, archive.visible}, c \in {sidecar.visible, sidecar.durable} :
      \/ c # None /\ Has(c, d) /\ c.forms[d].revision >= kept[d][1]
      \/ \E i \in DOMAIN doc : doc[i].draft = d /\ (doc[i].revision >= kept[d][1] \/ doc[i].value = kept[d][2])

(* An operation saves once, and exactly the input that was on the form     *)
(* when the user asked, however often it is retried and whatever was typed *)
(* since.                                                                  *)
SavedAsAsked ==
  \A i \in DOMAIN archive.visible :
    LET c == archive.visible[i] IN
    /\ c.draft # None => asked[c.operation] = <<c.draft, c.revision, c.value>>
    /\ \A j \in DOMAIN archive.visible : archive.visible[j].operation = c.operation => i = j

(* A form never passes for saved before its input is in the document: what *)
(* it compares itself with is in there.                                    *)
CleanIsSaved ==
  session # None => \A d \in Drafts : Has(session.col, d) =>
    LET form == session.col.forms[d] IN
    \/ form.baseline = Original(form.object)
    \/ \E i \in DOMAIN session.doc :
         session.doc[i].object = form.object /\ session.doc[i].value = form.baseline

=============================================================================
