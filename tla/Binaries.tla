------------------------------ MODULE Binaries ------------------------------
(***************************************************************************)
(* Attachments and icons: contents that a document only names.             *)
(*                                                                         *)
(* A content is encrypted while it is read and gets a name of its own (a   *)
(* blob); equal contents share their bytes.  The names are in the document *)
(* (what its entry shows now, what its revisions showed, what a source     *)
(* that waits would show) and in a local form; the contents are in the     *)
(* session's store, in objects of the archive, and beside a form that is   *)
(* kept for later.  Every commit forgets the contents that nothing names,  *)
(* and a collection removes their objects: what is still named must be     *)
(* found again, whichever of the writes fail and wherever the program      *)
(* ends.                                                                   *)
(*                                                                         *)
(* The host serves a snapshot of the copy.  Once its store is in doubt it  *)
(* writes nothing more and goes on serving what it has, until the file is  *)
(* registered again.                                                       *)
(*                                                                         *)
(* One entry stands for all, and one form; names are numbers.  The call    *)
(* that saves a form is three steps, since the program may end in it.      *)
(***************************************************************************)
EXTENDS Naturals, Sequences, FiniteSets

CONSTANTS
  Nothing,    \* no form, nothing kept beside the copy
  Contents,   \* what an attachment may contain; each counts for one
  Limit,      \* total_attachment_bytes
  MaxBlobs,   \* bound: names given
  MaxForeign, \* bound: names given by other devices
  MaxSaves,   \* bound: attempts to save a form
  MaxFaults   \* bound: writes that fail or stay uncertain, and crashes

Forms == [base : SUBSET Nat, shows : SUBSET Nat, changed : SUBSET Nat, operation : Nat]
ASSUME LimitAssumption == Limit \in Nat
ASSUME NothingAssumption == Nothing \notin Forms

VARIABLES
  session,    \* "closed", "open", or inside a save: "attempted", "published"
  doc,        \* the open document
  form,       \* the form, or Nothing
  attempt,    \* the form that a save captured and that is not known to be saved, or Nothing
  store,      \* names whose contents the session has
  bound,      \* names that have an object, as the session knows them
  doubtful,   \* write_uncertain
  copy,       \* the working copy's file: its document, the names bound to objects, the objects
  served,     \* the snapshot of it that the host serves
  unsure,     \* whether the host's store is in doubt
  sidecar,    \* the form that is kept beside it, with its contents, or Nothing
  offers,     \* names that other devices announced
  meaning,    \* the content of every name
  foreign,    \* names that other devices gave
  applied,    \* those whose source the document took
  arrived,    \* history: names that had an object
  overlooked, \* history: names of a form whose objects were collected
  uncounted,  \* history: names that entered the document without a count
  saves, faults

open == <<session, doc, form, attempt, store, bound, doubtful>>
hosted == <<copy, served, unsure>>
past == <<arrived, overlooked, uncounted>>
binaryVars == <<open, hosted, sidecar, offers, meaning, foreign, applied, past, saves, faults>>

Blobs == DOMAIN meaning
NoDoc == [now |-> {}, past |-> {}, waiting |-> {}, receipts |-> {}]

BinaryInit ==
  /\ session = "open" /\ doc = NoDoc /\ form = Nothing /\ attempt = Nothing /\ store = {} /\ bound = {}
  /\ doubtful = FALSE /\ copy = [doc |-> NoDoc, bound |-> {}, objects |-> {}]
  /\ served = copy /\ unsure = FALSE /\ sidecar = Nothing
  /\ offers = {} /\ meaning = <<>> /\ foreign = {} /\ applied = {} /\ arrived = {}
  /\ overlooked = {} /\ uncounted = {} /\ saves = 0 /\ faults = 0

-----------------------------------------------------------------------------
(* References.                                                             *)

Required(d) == d.now \cup d.past
Retains(d) == Required(d) \cup d.waiting

FormRefs(f) == IF f = Nothing THEN {} ELSE f.base \cup f.shows
DraftRefs == FormRefs(form) \cup FormRefs(attempt)
Kept == IF sidecar = Nothing THEN {} ELSE FormRefs(sidecar.form) \cup FormRefs(sidecar.attempt)

Fits(names) == Cardinality({meaning[n] : n \in names}) <= Limit

(* A revision records what the entry shows after each change.              *)
Shows(d, names) == [d EXCEPT !.now = names, !.past = @ \cup names]

(* The entry keeps what others did to it; a form changes what it changed.  *)
Confirmed(d, f) ==
  [Shows(d, (d.now \ (f.base \ f.shows)) \cup f.changed) EXCEPT !.receipts = @ \cup {f.operation}]
Adds(f) == f.shows \ f.base # {}

-----------------------------------------------------------------------------
(* Writes.                                                                 *)

Ready == session = "open" /\ ~doubtful
Faulty == faults < MaxFaults /\ faults' = faults + 1
Certain == UNCHANGED faults

(* The objects that a commit of these contents adds (seal_new_blobs), and  *)
(* the contents that stay in the session (ForgetsForms is the slip).       *)
New(d, blobs) == (blobs \cap Retains(d)) \ bound
Published(d, blobs) ==
  [doc |-> d, bound |-> bound \cup New(d, blobs), objects |-> served.objects \cup New(d, blobs)]
ForgetsForms(d, blobs) == blobs \cap Retains(d)
KeepsForms(d, blobs) == blobs \cap (Retains(d) \cup DraftRefs)

Accepts(d, a, blobs) ==
  /\ ~unsure /\ copy' = a /\ served' = a /\ UNCHANGED <<unsure, doubtful>> /\ Certain
  /\ doc' = d /\ bound' = a.bound /\ store' = blobs
(* CommitUncertain: the file may show either, and the host may serve the   *)
(* old one or what it put in place; or its store was in doubt already.     *)
Doubts(a) ==
  /\ doubtful' = TRUE /\ UNCHANGED <<doc, bound, store>>
  /\ \/ unsure /\ UNCHANGED hosted /\ Certain
     \/ /\ ~unsure /\ unsure' = TRUE /\ Faulty
        /\ \/ copy' \in {copy, a} /\ UNCHANGED served
           \/ copy' = a /\ served' = a
Refuses == UNCHANGED <<hosted, doc, bound, store, doubtful>> /\ Faulty
(* A write in doubt that the file shows.                                   *)
Written(a) == ~unsure /\ copy' = a

(* commit_blobs: nothing is written if a required content is missing.      *)
Commits(d, blobs) ==
  /\ Required(d) \subseteq blobs
  /\ \/ Accepts(d, Published(d, blobs), KeepsForms(d, blobs))
     \/ Doubts(Published(d, blobs))
     \/ Refuses
  /\ arrived' = arrived \cup copy'.objects

(* persist_draft_collection: the form and the contents it names.           *)
Sidecar(f, a, blobs) ==
  IF f = Nothing /\ a = Nothing THEN Nothing
  ELSE [form |-> f, attempt |-> a, blobs |-> blobs \cap (FormRefs(f) \cup FormRefs(a))]
Persists(f, a, blobs) == sidecar' = Sidecar(f, a, blobs) /\ Certain
PersistFails(f, a, blobs) == sidecar' \in {sidecar, Sidecar(f, a, blobs)} /\ Faulty

Local == UNCHANGED <<session, doc, bound, doubtful, hosted, offers, foreign, applied, past>>
Direct == UNCHANGED <<session, form, attempt, sidecar, offers, saves>>

NextName == Len(meaning) + 1
Names(c) == Len(meaning) < MaxBlobs /\ meaning' = Append(meaning, c)

-----------------------------------------------------------------------------
(* The form.                                                               *)

Begin ==
  /\ Ready /\ form = Nothing
  /\ form' = [base |-> doc.now, shows |-> doc.now, changed |-> {}, operation |-> 0]
  /\ Local /\ UNCHANGED <<attempt, store, sidecar, meaning, saves, faults>>

(* The edit is in the form only once it is kept beside the archive.        *)
Enters(f, blobs) ==
  \/ Persists(f, attempt, blobs) /\ form' = f /\ store' = blobs
  \/ PersistFails(f, attempt, blobs) /\ UNCHANGED <<form, store>>

(* import_attachment_stream.                                               *)
Import(c) ==
  /\ Ready /\ form # Nothing /\ Names(c)
  /\ Cardinality({meaning'[n] : n \in Required(doc) \cup form.shows \cup {NextName}}) <= Limit
  /\ Enters([form EXCEPT !.shows = @ \cup {NextName}, !.changed = @ \cup {NextName}],
           store \cup {NextName})
  /\ Local /\ UNCHANGED <<attempt, saves>>

RenameAttachment(n) ==
  /\ Ready /\ form # Nothing /\ n \in form.shows \ form.changed
  /\ Enters([form EXCEPT !.changed = @ \cup {n}], store)
  /\ Local /\ UNCHANGED <<attempt, meaning, saves>>

Remove(n) ==
  /\ Ready /\ form # Nothing /\ n \in form.shows
  /\ Enters([form EXCEPT !.shows = @ \ {n}, !.changed = @ \ {n}], store)
  /\ Local /\ UNCHANGED <<attempt, meaning, saves>>

(* delete_draft.                                                           *)
DiscardForm ==
  /\ Ready /\ form # Nothing
  /\ \/ Persists(Nothing, Nothing, store) /\ form' = Nothing /\ attempt' = Nothing
     \/ PersistFails(Nothing, Nothing, store) /\ UNCHANGED <<form, attempt>>
  /\ Local /\ UNCHANGED <<store, meaning, saves>>

-----------------------------------------------------------------------------
(* save_draft_snapshot.  The attempt is kept before the document changes.  *)

Captured == IF attempt = Nothing THEN [form EXCEPT !.operation = saves + 1] ELSE attempt

SaveBegins ==
  /\ Ready /\ form # Nothing
  /\ attempt = Nothing => saves < MaxSaves /\ (form.changed # {} \/ form.base # form.shows)
  /\ attempt' = Captured /\ saves' = IF attempt = Nothing THEN saves + 1 ELSE saves
  /\ \/ Persists(form, Captured, store) /\ session' = "attempted"
     \/ PersistFails(form, Captured, store) /\ UNCHANGED session
  /\ UNCHANGED <<doc, form, store, bound, doubtful, hosted, offers, meaning, foreign, applied, past>>

Counted(f) == Adds(f) => Fits(Required(doc) \cup f.shows)

SavePublishes ==
  LET d == Confirmed(doc, attempt) IN
  /\ session = "attempted"
  /\ IF Counted(attempt) /\ Required(d) \subseteq store
     THEN /\ Commits(d, store)
          /\ session' = IF doc' = d /\ ~doubtful' THEN "published" ELSE "open"
          /\ uncounted' =
               IF Adds(attempt) THEN uncounted ELSE uncounted \cup (attempt.changed \ Required(doc))
     ELSE /\ session' = "open"
          /\ UNCHANGED <<doc, store, bound, doubtful, hosted, arrived, uncounted, faults>>
  /\ UNCHANGED <<form, attempt, sidecar, offers, meaning, foreign, applied, overlooked, saves>>

(* finish_snapshot: what the attempt saved is the form's baseline.         *)
Continued(f, a) ==
  [f EXCEPT !.base = a.shows, !.changed = (f.changed \ a.changed) \cup (f.shows \ a.shows)]
SaveFinishes ==
  /\ session = "published" /\ session' = "open"
  /\ form' = Continued(form, attempt) /\ attempt' = Nothing
  /\ Persists(form', Nothing, store) \/ PersistFails(form', Nothing, store)
  /\ UNCHANGED <<doc, store, bound, doubtful, hosted, offers, meaning, foreign, applied, past, saves>>

-----------------------------------------------------------------------------
(* Changes of the saved entry itself.                                      *)

(* edit_binary on a saved entry.                                           *)
Attach(c) ==
  /\ Ready /\ Names(c)
  /\ Cardinality({meaning'[n] : n \in Required(doc) \cup {NextName}}) <= Limit
  /\ Commits(Shows(doc, doc.now \cup {NextName}), store \cup {NextName})
  /\ Direct /\ UNCHANGED <<foreign, applied, overlooked, uncounted>>

Detach(n) ==
  /\ Ready /\ n \in doc.now
  /\ Commits([doc EXCEPT !.now = @ \ {n}], store)
  /\ Direct /\ UNCHANGED <<meaning, foreign, applied, overlooked, uncounted>>

(* purge_history.                                                          *)
Purge ==
  /\ Ready /\ doc.past # {}
  /\ Commits([doc EXCEPT !.past = {}], store)
  /\ Direct /\ UNCHANGED <<meaning, foreign, applied, overlooked, uncounted>>

-----------------------------------------------------------------------------
(* Other devices.  Their objects arrive in any order, also while this one  *)
(* is locked; a source is taken when its contents are here, or waits in    *)
(* the document without them if what it changes has been purged.           *)

Announce(c) ==
  /\ ~unsure /\ Cardinality(foreign) < MaxForeign /\ Names(c)
  /\ foreign' = foreign \cup {NextName} /\ offers' = offers \cup {NextName}
  /\ UNCHANGED <<open, hosted, sidecar, applied, past, saves, faults>>

Arrive(n) ==
  /\ ~unsure /\ n \in offers \ copy.objects
  /\ copy' = [copy EXCEPT !.objects = @ \cup {n}] /\ served' = copy' /\ arrived' = arrived \cup {n}
  /\ UNCHANGED <<open, unsure, sidecar, offers, meaning, foreign, applied, overlooked, uncounted, saves, faults>>

(* apply_received.                                                         *)
Takes(n, d, blobs) ==
  LET a == [served EXCEPT !.doc = d, !.bound = bound \cup {n}] IN
  /\ Ready /\ n \in foreign \ applied
  /\ \/ Accepts(d, a, blobs) /\ applied' = applied \cup {n}
     \/ Doubts(a) /\ applied' = IF Written(a) THEN applied \cup {n} ELSE applied
     \/ Refuses /\ UNCHANGED applied
  /\ uncounted' = uncounted \cup {n}
  /\ Direct /\ UNCHANGED <<meaning, foreign, arrived, overlooked>>
Apply(n) == n \in served.objects /\ Takes(n, Shows(doc, doc.now \cup {n}), store \cup {n})
ApplyLate(n) == Takes(n, [doc EXCEPT !.waiting = @ \cup {n}], store)

-----------------------------------------------------------------------------
(* collect_received: held while anything that may be needed is not known.  *)

Keep == Retains(doc) \cup (foreign \ applied)
Collect ==
  LET a == [served EXCEPT !.objects = @ \cap Keep] IN
  /\ Ready /\ Retains(doc) \subseteq bound /\ offers \subseteq served.objects
  /\ a # served \/ offers # {}
  /\ \/ Accepts(doc, a, store \cap (Retains(doc) \cup DraftRefs)) /\ offers' = {}
     \/ Doubts(a) /\ offers' = IF Written(a) THEN {} ELSE offers
     \/ Refuses /\ UNCHANGED offers
  /\ overlooked' = overlooked \cup ((copy.objects \ copy'.objects) \cap (DraftRefs \cup Kept))
  /\ UNCHANGED <<session, form, attempt, sidecar, saves, meaning, foreign, applied, arrived, uncounted>>

-----------------------------------------------------------------------------
(* Sessions.                                                               *)

(* DraftCollection::reconcile: an attempt whose receipt is in the document.*)
Settled(d, a) == a # Nothing /\ a.operation \in d.receipts
Reconciles(d, f, a) ==
  /\ form' = IF Settled(d, a) /\ f # Nothing THEN Continued(f, a) ELSE f
  /\ attempt' = IF Settled(d, a) THEN Nothing ELSE a

(* Opening: the contents the document requires are loaded, or it fails.    *)
Loadable == Required(served.doc) \subseteq served.bound \cap served.objects
Reloads(blobs) ==
  /\ Loadable /\ doc' = served.doc /\ bound' = served.bound /\ doubtful' = FALSE
  /\ store' = Required(served.doc) \cup blobs

(* reconcile_uncertain, which saving and applying begin with.              *)
Reconcile ==
  /\ session = "open" /\ doubtful
  /\ Reloads(store \cap DraftRefs) /\ Reconciles(served.doc, form, attempt)
  /\ UNCHANGED <<session, hosted, sidecar, offers, meaning, foreign, applied, past, saves, faults>>

Closes ==
  /\ session' = "closed" /\ doc' = NoDoc /\ form' = Nothing /\ attempt' = Nothing /\ store' = {}
  /\ bound' = {} /\ doubtful' = FALSE
  /\ UNCHANGED <<hosted, offers, meaning, foreign, applied, past, saves>>

(* stash_and_close.                                                        *)
LockForm ==
  /\ session = "open" /\ Closes
  /\ Persists(form, attempt, store) \/ PersistFails(form, attempt, store)

Crash == session # "closed" /\ Closes /\ Faulty /\ UNCHANGED sidecar

Unlock ==
  /\ session = "closed" /\ session' = "open" /\ Kept \subseteq (IF sidecar = Nothing THEN {} ELSE sidecar.blobs)
  /\ Reloads(IF sidecar = Nothing THEN {} ELSE sidecar.blobs)
  /\ IF sidecar = Nothing THEN form' = Nothing /\ attempt' = Nothing
     ELSE Reconciles(served.doc, sidecar.form, sidecar.attempt)
  /\ UNCHANGED <<hosted, sidecar, offers, meaning, foreign, applied, past, saves, faults>>

(* The file is registered again, by a host that released it or by the next *)
(* one: it is opened anew, and its store is sure.                          *)
Reattach ==
  /\ session = "closed" /\ unsure /\ served' = copy /\ unsure' = FALSE
  /\ UNCHANGED <<open, copy, sidecar, offers, meaning, foreign, applied, past, saves, faults>>

-----------------------------------------------------------------------------

BinaryNext ==
  \/ Begin \/ DiscardForm
  \/ \E c \in Contents : Import(c)
  \/ \E c \in Contents : Attach(c)
  \/ \E c \in Contents : Announce(c)
  \/ \E n \in Blobs : RenameAttachment(n)
  \/ \E n \in Blobs : Remove(n)
  \/ \E n \in Blobs : Detach(n)
  \/ \E n \in Blobs : Arrive(n)
  \/ \E n \in Blobs : Apply(n)
  \/ \E n \in Blobs : ApplyLate(n)
  \/ SaveBegins \/ SavePublishes \/ SaveFinishes
  \/ Purge \/ Collect \/ Reconcile \/ LockForm \/ Crash \/ Unlock \/ Reattach

BinarySpec == BinaryInit /\ [][BinaryNext]_binaryVars

-----------------------------------------------------------------------------

(* persist_candidate and collect_received: the session has every content   *)
(* that its document requires, and that its form or a save in doubt names. *)
ContentsHeld == session # "closed" => Required(doc) \cup DraftRefs \subseteq store

(* seal_new_blobs and collect: the working copy opens again, and a content *)
(* that a waiting source needs stays once it is here, except where objects *)
(* were collected while a form still named them; and a form that was kept  *)
(* is complete.                                                            *)
ContentsStored ==
  /\ Required(copy.doc) \subseteq copy.bound
  /\ Required(copy.doc) \cup (copy.doc.waiting \cap arrived) \subseteq copy.objects \cup overlooked
  /\ sidecar # Nothing => Kept \subseteq sidecar.blobs

(* check_attachment_quota: what was attached here stays within the limit,  *)
(* however forms and direct changes interleave.                            *)
QuotaKept ==
  /\ Fits(Required(copy.doc) \ uncounted)
  /\ session # "closed" => Fits(Required(doc) \ uncounted)

BinariesSound == ContentsHeld /\ ContentsStored /\ QuotaKept
=============================================================================
