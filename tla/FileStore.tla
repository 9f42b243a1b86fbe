----------------------------- MODULE FileStore -----------------------------
(***************************************************************************)
(* A database in one encrypted file, and the local form beside it          *)
(* (taypeer-storage file.rs, bundle.rs, crypto.rs; taypeer-services        *)
(* persistence.rs, lib.rs).  A session saves a form in three writes: the   *)
(* form into the draft sidecar, the document over the file, and the        *)
(* sidecar away.  Every write is a rename and a directory barrier, which   *)
(* may fail; the program may be killed and the power lost at any time; and *)
(* programs that know nothing of the lock may put another copy in place.   *)
(*                                                                         *)
(* A document is the set of the edits in it.  Encryption is fresh every    *)
(* time: a fingerprint is the number of the write.                         *)
(***************************************************************************)
EXTENDS Naturals

CONSTANTS
  Edits,        \* what a form may hold
  Absent,       \* no file, no form, no session
  MaxWrites,    \* bound: files ever encrypted
  MaxForeign    \* bound: copies put in place by other programs

VARIABLES
  file,       \* the database file as it is visible: a bundle, or Absent
  files,      \* what a power loss may leave of it
  sidecar,    \* the draft file as it is visible: a sealed form, or Absent
  sidecars,   \* what a power loss may leave of it
  store,      \* the open FileStore, which holds the lock, or Absent
  session,    \* the unlocked document and its form, or Absent
  step,       \* where a save or a reload is
  written,    \* history: every bundle that was in place
  typed,      \* history: edits entered
  acknowledged,      \* history: edits that a session took for saved
  kept,       \* history: edits that are stored in one place or the other
  foreign,    \* history: copies put in place by other programs
  late,       \* history: one came after the last check of a save
  blind       \* history: a save replaced a file that it had not read

fileVars == <<file, files, sidecar, sidecars, store, session, step, written, typed, acknowledged, kept, foreign, late, blind>>

Databases == {"own", "other"}
Numbers == 1..MaxWrites

(* The key of a bundle is bound to its header, which a draft repeats.      *)
Bundles == [id : Numbers \cup {0}, doc : SUBSET Edits, key : Databases]
Drafts == [edit : Edits, bound : BOOLEAN, key : Databases]
Forms == [edit : Edits, bound : BOOLEAN]   \* bound to an attempt to save it

Stores == [base : Bundles, database : Databases, uncertain : BOOLEAN]
SessionStates == [doc : SUBSET Edits, form : Forms \cup {Absent}, uncertain : BOOLEAN]
Steps ==
  [at : {"idle", "clearing"}, next : {Absent}] \cup
  [at : {"encrypting", "publishing", "reloading"}, next : Bundles]

ASSUME AbsentAssumption ==
  /\ Absent \notin Bundles \cup Drafts /\ Absent \notin Forms
  /\ Absent \notin Stores /\ Absent \notin SessionStates
ASSUME BoundsAssumption == MaxWrites \in Nat /\ MaxForeign \in Nat

Resting == [at |-> "idle", next |-> Absent]
Bundle(n, doc, key) == [id |-> n, doc |-> doc, key |-> key]
OtherDatabase == Bundle(0, {}, "other")

Doc(b) == IF b = Absent THEN {} ELSE b.doc
Held(d) == IF d = Absent THEN {} ELSE {d.edit}

OwnBundles == {b \in written : b.key = "own"}
MayWrite == \E n \in Numbers : \A b \in written : b.id < n
NextNumber == CHOOSE n \in Numbers : \A b \in written : b.id < n

-----------------------------------------------------------------------------
(* publish_file and remove_published_file.  A failed barrier leaves the    *)
(* new name visible and says CommitUncertain; a barrier that succeeds is   *)
(* the directory's, and settles both names.                                *)

Barriers == {"done", "uncertain", "failed"}

PublishesFile(b, outcome) ==
  /\ file' = IF outcome = "failed" THEN file ELSE b
  /\ files' = CASE outcome = "done" -> {b} [] outcome = "uncertain" -> files \cup {b} [] OTHER -> files
  /\ sidecars' = IF outcome = "done" THEN {sidecar} ELSE sidecars
  /\ written' = IF outcome = "failed" THEN written ELSE written \cup {b}
  /\ UNCHANGED sidecar

(* save_binary_draft, or discard_draft for Absent.                         *)
PublishesSidecar(d, outcome) ==
  /\ sidecar' = IF outcome = "failed" THEN sidecar ELSE d
  /\ sidecars' = CASE outcome = "done" -> {d} [] outcome = "uncertain" -> sidecars \cup {d} [] OTHER -> sidecars
  /\ files' = IF outcome = "done" THEN {file} ELSE files
  /\ UNCHANGED <<file, written>>

UnchangedFiles == UNCHANGED <<file, files, sidecar, sidecars, written>>

Form(e, bound) == [edit |-> e, bound |-> bound]
Sealed(form) ==
  IF form = Absent THEN Absent ELSE [edit |-> form.edit, bound |-> form.bound, key |-> store.base.key]

-----------------------------------------------------------------------------
(* Opening.                                                                *)

FileInit ==
  /\ file = Absent /\ files = {Absent} /\ sidecar = Absent /\ sidecars = {Absent}
  /\ store = Absent /\ session = Absent /\ step = Resting
  /\ written = {} /\ typed = {} /\ acknowledged = {} /\ kept = {}
  /\ foreign = 0 /\ late = FALSE /\ blind = FALSE

Created(b) == [base |-> b, database |-> "own", uncertain |-> FALSE]
Unlocked(database) == [base |-> file, database |-> database, uncertain |-> FALSE]

(* create_file: an empty document, never over a file that exists.  If it   *)
(* is uncertain the lock is dropped with the store.                        *)
CreateFile ==
  /\ store = Absent /\ file = Absent /\ MayWrite
  /\ \E outcome \in Barriers :
       /\ PublishesFile(Bundle(NextNumber, {}, "own"), outcome)
       /\ IF outcome # "done" THEN UNCHANGED <<store, session>>
          ELSE /\ store' = Created(file')
               /\ session' = [doc |-> {}, form |-> Absent, uncertain |-> FALSE]
  /\ UNCHANGED <<step, typed, acknowledged, kept, foreign, late, blind>>

(* DraftState::confirmed: the document has the receipt of the attempt.     *)
Confirmed(form, doc) == form # Absent /\ form.bound /\ form.edit \in doc

(* unlock_bundle and load_draft.  A draft of another key is refused.  A    *)
(* confirmed one is discarded, and the session opens only if that is sure. *)
Loads(next) ==
  /\ sidecar # Absent => sidecar.key = file.key
  /\ IF Confirmed(sidecar, file.doc)
     THEN \E outcome \in Barriers :
            /\ PublishesSidecar(Absent, outcome)
            /\ kept' = IF outcome = "uncertain" THEN kept \ {sidecar.edit} ELSE kept
            /\ IF outcome = "done"
               THEN /\ session' = [doc |-> file.doc, form |-> Absent, uncertain |-> FALSE]
                    /\ store' = next
               ELSE /\ UNCHANGED session
                    /\ store' = IF store = Absent THEN Absent ELSE next
     ELSE /\ session' = [doc |-> file.doc, uncertain |-> FALSE,
                         form |-> IF sidecar = Absent THEN Absent ELSE Form(sidecar.edit, sidecar.bound)]
          /\ store' = next
          /\ UnchangedFiles /\ UNCHANGED kept

OpenFile ==
  /\ store = Absent /\ file # Absent
  /\ Loads(Unlocked(file.key))
  /\ UNCHANGED <<step, typed, acknowledged, foreign, late, blind>>

(* unlock_file takes what is visible for its baseline before it knows the  *)
(* database; one that is another's stays locked.                           *)
UnlockFile ==
  /\ store # Absent /\ session = Absent /\ file # Absent
  /\ LET next == Unlocked(store.database) IN
     IF file.key = store.database /\ (sidecar # Absent => sidecar.key = file.key) THEN Loads(next)
     ELSE /\ store' = next
          /\ UnchangedFiles /\ UNCHANGED <<session, kept>>
  /\ UNCHANGED <<step, typed, acknowledged, foreign, late, blind>>

-----------------------------------------------------------------------------
(* The form.                                                               *)

Awaits == session # Absent /\ step = Resting
Editable == Awaits /\ ~session.uncertain

Enter(e) ==
  /\ Editable /\ session.form = Absent /\ e \notin typed
  /\ typed' = typed \cup {e}
  /\ session' = [session EXCEPT !.form = Form(e, FALSE)]
  /\ UnchangedFiles
  /\ UNCHANGED <<store, step, acknowledged, kept, foreign, late, blind>>

(* lock and stash_and_close: the session ends whatever happens to the      *)
(* form; the file stays open and locked.                                   *)
LockFile ==
  /\ Awaits
  /\ \E outcome \in Barriers :
       /\ PublishesSidecar(Sealed(session.form), outcome)
       /\ kept' = IF outcome = "done" THEN kept \cup Held(session.form) ELSE kept
  /\ session' = Absent
  /\ UNCHANGED <<store, step, typed, acknowledged, foreign, late, blind>>

(* cancel_draft.                                                           *)
CancelDraft ==
  /\ Editable /\ session.form # Absent
  /\ \E outcome \in Barriers :
       /\ PublishesSidecar(Absent, outcome)
       /\ session' = IF outcome = "done" THEN [session EXCEPT !.form = Absent] ELSE session
  /\ kept' = kept \ (Held(session.form) \ acknowledged)
  /\ UNCHANGED <<store, step, typed, acknowledged, foreign, late, blind>>

-----------------------------------------------------------------------------
(* save_draft.                                                             *)

(* The form is stored with its attempt; then save_stream looks at the file *)
(* and encrypts.                                                           *)
AsRead == file = store.base

SaveDraft ==
  /\ Editable /\ session.form # Absent /\ ~Confirmed(session.form, session.doc)
  /\ LET bound == [session.form EXCEPT !.bound = TRUE] IN
     \E outcome \in Barriers :
       /\ PublishesSidecar(Sealed(bound), outcome)
       /\ IF outcome # "done" THEN UNCHANGED <<session, step, kept>>
          ELSE /\ kept' = kept \cup {bound.edit}
               /\ session' = [session EXCEPT !.form = bound, !.uncertain = store.uncertain]
               /\ IF store.uncertain \/ ~AsRead \/ ~MayWrite THEN UNCHANGED step
                  ELSE step' = [at |-> "encrypting",
                                next |-> Bundle(NextNumber, session.doc \cup {bound.edit}, store.base.key)]
  /\ UNCHANGED <<store, typed, acknowledged, foreign, late, blind>>

\* the second check of save_stream left out
TrustedRecheck ==
  /\ step.at = "encrypting"
  /\ step' = [step EXCEPT !.at = "publishing"]
  /\ late' = FALSE
  /\ UnchangedFiles /\ UNCHANGED <<store, session, typed, acknowledged, kept, foreign, blind>>

Recheck ==
  /\ step.at = "encrypting"
  /\ step' = IF AsRead THEN [step EXCEPT !.at = "publishing"] ELSE Resting
  /\ late' = FALSE
  /\ UnchangedFiles /\ UNCHANGED <<store, session, typed, acknowledged, kept, foreign, blind>>

PublishFile ==
  /\ step.at = "publishing"
  /\ \E outcome \in Barriers :
       /\ PublishesFile(step.next, outcome)
       /\ blind' = (blind \/ (outcome # "failed" /\ ~AsRead /\ ~late))
       /\ CASE outcome = "done" ->
                 /\ store' = [store EXCEPT !.base = step.next]
                 /\ session' = [session EXCEPT !.doc = step.next.doc]
                 /\ acknowledged' = acknowledged \cup {session.form.edit}
                 /\ step' = [Resting EXCEPT !.at = "clearing"]
            [] outcome = "uncertain" ->
                 /\ store' = [store EXCEPT !.uncertain = TRUE]
                 /\ session' = [session EXCEPT !.uncertain = TRUE]
                 /\ step' = Resting /\ UNCHANGED acknowledged
            [] OTHER -> step' = Resting /\ UNCHANGED <<store, session, acknowledged>>
  /\ UNCHANGED <<typed, kept, foreign, late>>

(* Asking again for what is saved only clears.                             *)
SaveAgain ==
  /\ Editable /\ Confirmed(session.form, session.doc)
  /\ step' = [Resting EXCEPT !.at = "clearing"]
  /\ UnchangedFiles /\ UNCHANGED <<store, session, typed, acknowledged, kept, foreign, late, blind>>

(* clear_saved_draft.                                                      *)
ClearDraft ==
  /\ step.at = "clearing"
  /\ \E outcome \in Barriers :
       /\ PublishesSidecar(Absent, outcome)
       /\ session' = IF outcome = "done" THEN [session EXCEPT !.form = Absent] ELSE session
  /\ step' = Resting
  /\ UNCHANGED <<store, typed, acknowledged, kept, foreign, late, blind>>

-----------------------------------------------------------------------------
(* reconcile_uncertain and reload_bundle: the file must have the same key, *)
(* be confirmed, and still be the one that was read.                       *)

Reload ==
  /\ Awaits /\ session.uncertain /\ file.key = store.base.key
  /\ step' = [at |-> "reloading", next |-> file]
  /\ UnchangedFiles /\ UNCHANGED <<store, session, typed, acknowledged, kept, foreign, late, blind>>

Reloaded ==
  /\ step.at = "reloading"
  /\ step' = Resting
  /\ \/ UnchangedFiles /\ UNCHANGED <<store, session, acknowledged>>
     \/ /\ files' = {file} /\ sidecars' = {sidecar}
        /\ UNCHANGED <<file, sidecar, written>>
        /\ IF file # step.next THEN UNCHANGED <<store, session, acknowledged>>
           ELSE /\ store' = [store EXCEPT !.base = file, !.uncertain = FALSE]
                /\ session' = [doc |-> file.doc, uncertain |-> FALSE,
                               form |-> IF Confirmed(session.form, file.doc) THEN Absent ELSE session.form]
                /\ acknowledged' = acknowledged \cup file.doc
  /\ UNCHANGED <<typed, kept, foreign, late, blind>>

-----------------------------------------------------------------------------
(* The environment.                                                        *)

FileKilled ==
  /\ store # Absent
  /\ store' = Absent /\ session' = Absent /\ step' = Resting
  /\ UnchangedFiles /\ UNCHANGED <<typed, acknowledged, kept, foreign, late, blind>>

FileLost ==
  /\ \E b \in files, d \in sidecars :
       file' = b /\ files' = {b} /\ sidecar' = d /\ sidecars' = {d}
  /\ store' = Absent /\ session' = Absent /\ step' = Resting
  /\ UNCHANGED <<written, typed, acknowledged, kept, foreign, late, blind>>

(* Another program puts an earlier version or another database in place,   *)
(* and with it undoes what is not in there.                                *)
Replaced(b) ==
  /\ foreign < MaxForeign /\ file # Absent /\ b # file
  /\ foreign' = foreign + 1
  /\ file' = b /\ files' = files \cup {b} /\ written' = written \cup {b}
  /\ acknowledged' = acknowledged \cap b.doc
  /\ kept' = {e \in kept : e \in b.doc \/ \A c \in files : e \notin Doc(c)}
  /\ late' = (late \/ step.at = "publishing")
  /\ UNCHANGED <<sidecar, sidecars, store, session, step, typed, blind>>

FileNext ==
  \/ CreateFile \/ OpenFile \/ UnlockFile
  \/ \E e \in Edits : Enter(e)
  \/ LockFile \/ CancelDraft
  \/ SaveDraft \/ Recheck \/ PublishFile \/ SaveAgain \/ ClearDraft
  \/ Reload \/ Reloaded
  \/ FileKilled \/ FileLost
  \/ \E b \in OwnBundles \cup {OtherDatabase} : Replaced(b)

FileSpec == FileInit /\ [][FileNext]_fileVars

-----------------------------------------------------------------------------
(* What a session took for saved is in every file that a power loss may    *)
(* leave.                                                                  *)
SavedSurvives == \A b \in files : acknowledged \subseteq Doc(b)

(* An edit that was stored is found again, in the file or beside it.       *)
StoredSurvives == \A b \in files, d \in sidecars : kept \subseteq Doc(b) \cup Held(d)

(* A save replaces only what it has read, or what came after its last look *)
(* at the file.                                                            *)
ReplacesWhatItRead == ~blind

FileSound == SavedSurvives /\ StoredSurvives /\ ReplacesWhatItRead
=============================================================================
