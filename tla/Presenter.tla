----------------------------- MODULE Presenter -----------------------------
(***************************************************************************)
(* The Android screen over one database (DocumentState.kt), and the worker *)
(* behind it (native document/session.rs).  The screen takes clicks and    *)
(* typed input at once, and puts what must reach the worker in a channel   *)
(* of commands, which one coroutine runs in order; a command suspends at   *)
(* every call of the worker, and clicks, input, locks and the poller run   *)
(* between.  What a suspended command finds when it goes on is no longer   *)
(* what it left.                                                           *)
(*                                                                         *)
(* An input is a number, in the order of typing, with a field of its own.  *)
(* A form's content is the set of the inputs in it, which is its revision, *)
(* and a save operation is named by the form and the revision it captured. *)
(***************************************************************************)
EXTENDS Naturals, Sequences, FiniteSetsExt

CONSTANTS
  Nil,
  MaxInputs,   \* bound: inputs typed
  MaxForms,    \* bound: forms begun
  MaxCommands, \* bound: commands in the channel
  MaxOpens,    \* bound: sessions
  MaxLocks,    \* bound: locks and revocations
  MaxFaults    \* bound: calls of the worker that fail while it is open

VARIABLES
  ui,         \* DocumentState
  commands,   \* its channel
  command,    \* the command that is suspended in a call, or Nil
  service,    \* the worker of the database, open or not
  document,   \* inputs that are saved
  entered,    \* number of inputs typed
  released,   \* history: inputs the user gave up, or that a lock may take
  late,       \* history: inputs typed while the form was being deleted
  used        \* forms, sessions, locks and faults so far

vars == <<ui, commands, command, service, document, entered, released, late, used>>

Inputs == 1..MaxInputs

Init ==
  /\ ui = [epoch |-> 0, appliedInputRevision |-> 0, saveAttempt |-> Nil,
           session |-> 0, form |-> Nil, retryEdits |-> {}, saveLabel |-> "CLEAN",
           navigating |-> FALSE, opening |-> FALSE, pendingNavigation |-> Nil, since |-> 0]
  /\ commands = <<>> /\ command = Nil
  /\ service = [open |-> 0, draft |-> Nil, stored |-> Nil, uncertain |-> FALSE]
  /\ document = {} /\ entered = 0 /\ released = {} /\ late = {}
  /\ used = [forms |-> 0, opens |-> 0, locks |-> 0, cleared |-> 0, faults |-> 0]

EditingBlocked == ui.navigating \/ ui.pendingNavigation # Nil
Binding == [session |-> ui.session, epoch |-> ui.epoch]
Bound(c) == c.session = ui.session /\ c.epoch = ui.epoch
Current(c) == Bound(c) /\ service.open = c.session

-----------------------------------------------------------------------------
(* What the screen changes, as functions of it.                            *)

(* The number of the latest input stands for inputRevision, which also     *)
(* moves when a form is shown or removed: an attempt that captured an      *)
(* earlier one is then of no input any more.                               *)
NoInput == MaxInputs + 1
Forgets(a) == IF a = Nil THEN Nil ELSE [a EXCEPT !.input = NoInput]

(* clearEditor.                                                            *)
ClearEditor(u) ==
  [u EXCEPT !.form = Nil, !.retryEdits = {}, !.saveLabel = "CLEAN", !.saveAttempt = Forgets(@),
            !.appliedInputRevision = entered]

(* clearSelectedSensitive.  Attempts to save are kept.                     *)
ClearSelected(u) ==
  [ClearEditor(u) EXCEPT !.epoch = @ + 1, !.session = 0, !.navigating = FALSE, !.opening = FALSE,
                         !.pendingNavigation = Nil]

Form(d) == [draft |-> d.id, dirty |-> d.inputs # d.baseline]

(* loadForm: an attempt's captured input is what the form shows now, if    *)
(* the form still has the revision that was captured.                      *)
LoadForm(u, d) ==
  [u EXCEPT !.form = Form(d), !.appliedInputRevision = entered,
            !.saveLabel = IF d.inputs # d.baseline THEN "DIRTY" ELSE "CLEAN",
            !.saveAttempt = IF @ # Nil /\ @.draft = d.id /\ @.revision = d.inputs
                            THEN [@ EXCEPT !.input = entered] ELSE Forgets(@)]

(* A patch is acknowledged: by its own command, or by a later replay.      *)
Applied(u, edit, d) ==
  [u EXCEPT !.form = Form(d), !.retryEdits = @ \ {edit},
            !.appliedInputRevision = IF @ < edit THEN edit ELSE @]

HasUnsavedInput(u) == u.form.dirty \/ entered # u.appliedInputRevision \/ u.retryEdits # {}

(* What has been typed and is not known to be in the worker's form.        *)
Unsent ==
  ui.retryEdits \cup {commands[i].edit : i \in {j \in DOMAIN commands : commands[j].do = "patch"}}
    \cup (IF command # Nil /\ command.do = "patch" THEN {command.edit} ELSE {})
Held == IF service.draft = Nil THEN {} ELSE service.draft.inputs
Waiting == Unsent \cup Held

-----------------------------------------------------------------------------
(* Clicks.  None of them waits.                                            *)

Command(do) ==
  [do |-> do, at |-> "queued", draft |-> IF ui.form = Nil THEN 0 ELSE ui.form.draft, edit |-> Nil,
   clicked |-> IF do = "save" THEN entered ELSE 0, to |-> Nil, session |-> ui.session, epoch |-> ui.epoch,
   since |-> IF do = "open" THEN used.cleared ELSE 0]
Enqueue(c) == Len(commands) < MaxCommands /\ commands' = Append(commands, c)
Clicks == UNCHANGED <<command, service, document, used>>
Kept == UNCHANGED <<entered, released, late>>

(* patch, which every field's edit ends in.                                *)
Deleting ==
  \/ command # Nil /\ command.at \in {"discard", "begin"}
  \/ \E i \in DOMAIN commands : commands[i].do \in {"cancel", "discard"}
Edit ==
  /\ ui.session # 0 /\ ui.form # Nil /\ ~EditingBlocked /\ entered < MaxInputs
  /\ ui' = [ui EXCEPT !.saveLabel = "DIRTY"]
  /\ entered' = entered + 1
  /\ Enqueue([Command("patch") EXCEPT !.edit = entered + 1])
  /\ late' = IF Deleting THEN late \cup {entered + 1} ELSE late
  /\ Clicks /\ UNCHANGED released

SaveNow ==
  /\ ui.session # 0 /\ ~EditingBlocked /\ ui.saveLabel # "SAVING" /\ ui.form # Nil
  /\ Enqueue(Command("save"))
  /\ Clicks /\ Kept /\ UNCHANGED ui

GivesUp == released' = released \cup 1..entered /\ UNCHANGED <<entered, late>>

(* cancelForm and deleteForm.                                              *)
CancelForm ==
  /\ ui.session # 0 /\ ~EditingBlocked /\ ui.form # Nil
  /\ ui' = [ui EXCEPT !.navigating = TRUE]
  /\ Enqueue(Command("cancel"))
  /\ Clicks /\ GivesUp

(* navigate: leave the form, or open one.                                  *)
Navigate(to) ==
  /\ ui.session # 0 /\ ~EditingBlocked
  /\ IF to = "leave" THEN ui.form # Nil ELSE used.forms < MaxForms
  /\ ui' = [ui EXCEPT !.navigating = TRUE]
  /\ Enqueue([Command("navigate") EXCEPT !.to = to])
  /\ Clicks /\ Kept

(* The question that unsaved input raises.  Its buttons wait for a running *)
(* answer; dismissing it does not.                                         *)
Stay ==
  /\ ui.pendingNavigation # Nil
  /\ ui' = [ui EXCEPT !.pendingNavigation = Nil, !.navigating = FALSE]
  /\ Clicks /\ Kept /\ UNCHANGED commands

Answers(do) ==
  /\ ui.pendingNavigation # Nil /\ ~ui.navigating
  /\ ui' = [ui EXCEPT !.navigating = TRUE]
  /\ Enqueue([Command(do) EXCEPT !.draft = ui.pendingNavigation.draft, !.to = ui.pendingNavigation.to])
  /\ Clicks
SaveNavigation == Answers("save") /\ Kept
DiscardNavigation == Answers("discard") /\ GivesUp

(* unlock, and the other ways of openResolved.                             *)
Unlock ==
  /\ ui.session = 0 /\ ~ui.opening /\ service.open = 0 /\ used.opens < MaxOpens
  /\ ui' = [ui EXCEPT !.opening = TRUE, !.navigating = TRUE]
  /\ Enqueue(Command("open"))
  /\ Clicks /\ Kept

-----------------------------------------------------------------------------
(* Locks.  A worker that ends keeps its form in the encrypted file beside  *)
(* the database, if it had time to or had done so before.                  *)

Stashed(d) == IF d = Nil \/ d.inputs = d.baseline THEN Nil ELSE d
Closed(s) == {[s EXCEPT !.open = 0, !.draft = Nil, !.stored = d, !.uncertain = FALSE] : d \in {s.stored, Stashed(s.draft)}}
Revokes == IF service.open = 0 THEN UNCHANGED service ELSE service' \in Closed(service)

Clears == ui' = ClearSelected(ui) /\ commands' = <<>> /\ GivesUp

(* lock and the background; lockCurrent knows only the session it shows.    *)
Lock ==
  /\ used.locks < MaxLocks
  /\ Revokes \/ (ui.session = 0 /\ UNCHANGED service)
  /\ Clears
  /\ used' = [used EXCEPT !.locks = @ + 1, !.cleared = @ + 1]
  /\ UNCHANGED <<command, document>>

(* The idle timer, another lock, or the end of the process.                *)
Revoke ==
  /\ used.locks < MaxLocks /\ service.open # 0
  /\ Revokes /\ GivesUp
  /\ used' = [used EXCEPT !.locks = @ + 1]
  /\ UNCHANGED <<ui, commands, command, document>>

(* The poller, every 100 ms.                                               *)
Poll ==
  /\ ui.session # 0 /\ service.open # ui.session
  /\ Clears
  /\ used' = [used EXCEPT !.cleared = @ + 1]
  /\ UNCHANGED <<command, service, document>>

(* reconcile_uncertain, which saving and deleting begin with, and which    *)
(* the application of received sources calls on its own.                   *)
Reconciled(s) ==
  IF s.draft = Nil THEN [s EXCEPT !.uncertain = FALSE]
  ELSE LET done == {r \in s.draft.tried : r \subseteq document} IN
       [s EXCEPT !.uncertain = FALSE, !.draft.tried = @ \ done, !.draft.settled = @ \cup done,
                 !.draft.baseline = @ \cup UNION done]
Reconcile ==
  /\ service.uncertain /\ service' = Reconciled(service)
  /\ UNCHANGED <<ui, commands, command, document, used>> /\ Kept

-----------------------------------------------------------------------------
(* Running commands.  Suspends leaves a command in a call of the worker.   *)

Suspends(c, at) == command' = [c EXCEPT !.at = at]
Ends == command' = Nil
Stopped(u) == [u EXCEPT !.navigating = FALSE]
FailedUi(u) == [Stopped(u) EXCEPT !.saveLabel = "FAILED"]

Acts(c, u) ==
  IF c.to = "leave" THEN ui' = Stopped(ClearEditor(u)) /\ Ends
  ELSE ui' = u /\ Suspends(c, "begin")

(* saveSnapshot and navigate, after replayEdits.                           *)
GoesOn(c, u) ==
  IF u.retryEdits # {} THEN ui' = u /\ Suspends(c, "replay")
  ELSE IF c.do = "save"
  THEN IF u.form = Nil THEN ui' = (IF c.to = Nil THEN u ELSE Stopped(u)) /\ Ends
       ELSE IF u.saveAttempt # Nil /\ u.saveAttempt.draft = u.form.draft
       THEN ui' = [u EXCEPT !.saveLabel = "SAVING"] /\ Suspends(c, "save")
       ELSE ui' = u /\ Suspends(c, "capture")
  ELSE IF u.form = Nil THEN Acts(c, u)
  ELSE IF HasUnsavedInput(u)
  THEN /\ ui' = [Stopped(u) EXCEPT !.pendingNavigation = [draft |-> u.form.draft, to |-> c.to]]
       /\ Ends
  ELSE ui' = u /\ Suspends([c EXCEPT !.draft = u.form.draft], "discard")

Shows(draft) == ui.form # Nil /\ ui.form.draft = draft

Starts(c) ==
  IF c.do = "open"
  THEN IF c.epoch # ui.epoch THEN Ends /\ UNCHANGED ui
       ELSE /\ ui' = [ClearEditor(ui) EXCEPT !.epoch = @ + 1]
            /\ Suspends([c EXCEPT !.epoch = ui.epoch + 1], "open")
  ELSE IF ~Current(c) THEN Ends /\ UNCHANGED ui
  ELSE CASE c.do = "patch" ->
              IF ~Shows(c.draft) THEN Ends /\ UNCHANGED ui
              ELSE ui' = [ui EXCEPT !.retryEdits = @ \cup {c.edit}] /\ Suspends(c, "patch")
         [] c.do \in {"cancel", "discard"} ->
              IF ~Shows(c.draft) THEN Ends /\ UNCHANGED ui
              ELSE ui' = [ui EXCEPT !.navigating = TRUE] /\ Suspends(c, "discard")
         [] c.do = "save" /\ c.to # Nil /\ ~Shows(c.draft) -> Ends /\ UNCHANGED ui
         [] OTHER -> GoesOn(c, ui)

Take ==
  /\ command = Nil /\ commands # <<>> /\ commands' = Tail(commands)
  /\ Starts(Head(commands))
  /\ UNCHANGED <<service, document, used>> /\ Kept

-----------------------------------------------------------------------------
(* Replies.  A call fails if its session has ended, and may fail before or *)
(* after its effect.                                                       *)

Open(c) == service.open = c.session
Fault == used.faults < MaxFaults
Faulted == [used EXCEPT !.faults = IF Fault THEN @ + 1 ELSE @]
Returns == UNCHANGED <<commands, used>> /\ Kept
Suspended(at) == command # Nil /\ command.at = at

(* What bound() does with an exception.                                    *)
Throws(c) ==
  /\ Ends
  /\ IF Bound(c) /\ ~Open(c)
     THEN Clears /\ used' = [used EXCEPT !.cleared = @ + 1]
     ELSE /\ ui' = IF Bound(c) THEN FailedUi(ui) ELSE ui
          /\ used' = IF Open(c) THEN Faulted ELSE used
          /\ UNCHANGED commands /\ Kept

HasDraft(id) == service.draft # Nil /\ service.draft.id = id
FirstEdit == Min(ui.retryEdits)

(* patch_entry and its likes.                                              *)
Patched(n) == [service EXCEPT !.draft.inputs = @ \cup {n}]
Patches(c, edit) ==
  LET takes == Open(c) /\ ui.form # Nil /\ HasDraft(c.draft) /\ ~service.uncertain IN
  /\ UNCHANGED document
  /\ \/ /\ takes /\ service' = Patched(edit)
        /\ LET u == Applied(ui, edit, service'.draft) IN
           IF c.do # "patch" THEN GoesOn(c, u)
           ELSE /\ Ends
                /\ ui' = IF entered = edit THEN [u EXCEPT !.saveLabel = "DIRTY"] ELSE u
        /\ Returns
     \/ /\ takes => Fault
        /\ service' \in IF takes THEN {service, Patched(edit)} ELSE {service}
        /\ Throws(c)

PatchReturns == Suspended("patch") /\ Patches(command, command.edit)
ReplayReturns ==
  /\ Suspended("replay")
  /\ IF Bound(command) THEN Patches(command, FirstEdit)
     ELSE Throws(command) /\ UNCHANGED <<service, document>>

(* editor and metadata, for the revision that the service has now.         *)
CaptureReturns ==
  /\ Suspended("capture") /\ UNCHANGED <<service, document>>
  /\ \/ /\ Open(command) /\ HasDraft(ui.form.draft)
        /\ ui' = [ui EXCEPT !.saveLabel = "SAVING",
                            !.saveAttempt = [draft |-> ui.form.draft, revision |-> Held, input |-> command.clicked]]
        /\ Suspends(command, "save") /\ Returns
     \/ (Open(command) /\ HasDraft(ui.form.draft) => Fault) /\ Throws(command)

(* save_draft_snapshot, and the view of the editor after it.               *)
Takes(s, a) ==
  /\ s.draft # Nil /\ s.draft.id = a.draft
  /\ a.revision \in s.draft.tried \cup s.draft.settled \cup {s.draft.inputs}
Settled(s, r) ==
  [s EXCEPT !.draft.tried = @ \ {r}, !.draft.settled = @ \cup {r},
            !.draft.baseline = IF r \in s.draft.settled THEN @ ELSE r]
Tried(s, r) == [s EXCEPT !.draft.tried = @ \cup {r}]
Stores(s) == {s, [s EXCEPT !.stored = Stashed(s.draft)]}

Saves(a) ==
  /\ Takes(Reconciled(service), a)
  /\ service' \in Stores(Settled(Reconciled(service), a.revision))
  /\ document' = document \cup a.revision
SaveSettles(a) == Takes(Reconciled(service), a) /\ a.revision \notin Reconciled(service).draft.settled

(* Nothing, an attempt that is known not to be saved, or one in doubt; and *)
(* persistForms after it.                                                  *)
SaveFails(a) ==
  \/ service' \in Stores(service) \cup Stores(Reconciled(service)) /\ UNCHANGED document
  \/ SaveSettles(a) /\ service' \in Stores(Tried(Reconciled(service), a.revision)) /\ UNCHANGED document
  \/ /\ SaveSettles(a)
     /\ service' \in Stores([Tried(Reconciled(service), a.revision) EXCEPT !.uncertain = TRUE])
     /\ document' \in {document, document \cup a.revision}
  \/ Saves(a)
(* InvalidInput: the service keeps nothing, and the next save captures anew. *)
SaveRefused(a) ==
  /\ SaveSettles(a) /\ a.revision \notin Reconciled(service).draft.tried
  /\ service' \in Stores(Reconciled(service)) /\ UNCHANGED document

Completed(u, d, a) ==
  [u EXCEPT !.form = Form(d), !.saveAttempt = Nil,
            !.saveLabel = IF entered # a.input THEN "DIRTY" ELSE "SAVED"]
(* A save behind a navigation that did not succeed ends the navigation.    *)
Unsaved(c, u) == IF c.to = Nil THEN u ELSE Stopped(u)

SaveReturns ==
  LET a == ui.saveAttempt IN
  /\ Suspended("save")
  /\ \/ /\ Open(command) /\ Saves(a)
        /\ ui' = Completed(ui, service'.draft, a)
        /\ Suspends([command EXCEPT !.clicked = a.input], "refresh") /\ Returns
     \/ /\ Open(command) /\ (Takes(Reconciled(service), a) => Fault)
        /\ \/ SaveFails(a) /\ ui' = [Unsaved(command, ui) EXCEPT !.saveLabel = "FAILED"]
           \/ SaveRefused(a) /\ ui' = [Unsaved(command, ui) EXCEPT !.saveLabel = "FAILED", !.saveAttempt = Nil]
        /\ Ends /\ used' = Faulted /\ UNCHANGED commands /\ Kept
     \/ /\ ~Open(command) /\ UNCHANGED <<service, document>> /\ Ends
        /\ IF Bound(command) THEN Clears /\ used' = [used EXCEPT !.cleared = @ + 1]
           ELSE ui' = Unsaved(command, ui) /\ Returns

(* After the refresh: a form closes if it still shows what was saved.      *)
Closes(u, saved) == entered = saved
RefreshReturns ==
  /\ Suspended("refresh") /\ UNCHANGED <<service, document>>
  /\ \/ /\ Open(command) /\ Returns
        /\ IF Closes(ui, command.clicked)
           THEN /\ ui' = [ui EXCEPT !.navigating = TRUE]
                /\ Suspends([command EXCEPT !.draft = ui.form.draft], "discard")
           ELSE ui' = Unsaved(command, ui) /\ Ends
     \/ /\ Open(command) /\ Fault /\ Ends
        /\ ui' = [Unsaved(command, ui) EXCEPT !.saveLabel = "FAILED"]
        /\ used' = Faulted /\ UNCHANGED commands /\ Kept
     \/ ~Open(command) /\ Throws(command)

(* delete_draft.                                                           *)
Deleted == [service EXCEPT !.draft = Nil, !.stored = Nil, !.uncertain = FALSE]
DiscardReturns ==
  LET c == command
      takes == Open(c) /\ HasDraft(c.draft)
      u == [ui EXCEPT !.saveAttempt = Nil, !.pendingNavigation = IF c.to = Nil \/ c.do = "navigate" THEN @ ELSE Nil] IN
  /\ Suspended("discard") /\ UNCHANGED document
  /\ \/ /\ takes /\ service' = Deleted
        /\ IF c.to = Nil THEN ui' = Stopped(ClearEditor(u)) /\ Ends ELSE Acts(c, u)
        /\ Returns
     \/ /\ takes => Fault
        /\ service' \in {service} \cup (IF takes THEN {Deleted, Reconciled(service)} ELSE {})
        /\ Throws(c)

(* begin_edit_entry goes on with the form there is.                        *)
NewDraft == [id |-> used.forms + 1, inputs |-> {}, baseline |-> {}, tried |-> {}, settled |-> {}]
Begun == [service EXCEPT !.draft = IF @ = Nil THEN NewDraft ELSE @]
BeginReturns ==
  LET takes == Open(command) /\ ~service.uncertain /\ (service.draft # Nil \/ used.forms < MaxForms) IN
  /\ Suspended("begin") /\ UNCHANGED document
  /\ \/ /\ takes /\ service' = Begun
        /\ ui' = Stopped(LoadForm(ui, service'.draft)) /\ Ends
        /\ used' = [used EXCEPT !.forms = IF service.draft = Nil THEN @ + 1 ELSE @]
        /\ UNCHANGED commands /\ Kept
     \/ /\ takes => Fault
        /\ UNCHANGED service /\ Throws(command)

-----------------------------------------------------------------------------
(* Opening.  What the screen has become while the worker started decides   *)
(* whether the new session is shown.                                       *)

FailedOpening(u) == [FailedUi(u) EXCEPT !.opening = FALSE]
StillWantedAlways(c) == TRUE
StillWanted(c) == c.epoch = ui.epoch

OpenReturns ==
  /\ Suspended("open") /\ UNCHANGED document
  /\ \/ /\ used' = [used EXCEPT !.opens = @ + 1]
        /\ IF ~StillWanted(command) THEN Ends /\ UNCHANGED service
           ELSE /\ service' = Reconciled([service EXCEPT !.open = used.opens + 1, !.draft = service.stored])
                /\ Suspends([command EXCEPT !.session = used.opens + 1], "overview")
        /\ UNCHANGED <<ui, commands>>
     \/ /\ Fault /\ used' = [Faulted EXCEPT !.opens = @ + 1]
        /\ Ends /\ ui' = FailedOpening(ui) /\ UNCHANGED <<service, commands>>
  /\ Kept

OverviewReturns ==
  /\ Suspended("overview") /\ UNCHANGED document /\ Returns
  /\ IF ~Open(command) THEN ui' = FailedOpening(ui) /\ Ends /\ UNCHANGED service
     ELSE IF ~StillWanted(command) THEN service' \in Closed(service) /\ Ends /\ UNCHANGED ui
     ELSE /\ UNCHANGED service
          /\ ui' = Stopped([ClearEditor(ui) EXCEPT !.session = command.session, !.opening = FALSE, !.since = command.since])
          /\ IF service.draft = Nil THEN Ends ELSE Suspends(command, "resume")

(* activeForm, resumeForm and loadForm.                                    *)
ResumeReturns ==
  /\ Suspended("resume") /\ UNCHANGED <<service, document>> /\ Returns /\ Ends
  /\ ui' = IF ~Open(command) THEN FailedOpening(ui) ELSE LoadForm(ui, service.draft)

-----------------------------------------------------------------------------

Replies ==
  \/ PatchReturns \/ ReplayReturns \/ CaptureReturns \/ SaveReturns \/ RefreshReturns
  \/ DiscardReturns \/ BeginReturns \/ OpenReturns \/ OverviewReturns \/ ResumeReturns
Next ==
  \/ Edit \/ SaveNow \/ CancelForm \/ Navigate("leave") \/ Navigate("begin")
  \/ Stay \/ SaveNavigation \/ DiscardNavigation \/ Unlock
  \/ Lock \/ Revoke \/ Poll \/ Reconcile
  \/ Take \/ Replies

Spec == Init /\ [][Next]_vars

-----------------------------------------------------------------------------

(* closeForm, navigate and discard: what was typed is in the database, in  *)
(* the form or on its way there, unless the user gave it up, a lock took   *)
(* it, or it was typed while its form was being deleted.                   *)
InputKept ==
  service.open = ui.session => \A n \in 1..entered : n \in document \cup Waiting \cup released \cup late

(* saveSnapshot's label: SAVED is shown over saved input only, whatever    *)
(* was typed while the save ran.                                           *)
SavedIsSaved == ui.saveLabel = "SAVED" => \A n \in Waiting : n \in document

(* openResolved: a session that is shown was asked for after the last lock. *)
LockHolds == ui.session # 0 => ui.since = used.cleared

ScreenSound == InputKept /\ SavedIsSaved /\ LockHolds
=============================================================================
