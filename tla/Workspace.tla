----------------------------- MODULE Workspace -----------------------------
(***************************************************************************)
(* The desktop window over one database: the background client that opens  *)
(* it (Backend, its host thread and the per-worker command queue), and the *)
(* window that owns the form of one draft, its explicit save, the          *)
(* navigation that must resolve the form first, and the lock.              *)
(*                                                                         *)
(* Four threads run: the window (clicks, and Poll, which takes the answers *)
(* that have arrived), the host thread, the worker's queue, and whoever    *)
(* revokes access (the idle timer, the system, a failing process).         *)
(*                                                                         *)
(* An input is a number, in the order of typing; a form's revision is the  *)
(* number of its latest input.  What the worker's draft and the saved      *)
(* object hold is the set of inputs they contain.                          *)
(***************************************************************************)
EXTENDS Naturals, Sequences, FiniteSets, SequencesExt

CONSTANTS Kinds,      \* forms the object may have: "entry", "metadata"
          MaxInputs,  \* bound: inputs typed
          MaxOpens,   \* bound: openings asked for, and worker generations
          MaxLocks,   \* bound: revocations that come from outside the window
          MaxFaults,  \* bound: commands that fail in the worker
          MaxForms,   \* bound: forms opened
          Nil

VARIABLES
  kind,     \* the form of this behaviour's object
  epoch,    \* SessionController: generation of controller-wide revocations
  host,     \* the host thread's queue of openings, [epoch, op]
  run,      \* the opening it executes: [epoch, op, gen], Nil; gen 0 before the worker exists
  opened,   \* answers to openings, [op, gen], not yet taken by the window
  workers,  \* generations whose control is open
  born,     \* history: generation -> session epoch its opening was asked in
  queue,    \* Connection: commands of the current connection, in order
  done,     \* its answered tickets, in order
  draft,    \* the service's draft: the inputs it holds, Nil when there is none
  saved,    \* inputs that are in the database
  w,        \* WorkspaceStore
  form,     \* EditorStore or MetadataForm, Nil
  typed,    \* number of inputs typed
  excused,  \* history: inputs discarded by the user, reported as failed, or lost in a lock
  opens, forms, locks, faults

vars == <<kind, epoch, host, run, opened, workers, born, queue, done, draft, saved, w, form,
          typed, excused, opens, forms, locks, faults>>
session  == <<kind, epoch, host, run, opened, workers, born>>
service  == <<draft, saved, faults>>
counters == <<opens, forms, locks>>

Inputs == 1..MaxInputs
Idle == [conn |-> 0, unlocked |-> FALSE, catalog |-> 0, opening |-> FALSE, saving |-> FALSE,
         discard |-> FALSE, waiting |-> FALSE, nav |-> Nil, dialog |-> FALSE, op |-> 0,
         asked |-> FALSE]

Init ==
  /\ kind \in Kinds /\ epoch = 0 /\ host = <<>> /\ run = Nil /\ opened = {} /\ workers = {}
  /\ born = [g \in 1..MaxOpens |-> 0]
  /\ queue = <<>> /\ done = <<>> /\ draft = Nil /\ saved = {}
  /\ w = Idle /\ form = Nil /\ typed = 0 /\ excused = {}
  /\ opens = 0 /\ forms = 0 /\ locks = 0 /\ faults = 0

IsOpen == w.conn \in workers
Busy   == w.saving \/ w.opening \/ w.discard
Saving(f)  == f.attempt # Nil /\ f.attempt.ticket
Settled(f) == f.durable = f.rev
Dirty(f)   == ~Settled(f) \/ Saving(f)

-----------------------------------------------------------------------------
(* Backend: the host thread and the revocations it races with.             *)

(* open_file, unlock, Backend::open: the request carries the epoch of the  *)
(* click.  (born is stored from 1, so 0 says no worker.)                   *)
Unlock ==
  /\ ~Busy /\ form = Nil /\ ~w.unlocked /\ opens < MaxOpens /\ opens' = opens + 1
  /\ w' = [w EXCEPT !.opening = TRUE, !.op = @ + 1]
  /\ host' = Append(host, [epoch |-> epoch, op |-> w.op + 1])
  /\ UNCHANGED <<kind, epoch, run, opened, workers, born, queue, done, form, typed, excused>>
  /\ UNCHANGED <<service, forms, locks>>

Replied(op, g) == opened' = opened \cup {[op |-> op, gen |-> g]} /\ run' = Nil

HostTakes ==
  /\ run = Nil /\ host # <<>> /\ host' = Tail(host)
  /\ LET j == Head(host) IN
     IF j.epoch # epoch THEN Replied(j.op, 0)
     ELSE run' = [epoch |-> j.epoch, op |-> j.op, gen |-> 0] /\ UNCHANGED opened
  /\ UNCHANGED <<kind, epoch, workers, born, queue, done, w, form, typed, excused>>
  /\ UNCHANGED <<service, counters>>

(* host.open: the worker registers with the controller, or the opening     *)
(* fails; a second worker of the database is refused.                      *)
HostOpens ==
  /\ run # Nil /\ run.gen = 0
  /\ \/ LET g == 1 + Cardinality({x \in 1..MaxOpens : born[x] # 0}) IN
        /\ workers = {} /\ g \in 1..MaxOpens
        /\ workers' = {g} /\ born' = [born EXCEPT ![g] = run.epoch + 1]
        /\ run' = [run EXCEPT !.gen = g] /\ UNCHANGED opened
     \/ Replied(run.op, 0) /\ UNCHANGED <<workers, born>>
  /\ UNCHANGED <<kind, epoch, host, queue, done, w, form, typed, excused>>
  /\ UNCHANGED <<service, counters>>

(* Mutant of StillWanted: the epoch is compared before the launch only.    *)
StillWantedOnce(r) == TRUE
StillWanted(r) == r.epoch = epoch

(* The second comparison, and the first projection, which a revoked worker *)
(* refuses.                                                                *)
HostFinishes ==
  /\ run # Nil /\ run.gen # 0
  /\ IF StillWanted(run) /\ run.gen \in workers
     THEN Replied(run.op, run.gen) /\ UNCHANGED workers
     ELSE Replied(run.op, 0) /\ workers' = workers \ {run.gen}
  /\ UNCHANGED <<kind, epoch, host, born, queue, done, w, form, typed, excused>>
  /\ UNCHANGED <<service, counters>>

(* run_worker ends when the last Connection is dropped.                    *)
DropWorker(g) ==
  /\ g \in workers /\ g # w.conn /\ (run # Nil => run.gen # g)
  /\ \A r \in opened : r.gen # g
  /\ workers' = workers \ {g}
  /\ UNCHANGED <<kind, epoch, host, run, opened, born, queue, done, w, form, typed, excused>>
  /\ UNCHANGED <<service, counters>>

(* The idle timer or lock_all: the epoch and every gate in one critical    *)
(* section; a launching worker is not registered yet.                      *)
LockAll == epoch' = epoch + 1 /\ workers' = {}
IdleLock ==
  /\ locks < MaxLocks /\ locks' = locks + 1 /\ LockAll
  /\ UNCHANGED <<kind, host, run, opened, born, queue, done, w, form, typed, excused, opens, forms>>
  /\ UNCHANGED service
(* A worker process fails, or its access is invalidated for itself.        *)
WorkerFails ==
  /\ locks < MaxLocks /\ locks' = locks + 1 /\ workers # {} /\ workers' = {}
  /\ UNCHANGED <<kind, epoch, host, run, opened, born, queue, done, w, form, typed, excused, opens, forms>>
  /\ UNCHANGED service

-----------------------------------------------------------------------------
(* The worker's queue: one command after the other, while access is open.  *)

Job(k, n) == [kind |-> k, n |-> n, form |-> IF form = Nil THEN 0 ELSE form.id,
                 op |-> w.op, identity |-> Nil]
Answer(j, ok, val) == done' = Append(done, [kind |-> j.kind, n |-> j.n, form |-> j.form,
                                            op |-> j.op, ok |-> ok, val |-> val])
Fault == faults < MaxFaults /\ faults' = faults + 1

PatchWork(j) ==
  \/ /\ draft # Nil /\ draft' = draft \cup {j.n} /\ Answer(j, TRUE, Nil)
     /\ UNCHANGED <<saved, faults>>
  \/ draft = Nil /\ Answer(j, FALSE, Nil) /\ UNCHANGED service
  \/ Fault /\ Answer(j, FALSE, Nil) /\ UNCHANGED <<draft, saved>>

(* capture_snapshot takes the draft at its place in the queue;             *)
(* retry_snapshot repeats the captured identity.  A failing publication    *)
(* may have been committed.                                                *)
SaveWork(j) ==
  LET id == IF j.identity # Nil THEN j.identity ELSE draft IN
  \/ id = Nil /\ Answer(j, FALSE, Nil) /\ UNCHANGED service
  \/ /\ id # Nil /\ saved' = saved \cup id /\ Answer(j, TRUE, id)
     /\ UNCHANGED <<draft, faults>>
  \/ /\ id # Nil /\ Fault /\ saved' \in {saved, saved \cup id} /\ Answer(j, FALSE, id)
     /\ UNCHANGED draft

DeleteWork(j) ==
  \/ /\ draft # Nil /\ draft' = Nil /\ Answer(j, TRUE, Nil) /\ UNCHANGED <<saved, faults>>
  \/ draft = Nil /\ Answer(j, FALSE, Nil) /\ UNCHANGED service
  \/ Fault /\ Answer(j, FALSE, Nil) /\ UNCHANGED <<draft, saved>>

(* BeginEdit, ResumeDraft, MetadataDraft: the object's draft is continued. *)
BeginWork(j) ==
  \/ /\ draft' = IF draft = Nil THEN {} ELSE draft
     /\ Answer(j, TRUE, draft') /\ UNCHANGED <<saved, faults>>
  \/ Fault /\ Answer(j, FALSE, Nil) /\ UNCHANGED <<draft, saved>>

(* EditorView, ActiveDraft, ResumeDraft.                                  *)
ReadWork(j) == Answer(j, draft # Nil \/ j.kind = "active", draft) /\ UNCHANGED service

Work ==
  /\ IsOpen /\ queue # <<>> /\ queue' = Tail(queue)
  /\ LET j == Head(queue) IN
     \/ j.kind = "patch" /\ PatchWork(j)
     \/ j.kind = "save" /\ SaveWork(j)
     \/ j.kind = "delete" /\ DeleteWork(j)
     \/ j.kind \in {"begin", "metadata"} /\ BeginWork(j)
     \/ j.kind \in {"view", "projection", "active", "resume"} /\ ReadWork(j)
  /\ UNCHANGED <<session, w, form, typed, excused, counters>>

-----------------------------------------------------------------------------
(* The window thread.  s holds what one poll changes: the store, the form, *)
(* the commands it adds and the inputs it gives up with a notice.          *)

Window == [w |-> w, f |-> form, q |-> queue, e |-> excused]
Add(s, k, n) ==
  [s EXCEPT !.q = Append(@, [kind |-> k, n |-> n, form |-> IF s.f = Nil THEN 0 ELSE s.f.id,
                             op |-> s.w.op, identity |-> Nil])]

(* hide_database: the form goes at once, with the input nobody             *)
(* acknowledged, and so does every pending result.                         *)
Hidden(s) ==
  [s EXCEPT !.f = Nil, !.q = <<>>,
            !.e = @ \cup (IF s.f = Nil THEN {} ELSE s.f.unacked),
            !.w = [@ EXCEPT !.unlocked = FALSE, !.catalog = 0, !.op = @ + 1, !.saving = FALSE,
                            !.opening = FALSE, !.discard = FALSE, !.waiting = FALSE,
                            !.nav = Nil, !.dialog = FALSE, !.asked = FALSE]]
HideClosed(s) == IF s.w.unlocked /\ s.w.conn \notin workers THEN Hidden(s) ELSE s

Mine(s, k) == {r \in ToSet(done) : r.kind = k /\ r.form = s.f.id}

(* Answers to patches: a failure is shown; a metadata form gives up the    *)
(* closing save and the navigation behind it.                              *)
TakePatches(s) ==
  LET bad == {r.n : r \in {x \in Mine(s, "patch") : ~x.ok}}
      f1 == [s.f EXCEPT !.unacked = @ \ {r.n : r \in Mine(s, "patch")},
                        !.error = @ \/ bad # {}, !.closing = @ /\ bad = {}]
      gives == bad # {} /\ s.f.kind = "metadata" /\ ~s.w.discard
  IN [s EXCEPT !.f = f1, !.e = @ \cup bad,
               !.w = IF gives THEN [@ EXCEPT !.nav = Nil, !.waiting = FALSE] ELSE @]

(* A projection of an older revision is asked for again, not installed.    *)
Installs(f, r) == r.n = f.rev
TakeProjection(s) ==
  LET got == Mine(s, "projection") IN
  IF got = {} THEN s
  ELSE LET r == CHOOSE x \in got : TRUE IN
       [s EXCEPT !.f = IF ~r.ok THEN [@ EXCEPT !.proj = FALSE, !.error = TRUE]
                       ELSE IF Installs(@, r)
                       THEN [@ EXCEPT !.proj = FALSE, !.shown = r.val]
                       ELSE [@ EXCEPT !.proj = FALSE, !.needs = TRUE]]

AskProjection(s) ==
  LET quiet == [s EXCEPT !.f.needs = @ /\ ~(s.f.error /\ s.f.unacked = {})] IN
  IF quiet.f.needs /\ s.f.unacked = {} /\ ~s.f.error /\ ~s.f.proj
  THEN Add([quiet EXCEPT !.f.needs = FALSE, !.f.proj = TRUE], "projection", s.f.rev)
  ELSE quiet

(* poll_editor_save and poll_metadata.  A confirmed save closes the form   *)
(* only when it holds the latest input; otherwise the navigation that      *)
(* waited for it asks, and any other is given up.                          *)
Closes(f) == Settled(f) /\ (IF f.kind = "entry" THEN ~f.error ELSE f.closing)
Confirmed(s) ==
  IF Closes(s.f) THEN [s EXCEPT !.w.discard = TRUE, !.w.waiting = FALSE]
  ELSE [s EXCEPT !.f.closing = FALSE,
                 !.w = [@ EXCEPT !.waiting = FALSE,
                                 !.dialog = @ \/ (~s.w.discard /\ s.w.waiting /\ s.w.nav # Nil),
                                 !.nav = IF s.w.discard \/ s.w.waiting THEN @ ELSE Nil]]
Failed(s) ==
  [s EXCEPT !.f.closing = FALSE,
            !.w = [@ EXCEPT !.waiting = FALSE, !.nav = IF s.w.discard THEN @ ELSE Nil]]

(* poll_snapshot.  The attempt keeps the identity it captured, until the   *)
(* input has changed since.                                                *)
TakeSnapshot(s) ==
  LET got == Mine(s, "save") IN
  IF got = {} THEN s
  ELSE LET r == CHOOSE x \in got : TRUE
           a == [s.f.attempt EXCEPT !.ticket = FALSE,
                                    !.identity = IF r.val = Nil THEN @ ELSE r.val] IN
       IF r.ok
       THEN Confirmed([s EXCEPT !.f.attempt = Nil, !.f.needs = s.f.kind = "entry",
                                !.f.durable = IF a.input = s.f.rev THEN s.f.rev ELSE @])
       ELSE Failed([s EXCEPT !.f.attempt = IF a.input = s.f.rev THEN a ELSE Nil])

(* poll_discard: not while a publication runs.                             *)
Discards(s) ==
  IF ~s.w.discard \/ s.w.saving THEN s
  ELSE IF s.f = Nil THEN [s EXCEPT !.w.discard = FALSE]
  ELSE IF Saving(s.f) THEN s
  ELSE Add([s EXCEPT !.w.saving = TRUE], "delete", 0)

Polled ==
  LET s == HideClosed(Window) IN
  IF s.f = Nil THEN Discards(s)
  ELSE IF s.f.kind = "entry"
  THEN Discards(TakeSnapshot(AskProjection(TakeProjection(TakePatches(s)))))
  ELSE Discards(TakeSnapshot(TakePatches(s)))

OfForm(r) == r.kind \in {"patch", "projection", "save"}
Takes(s) == w' = s.w /\ form' = s.f /\ queue' = s.q /\ excused' = s.e

Poll ==
  /\ Takes(Polled)
  /\ done' = IF w.unlocked /\ ~IsOpen THEN <<>> ELSE SelectSeq(done, LAMBDA r : ~OfForm(r))
  /\ UNCHANGED <<session, typed, counters>> /\ UNCHANGED service
(* The callbacks of a poll come after the form's answers.                  *)
PollIsQuiet == Polled = Window /\ \A i \in DOMAIN done : ~OfForm(done[i])

(* watch_opened: only the latest operation, and only while still open.     *)
TakeOpened(r) ==
  /\ PollIsQuiet /\ r \in opened /\ opened' = opened \ {r}
  /\ IF r.op # w.op THEN UNCHANGED <<w, queue, done>>
     ELSE IF r.gen \notin workers
     THEN w' = [w EXCEPT !.opening = FALSE] /\ UNCHANGED <<queue, done>>
     ELSE /\ w' = [w EXCEPT !.opening = FALSE, !.conn = r.gen, !.unlocked = TRUE,
                            !.catalog = r.gen]
          /\ queue' = <<Job("active", 0)>> /\ done' = <<>>
  /\ UNCHANGED <<kind, epoch, host, run, workers, born, form, typed, excused>>
  /\ UNCHANGED <<service, counters>>

(* start_editor, open_metadata and resume_draft are operations: a later    *)
(* one makes the window ignore the answer of an earlier.                   *)
Starts(s, k) == Add([s EXCEPT !.w.saving = TRUE, !.w.op = @ + 1], k, 0)
NewForm(held) ==
  [id |-> forms + 1, kind |-> kind, own |-> held, from |-> typed, rev |-> typed, shown |-> held, unacked |-> {},
   durable |-> IF held \subseteq saved THEN typed ELSE MaxInputs + 1,
   attempt |-> Nil, error |-> FALSE, proj |-> FALSE, needs |-> FALSE, closing |-> FALSE]

Opens(s, r) ==
  IF ~r.ok THEN [s EXCEPT !.w.saving = FALSE]
  ELSE [s EXCEPT !.w.saving = FALSE, !.f = NewForm(r.val)]
FormCommand == IF kind = "entry" THEN "begin" ELSE "metadata"

(* DeleteDraft was answered; a pending navigation goes on without a form.  *)
Left(s, r) ==
  LET s1 == [s EXCEPT !.w = [@ EXCEPT !.saving = FALSE, !.discard = FALSE, !.asked = FALSE,
                                      !.nav = Nil]]
  IN IF ~r.ok THEN s1
     ELSE IF s.w.nav = "close" THEN Hidden([s1 EXCEPT !.f = Nil, !.w.conn = 0])
     ELSE [s1 EXCEPT !.f = Nil]

Called(r) ==
  LET s == Window IN
  IF r.kind = "active"
  THEN IF r.val # Nil /\ forms < MaxForms THEN Starts(s, "resume") ELSE s
  ELSE IF r.op # w.op THEN s
  ELSE CASE r.kind = "resume" ->
              IF r.ok THEN Starts(s, FormCommand) ELSE [s EXCEPT !.w.saving = FALSE]
         [] r.kind = "begin" ->
              IF r.ok THEN Add(s, "view", 0) ELSE [s EXCEPT !.w.saving = FALSE]
         [] r.kind = "view" -> Opens(s, r)
         [] r.kind = "metadata" -> Opens(s, r)
         [] r.kind = "delete" -> Left(s, r)

Callback ==
  /\ PollIsQuiet /\ done # <<>> /\ done' = Tail(done)
  /\ Takes(Called(Head(done)))
  /\ LET r == Head(done) IN
     /\ forms' = IF r.kind \in {"view", "metadata"} /\ r.op = w.op /\ r.ok THEN forms + 1 ELSE forms
     \* CloseDatabase: the connection is invalidated with the form gone
     /\ workers' = IF r.kind = "delete" /\ r.op = w.op /\ r.ok /\ w.nav = "close"
                   THEN workers \ {w.conn} ELSE workers
  /\ UNCHANGED <<kind, epoch, host, run, opened, born, typed, opens, locks>> /\ UNCHANGED service

-----------------------------------------------------------------------------
(* What the user does; a modal dialog takes the clicks while it is open.   *)

UserSteps == /\ ~w.dialog /\ PollIsQuiet
             /\ UNCHANGED <<session, done, counters>> /\ UNCHANGED service

(* begin_edit and open_metadata.                                           *)
Begin ==
  /\ UserSteps /\ w.unlocked /\ IsOpen /\ form = Nil /\ ~Busy /\ forms < MaxForms
  /\ Takes(Starts(Window, FormCommand))
  /\ UNCHANGED typed

(* set_field and the other edits of a form: shown at once, sent in order.  *)
(* A finished attempt is forgotten, so that the next save captures again.  *)
Type ==
  /\ UserSteps /\ form # Nil /\ IsOpen /\ typed < MaxInputs
  /\ LET n == typed + 1
         f == [form EXCEPT !.rev = n, !.shown = @ \cup {n}, !.unacked = @ \cup {n},
                           !.error = FALSE, !.needs = form.kind = "entry",
                           !.attempt = IF Saving(form) THEN @ ELSE Nil]
     IN /\ typed' = n
        /\ Takes(Add([Window EXCEPT !.f = f, !.e = IF w.asked THEN @ \cup {n} ELSE @],
                     "patch", n))

(* start_snapshot and request_save: a new capture, or the retry of exactly *)
(* the captured identity.                                                  *)
Attempted(f) ==
  [f EXCEPT !.attempt = [identity |-> IF f.attempt = Nil THEN Nil ELSE f.attempt.identity,
                         input |-> IF f.attempt = Nil THEN f.rev ELSE f.attempt.input,
                         ticket |-> TRUE],
            !.closing = f.kind = "metadata"]
Saves(s) ==
  LET f == Attempted(s.f) IN
  IF Saving(s.f) THEN s
  ELSE IF s.f.kind = "entry" /\ s.f.error THEN [s EXCEPT !.w.nav = Nil]
  ELSE [s EXCEPT !.f = f,
                 !.q = Append(@, [kind |-> "save", n |-> 0, form |-> f.id, op |-> s.w.op,
                                  identity |-> f.attempt.identity])]
Save ==
  /\ UserSteps /\ form # Nil /\ IsOpen
  /\ ~Busy \/ form.kind = "metadata"    \* the metadata dialog's own button
  /\ Takes(Saves(Window)) /\ UNCHANGED typed

(* navigate: leave the form, or close the database.                        *)
Leaves(s) ==
  IF Saving(s.f) THEN [s EXCEPT !.w.waiting = TRUE]
  ELSE IF Dirty(s.f) THEN [s EXCEPT !.w.dialog = TRUE]
  ELSE Discards([s EXCEPT !.w.discard = TRUE])
Navigate(to) ==
  /\ UserSteps /\ form # Nil /\ ~Busy /\ w.nav = Nil /\ w.unlocked
  /\ Takes(Leaves([Window EXCEPT !.w.nav = to])) /\ UNCHANGED typed

(* The question's answers.  Not saving gives up what was typed.            *)
GivenUp(s) == [s EXCEPT !.w.discard = TRUE, !.w.asked = TRUE, !.e = @ \cup (1..typed)]
Dialog ==
  /\ w.dialog /\ PollIsQuiet /\ form # Nil
  /\ LET s == [Window EXCEPT !.w.dialog = FALSE] IN
     \/ Takes([s EXCEPT !.w.nav = Nil])
     \/ Takes(GivenUp(s))
     \/ IsOpen /\ Takes(IF Busy THEN s ELSE Saves(s))
  /\ UNCHANGED <<session, done, typed, counters>> /\ UNCHANGED service

(* cancel_edit.                                                            *)
Cancel ==
  /\ UserSteps /\ form # Nil /\ ~w.saving /\ ~w.opening
  /\ Takes(GivenUp([Window EXCEPT !.w.nav = "cancel"])) /\ UNCHANGED typed

(* lock, and the platform's suspension: an opening in flight is revoked    *)
(* with everything else, its worker may not be registered yet.             *)
Lock ==
  /\ PollIsQuiet /\ (w.unlocked \/ w.opening)
  /\ locks < MaxLocks /\ locks' = locks + 1
  /\ IF w.opening THEN LockAll ELSE UNCHANGED epoch /\ workers' = workers \ {w.conn}
  /\ Takes(Hidden(Window)) /\ done' = <<>>
  /\ UNCHANGED <<kind, host, run, opened, born, typed, opens, forms>> /\ UNCHANGED service
Suspend ==
  /\ PollIsQuiet /\ locks < MaxLocks /\ locks' = locks + 1 /\ LockAll
  /\ Takes(IF w.unlocked THEN Hidden(Window)
           ELSE [Window EXCEPT !.w = [@ EXCEPT !.op = @ + 1, !.opening = FALSE]])
  /\ done' = IF w.unlocked THEN <<>> ELSE done
  /\ UNCHANGED <<kind, host, run, opened, born, typed, opens, forms>> /\ UNCHANGED service

Next ==
  \/ Unlock \/ HostTakes \/ HostOpens \/ HostFinishes \/ IdleLock \/ WorkerFails
  \/ \E g \in workers : DropWorker(g)
  \/ Work \/ Poll \/ \E r \in opened : TakeOpened(r)
  \/ Callback
  \/ Begin \/ Type \/ Save \/ \E to \in {"leave", "close"} : Navigate(to)
  \/ Dialog \/ Cancel \/ Lock \/ Suspend

Spec == Init /\ [][Next]_vars

-----------------------------------------------------------------------------
(* Inputs the user may rely on, and those of the open form.                *)
Owed == (1..typed) \ excused
Own  == Owed \cap (form.own \cup (form.from + 1)..typed)
Held == IF draft = Nil THEN {} ELSE draft

(* A session the user asked for before a lock of everything never becomes  *)
(* visible: whatever worker is still open was asked for in the current     *)
(* epoch, except the one the host is about to drop.                        *)
LockWins == /\ \A g \in workers : (run # Nil /\ run.gen = g) \/ born[g] = epoch + 1
            /\ w.catalog # 0 => w.unlocked /\ w.catalog = w.conn

(* A form that counts as clean, and would close without a question, has    *)
(* every input saved; what it shows has every input that is not.           *)
CleanIsSaved ==
  form # Nil => /\ Settled(form) /\ ~Saving(form) => Own \subseteq saved
                /\ Own \subseteq saved \cup form.shown

(* No draft is deleted over input that reached it and is not saved.        *)
DraftKept == form # Nil => Own \ form.unacked \subseteq saved \cup Held

WindowSound == LockWins /\ CleanIsSaved /\ DraftKept

(* After a save was confirmed, the form closes only when no later input is *)
(* lost with it.                                                           *)
ClosedIsSaved == form = Nil /\ saved # {} => Owed \subseteq saved \cup Held
=============================================================================
