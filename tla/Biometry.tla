------------------------------ MODULE Biometry ------------------------------
(***************************************************************************)
(* Local biometric unlock of one registered copy on Android: the durable   *)
(* wrapper registry, the broker that serializes its owners without holding *)
(* a mutex across a prompt, enrollment, disabling, reconciliation and the  *)
(* biometric opening, with the one-shot key input of the isolated worker.  *)
(*                                                                         *)
(* The wrapper file and the OS keystore are two stores with no common      *)
(* transaction.  `file' is what a read returns, `synced' what survives a   *)
(* power loss; `keys' is the keystore.  An enrollment attempt is named by  *)
(* its number: its random operation digest and the random generation of    *)
(* the key it creates are fresh, so the number stands for both.            *)
(*                                                                         *)
(* A fence (AttemptFence) is retired by a cancellation, a lock, the        *)
(* background or a drop at any step, and releases the reservation while    *)
(* the attempt's thread still runs.                                        *)
(***************************************************************************)
EXTENDS Naturals, FiniteSets

CONSTANTS Attempts,     \* enrollment attempts; a number is operation and generation
          Disables,     \* operations the screen gives to disable_biometry
          MaxEpoch,     \* bound: rotations of the read key
          MaxFaults,    \* bound: publications that fail or stay uncertain
          MaxWorkers,   \* bound: worker processes launched
          MaxAttempts,  \* inputs.rs MAX_ATTEMPTS: attempts one worker admits
          MaxStops,     \* bound: deaths of the application, power losses
          Nil

VARIABLES
    epoch,    \* key epoch of the archive
    file,     \* the record a load returns, Nil when absent
    synced,   \* the record a power loss leaves
    keys,     \* generations the OS keystore holds
    pub,      \* Registry.publication: [op, previous, exact] or Nil
    bind,     \* Registry.binding: the epoch the registry works under
    busy,     \* RegistrySlot.busy: the owner of the reservation
    job,      \* per enrollment attempt, the host call and the opening: its step
    setup,    \* what the owner has to finish: [act, op, wrap] or Nil
    retired,  \* owners whose fence has fired
    scope,    \* epoch and worker an attempt was bound to
    revokes,  \* revocations on their way to the worker (independent Binder call)
    orphans,  \* candidates queued for cleanup
    worker,   \* the supervised worker process and its private input
    completion, \* BiometricOpening.completion
    proved,   \* history: attempts whose key came back through the worker
    gone,     \* history: generations a confirmed answer called disabled
    faults, stops

vars == <<epoch, file, synced, keys, pub, bind, busy, job, setup, retired, scope,
          revokes, orphans, worker, completion, proved, gone, faults, stops>>
registry == <<file, synced, pub, bind, gone, faults>>
threads  == <<busy, job, setup, retired, scope, revokes>>

Call    == "call"      \* a Host call: status, retry or disable
Opening == "opening"   \* a BiometricOpening
Owners  == Attempts \cup {Call, Opening}
SetupOperations == Attempts \cup Disables

Wrapper  == [gen : Attempts, epoch : 1..MaxEpoch]
Pending  == [act : {"enable"}, op : Attempts, wrap : Wrapper]
            \cup [act : {"disable"}, op : Disables, wrap : Wrapper]
Receipt  == [op : SetupOperations, act : {"enable", "disable"}, gen : Attempts]
Record   == [active : Wrapper \cup {Nil}, pending : Pending \cup {Nil},
             receipt : Receipt \cup {Nil}]
Empty    == [active |-> Nil, pending |-> Nil, receipt |-> Nil]

(***************************************************************************)
(* Record::validate: what a load and an encode accept.                     *)
(***************************************************************************)
ValidRecord(r) ==
    /\ r.active # Nil => r.receipt # Nil
    /\ r.pending # Nil =>
         /\ r.receipt # Nil => r.receipt.op # r.pending.op
         /\ r.pending.act = "enable" =>
              /\ r.active # Nil => r.active.gen # r.pending.wrap.gen
              /\ r.receipt # Nil => r.receipt.gen # r.pending.wrap.gen
         /\ r.pending.act = "disable" => r.active = r.pending.wrap
    /\ r.receipt # Nil =>
         IF r.receipt.act = "enable"
         THEN r.active # Nil /\ r.active.gen = r.receipt.gen
         ELSE r.active = Nil

(***************************************************************************)
(* publish_owned.  A publication is retained until the write is confirmed: *)
(* a definite failure leaves the file, an uncertain rename may have        *)
(* replaced it, durably or not.  A confirmed disable is remembered.        *)
(***************************************************************************)
Disabled(r) == IF r.pending = Nil /\ r.receipt # Nil /\ r.receipt.act = "disable"
               THEN {r.receipt.gen} ELSE {}
Current(p) == file \in {p.previous, p.exact} /\ ValidRecord(p.exact)

Confirmed(p) ==
    /\ Current(p)
    /\ file' = p.exact /\ synced' = p.exact /\ pub' = Nil
    /\ gone' = gone \cup Disabled(p.exact)
    /\ UNCHANGED faults
Unconfirmed(p) ==
    /\ Current(p)
    /\ faults < MaxFaults /\ faults' = faults + 1
    /\ pub' = p /\ UNCHANGED gone
    /\ \/ UNCHANGED <<file, synced>>
       \/ file' = p.exact /\ synced' \in {synced, p.exact}

Publication(op, r) == [op |-> op, previous |-> file, exact |-> r]
\* confirmed(): the record read is published again, under the operation it names
Republication ==
    Publication(IF file.pending # Nil THEN file.pending.op ELSE file.receipt.op, file)

(***************************************************************************)
(* The fence.  check() refuses a retired attempt and one whose worker      *)
(* generation is no longer in the phase its purpose needs.                 *)
(***************************************************************************)
Live(x) == /\ x \notin retired
           /\ worker.gen = scope[x].worker
           /\ worker.phase \in (IF x = Opening THEN {"opening", "open"} ELSE {"open"})
Owns(x) == busy = x

\* retire(): the fence fires once, releases the reservation and sends the revocation
\* (a revocation for a process that is gone has no effect and is not kept)
Fires(xs) ==
    /\ retired' = retired \cup xs
    /\ busy' = IF busy \in xs THEN Nil ELSE busy
Retire(xs) ==
    /\ Fires(xs)
    /\ revokes' = revokes \cup {x \in xs \ retired : worker.phase # "closed"
                                                    /\ worker.gen = scope[x].worker}
Ends(x) == job' = [job EXCEPT ![x] = "ended"] /\ setup' = [setup EXCEPT ![x] = Nil]

\* An attempt that fails before its publication began deletes its own fresh key
Fails(x) == Retire({x}) /\ Ends(x) /\ UNCHANGED scope

Closed == [gen |-> 0, phase |-> "closed", epoch |-> 0, password |-> FALSE,
           pending |-> Nil, input |-> Nil, phaseOf |-> "retired", burned |-> {}]

BioInit ==
    /\ epoch = 1 /\ file = Nil /\ synced = Nil /\ keys = {}
    /\ pub = Nil /\ bind = 1 /\ busy = Nil
    /\ job = [x \in Owners |-> "idle"] /\ setup = [x \in Owners |-> Nil]
    /\ retired = {} /\ scope = [x \in Owners |-> [epoch |-> 1, worker |-> 0]]
    /\ revokes = {} /\ orphans = {} /\ worker = Closed /\ completion = "none"
    /\ proved = {} /\ gone = {} /\ faults = 0 /\ stops = 0

-----------------------------------------------------------------------------
(***************************************************************************)
(* The worker: opened with the master password, locked, and its one-shot   *)
(* private input (PrivateBiometricInputs).                                 *)
(***************************************************************************)
OpenWithPassword ==
    /\ worker.phase = "closed" /\ worker.gen < MaxWorkers
    /\ worker' = [Closed EXCEPT !.gen = worker.gen + 1, !.phase = "open",
                                !.epoch = epoch, !.password = TRUE]
    /\ UNCHANGED <<epoch, keys, orphans, completion, proved, stops>>
    /\ UNCHANGED <<registry, threads>>

CloseWorker == [Closed EXCEPT !.gen = worker.gen]

\* DocumentSession::lock and Host::background: fences of the generation, then the worker
Lock ==
    /\ worker.phase # "closed"
    /\ worker' = CloseWorker /\ revokes' = {}
    /\ Fires({x \in Attempts \cup {Opening} :
                 scope[x].worker = worker.gen /\ job[x] \notin {"idle", "ended"}})
    /\ UNCHANGED <<epoch, keys, job, setup, scope, orphans, completion, proved, stops>>
    /\ UNCHANGED registry

\* A rotation, by this device or learned from a peer.  A worker keeps the provenance
\* and the epoch of its opening.
Rotate ==
    /\ epoch < MaxEpoch /\ epoch' = epoch + 1
    /\ UNCHANGED <<keys, orphans, worker, completion, proved, stops>>
    /\ UNCHANGED <<registry, threads>>

\* inputs.arm
MayArm(x) == /\ x \notin worker.burned /\ Cardinality(worker.burned) < MaxAttempts
             /\ worker.phaseOf = "retired"
\* inputs.retire, for a lease of this worker
Revoked(w, x) ==
    [w EXCEPT !.burned = IF Cardinality(@) < MaxAttempts THEN @ \cup {x} ELSE @,
              !.phaseOf = IF w.input = x THEN "retired" ELSE @]
Revoke(x) ==
    /\ x \in revokes /\ revokes' = revokes \ {x}
    /\ worker' = Revoked(worker, x)
    /\ UNCHANGED <<epoch, keys, busy, job, setup, retired, scope, orphans, completion,
                   proved, stops>>
    /\ UNCHANGED registry

-----------------------------------------------------------------------------
(***************************************************************************)
(* Enrollment: prepare_biometric_enrollment and confirm.                   *)
(***************************************************************************)
\* password_authenticated_key: provenance and the current epoch
MayEnroll == worker.phase = "open" /\ worker.password /\ worker.epoch = epoch

\* reserve, confirmed and track; a pending record or a failed republication refuses
BeginEnrollment(a) ==
    /\ job[a] = "idle" /\ MayEnroll /\ busy = Nil /\ pub = Nil
    /\ bind' = epoch
    /\ \/ /\ IF file = Nil THEN UNCHANGED <<file, synced, pub, gone, faults>>
                           ELSE Confirmed(Republication)
          /\ file # Nil => file.pending = Nil
          /\ busy' = a /\ job' = [job EXCEPT ![a] = "tracked"]
          /\ scope' = [scope EXCEPT ![a] = [epoch |-> epoch, worker |-> worker.gen]]
       \/ /\ file # Nil /\ UNCHANGED <<busy, job, scope>>
          /\ \/ file.pending # Nil /\ Confirmed(Republication)
             \/ Unconfirmed(Republication)
    /\ UNCHANGED <<epoch, keys, setup, retired, revokes, orphans, worker, completion,
                   proved, stops>>

\* port.create_key
CreateKey(a) ==
    /\ job[a] = "tracked"
    /\ \/ /\ keys' = keys \cup {a} /\ job' = [job EXCEPT ![a] = "created"]
          /\ UNCHANGED <<busy, setup, retired, scope, revokes>>
       \/ Fails(a) /\ UNCHANGED keys
    /\ UNCHANGED <<epoch, orphans, worker, completion, proved, stops>>
    /\ UNCHANGED registry

\* require_fresh_generation: an idle registry and no pending setup
FreshGeneration == pub = Nil /\ (file # Nil => file.pending = Nil)
\* The worker wraps its current key and arms the proof input (Enrollment::prepare)
WorkerPrepares(a) == MayEnroll /\ worker.epoch = scope[a].epoch /\ worker.pending = Nil
                     /\ MayArm(a)
PrepareEnrollment(a) ==
    /\ job[a] = "created"
    /\ \/ /\ FreshGeneration /\ Live(a) /\ WorkerPrepares(a)
          /\ worker' = [worker EXCEPT !.pending = a, !.input = a, !.phaseOf = "waiting",
                                      !.burned = @ \cup {a}]
          /\ job' = [job EXCEPT ![a] = "prepared"]
          /\ UNCHANGED <<keys, busy, setup, retired, scope, revokes>>
       \/ /\ Fails(a) /\ UNCHANGED worker
          /\ keys' \in IF FreshGeneration THEN {keys, keys \ {a}} ELSE {keys}
    /\ UNCHANGED <<epoch, orphans, completion, proved, stops>>
    /\ UNCHANGED registry

\* confirm() takes the prepared candidate; the OS prompt installs the input and writes it
ConfirmEnrollment(a) ==
    /\ job[a] = "prepared" /\ Live(a)
    /\ job' = [job EXCEPT ![a] = "prompting"]
    /\ UNCHANGED <<epoch, keys, busy, setup, retired, scope, revokes, orphans, worker,
                   completion, proved, stops>>
    /\ UNCHANGED registry
Installs(x) == Live(x) /\ worker.input = x /\ worker.phaseOf = "waiting"
PromptEnrollment(a) ==
    /\ job[a] = "prompting"
    /\ \/ /\ Installs(a)
          /\ worker' = [worker EXCEPT !.phaseOf = "installed"]
          /\ job' = [job EXCEPT ![a] = "written"]
          /\ UNCHANGED <<keys, busy, setup, retired, scope, revokes>>
       \/ Fails(a) /\ UNCHANGED worker /\ keys' \in {keys, keys \ {a}}
    /\ UNCHANGED <<epoch, orphans, completion, proved, stops>>
    /\ UNCHANGED registry

\* The worker consumes the input, verifies the key and answers with the proof
WorkerProves(a) == /\ MayEnroll /\ worker.epoch = scope[a].epoch /\ worker.pending = a
                   /\ worker.input = a /\ worker.phaseOf = "installed"
ProveEnrollment(a) ==
    /\ job[a] = "written"
    /\ \/ /\ Live(a) /\ WorkerProves(a)
          /\ worker' = Revoked(worker, a)
          /\ proved' = proved \cup {a}
          /\ job' = [job EXCEPT ![a] = "proved"]
          /\ UNCHANGED <<keys, busy, setup, retired, scope, revokes>>
       \/ Fails(a) /\ UNCHANGED <<worker, proved>> /\ keys' \in {keys, keys \ {a}}
    /\ UNCHANGED <<epoch, orphans, completion, stops>>
    /\ UNCHANGED registry

\* begin_enable under the registry mutex.  From here on the key is never an orphan.
Enabling(a) == [act |-> "enable", op |-> a,
                wrap |-> [gen |-> a, epoch |-> scope[a].epoch]]
MayBeginEnable(a) ==
    /\ Live(a) /\ Owns(a) /\ pub = Nil /\ bind = scope[a].epoch
    /\ file # Nil => file.pending = Nil /\ file.receipt.op # a
BeginEnable(a) ==
    LET r == [(IF file = Nil THEN Empty ELSE file) EXCEPT !.pending = Enabling(a)]
    IN  /\ job[a] = "proved"
        /\ \/ /\ MayBeginEnable(a) /\ Confirmed(Publication(a, r))
              /\ job' = [job EXCEPT ![a] = "setup"]
              /\ setup' = [setup EXCEPT ![a] = Enabling(a)]
              /\ UNCHANGED <<busy, retired, scope, revokes>>
           \/ /\ MayBeginEnable(a) /\ Unconfirmed(Publication(a, r)) /\ Fails(a)
           \/ ~MayBeginEnable(a) /\ Fails(a) /\ UNCHANGED <<file, synced, pub, gone, faults>>
        /\ UNCHANGED <<epoch, keys, bind, orphans, worker, completion, proved, stops>>

-----------------------------------------------------------------------------
(***************************************************************************)
(* Broker::finish_setup, run by the enrollment that published, or by a     *)
(* later host call.                                                        *)
(***************************************************************************)
\* What a call does when it ends: the host call's reservation is dropped
Drops(x) == /\ Ends(x) /\ UNCHANGED scope
            /\ IF x = Call THEN busy' = Nil /\ UNCHANGED <<retired, revokes>>
                           ELSE Retire({x})
\* A registry operation of x: refused without its reservation
Completes(x, op, r) ==
    \/ Owns(x) /\ pub = Nil /\ Confirmed(Publication(op, r))
    \/ Owns(x) /\ pub = Nil /\ Unconfirmed(Publication(op, r))
    \/ ~(Owns(x) /\ pub = Nil) /\ UNCHANGED <<file, synced, pub, gone, faults>>

Enabled(s) == [active |-> s.wrap, pending |-> Nil,
               receipt |-> [op |-> s.op, act |-> "enable", gen |-> s.wrap.gen]]
\* The record still waits for s, or already holds its receipt: the answer is repeated
Completed(s, r) == IF file.pending = s THEN r ELSE file
Answers(s) == file # Nil /\ (\/ file.pending = s
                             \/ /\ file.pending = Nil
                                /\ file.receipt.op = s.op /\ file.receipt.act = s.act)

\* The epoch moved on: only the metadata of the earlier proof is finished
FinishEarlierEpoch(x) ==
    LET s == setup[x] IN
    /\ job[x] = "setup" /\ s.act = "enable" /\ s.wrap.epoch < epoch
    /\ IF Owns(x) THEN bind' = epoch ELSE UNCHANGED bind
    /\ IF Answers(s) THEN Completes(x, s.op, Completed(s, Enabled(s)))
                     ELSE UNCHANGED <<file, synced, pub, gone, faults>>
    /\ Drops(x)
    /\ UNCHANGED <<epoch, keys, orphans, worker, completion, proved, stops>>

\* resolve of the exact generation, outside the registry mutex
ResolveCandidate(x) ==
    LET s == setup[x] IN
    /\ job[x] = "setup" /\ s.act = "enable" /\ s.wrap.epoch = epoch
    /\ \/ /\ (x \in Attempts => Live(x)) /\ Owns(x) /\ s.wrap.gen \in keys
          /\ job' = [job EXCEPT ![x] = "resolved"]
          /\ UNCHANGED <<busy, setup, retired, scope, revokes>>
       \/ Drops(x)
    /\ UNCHANGED <<epoch, keys, orphans, worker, completion, proved, stops>>
    /\ UNCHANGED registry

FinishEnable(x) ==
    LET s == setup[x] IN
    /\ job[x] = "resolved"
    /\ IF Answers(s) /\ s.wrap.epoch = bind /\ s.wrap.epoch = epoch
       THEN Completes(x, s.op, Completed(s, Enabled(s)))
       ELSE UNCHANGED <<file, synced, pub, gone, faults>>
    /\ Drops(x)
    /\ UNCHANGED <<epoch, keys, bind, orphans, worker, completion, proved, stops>>

\* The OS key goes first, the record after it
DeleteActive(x) ==
    LET s == setup[x] IN
    /\ job[x] = "setup" /\ s.act = "disable"
    /\ \/ /\ Owns(x)
          /\ keys' = keys \ {s.wrap.gen} /\ job' = [job EXCEPT ![x] = "deleted"]
          /\ UNCHANGED <<busy, setup, retired, scope, revokes>>
       \/ Drops(x) /\ UNCHANGED keys
    /\ UNCHANGED <<epoch, orphans, worker, completion, proved, stops>>
    /\ UNCHANGED registry

Without(s) == [active |-> Nil, pending |-> Nil,
               receipt |-> [op |-> s.op, act |-> "disable", gen |-> s.wrap.gen]]
FinishDisable(x) ==
    LET s == setup[x] IN
    /\ job[x] = "deleted"
    /\ IF Answers(s) THEN Completes(x, s.op, Completed(s, Without(s)))
                     ELSE UNCHANGED <<file, synced, pub, gone, faults>>
    /\ Drops(x)
    /\ UNCHANGED <<epoch, keys, bind, orphans, worker, completion, proved, stops>>

-----------------------------------------------------------------------------
(***************************************************************************)
(* Host calls.  They reserve the copy, and one that finds it reserved is   *)
(* refused.                                                                *)
(***************************************************************************)
\* finish_setup is called with the state a confirmed publication returned
Continues(r) ==
    IF r.pending = Nil
    THEN /\ UNCHANGED <<busy, job, setup, retired, scope, revokes>>
    ELSE /\ busy' = Call
         /\ job' = [job EXCEPT ![Call] = "setup"]
         /\ setup' = [setup EXCEPT ![Call] = r.pending]
         /\ UNCHANGED <<retired, scope, revokes>>
Calls(p) ==
    \/ Confirmed(p) /\ Continues(p.exact)
    \/ Unconfirmed(p) /\ UNCHANGED <<busy, job, setup, retired, scope, revokes>>
Free == busy = Nil /\ job[Call] \in {"idle", "ended"}

\* biometry_status
Status ==
    /\ Free /\ pub = Nil /\ file # Nil /\ bind' = epoch
    /\ \/ Confirmed(Republication) \/ Unconfirmed(Republication)
    /\ UNCHANGED <<epoch, keys, orphans, worker, completion, proved, stops>>
    /\ UNCHANGED threads

\* retry_biometric_setup: the retained publication, or the record's own operation
Retry(op) ==
    /\ Free /\ bind' = epoch
    /\ \/ pub # Nil /\ pub.op = op /\ Calls(pub)
       \/ /\ pub = Nil /\ file # Nil
          /\ IF file.pending # Nil THEN file.pending.op = op
                                   ELSE file.receipt # Nil /\ file.receipt.op = op
          /\ Calls(Publication(op, file))
    /\ UNCHANGED <<epoch, keys, orphans, worker, completion, proved, stops>>

\* disable_biometry: the selected generation is published as going before its key goes
Disabling(d) == [file EXCEPT !.pending = [act |-> "disable", op |-> d, wrap |-> file.active]]
Disable(g, d) ==
    /\ Free /\ pub = Nil /\ file # Nil /\ bind' = epoch
    /\ \/ /\ file.pending # Nil /\ file.pending.op = d /\ file.pending.wrap.gen = g
          /\ Calls(Publication(d, file))
       \/ /\ file.pending = Nil /\ file.receipt.op = d
          /\ file.receipt.act = "disable" /\ file.receipt.gen = g
          /\ Calls(Publication(d, file))
       \/ /\ file.pending = Nil /\ file.receipt.op # d
          /\ file.active # Nil /\ file.active.gen = g
          /\ Calls(Publication(d, Disabling(d)))
    /\ UNCHANGED <<epoch, keys, orphans, worker, completion, proved, stops>>

-----------------------------------------------------------------------------
(***************************************************************************)
(* Opening with biometry.  Cancelling and handing the session over have    *)
(* one winner, the compare-and-exchange on `completion'.                   *)
(***************************************************************************)
\* prepare_biometric_open: a confirmed current wrapper, its key, an Opening worker
PrepareOpen ==
    /\ worker.phase = "closed" /\ worker.gen < MaxWorkers
    /\ job[Opening] \in {"idle", "ended"} /\ completion # "cancelling"
    /\ busy = Nil /\ pub = Nil /\ file # Nil /\ bind' = epoch
    /\ \/ /\ Confirmed(Republication)
          /\ file.pending = Nil /\ file.active # Nil
          /\ file.active.epoch = epoch /\ file.active.gen \in keys
          /\ busy' = Opening /\ completion' = "prepared"
          /\ job' = [job EXCEPT ![Opening] = "prepared"]
          /\ retired' = retired \ {Opening} /\ revokes' = revokes \ {Opening}
          /\ scope' = [scope EXCEPT ![Opening] = [epoch |-> epoch, worker |-> worker.gen + 1]]
          /\ worker' = [Closed EXCEPT !.gen = worker.gen + 1, !.phase = "opening",
                                      !.epoch = epoch, !.input = Opening,
                                      !.phaseOf = "waiting", !.burned = {Opening}]
       \/ /\ Confirmed(Republication) \/ Unconfirmed(Republication)
          /\ UNCHANGED <<busy, completion, job, retired, revokes, scope, worker>>
    /\ UNCHANGED <<epoch, keys, setup, orphans, proved, stops>>

\* complete(): RUNNING, then the prompt
CompleteOpen ==
    /\ job[Opening] = "prepared" /\ completion = "prepared" /\ Live(Opening)
    /\ completion' = "running" /\ job' = [job EXCEPT ![Opening] = "prompting"]
    /\ UNCHANGED <<epoch, keys, busy, setup, retired, scope, revokes, orphans, worker,
                   proved, stops>>
    /\ UNCHANGED registry

\* The fence fires and the Opening worker, when it is still the one, is invalidated
Invalidates ==
    /\ Fires({Opening})
    /\ IF worker.gen = scope[Opening].worker
       THEN worker' = CloseWorker /\ revokes' = {}
       ELSE UNCHANGED <<worker, revokes>>
\* A failed completion: FAILED unless cancelled, fence retired, worker invalidated
FailsOpen ==
    /\ completion' = IF completion = "running" THEN "failed" ELSE completion
    /\ Invalidates /\ Ends(Opening) /\ UNCHANGED scope
PromptOpen ==
    /\ job[Opening] = "prompting"
    /\ \/ /\ Installs(Opening)
          /\ worker' = [worker EXCEPT !.phaseOf = "installed"]
          /\ job' = [job EXCEPT ![Opening] = "written"]
          /\ UNCHANGED <<busy, setup, retired, scope, revokes, completion>>
       \/ FailsOpen
    /\ UNCHANGED <<epoch, keys, orphans, proved, stops>>
    /\ UNCHANGED registry

\* open_keyed: the worker authenticates the current epoch with the consumed key
BootWorker ==
    /\ job[Opening] = "written"
    /\ \/ /\ worker.phase = "opening" /\ worker.gen = scope[Opening].worker
          /\ worker.epoch = epoch /\ worker.input = Opening /\ worker.phaseOf = "installed"
          /\ worker' = [Revoked(worker, Opening) EXCEPT !.phase = "open"]
          /\ job' = [job EXCEPT ![Opening] = "booted"]
          /\ UNCHANGED <<busy, setup, retired, scope, revokes, completion>>
       \/ FailsOpen
    /\ UNCHANGED <<epoch, keys, orphans, proved, stops>>
    /\ UNCHANGED registry

\* RUNNING -> ACCEPTED hands the session over; the fence is retired either way
AcceptOpen ==
    /\ job[Opening] = "booted"
    /\ \/ /\ Live(Opening) /\ completion = "running"
          /\ completion' = "accepted"
          /\ Retire({Opening}) /\ Ends(Opening)
          /\ UNCHANGED <<scope, worker>>
       \/ ~(Live(Opening) /\ completion = "running") /\ FailsOpen
    /\ UNCHANGED <<epoch, keys, orphans, proved, stops>>
    /\ UNCHANGED registry

\* cancel(): the exchange first; the fence and the worker follow
CancelOpen ==
    /\ completion \in {"prepared", "running"} /\ completion' = "cancelling"
    /\ UNCHANGED <<epoch, keys, orphans, worker, proved, stops>>
    /\ UNCHANGED <<registry, threads>>
RevokeOpen ==
    /\ completion = "cancelling" /\ completion' = "cancelled"
    /\ Invalidates
    /\ IF job[Opening] = "prepared" THEN Ends(Opening) ELSE UNCHANGED <<job, setup>>
    /\ UNCHANGED <<epoch, keys, scope, orphans, proved, stops>>
    /\ UNCHANGED registry

-----------------------------------------------------------------------------
\* cancel() or drop of an enrollment: only a prepared candidate is queued for cleanup,
\* a running confirmation keeps its own
DiscardableRunning(a) == TRUE   \* mutant: a running confirmation is queued as well
Discardable(a) == job[a] = "prepared"
CancelEnrollment(a) ==
    /\ job[a] \in {"prepared", "prompting", "written", "proved", "setup", "resolved"}
    /\ a \notin retired \/ job[a] = "prepared"
    /\ Retire({a})
    /\ orphans' = IF Discardable(a) THEN orphans \cup {a} ELSE orphans
    /\ IF job[a] = "prepared" THEN Ends(a) ELSE UNCHANGED <<job, setup>>
    /\ UNCHANGED <<epoch, keys, scope, worker, completion, proved, stops>>
    /\ UNCHANGED registry

DiscardOrphan(a) ==
    /\ a \in orphans /\ orphans' = orphans \ {a}
    /\ keys' \in {keys, keys \ {a}}
    /\ UNCHANGED <<epoch, worker, completion, proved, stops>>
    /\ UNCHANGED <<registry, threads>>

\* The application dies, or the device loses power: memory is lost, perhaps the rename too
Stop ==
    /\ stops < MaxStops /\ stops' = stops + 1
    /\ file' \in {file, synced} /\ UNCHANGED synced
    /\ pub' = Nil /\ bind' = epoch /\ busy' = Nil
    /\ job' = [x \in Owners |-> IF x \in Attempts /\ job[x] # "idle" THEN "ended" ELSE "idle"]
    /\ setup' = [x \in Owners |-> Nil]
    /\ retired' = {} /\ revokes' = {} /\ orphans' = {}
    /\ worker' = CloseWorker /\ completion' = "none"
    /\ UNCHANGED <<epoch, keys, scope, proved, gone, faults>>

EnrollmentStep(a) ==
    \/ BeginEnrollment(a) \/ CreateKey(a) \/ PrepareEnrollment(a) \/ ConfirmEnrollment(a)
    \/ PromptEnrollment(a) \/ ProveEnrollment(a) \/ BeginEnable(a)
    \/ CancelEnrollment(a) \/ DiscardOrphan(a)
SetupStep(x) ==
    \/ FinishEarlierEpoch(x) \/ ResolveCandidate(x) \/ FinishEnable(x)
    \/ DeleteActive(x) \/ FinishDisable(x)
OpeningStep ==
    \/ PrepareOpen \/ CompleteOpen \/ PromptOpen \/ BootWorker \/ AcceptOpen
    \/ CancelOpen \/ RevokeOpen

BioNext ==
    \/ OpenWithPassword \/ Lock \/ Rotate \/ Stop \/ Status \/ OpeningStep
    \/ \E a \in Attempts : EnrollmentStep(a)
    \/ \E x \in Attempts \cup {Call} : SetupStep(x)
    \/ \E x \in Attempts \cup {Opening} : Revoke(x)
    \/ \E op \in SetupOperations : Retry(op)
    \/ \E g \in Attempts, d \in Disables : Disable(g, d)

BioSpec == BioInit /\ [][BioNext]_vars

-----------------------------------------------------------------------------
Steps == {"idle", "tracked", "created", "prepared", "prompting", "written", "proved",
          "setup", "resolved", "deleted", "booted", "ended"}

(***************************************************************************)
(* The records that may be read after a power loss, a crash or a retry.    *)
(***************************************************************************)
Records == ({file, synced} \cup (IF pub = Nil THEN {} ELSE {pub.exact})) \ {Nil}
\* Generations a record relies on: a pending disable has given its own up
Named(r) ==
    (IF r.active = Nil \/ (r.pending # Nil /\ r.pending.act = "disable")
     THEN {} ELSE {r.active.gen})
    \cup (IF r.pending # Nil /\ r.pending.act = "enable" THEN {r.pending.wrap.gen} ELSE {})
Active(r) == IF r.active = Nil THEN {} ELSE {r.active.gen}

(***************************************************************************)
(* Whatever fails, is cancelled or crashes: no cleanup deletes the OS key  *)
(* of a wrapper that some surviving record names.                          *)
(***************************************************************************)
KeyKept == \A r \in Records : Named(r) \subseteq keys

(***************************************************************************)
(* Once a confirmed answer called a generation disabled, no retry, crash   *)
(* or power loss brings its wrapper back.                                  *)
(***************************************************************************)
DisabledStays == \A r \in Records : (Active(r) \cup Named(r)) \cap gone = {}

(***************************************************************************)
(* Only a key that came back through the worker is ever recorded.          *)
(***************************************************************************)
ProofFirst == \A r \in Records : Named(r) \subseteq proved

(***************************************************************************)
(* Cancelling an opening and handing out its session exclude each other:   *)
(* when the cancellation or the failure is complete the worker is closed.  *)
(***************************************************************************)
OneWinner ==
    /\ job[Opening] = "ended" /\ completion \in {"cancelled", "failed"}
         /\ worker.gen = scope[Opening].worker => worker.phase = "closed"
    /\ completion = "accepted" => job[Opening] = "ended"

BiometrySound ==
    /\ busy \in Owners \cup {Nil} /\ job \in [Owners -> Steps]
    /\ \A r \in Records : r \in Record /\ ValidRecord(r)
    /\ KeyKept /\ DisabledStays /\ ProofFirst /\ OneWinner
=============================================================================
