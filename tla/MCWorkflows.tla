---------------------------- MODULE MCWorkflows ----------------------------
(***************************************************************************)
(* What a user carries through in several steps, in one run, each in       *)
(* behaviours of its own: handing management over (Handoff), unlocking     *)
(* with biometrics (Biometry), the form of the desktop window (Workspace), *)
(* and the calls between the processes of an Android working copy          *)
(* (CipherPort).  The parts that a behaviour is not about rest.            *)
(***************************************************************************)
EXTENDS Handoff, CipherPort, TLC

CONSTANTS d1, d2, a1, a2, disable

VARIABLES
  part,
  epoch, file, synced, keys, pub, bind, busy, job, setup, retired, scope, revokes, orphans,
  child, completion, proved, gone, faults, stops,                          \* Biometry
  kind, locked, host, run, opened, workers, born, queue, done, draft, saved, w, form, typed,
  excused, opens, forms, locks, failures                                   \* Workspace

unlocking == <<epoch, file, synced, keys, pub, bind, busy, job, setup, retired, scope, revokes,
               orphans, child, completion, proved, gone, faults, stops>>
showing == <<kind, locked, host, run, opened, workers, born, queue, done, draft, saved, w, form,
             typed, excused, opens, forms, locks, failures>>

Identity(d) == [device |-> d, transport |-> d]
TheFounder == Identity(d1)
TheJoiner == Identity(d2)
TheIdentities == {TheFounder, TheJoiner}

Symmetry == Permutations(Drivers)

B == INSTANCE Biometry WITH
  worker <- child, Nil <- None, Attempts <- {a1, a2}, Disables <- {disable}, MaxEpoch <- 2,
  MaxFaults <- 1, MaxWorkers <- 2, MaxAttempts <- 2, MaxStops <- 1

W == INSTANCE Workspace WITH
  epoch <- locked, faults <- failures, Nil <- None, Kinds <- {"entry", "metadata"},
  MaxInputs <- 2, MaxOpens <- 2, MaxLocks <- 1, MaxFaults <- 1, MaxForms <- 1

NoBiometry ==
  /\ epoch = None /\ file = None /\ synced = None /\ keys = None /\ pub = None /\ bind = None
  /\ busy = None /\ job = None /\ setup = None /\ retired = None /\ scope = None
  /\ revokes = None /\ orphans = None /\ child = None /\ completion = None
  /\ proved = None /\ gone = None /\ faults = None /\ stops = None
NoWorkspace ==
  /\ kind = None /\ locked = None /\ host = None /\ run = None /\ opened = None
  /\ workers = None /\ born = None /\ queue = None /\ done = None /\ draft = None
  /\ saved = None /\ w = None /\ form = None /\ typed = None /\ excused = None
  /\ opens = None /\ forms = None /\ locks = None /\ failures = None

MCInit ==
  /\ part \in {"handoff", "biometry", "window", "port"}
  /\ Init /\ PortInit /\ (part # "port" => latest = 0)   \* Handoff and CipherPort rest in an initial state
  /\ \/ part = "handoff" /\ NoBiometry /\ NoWorkspace
     \/ part = "biometry" /\ B!BioInit /\ NoWorkspace
     \/ part = "window" /\ W!Init /\ NoBiometry
     \/ part = "port" /\ NoBiometry /\ NoWorkspace

(* Attempts are interchangeable: the second begins after the first.        *)
InOrder == job'[a2] # "idle" => job'[a1] # "idle"

MCNext ==
  /\ UNCHANGED part
  /\ \/ part = "handoff" /\ Next /\ UNCHANGED <<unlocking, showing, portVars>>
     \/ part = "biometry" /\ B!BioNext /\ InOrder /\ UNCHANGED <<vars, showing, portVars>>
     \/ part = "window" /\ W!Next /\ UNCHANGED <<vars, unlocking, portVars>>
     \/ part = "port" /\ PortNext /\ UNCHANGED <<vars, unlocking, showing>>

MCSpec == MCInit /\ [][MCNext]_<<part, vars, unlocking, showing, portVars>>

-----------------------------------------------------------------------------
(* The components' properties, each in its own behaviours.                 *)

(* Biometry: no cleanup deletes a key that a record names, what was        *)
(* disabled stays so, and only a proven key is recorded.                   *)
BiometrySound == part = "biometry" => B!BiometrySound

(* Workspace: a lock wins over a late opening, a form that closes without  *)
(* a question is saved, and no draft is deleted over unsaved input.        *)
WindowSound == part = "window" => W!WindowSound
=============================================================================
