------------------------------ MODULE Recovery ------------------------------
(***************************************************************************)
(* Recovery of a readable working copy into a new trust set, on a platform *)
(* whose document workers are isolated processes                           *)
(* (taypeer-runtime/src/host/recovery.rs, platform_worker/recovery.rs).    *)
(*                                                                         *)
(* A worker freezes the authenticated source, prepares an encrypted seed   *)
(* under the name and password the user entered, and asks the host step by *)
(* step to publish it beside the source, to confirm a proof and, once all  *)
(* writers of the source are closed, to adopt it.  The host serializes its *)
(* calls with one mutex; between two of them workers are killed, other     *)
(* workers start, and the host dies.  A call that fails may have made any  *)
(* prefix of its durable writes.                                           *)
(*                                                                         *)
(* A source is an operation and the fingerprint fp of the frozen           *)
(* generation; a candidate is the content of the file published for it.    *)
(***************************************************************************)
EXTENDS Naturals, Sequences, FiniteSets, SequencesExt

CONSTANTS
  None,
  Operations,      \* explicit identities of recovery requests
  Inputs,          \* names and new passwords a user enters
  MaxWorkers,      \* workers started over time
  MaxAlive,        \* workers alive at once
  MaxGeneration    \* generations of the source document

Workers == 1..MaxWorkers

VARIABLES
  portable,     \* credentials in the profile (portable) or in the platform's store
  host,         \* what the host keeps on disk
  generation,   \* the source document's current generation
  workers,      \* the worker processes
  started,      \* how many were started
  refused,      \* history: operations the user was told to give up
  told          \* history: results the user was given, with the user's input

vars == <<portable, host, generation, workers, started, refused, told>>

Source(op, fp) == [op |-> op, fp |-> fp]

(* What is on disk after an attempt record was saved: the protected record,*)
(* then for portable profiles the public locator that a cold start reads.  *)
Saves(d, a) ==
  LET saved == [d EXCEPT !.attempt = a] IN
  IF portable THEN <<saved, [saved EXCEPT !.locator = Source(a.op, a.fp)]>> ELSE <<saved>>

At == host.attempt

(* The file at the destination that is derived from the source.            *)
CandidateOf(s) ==
  LET found == {c \in host.candidates : c.op = s.op /\ c.fp = s.fp} IN
  IF found = {} THEN None ELSE CHOOSE c \in found : TRUE

(* check_source and recovery_attempt                                       *)
CheckSource(s) ==
  /\ At # None
  /\ At.phase # "RefusedBeforePublication" /\ s.op \notin At.refused
  /\ At.op = s.op /\ At.fp = s.fp

(* bind: the attempt that is to be saved.                                  *)
Bound(identity) == [At EXCEPT !.identity = identity]
CanBind(s, identity) ==
  /\ CheckSource(s)
  /\ At.identity \in (IF portable THEN {None, identity} ELSE {identity})

NoHost ==
  [attempt |-> None, locator |-> None, sources |-> {}, candidates |-> {},
   credentials |-> {}, proofs |-> {}, listed |-> {}, current |-> None]

Init ==
  /\ portable \in BOOLEAN
  /\ host = NoHost
  /\ generation = 1
  /\ workers = [w \in Workers |-> None]
  /\ started = 0
  /\ refused = {}
  /\ told = {}

-----------------------------------------------------------------------------
(* How a host call ends: all its writes are made and the worker goes on to *)
(* the state `next', or it fails after some of them and the command ends.  *)
Calls(w, writes, next) ==
  \/ /\ host' = Last(<<host>> \o writes)
     /\ workers' = [workers EXCEPT ![w] = next]
  \/ /\ host' \in {host} \cup Range(writes)
     /\ workers' = [workers EXCEPT ![w].step = "idle"]

Fails(w) == workers' = [workers EXCEPT ![w].step = "idle"] /\ UNCHANGED host

-----------------------------------------------------------------------------
(* PlatformCipherWriter::freeze_recovery                                   *)

NewAttempt(w, op, fp, past) ==
  [op |-> op, fp |-> fp, owner |-> w, phase |-> "SourceFrozen", identity |-> None,
   publication |-> None, refused |-> past]

(* Another worker's attempt that has published nothing: its name and       *)
(* password are gone with it.                                              *)
Abandoned(w, s) == At.owner # w /\ CandidateOf(s) = None
Unpublished == At.publication = None /\ At.phase = "SourceFrozen"

Past == IF At = None THEN {} ELSE At.refused

(* The attempt a freeze may go on with, None if it is refused.             *)
Frozen(w, op, fp) ==
  IF At # None /\ At.op = op
  THEN IF CheckSource(Source(op, fp)) /\ ~Abandoned(w, Source(op, fp)) THEN At ELSE None
  ELSE IF /\ At = None \/ At.phase \in {"RefusedBeforePublication", "Adopted"}
          /\ op \notin Past
       THEN NewAttempt(w, op, fp, Past) ELSE None

(* The operation is refused for good.                                      *)
MustRefuse(w, op) ==
  /\ At # None /\ At.op = op /\ CheckSource(Source(op, At.fp))
  /\ Abandoned(w, Source(op, At.fp)) /\ Unpublished
Refuse(op) ==
  Saves(host, [At EXCEPT !.phase = "RefusedBeforePublication", !.refused = @ \cup {op}])

(* The record is saved before the source's file is published, and again    *)
(* with the new owner.                                                     *)
FreezeWrites(w, op, fp) ==
  LET attempt == Frozen(w, op, fp)
      s == Source(op, fp)
      first == IF s \in host.sources THEN <<>>
               ELSE LET saved == Saves(host, attempt)
                    IN  Append(saved, [Last(saved) EXCEPT !.sources = @ \cup {s}])
  IN  first \o Saves(Last(<<host>> \o first), [attempt EXCEPT !.owner = w])

(* PlatformCipherWriter::author_recovery: the device's identity is bound.  *)
AuthorWrites(d) == Saves(d, [d.attempt EXCEPT !.identity = "device"])
CanAuthor(d, w) == d.attempt.owner = w /\ d.attempt.identity \in {None, "device"}

-----------------------------------------------------------------------------
(* Workers.                                                                *)

Idle(w) == workers[w] # None /\ workers[w].step = "idle"

NewWorker(kind, op, fp, pending) ==
  [kind |-> kind, op |-> op, fp |-> fp, pending |-> pending, step |-> "idle",
   target |-> pending # None]

Start(w) ==
  /\ w = started + 1
  /\ Cardinality({v \in Workers : workers[v] # None}) < MaxAlive
  /\ host.current = None

(* open_platform_worker: the document, without recovery.                   *)
OpenDocument(w) ==
  /\ Start(w)
  /\ workers' = [workers EXCEPT ![w] = NewWorker("document", None, generation, None)]
  /\ started' = w
  /\ UNCHANGED <<portable, host, generation, refused, told>>

(* A portable profile is cold: recovery_snapshot reads the public locator, *)
(* and recovery_boot_candidate the file, before any password is checked.   *)
ColdBoot(op) ==
  portable => \/ host.locator = None
              \/ /\ host.locator # None /\ host.locator.op = op
                 /\ host.locator \in host.sources

(* recovery_snapshot and recovery_boot_candidate without a candidate: no   *)
(* attempt stands in the way.                                              *)
BootsFresh(op) ==
  /\ ColdBoot(op)
  /\ \/ At = None
     \/ At # None /\ At.op # op /\ op \notin At.refused
          /\ At.phase \in {"RefusedBeforePublication", "Adopted"}

(* activate_recovery_credentials: the new credentials beside the candidate *)
(* lead to the source's, which were retained for it.                       *)
Activates(c) ==
  /\ c \in host.credentials
  /\ CheckSource(c) /\ Source(c.op, c.fp) \in host.sources

(* ... and with the candidate of this operation.                           *)
BootsCandidate(op, c) ==
  /\ ColdBoot(op)
  /\ CheckSource(c) /\ c.op = op /\ Source(op, c.fp) \in host.sources
  /\ At.identity = c.identity /\ At.publication \in {None, c}
  /\ portable => Activates(c)

(* The worker holds the request again: recovery::resume.                   *)
Resumed(c) ==
  [op |-> c.op, input |-> c.input, captured |-> None, frozen |-> Source(c.op, c.fp),
   identity |-> c.identity, seed |-> None]

(* open_platform_recovery_worker with the source's password: nothing was   *)
(* published yet.  Platform credentials freeze the source at once.         *)
OpenFresh(w, op) ==
  /\ Start(w)
  /\ BootsFresh(op)
  /\ LET writes == IF portable THEN <<>> ELSE
                     LET frozen == FreezeWrites(w, op, generation)
                     IN  frozen \o AuthorWrites(Last(frozen))
     IN  \/ /\ host' = Last(<<host>> \o writes)
            /\ workers' = [workers EXCEPT ![w] = NewWorker("recovery", op, generation, None)]
         \/ host' \in {host} \cup Range(writes) /\ UNCHANGED workers
  /\ started' = w
  /\ UNCHANGED <<portable, generation, refused, told>>

(* ... with the candidate's password: authenticate_named_trust_recovery    *)
(* finds the name in its encrypted receipt.                                *)
OpenResumed(w, op, c) ==
  /\ Start(w)
  /\ BootsCandidate(op, c)
  /\ LET frozen == FreezeWrites(w, op, c.fp)
         writes == IF portable THEN frozen ELSE frozen \o AuthorWrites(Last(frozen))
     IN  \/ /\ host' = Last(writes)
            /\ workers' = [workers EXCEPT ![w] = NewWorker("recovery", op, c.fp, Resumed(c))]
         \/ host' \in {host} \cup Range(writes) /\ UNCHANGED workers
  /\ started' = w
  /\ UNCHANGED <<portable, generation, refused, told>>

(* ... and the interrupted attempt of another worker, which is refused.    *)
OpenRefused(w, op) ==
  /\ Start(w)
  /\ ColdBoot(op)
  /\ MustRefuse(w, op)
  /\ \/ host' = Last(Refuse(op)) /\ refused' = refused \cup {op}
     \/ host' \in {host} \cup Range(Refuse(op)) /\ UNCHANGED refused
  /\ started' = w
  /\ UNCHANGED <<portable, generation, workers, told>>

(* An ordinary edit, refused while the worker holds a recovery.            *)
Edit(w) ==
  /\ Idle(w) /\ workers[w].kind = "document" /\ workers[w].pending = None
  /\ workers[w].fp = generation /\ generation < MaxGeneration
  /\ generation' = generation + 1
  /\ workers' = [workers EXCEPT ![w].fp = generation']
  /\ UNCHANGED <<portable, host, started, refused, told>>

(* A worker is locked, killed or dies.                                     *)
Close(w) ==
  /\ workers[w] # None
  /\ workers' = [workers EXCEPT ![w] = None]
  /\ UNCHANGED <<portable, host, generation, started, refused, told>>

-----------------------------------------------------------------------------
(* recover: one command of the worker, a host call at a time.              *)

(* freeze_trust_recovery_source: the document that is open is the current  *)
(* one; a recovery worker reads a fixed generation.                        *)
Captures(me) == me.kind = "document" => me.fp = generation

(* The request must repeat the one that is pending, or becomes it: the     *)
(* contents are captured before the first host call.                       *)
Ask(w, op, input) ==
  LET me == workers[w]
      request == [op |-> op, input |-> input, captured |-> me.fp, frozen |-> None,
                  identity |-> None, seed |-> None]
      pending == IF me.pending = None THEN request ELSE me.pending
  IN  /\ Idle(w)
      /\ me.op \in {None, op}
      /\ IF me.pending = None THEN Captures(me)
         ELSE me.pending.op = op /\ me.pending.input = input
      /\ workers' = [workers EXCEPT ![w].pending = pending,
                       ![w].step = IF pending.frozen = None THEN "freeze" ELSE "author"]
      /\ UNCHANGED <<portable, host, generation, started, refused, told>>

Freeze(w) ==
  LET p == workers[w].pending IN
  /\ workers[w] # None /\ workers[w].step = "freeze"
  /\ \/ /\ Frozen(w, p.op, p.captured) # None
        /\ Calls(w, FreezeWrites(w, p.op, p.captured),
                 [workers[w] EXCEPT !.pending.frozen = Source(p.op, p.captured),
                                    !.step = "author"])
        /\ UNCHANGED refused
     \/ /\ MustRefuse(w, p.op) /\ At.fp = p.captured
        /\ host' = Last(Refuse(p.op)) /\ refused' = refused \cup {p.op}
        /\ workers' = [workers EXCEPT ![w].step = "idle"]
     \/ Fails(w) /\ UNCHANGED refused
  /\ UNCHANGED <<portable, generation, started, told>>

(* A portable worker generates an identity; otherwise author_recovery.     *)
Author(w) ==
  LET p == workers[w].pending
      next(identity) == [workers[w] EXCEPT !.pending.identity = identity, !.step = "candidate"]
  IN  /\ workers[w] # None /\ workers[w].step = "author"
      /\ \/ /\ portable
            /\ workers' = [workers EXCEPT ![w] = next(IF p.identity = None THEN w ELSE p.identity)]
            /\ UNCHANGED host
         \/ /\ ~portable /\ CheckSource(p.frozen) /\ CanAuthor(host, w)
            /\ p.frozen \in host.sources
            /\ Calls(w, AuthorWrites(host), next("device"))
         \/ ~portable /\ Fails(w)
      /\ UNCHANGED <<portable, generation, started, refused, told>>

(* recovery_candidate, and for an existing file the portable worker's      *)
(* check of the credential beside it.                                      *)
Candidate(w) ==
  LET p == workers[w].pending
      c == CandidateOf(p.frozen)
      opens == c.input = p.input /\ c \in host.credentials /\ c.identity = p.identity
  IN  /\ workers[w] # None /\ workers[w].step = "candidate"
      /\ \/ /\ CanBind(p.frozen, p.identity)
            /\ c # None => c.identity = p.identity /\ At.publication \in {None, c}
            /\ c # None /\ portable => opens
            /\ Calls(w, Saves(host, Bound(p.identity)),
                     [workers[w] EXCEPT !.step = IF c = None THEN "publish" ELSE "confirm"])
         \/ Fails(w)
      /\ UNCHANGED <<portable, generation, started, refused, told>>

(* The seed is prepared once and kept for a repetition.                    *)
Seed(w, p) ==
  IF p.seed # None THEN p.seed
  ELSE [op |-> p.op, fp |-> p.frozen.fp, input |-> p.input, identity |-> p.identity, by |-> w]

(* Mutant of MayPublish: a prepared seed is published without a look at    *)
(* the attempt.                                                            *)
MayPublishAnyway(s, identity) == At # None

(* publish_recovery binds the attempt again, and                           *)
(* publish_recovery_with_credentials checks it.                            *)
MayPublish(s, identity) == IF portable THEN CheckSource(s) ELSE CanBind(s, identity)

(* The portable profile gets the new credentials and the retained source   *)
(* before the file; both flavors record the publication after it.          *)
PublishWrites(c) ==
  LET published == [At EXCEPT !.identity = c.identity, !.publication = c,
                              !.phase = "CandidatePublished"]
      first == IF portable THEN <<[host EXCEPT !.credentials = @ \cup {c}]>>
               ELSE Saves(host, Bound(c.identity))
      file == [Last(first) EXCEPT !.candidates = @ \cup {c}]
  IN  Append(first, file) \o Saves(file, published)

Publish(w) ==
  LET p == workers[w].pending
      c == Seed(w, p)
  IN  /\ workers[w] # None /\ workers[w].step = "publish"
      /\ \/ /\ MayPublish(p.frozen, p.identity) /\ CandidateOf(p.frozen) = None
            /\ \/ /\ host' = Last(PublishWrites(c))
                  /\ workers' = [workers EXCEPT ![w].pending.seed = c, ![w].target = TRUE,
                                                ![w].step = "candidate"]
               \/ /\ host' \in {host} \cup Range(PublishWrites(c))
                  /\ workers' = [workers EXCEPT ![w].pending.seed = c, ![w].step = "idle"]
         \/ Fails(w)
      /\ UNCHANGED <<portable, generation, started, refused, told>>

(* validate_named_trust_recovery                                           *)
Validates(c, p) ==
  c.op = p.op /\ c.fp = p.frozen.fp /\ c.input = p.input /\ c.identity = p.identity

(* confirm_recovery: the proof, then the public locator in the catalog,    *)
(* then the phase.                                                         *)
ConfirmWrites(c) ==
  LET bound == Saves(host, Bound(c.identity))
      proof == [Last(bound) EXCEPT !.proofs = @ \cup {c}]
      listed == [proof EXCEPT !.listed = @ \cup {c}]
  IN  bound \o <<proof, listed>> \o
      Saves(listed, [listed.attempt EXCEPT !.publication = c, !.phase = "ProofConfirmed"])

Confirm(w) ==
  LET p == workers[w].pending
      c == CandidateOf(p.frozen)
      ready == /\ c # None /\ Validates(c, p)
               /\ CanBind(p.frozen, p.identity) /\ At.publication \in {None, c}
               /\ portable => workers[w].target
               /\ \A other \in host.proofs \cup host.listed : other.op = c.op => other = c
  IN  /\ workers[w] # None /\ workers[w].step = "confirm"
      /\ \/ /\ ready
            /\ host' = Last(ConfirmWrites(c))
            /\ told' = told \cup {[input |-> p.input, value |-> c]}
         \/ /\ ready
            /\ host' \in {host} \cup Range(ConfirmWrites(c))
            /\ UNCHANGED told
         \/ UNCHANGED <<host, told>>
      /\ workers' = [workers EXCEPT ![w].step = "idle"]
      /\ UNCHANGED <<portable, generation, started, refused>>

-----------------------------------------------------------------------------
(* The host.                                                               *)

(* recovery_phase, also from pending_recoveries: the phase is reconciled   *)
(* with the file that is there.                                            *)
RecoveryPhase ==
  LET c == CandidateOf(At) IN
  /\ At # None
  /\ At.phase = "SourceFrozen" /\ Source(At.op, At.fp) \in host.sources
  /\ c # None /\ At.identity = c.identity
  /\ host' \in Range(Saves(host, [At EXCEPT !.publication = c, !.phase = "CandidatePublished"]))
  /\ UNCHANGED <<portable, generation, workers, started, refused, told>>

(* verified_platform_recovery                                              *)
Verified(c) ==
  /\ CheckSource(c) /\ At.publication = c /\ At.phase \in {"ProofConfirmed", "Adopted"}
  /\ c \in host.proofs

(* require_platform_source_closure: no session and no writer of the source.*)
SourceClosed == \A w \in Workers : workers[w] = None

(* publish_platform_adoption: the catalog before the phase.                *)
AdoptWrites(c) ==
  LET moved == [host EXCEPT !.current = c]
  IN  <<moved>> \o Saves(moved, [At EXCEPT !.phase = "Adopted"])

(* adopt_closed_platform_recovery and adopt_platform_recovery of a result  *)
(* the user was given; a repetition finds the catalog as it should be.     *)
Adopt(c) ==
  /\ host.current = None
  /\ Verified(c) /\ SourceClosed
  /\ c \in host.listed
  /\ host' \in Range(AdoptWrites(c))
  /\ UNCHANGED <<portable, generation, workers, started, refused, told>>

(* The host dies, and its workers with it.                                 *)
Crash ==
  /\ \E w \in Workers : workers[w] # None
  /\ workers' = [w \in Workers |-> None]
  /\ UNCHANGED <<portable, host, generation, started, refused, told>>

Next ==
  \/ \E w \in Workers :
       OpenDocument(w) \/ Edit(w) \/ Close(w) \/ Freeze(w) \/ Author(w) \/ Candidate(w)
         \/ Publish(w) \/ Confirm(w)
  \/ \E w \in Workers, op \in Operations :
       \/ OpenFresh(w, op) \/ OpenRefused(w, op)
       \/ \E c \in host.candidates : OpenResumed(w, op, c)
       \/ \E input \in Inputs : Ask(w, op, input)
  \/ \E t \in told : Adopt(t.value)
  \/ RecoveryPhase \/ Crash

Spec == Init /\ [][Next]_vars

-----------------------------------------------------------------------------
(* Properties.                                                             *)

(* An operation the user was told to give up never publishes anything:     *)
(* not by a worker that outlived the refusal, not by another request that  *)
(* reuses its identity with other input.                                   *)
RefusedNeverPublished == \A c \in host.candidates : c.op \notin refused

(* Whoever was told that a recovery is complete has one candidate of that  *)
(* operation on disk, under the name and password entered for it, and what *)
(* the catalog adopts is one of these.                                     *)
ToldAsAsked ==
  /\ \A t \in told : t.value.input = t.input /\ t.value \in host.candidates
  /\ \A t, u \in told : t.value.op = u.value.op => t = u
  /\ host.current # None => \E t \in told : t.value = host.current

(* Whatever was cut off: as long as the attempt stands, its published      *)
(* candidate can be opened again with its password, so the operation is    *)
(* never both unfinishable and in the way of a new one.                    *)
Resumable ==
  \A c \in host.candidates :
    host.current = None /\ At.op = c.op => \/ BootsCandidate(c.op, c)
                                           \/ At.phase = "Adopted"

=============================================================================
