---------------------------- MODULE Coordinator ----------------------------
(***************************************************************************)
(* The coordinator's writes to one registered file (taypeer-sync,          *)
(* coordinator.rs): local requests of the unlocked worker and ciphertext   *)
(* objects that peers deliver share one ArchiveStore.  This module adds    *)
(* the coordinator's and the worker's state to ArchiveStore and runs its   *)
(* calls; a caller is answered in the step in which its call returns.      *)
(*                                                                         *)
(* The coordinator's mutex is held for a whole request, so at most one     *)
(* request is in the store.  A request is known by the archive version it  *)
(* would produce: the digest of a request covers what its candidate adds.  *)
(***************************************************************************)
EXTENDS ArchiveStore

CONSTANTS
  First,      \* the version the file was registered with
  Edits,      \* local changes
  Retained,   \* the edits whose caller repeats one immutable PreparedCommit
  Objects     \* ciphertext objects of peers

ASSUME CoordinatorAssumption ==
  /\ First \in Versions
  /\ Retained \subseteq Edits

VARIABLES
  payload,    \* what each version adds to its base
  content,    \* everything a version holds
  receipt,    \* WorkingCopy.commit: [version, uncertain]
  caller,     \* the request in the store: [by, version]
  draft,      \* the request the worker has prepared and not yet sent
  held,       \* PendingTransfer: the request the worker keeps for its retry
  acks        \* history: edits and objects reported as saved

archive == <<candidates, disk, anchor, pc, cand, memory, acked>>
requests == <<payload, content, receipt, caller, draft, held, acks>>
all == <<archive, requests>>

Payloads == Edits \cup Objects

CoordinatorInit ==
  /\ made = {First}
  /\ base = [v \in Versions |-> Nil]
  /\ generation = [v \in Versions |-> 0]
  /\ visible = First /\ survivors = {First}
  /\ anchor = Marker(First, Nil)
  /\ pc = "ready" /\ cand = Nil
  /\ snapshot = First /\ uncertain = FALSE /\ last_commit = Nil
  /\ acked = First
  /\ payload = [v \in Versions |-> Nil]
  /\ content = [v \in Versions |-> {}]
  /\ receipt = Nil /\ caller = Nil /\ draft = Nil /\ held = Nil
  /\ acks = {}

Idle == pc = "ready" /\ caller = Nil

Receipt(v, doubtful) == [version |-> v, uncertain |-> doubtful]
Request(by, v) == [by |-> by, version |-> v]

(* A candidate on top of the current snapshot.                             *)
Seal(v, p) ==
  /\ Stage(v)
  /\ payload' = [payload EXCEPT ![v] = p]
  /\ content' = [content EXCEPT ![v] = content[snapshot] \cup {p}]

(* A candidate that is not needed any more leaves nothing behind.          *)
Discard(v) ==
  /\ made' = made \ {v}
  /\ UNCHANGED <<base, generation, disk, anchor, pc, cand, memory, acked, payload, content>>

-----------------------------------------------------------------------------
(* The worker prepares a request outside the coordinator's mutex, from the *)
(* snapshot it has read; Coordinator::commit checks it afterwards.         *)

Prepare(v, e) ==
  /\ Idle
  /\ draft = Nil /\ held = Nil
  /\ e \notin content[snapshot]
  /\ Seal(v, e)
  /\ draft' = v
  /\ UNCHANGED <<receipt, caller, held, acks>>

Doubtful == receipt # Nil /\ receipt.uncertain

LocalCommit ==
  /\ Idle
  /\ draft # Nil
  /\ ~Doubtful
  /\ base[draft] = snapshot
  /\ caller' = Request("local", draft)
  /\ draft' = Nil
  /\ UNCHANGED <<archive, payload, content, receipt, held, acks>>

(* A request that matches no receipt is refused while a receipt is in      *)
(* doubt (CommitUncertain) or when the snapshot moved on (Changed).        *)
LocalRefused ==
  /\ Idle
  /\ draft # Nil
  /\ Doubtful \/ base[draft] # snapshot
  /\ draft' = Nil
  /\ \/ /\ Doubtful /\ payload[draft] \in Retained
        /\ held' = draft
        /\ UNCHANGED <<archive, payload, content>>
     \/ /\ ~(Doubtful /\ payload[draft] \in Retained)
        /\ Discard(draft)
        /\ UNCHANGED held
  /\ UNCHANGED <<receipt, caller, acks>>

(* The exact request again; with another receipt or without the retained   *)
(* candidate it is refused as before.                                      *)
LocalReplay ==
  /\ Idle
  /\ held # Nil
  /\ receipt # Nil /\ receipt.version = held
  /\ last_commit = held
  /\ caller' = Request("local", held)
  /\ UNCHANGED <<archive, payload, content, receipt, held, draft, acks>>

(* The session locks: the worker forgets what it prepared and kept.        *)
Lock ==
  /\ Idle
  /\ draft # Nil \/ held # Nil
  /\ draft' = Nil /\ held' = Nil
  /\ UNCHANGED <<archive, payload, content, receipt, caller, acks>>

-----------------------------------------------------------------------------
(* Backend::receive                                                        *)

(* Mutant of ReceiveKnown: what the path shows counts as received.         *)
ReceiveVisible(o) ==
  /\ Idle
  /\ o \in content[visible]
  /\ acks' = acks \cup {o}
  /\ UNCHANGED <<archive, payload, content, receipt, caller, draft, held>>

(* The snapshot has the object already: answered without a write.          *)
ReceiveKnown(o) ==
  /\ Idle
  /\ o \in content[snapshot]
  /\ acks' = acks \cup {o}
  /\ UNCHANGED <<archive, payload, content, receipt, caller, draft, held>>

(* Preparing the same object on the same snapshot gives the same candidate.*)
IsRepeat(o) ==
  /\ last_commit # Nil
  /\ base[last_commit] = snapshot
  /\ payload[last_commit] = o

Receive(v, o) ==
  /\ Idle
  /\ o \notin content[snapshot]
  /\ ~IsRepeat(o)
  /\ Seal(v, o)
  /\ caller' = Request("network", v)
  /\ UNCHANGED <<receipt, draft, held, acks>>

ReceiveAgain(o) ==
  /\ Idle
  /\ o \notin content[snapshot]
  /\ IsRepeat(o)
  /\ caller' = Request("network", last_commit)
  /\ UNCHANGED <<archive, payload, content, receipt, draft, held, acks>>

-----------------------------------------------------------------------------
(* ArchiveStore::commit on behalf of the request.                          *)

CallStore ==
  /\ caller # Nil
  /\ Commit(caller.version) \/ Confirm(caller.version)
  /\ UNCHANGED requests

(* The store is uncertain about another candidate: CommitUncertain.  The   *)
(* coordinator records a local request as if it had been published.        *)
Refuse ==
  /\ caller # Nil
  /\ pc = "ready"
  /\ uncertain /\ last_commit # caller.version
  /\ \/ /\ caller.by = "local"
        /\ receipt' = Receipt(caller.version, TRUE)
        /\ held' = IF payload[caller.version] \in Retained THEN caller.version ELSE held
        /\ UNCHANGED <<archive, payload, content>>
     \/ caller.by = "network" /\ Discard(caller.version) /\ UNCHANGED <<receipt, held>>
  /\ caller' = Nil
  /\ UNCHANGED <<draft, acks>>

(* Whether the returning call reports success, or that it cannot know.     *)
Succeeds ==
  (pc = "commit_ack" /\ ~uncertain') \/ (pc = "confirm_final" /\ visible = cand)
Unknown == pc \in {"commit_publish", "commit_sync", "commit_ack"} /\ uncertain'

(* What the coordinator remembers of a local request.                      *)
Recorded ==
  IF caller.by = "local" /\ (Succeeds \/ Unknown) THEN Receipt(cand, Unknown) ELSE receipt

(* The worker is told, and keeps a Retained request whose outcome it does  *)
(* not know.                                                               *)
Told ==
  /\ acks' = IF Succeeds THEN acks \cup {payload[cand]} ELSE acks
  /\ held' = IF caller.by = "network" THEN held
             ELSE IF Succeeds THEN Nil
             ELSE IF Unknown /\ payload[cand] \in Retained THEN cand
             ELSE held

(* Saved, but the snapshot cannot be handed back: the worker sees an I/O   *)
(* error and keeps only what it kept before.                               *)
Lost == Succeeds /\ UNCHANGED <<acks, held>>

(* The call returns to its caller.                                         *)
Answer == caller' = Nil /\ receipt' = Recorded /\ UNCHANGED draft /\ (Told \/ Lost)

(* The host is gone: the worker and the coordinator's copy go with it.     *)
Drop ==
  /\ receipt' = Nil /\ caller' = Nil /\ draft' = Nil /\ held' = Nil
  /\ UNCHANGED acks

(* A step of the call in progress.                                         *)
StoreStep ==
  /\ CommitCall \/ ConfirmCall \/ OpenCall
  /\ UNCHANGED <<payload, content>>
  /\ \/ pc' = "closed" /\ Drop
     \/ pc' = "ready" /\ caller # Nil /\ Answer
     \/ pc' # "closed" /\ ~(pc' = "ready" /\ caller # Nil)
        /\ UNCHANGED <<receipt, caller, draft, held, acks>>

HostEnds == (Exit \/ PowerLoss) /\ Drop /\ UNCHANGED <<payload, content>>

CoordinatorNext ==
  \/ \E v \in Versions, e \in Edits : Prepare(v, e)
  \/ \E v \in Versions, o \in Objects : Receive(v, o)
  \/ \E o \in Objects : ReceiveKnown(o) \/ ReceiveAgain(o)
  \/ LocalCommit \/ LocalRefused \/ LocalReplay \/ Lock \/ CallStore \/ Refuse
  \/ StoreStep \/ HostEnds

CoordinatorSpec == CoordinatorInit /\ [][CoordinatorNext]_all

(* A request in the store is carried to its end; peers repeat deliveries   *)
(* and the worker its saves, whatever else uses the coordinator meanwhile. *)
CoordinatorFairness ==
  /\ WF_all(CallStore \/ Refuse \/ StoreStep)
  /\ SF_all(LocalCommit \/ LocalRefused)
  /\ SF_all(LocalReplay)
  /\ \A e \in Edits : SF_all(\E v \in Versions : Prepare(v, e))
  /\ \A o \in Objects : SF_all(ReceiveAgain(o))
FairCoordinatorSpec == CoordinatorSpec /\ CoordinatorFairness

-----------------------------------------------------------------------------
(* Properties.                                                             *)

(* Whatever a peer or the worker was told is saved, is still there after   *)
(* any power loss; this includes an object that is acknowledged a second   *)
(* time while the store is uncertain about the commit that brought it.     *)
AcksSurvive == \A p \in acks, s \in survivors : p \in content[s]

(* After CommitUncertain the exact published candidate is checked again:   *)
(* an uncertain receipt is about the candidate the store retains.          *)
ReceiptIsRetained ==
  receipt # Nil /\ receipt.uncertain => last_commit = receipt.version

(* After CommitUncertain the worker reconciles with the file and goes on:  *)
(* once faults stop, every pending edit is saved or the host restarts.     *)
(* (Behaviours that use up the bounded set of versions do not count.)      *)
InSnapshot(p) == snapshot # Nil /\ p \in content[snapshot]
EditsResume ==
  <>[][~Fault]_all /\ []<>(made # Versions) =>
    \A e \in Edits : (Idle /\ ~InSnapshot(e)) ~> (pc = "closed" \/ InSnapshot(e))

=============================================================================
