---------------------------- MODULE ArchiveStore ----------------------------
(***************************************************************************)
(* The sole writer of one encrypted database file (taypeer-storage,        *)
(* archive/write.rs, archive/read.rs, publication.rs) and the protected    *)
(* per-copy marker it keeps beside the file (the Anchor).                  *)
(*                                                                         *)
(* A commit is two-phase: the marker names the prepared replacement, the   *)
(* complete file is renamed over the old one, file and directory are       *)
(* synced, the marker accepts the new fingerprint.  Every one of those I/O *)
(* steps may fail, the process may die between any two of them, and power  *)
(* loss may bring back any content that was renamed but not yet synced.    *)
(*                                                                         *)
(* A file's bytes are abstracted to a member of Versions, which stands for *)
(* its fingerprint, its metadata and its objects at once: the fingerprint  *)
(* covers the metadata and the manifest names every object.                *)
(***************************************************************************)
EXTENDS Naturals

CONSTANTS
  Versions,   \* complete encrypted archives, one per prepared candidate
  Nil        \* no file, no fingerprint, no candidate

ASSUME NoneAssumption == Nil \notin Versions

VARIABLES
  made,         \* candidates that some caller has prepared so far
  base,         \* the snapshot each candidate was built from
  generation,   \* manifest generation of each candidate
  visible,      \* content that opening the path returns now
  survivors,    \* contents that the path may hold after a power loss
  anchor,       \* the protected marker: [accepted, prepared]
  pc,           \* the call in progress: "closed" and "ready" are between calls
  cand,         \* the archive the call in progress is about
  snapshot,     \* ArchiveStore.snapshot
  uncertain,    \* ArchiveStore.uncertain
  last_commit,  \* ArchiveStore.last_commit: the retained candidate
  acked         \* history: the version last reported to a caller as saved

candidates == <<made, base, generation>>
disk == <<visible, survivors>>
memory == <<snapshot, uncertain, last_commit>>
storeVars == <<candidates, disk, anchor, pc, cand, memory, acked>>

Maybe == Versions \cup {Nil}
Anchors == [accepted : Maybe, prepared : Maybe]
Calls ==
  {"closed", "ready",
   "create_mark", "create_publish", "create_sync", "create_ack",
   "open_sync", "open_recheck", "open_ack",
   "commit_mark", "commit_recheck", "commit_publish", "commit_sync", "commit_ack",
   "confirm_sync", "confirm_recheck", "confirm_ack", "confirm_final"}

(* Every stored field has a value of its type in the code.                 *)
TypeOK ==
  /\ made \subseteq Versions
  /\ base \in [Versions -> Maybe]
  /\ generation \in [Versions -> Nat]
  /\ visible \in Maybe
  /\ survivors \subseteq Maybe
  /\ anchor \in Anchors
  /\ pc \in Calls
  /\ cand \in Maybe
  /\ snapshot \in Maybe
  /\ uncertain \in BOOLEAN
  /\ last_commit \in Maybe
  /\ acked \in Maybe

StoreInit ==
  /\ made = {}
  /\ base = [v \in Versions |-> Nil]
  /\ generation = [v \in Versions |-> 0]
  /\ visible = Nil
  /\ survivors = {Nil}
  /\ anchor = [accepted |-> Nil, prepared |-> Nil]
  /\ pc = "closed"
  /\ cand = Nil
  /\ snapshot = Nil
  /\ uncertain = FALSE
  /\ last_commit = Nil
  /\ acked = Nil

-----------------------------------------------------------------------------
(* Building blocks of the calls.                                           *)

(* Mutant of Marker: the marker is written without its prepared field.      *)
MarkerAcceptedOnly(a, p) == [accepted |-> a]

Marker(a, p) == [accepted |-> a, prepared |-> p]

Goto(label) == pc' = label

(* The call returns with no ArchiveStore: its lock and memory are dropped. *)
Closed ==
  /\ pc' = "closed"
  /\ cand' = Nil
  /\ snapshot' = Nil
  /\ uncertain' = FALSE
  /\ last_commit' = Nil

(* The call on an open store returns.                                      *)
Return == pc' = "ready" /\ cand' = Nil

(* AnchorStore::save that reports success, and one that reports failure:   *)
(* a failed write may or may not have landed.                              *)
SaveAnchor(m) == anchor' = m
SaveAnchorFails(m) == anchor' \in {anchor, m}

(* rename(2) makes the candidate visible; until the directory is synced a  *)
(* power loss may still reveal what was there before.                      *)
Rename ==
  /\ visible' = cand
  /\ survivors' = survivors \cup {cand}

(* Mutant of Sync: the directory entry is not synced.                      *)
SyncNothing == UNCHANGED disk

(* confirm_published_file: the visible content is now the only survivor.   *)
Sync ==
  /\ survivors' = {visible}
  /\ UNCHANGED visible

-----------------------------------------------------------------------------
(* Candidates: what callers hand to create and commit.                     *)

StageGenesis(v) ==
  /\ pc = "closed"
  /\ v \notin made
  /\ made' = made \cup {v}
  /\ UNCHANGED <<base, generation, disk, anchor, pc, cand, memory, acked>>

Stage(v) ==
  /\ pc = "ready"
  /\ v \notin made
  /\ made' = made \cup {v}
  /\ base' = [base EXCEPT ![v] = snapshot]
  /\ generation' = [generation EXCEPT ![v] = generation[snapshot] + 1]
  /\ UNCHANGED <<disk, anchor, pc, cand, memory, acked>>

-----------------------------------------------------------------------------
(* ArchiveStore::create                                                    *)

Create(v) ==
  /\ pc = "closed"
  /\ v \in made
  /\ generation[v] = 0 /\ base[v] = Nil      \* else InvalidFile
  /\ visible = Nil                           \* else AlreadyExists
  /\ anchor.accepted = Nil                   \* else Changed
  /\ cand' = v
  /\ Goto("create_mark")
  /\ UNCHANGED <<candidates, disk, anchor, memory, acked>>

CreateMark ==
  /\ pc = "create_mark"
  /\ \/ SaveAnchor(Marker(Nil, cand)) /\ Goto("create_publish") /\ UNCHANGED <<cand, memory>>
     \/ SaveAnchorFails(Marker(Nil, cand)) /\ Closed
  /\ UNCHANGED <<candidates, disk, acked>>

(* The third disjunct is the Windows move: its failure proves nothing.     *)
CreatePublish ==
  /\ pc = "create_publish"
  /\ \/ visible = Nil /\ Rename /\ Goto("create_sync") /\ UNCHANGED <<cand, memory>>
     \/ Closed /\ UNCHANGED disk
     \/ visible = Nil /\ Rename /\ Closed
  /\ UNCHANGED <<candidates, anchor, acked>>

CreateSync ==
  /\ pc = "create_sync"
  /\ \/ Sync /\ Goto("create_ack") /\ UNCHANGED <<cand, memory>>
     \/ Closed /\ UNCHANGED disk
  /\ UNCHANGED <<candidates, anchor, acked>>

(* The store exists from here on: create and open return alike.            *)
Opened ==
  /\ snapshot' = cand
  /\ uncertain' = FALSE
  /\ last_commit' = Nil
  /\ acked' = cand
  /\ Return

CreateAck ==
  /\ pc = "create_ack"
  /\ \/ SaveAnchor(Marker(cand, Nil)) /\ Opened
     \/ SaveAnchorFails(Marker(cand, Nil)) /\ Closed /\ UNCHANGED acked
  /\ UNCHANGED <<candidates, disk>>

-----------------------------------------------------------------------------
(* ArchiveStore::open                                                      *)

(* Mutants of OpenRead: the marker is ignored; only accepted is honoured.  *)
OpenReadAnything ==
  /\ pc = "closed"
  /\ visible # Nil
  /\ cand' = visible
  /\ Goto("open_sync")
  /\ UNCHANGED <<candidates, disk, anchor, memory, acked>>

OpenReadAcceptedOnly ==
  /\ pc = "closed"
  /\ visible # Nil
  /\ visible = anchor.accepted
  /\ cand' = visible
  /\ Goto("open_sync")
  /\ UNCHANGED <<candidates, disk, anchor, memory, acked>>

OpenRead ==
  /\ pc = "closed"
  /\ visible # Nil
  /\ visible \in {anchor.accepted, anchor.prepared}   \* else Changed
  /\ cand' = visible
  /\ Goto("open_sync")
  /\ UNCHANGED <<candidates, disk, anchor, memory, acked>>

OpenSync ==
  /\ pc = "open_sync"
  /\ \/ Sync /\ Goto("open_recheck") /\ UNCHANGED <<cand, memory>>
     \/ Closed /\ UNCHANGED disk
  /\ UNCHANGED <<candidates, anchor, acked>>

OpenRecheck ==
  /\ pc = "open_recheck"
  /\ \/ visible = cand /\ Goto("open_ack") /\ UNCHANGED <<cand, memory>>
     \/ visible # cand /\ Closed
  /\ UNCHANGED <<candidates, disk, anchor, acked>>

OpenAck ==
  /\ pc = "open_ack"
  /\ \/ SaveAnchor(Marker(cand, Nil)) /\ Opened
     \/ SaveAnchorFails(Marker(cand, Nil)) /\ Closed /\ UNCHANGED acked
  /\ UNCHANGED <<candidates, disk>>

-----------------------------------------------------------------------------
(* ArchiveStore::commit of a candidate that is not the retained one.  The  *)
(* caller's expected fingerprint is the base of its candidate.             *)

(* Mutant of Commit: an uncertain store accepts the next candidate.        *)
CommitWhileUncertain(v) ==
  /\ pc = "ready"
  /\ v \in made
  /\ last_commit # v
  /\ base[v] = snapshot
  /\ generation[v] = generation[snapshot] + 1
  /\ visible = snapshot
  /\ cand' = v
  /\ Goto("commit_mark")
  /\ UNCHANGED <<candidates, disk, anchor, memory, acked>>

Commit(v) ==
  /\ pc = "ready"
  /\ v \in made
  /\ last_commit # v
  /\ ~uncertain                                       \* else CommitUncertain
  /\ base[v] = snapshot                               \* else Changed
  /\ generation[v] = generation[snapshot] + 1
  /\ visible = snapshot                               \* check_unchanged
  /\ cand' = v
  /\ Goto("commit_mark")
  /\ UNCHANGED <<candidates, disk, anchor, memory, acked>>

(* Mutant of CommitMark: the intent is not recorded before publication.    *)
CommitMarkUnprepared ==
  /\ pc = "commit_mark"
  /\ SaveAnchor(Marker(snapshot, Nil))
  /\ Goto("commit_recheck")
  /\ UNCHANGED <<candidates, disk, cand, memory, acked>>

CommitMark ==
  /\ pc = "commit_mark"
  /\ \/ SaveAnchor(Marker(snapshot, cand)) /\ Goto("commit_recheck") /\ UNCHANGED cand
     \/ SaveAnchorFails(Marker(snapshot, cand)) /\ Return
  /\ UNCHANGED <<candidates, disk, memory, acked>>

CommitRecheck ==
  /\ pc = "commit_recheck"
  /\ \/ visible = snapshot /\ Goto("commit_publish") /\ UNCHANGED cand
     \/ visible # snapshot /\ Return
  /\ UNCHANGED <<candidates, disk, anchor, memory, acked>>

(* Mutant of Doubt: a failed sync is treated like an ordinary I/O error.   *)
DoubtForgotten ==
  /\ last_commit' = cand
  /\ UNCHANGED <<snapshot, uncertain>>
  /\ Return

(* persist failed with CommitUncertain: the candidate is retained.         *)
Doubt ==
  /\ uncertain' = TRUE
  /\ last_commit' = cand
  /\ UNCHANGED snapshot
  /\ Return

(* Renamed; refused with a plain I/O error; or a Windows move that failed  *)
(* with or without having replaced the file.                               *)
CommitPublish ==
  /\ pc = "commit_publish"
  /\ \/ Rename /\ Goto("commit_sync") /\ UNCHANGED <<cand, memory>>
     \/ Return /\ UNCHANGED <<disk, memory>>
     \/ (Rename \/ UNCHANGED disk) /\ Doubt
  /\ UNCHANGED <<candidates, anchor, acked>>

CommitSync ==
  /\ pc = "commit_sync"
  /\ \/ /\ Sync
        /\ snapshot' = cand
        /\ last_commit' = cand
        /\ Goto("commit_ack")
        /\ UNCHANGED <<cand, uncertain>>
     \/ Doubt /\ UNCHANGED disk
  /\ UNCHANGED <<candidates, anchor, acked>>

CommitAck ==
  /\ pc = "commit_ack"
  /\ \/ SaveAnchor(Marker(cand, Nil)) /\ acked' = cand /\ UNCHANGED uncertain
     \/ SaveAnchorFails(Marker(cand, Nil)) /\ uncertain' = TRUE /\ UNCHANGED acked
  /\ Return
  /\ UNCHANGED <<candidates, disk, snapshot, last_commit>>

-----------------------------------------------------------------------------
(* ArchiveStore::confirm_commit: the exact retained candidate again.       *)

(* Mutant of Confirm: equal visible bytes count as the confirmation.       *)
ConfirmByReading(v) ==
  /\ pc = "ready"
  /\ v \in made
  /\ last_commit = v
  /\ visible = v
  /\ cand' = v
  /\ Goto("confirm_final")
  /\ UNCHANGED <<candidates, disk, anchor, memory, acked>>

Confirm(v) ==
  /\ pc = "ready"
  /\ v \in made
  /\ last_commit = v
  /\ visible = v                                      \* else Changed
  /\ anchor \in {Marker(base[v], v), Marker(v, Nil)} \* else Changed
  /\ cand' = v
  /\ Goto("confirm_sync")
  /\ UNCHANGED <<candidates, disk, anchor, memory, acked>>

ConfirmSync ==
  /\ pc = "confirm_sync"
  /\ \/ Sync /\ Goto("confirm_recheck") /\ UNCHANGED cand
     \/ Return /\ UNCHANGED disk
  /\ UNCHANGED <<candidates, anchor, memory, acked>>

ConfirmRecheck ==
  /\ pc = "confirm_recheck"
  /\ \/ visible = cand /\ Goto("confirm_ack") /\ UNCHANGED cand
     \/ visible # cand /\ Return
  /\ UNCHANGED <<candidates, disk, anchor, memory, acked>>

ConfirmAck ==
  /\ pc = "confirm_ack"
  /\ \/ SaveAnchor(Marker(cand, Nil)) /\ Goto("confirm_final") /\ UNCHANGED cand
     \/ SaveAnchorFails(Marker(cand, Nil)) /\ Return
  /\ UNCHANGED <<candidates, disk, memory, acked>>

ConfirmFinal ==
  /\ pc = "confirm_final"
  /\ \/ /\ visible = cand
        /\ snapshot' = cand
        /\ uncertain' = FALSE
        /\ acked' = cand
     \/ visible # cand /\ UNCHANGED <<snapshot, uncertain, acked>>
  /\ Return
  /\ UNCHANGED <<candidates, disk, anchor, last_commit>>

-----------------------------------------------------------------------------
(* The environment.                                                        *)

(* The host exits, is killed or drops the store at any point of a call.    *)
Exit ==
  /\ pc # "closed"
  /\ Closed
  /\ UNCHANGED <<candidates, disk, anchor, acked>>

PowerLoss ==
  /\ visible' \in survivors
  /\ survivors' = {visible'}
  /\ Closed
  /\ UNCHANGED <<candidates, anchor, acked>>

(* Another program puts an exported or backed-up copy at the path, or      *)
(* removes the file: the advisory lock does not exclude it.                *)
Replace(w) ==
  /\ w \in made \cup {Nil}
  /\ w # visible
  /\ visible' = w
  /\ survivors' = survivors \cup {w}
  /\ UNCHANGED <<candidates, anchor, pc, cand, memory, acked>>

CreateCall == CreateMark \/ CreatePublish \/ CreateSync \/ CreateAck
OpenCall == OpenRead \/ OpenSync \/ OpenRecheck \/ OpenAck
CommitCall == CommitMark \/ CommitRecheck \/ CommitPublish \/ CommitSync \/ CommitAck
ConfirmCall == ConfirmSync \/ ConfirmRecheck \/ ConfirmAck \/ ConfirmFinal
Callers == \E v \in Versions :
  StageGenesis(v) \/ Stage(v) \/ Create(v) \/ Commit(v) \/ Confirm(v)

(* The hosts of this profile alone, crashes and power loss included.       *)
HostNext ==
  Callers \/ CreateCall \/ OpenCall \/ CommitCall \/ ConfirmCall \/ Exit \/ PowerLoss

(* The same with other programs writing to the path.                       *)
StoreNext == HostNext \/ \E w \in Maybe : Replace(w)

HostSpec == StoreInit /\ [][HostNext]_storeVars
StoreSpec == StoreInit /\ [][StoreNext]_storeVars

-----------------------------------------------------------------------------
(* Properties.                                                             *)

(* With only this profile's hosts writing, whatever a crash or a power     *)
(* loss leaves at the path is named by the marker, so ArchiveStore::open   *)
(* never refuses its own interrupted commit as a foreign file.             *)
Recoverable ==
  \A s \in survivors :
    IF s = Nil THEN anchor.accepted = Nil
    ELSE s \in {anchor.accepted, anchor.prepared}

(* A version that create, commit, confirm_commit or open reported as saved *)
(* is never lost: every content a power loss may reveal is that version or *)
(* the one commit in flight on top of it.                                  *)
AckedSurvives ==
  \A s \in survivors : s = acked \/ (s # Nil /\ base[s] = acked)

(* Between calls a store that is not uncertain is exactly the durable file *)
(* and exactly what was acknowledged: a commit that returned an error      *)
(* other than CommitUncertain left nothing behind on the disk.             *)
CertainIsOnDisk ==
  pc = "ready" /\ ~uncertain => survivors = {snapshot} /\ acked = snapshot

(* Even when other programs replace or remove the file, acknowledged       *)
(* versions form one line: no acknowledged version is skipped or replaced  *)
(* by a sibling, and create never starts a second history over one.        *)
AckedLinear ==
  [][acked' # acked => acked' # Nil /\ base'[acked'] = acked]_storeVars

(* Even when other programs roll the file back, an open store's snapshot   *)
(* is never behind what was acknowledged; it is ahead only by a commit     *)
(* whose final marker write is outstanding, and then nothing else commits. *)
OpenNotBehind ==
  snapshot # Nil =>
    \/ snapshot = acked
    \/ base[snapshot] = acked /\ last_commit = snapshot /\ (uncertain \/ pc = "commit_ack")

(* The writer implements the abstract crash-atomic archive.                *)
Atomic == INSTANCE AtomicArchive WITH stable <- acked, possible <- survivors
ImplementsAtomic == Atomic!Spec

(* Steps in which the environment strikes: an I/O operation reports an     *)
(* error, the host exits or power fails.  A call that fails is a step back *)
(* to "closed" or to "ready" that acknowledges nothing new.                *)
CallFails ==
  \/ pc' = "closed" /\ pc # "closed"
  \/ pc' = "ready" /\ pc \notin {"closed", "ready", "create_ack", "open_ack",
                                 "commit_ack", "confirm_final"}
  \/ pc = "commit_ack" /\ uncertain'
Fault == CallFails \/ PowerLoss

(* A call that began runs to its end, and a host keeps trying to open the  *)
(* registered file it finds at start.                                      *)
StoreFairness ==
  /\ WF_storeVars(CreateCall) /\ WF_storeVars(OpenCall)
  /\ WF_storeVars(CommitCall) /\ WF_storeVars(ConfirmCall)
FairHostSpec == HostSpec /\ StoreFairness

(* Once faults stop, a database whose file exists is opened: no sequence   *)
(* of interrupted creations and commits leaves it unopenable.  The one     *)
(* file that may vanish instead is a creation that was never acknowledged. *)
Reopens ==
  <>[][~Fault]_storeVars =>
    ((pc = "closed" /\ visible # Nil) ~> (pc = "ready" \/ (visible = Nil /\ acked = Nil)))

=============================================================================
