---------------------------- MODULE Credentials ----------------------------
(***************************************************************************)
(* The local credentials of one device for one database: the author and    *)
(* transport identity, sealed under the key of the database's epoch.  Two  *)
(* files hold them, the active record and a prepared one.  A rotation      *)
(* stages the new record, commits the archive and promotes the record; a   *)
(* crash, a failed sync, a refused commit or a rotation received from the  *)
(* network may come between any two of these.  Portable profiles           *)
(* (taypeer-runtime profile/portable.rs, worker.rs) and the platform       *)
(* worker (platform_worker/credentials.rs) follow the same protocol with   *)
(* different orders of trial; flavor says which.                           *)
(*                                                                         *)
(* An epoch's key is a number; an archive is the sequence of the keys of   *)
(* its epochs, all of which its current key opens.  Key 0 is the password  *)
(* an invitation's staged record is sealed with.                           *)
(***************************************************************************)
EXTENDS Naturals, Sequences

CONSTANTS
  Missing,      \* no credential, no worker
  MaxKeys       \* bound: keys ever made for this database

VARIABLES
  flavor,
  archive,      \* the file as visible, as it survives power loss, and the store's snapshot
  files,        \* the credential files: active, prepared
  synced,       \* the credential files as they survive power loss
  marks,        \* host state: credential_final, credential_prepared
  keys,         \* number of keys made so far
  worker        \* the worker process and the step its command is at

Flavors == {"portable", "platform"}
credentialsVars == <<flavor, archive, files, synced, marks, keys, worker>>

Sealed(id, epoch, key) == [id |-> id, epoch |-> epoch, key |-> key]
Own(epoch, key) == Sealed("own", epoch, key)
Staged == Own(0, 0)
Epoch(chain) == Len(chain)

(* LocalCredential::open with the key of an epoch and its exact scope.     *)
Unlocks(record, chain, epoch) ==
  record # Missing /\ record.epoch = epoch /\ record.key = chain[epoch]
UnlocksCurrent(record, chain) == Unlocks(record, chain, Epoch(chain))
UnlocksPast(record, chain) == \E e \in 1..Epoch(chain) - 1 : Unlocks(record, chain, e)

(* A device that created the database, or one whose invitation was         *)
(* redeemed and whose keys are staged: in join.credentials, which stays,   *)
(* or in the prepared file of the platform.                                *)
CredentialsInit ==
  /\ flavor \in Flavors
  /\ archive = [visible |-> <<1>>, durable |-> <<1>>, store |-> <<1>>]
  /\ \E joining \in BOOLEAN :
       files = [active |-> IF joining THEN Missing ELSE Own(1, 1),
                prepared |-> IF joining /\ flavor = "platform" THEN Staged ELSE Missing,
                join |-> joining /\ flavor = "portable"]
  /\ synced = files
  /\ marks = [final |-> 0, prepared |-> 0]
  /\ keys = 1 /\ worker = Missing

-----------------------------------------------------------------------------
(* Which record an unlocked worker takes: database_credentials, and open   *)
(* of the platform worker, which tries the prepared record first and the   *)
(* history on both.  Without any record the device becomes a reader.       *)

Portable(chain, f) ==
  IF f.active = Missing /\ f.join THEN "staged"
  ELSE IF f.active = Missing /\ f.prepared = Missing THEN "new"
  ELSE IF UnlocksCurrent(f.active, chain) THEN "active"
  ELSE IF UnlocksCurrent(f.prepared, chain) THEN "prepared"
  ELSE IF UnlocksPast(f.active, chain) THEN "past"
  ELSE "none"

Platform(chain, f) ==
  IF f.active = Missing /\ f.prepared = Missing THEN "new"
  ELSE IF UnlocksCurrent(f.prepared, chain) THEN "prepared"
  ELSE IF UnlocksCurrent(f.active, chain) THEN "active"
  ELSE IF UnlocksPast(f.prepared, chain) \/ UnlocksPast(f.active, chain) THEN "past"
  ELSE IF f.prepared = Staged THEN "staged"
  ELSE "none"

Selected(chain, f) == IF flavor = "portable" THEN Portable(chain, f) ELSE Platform(chain, f)

-----------------------------------------------------------------------------
(* Publication of a credential file.  A failed sync leaves the new file    *)
(* visible and the old one on the disk.                                    *)

Publishes(f) == files' = f /\ synced' = f
Uncertain(f) == files' = f /\ UNCHANGED synced
KeepFiles == UNCHANGED <<files, synced>>

At(step) == worker # Missing /\ worker.step = step
Steps(step) == worker' = [worker EXCEPT !.step = step]

(* A failed command leaves the worker open; an uncertain one closes it on  *)
(* portable profiles.  A failed opening ends the process.                  *)
Fails == worker' = IF worker.opening THEN Missing ELSE [worker EXCEPT !.step = "open"]
FailsUncertain ==
  worker' = IF worker.opening \/ flavor = "portable" THEN Missing
            ELSE [worker EXCEPT !.step = "open"]

-----------------------------------------------------------------------------
(* Opening: prepare_open reads and authenticates the visible file, selects *)
(* a record and stages it again if its epoch is past.                      *)

Restaged(chain) ==
  LET record == Own(Epoch(chain), chain[Epoch(chain)]) IN
  CASE Selected(chain, files) = "past" -> [files EXCEPT !.prepared = record]
    [] Selected(chain, files) = "staged" /\ flavor = "portable" -> [files EXCEPT !.active = record]
    [] Selected(chain, files) = "staged" /\ flavor = "platform" -> [files EXCEPT !.prepared = record]
    [] OTHER -> files

Open ==
  /\ worker = Missing
  /\ LET chain == archive.visible IN
     /\ Selected(chain, files) \notin {"none", "new"}
     /\ \/ /\ Publishes(Restaged(chain))
           /\ worker' = [step |-> "attach", opening |-> TRUE, chain |-> chain, epoch |-> Epoch(chain)]
        \/ /\ Restaged(chain) # files
           /\ Uncertain(Restaged(chain)) /\ UNCHANGED worker
  /\ UNCHANGED <<flavor, archive, marks, keys>>

(* The host attaches the archive; the generation must still be the one the *)
(* record was selected for.                                                *)
AttachArchive ==
  /\ At("attach")
  /\ IF archive.store = worker.chain THEN Steps("finalize") ELSE Fails
  /\ KeepFiles /\ UNCHANGED <<flavor, archive, marks, keys>>

(* EpochCredentialStage::Finalize, and the end of an opening: a prepared   *)
(* record is promoted only if the committed epoch's key opens it.          *)
Promoted == [files EXCEPT !.active = files.prepared, !.prepared = Missing]

(* Mutant of Promotes: whatever is prepared is promoted.                   *)
PromotesAny(chain) == files.prepared # Missing

Promotes(chain) == UnlocksCurrent(files.prepared, chain)
Valid(chain) == Promotes(chain) \/ UnlocksCurrent(files.active, chain)

Finalize ==
  /\ At("finalize")
  /\ IF ~Valid(worker.chain) THEN Fails /\ KeepFiles
     ELSE LET f == IF Promotes(worker.chain) THEN Promoted ELSE files IN
          \/ Publishes(f) /\ Steps("mark")
          \/ Uncertain(f) /\ FailsUncertain
  /\ UNCHANGED <<flavor, archive, marks, keys>>

(* The host records the final epoch and clears the preparation: two saves. *)
MarkFinal ==
  /\ At("mark")
  /\ \/ marks' = [marks EXCEPT !.final = Epoch(worker.chain)] /\ Steps("clear")
     \/ UNCHANGED marks /\ FailsUncertain
  /\ KeepFiles /\ UNCHANGED <<flavor, archive, keys>>

MarkCleared ==
  /\ At("clear")
  /\ \/ marks' = [marks EXCEPT !.prepared = 0] /\ worker' = [worker EXCEPT !.step = "open", !.opening = FALSE]
     \/ UNCHANGED marks /\ FailsUncertain
  /\ KeepFiles /\ UNCHANGED <<flavor, archive, keys>>

-----------------------------------------------------------------------------
(* rotate_password_with_credentials, and a policy with a new KDF target.   *)

Current == archive.store = worker.chain

(* Prepare.  A portable profile derives the record from the active one,    *)
(* which must be of the epoch before.                                      *)
RotatePassword ==
  /\ At("open") /\ Current /\ keys < MaxKeys
  /\ keys' = keys + 1
  /\ LET f == [files EXCEPT !.prepared = Own(Epoch(worker.chain) + 1, keys + 1)] IN
     IF flavor = "portable" /\ ~UnlocksCurrent(files.active, worker.chain)
     THEN KeepFiles /\ UNCHANGED worker
     ELSE \/ Publishes(f) /\ worker' = [worker EXCEPT !.step = "prepared", !.chain = Append(@, keys + 1)]
          \/ Uncertain(f) /\ FailsUncertain
  /\ UNCHANGED <<flavor, archive, marks>>

MarkPrepared ==
  /\ At("prepared")
  /\ \/ marks' = [marks EXCEPT !.prepared = Epoch(worker.chain)] /\ Steps("commit")
     \/ UNCHANGED marks /\ worker' = [worker EXCEPT !.step = "open", !.chain = archive.store]
  /\ KeepFiles /\ UNCHANGED <<flavor, archive, keys>>

(* Coordinator::commit of the transition: refused when the copy has moved, *)
(* certain, or uncertain with the old snapshot still served.               *)
Before(chain) == SubSeq(chain, 1, Len(chain) - 1)

Commit ==
  /\ At("commit")
  /\ \/ /\ archive.store = Before(worker.chain) /\ archive.visible = archive.store
        /\ \/ /\ archive' = [visible |-> worker.chain, durable |-> worker.chain, store |-> worker.chain]
              /\ Steps("finalize")
           \/ /\ archive' = [archive EXCEPT !.visible = worker.chain]
              /\ FailsUncertain
     \/ /\ UNCHANGED archive
        /\ worker' = [worker EXCEPT !.step = "open", !.chain = archive.store]
  /\ KeepFiles /\ UNCHANGED <<flavor, marks, keys>>

(* An exact retry of a rotation in the archive only finalizes.             *)
Retry ==
  /\ At("open") /\ Epoch(archive.store) > 1
  /\ worker' = [worker EXCEPT !.step = "finalize", !.chain = archive.store]
  /\ KeepFiles /\ UNCHANGED <<flavor, archive, marks, keys>>

-----------------------------------------------------------------------------
(* Another manager's rotation is received.                                 *)
ReceiveRotation ==
  /\ archive.visible = archive.store /\ keys < MaxKeys
  /\ keys' = keys + 1
  /\ LET chain == Append(archive.store, keys + 1) IN
     archive' = [visible |-> chain, durable |-> chain, store |-> chain]
  /\ KeepFiles /\ UNCHANGED <<flavor, marks, worker>>

(* The watch task: a session goes on under a new epoch only when its       *)
(* credentials are final.  While they are prepared it waits, for at most   *)
(* two seconds.                                                            *)
Adopts == marks.final = Epoch(archive.store) /\ marks.prepared = 0

Watch ==
  /\ worker # Missing /\ ~worker.opening /\ worker.epoch # Epoch(archive.store)
  /\ worker' = IF Adopts THEN [worker EXCEPT !.epoch = Epoch(archive.store)] ELSE Missing
  /\ KeepFiles /\ UNCHANGED <<flavor, archive, marks, keys>>

(* The user locks, the worker is killed.                                   *)
Lock ==
  /\ worker # Missing
  /\ worker' = Missing
  /\ KeepFiles /\ UNCHANGED <<flavor, archive, marks, keys>>

(* The host restarts, after a power loss with what was durable.  Opening   *)
(* the archive's store confirms what it finds.                             *)
RestartHost ==
  /\ \E file \in {archive.visible, archive.durable} :
       archive' = [visible |-> file, durable |-> file, store |-> file]
  /\ \E f \in {files, synced} : Publishes(f)
  /\ worker' = Missing
  /\ UNCHANGED <<flavor, marks, keys>>

CredentialsNext ==
  \/ Open \/ AttachArchive \/ Finalize \/ MarkFinal \/ MarkCleared
  \/ RotatePassword \/ MarkPrepared \/ Commit \/ Retry \/ ReceiveRotation \/ Watch \/ Lock \/ RestartHost

CredentialsSpec == CredentialsInit /\ [][CredentialsNext]_credentialsVars

-----------------------------------------------------------------------------
(* Properties.                                                             *)

(* Whatever survives of the archive and of the credential files, the       *)
(* device gets its own identity back: it is never locked out of its        *)
(* authorship, nor turned into a new reader.                               *)
IdentityKept ==
  \A chain \in {archive.visible, archive.durable}, f \in {files, synced} :
    Selected(chain, f) \in {"active", "prepared", "past", "staged"}

(* A session that goes on under the archive's epoch has its credentials    *)
(* active in that epoch: nothing is written under a rotation that a lock   *)
(* would have to undo.                                                     *)
SessionFinal ==
  worker # Missing /\ ~worker.opening /\ worker.epoch = Epoch(archive.store)
    => UnlocksCurrent(files.active, archive.store)

(* The device keeps its identity, and a session that goes on is final.     *)
CredentialsSound == IdentityKept /\ SessionFinal

=============================================================================
