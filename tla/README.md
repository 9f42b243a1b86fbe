# Taypeer: TLA+ models, checks and proofs

Taypeer keeps a password database in one encrypted file per device and lets the
devices of one trust set exchange changes directly. There is no server: every
device holds a complete copy, a *manager* device signs who belongs to the set,
and all guarantees follow from what each host writes to its own disk and accepts
from its peers. This directory models that core, and what a user meets of it.

Paths below are relative to the repository's root, `crates/` unless said otherwise.

## Inventory

### Parts, their state and operations

| part | source | state | operations |
| --- | --- | --- | --- |
| archive store | `taypeer-storage/src/archive`, `publication.rs` | the file, its protected marker (`Anchor`), `snapshot`, `uncertain`, `last_commit` | `create`, `open`, `commit`, `confirm_commit` |
| control chain | `taypeer-trust/src/control.rs` | the signed records | `genesis`, `transition`, `validate`, `continuous`, `admit_transport`, `reconcile` |
| invitations | `taypeer-trust/src/invitation.rs` | status of each invitation in the archive's journal | `issue`, `verify`, `request`, `accept`, `close` |
| coordinator | `taypeer-sync/src/coordinator.rs` | per working copy: store, `commit` receipt, `frozen` | `register`, `commit`, `command` (inventory, offer, join), `receive` |
| exchange | `taypeer-sync/src/node.rs`, `wire.rs` | connections, the journal of offers | one exchange per peer and database |
| connection observations | `taypeer-sync/src/observation.rs` | attempts and connections per database | guards that count while they live |
| administration | `taypeer-services/src/managed/administration.rs` | `pending_management` | invite, approve, close, consent, transfer, rotate |
| managed open and apply | `taypeer-services/src/managed` | the document, its queue of sources | open, apply, prepare and persist a publication, discard, collect |
| editing sessions | `taypeer-services/src/editing.rs`, `draft.rs` | drafts, revisions, `write_uncertain` | edit, save, reconcile, lock |
| runtime host | `taypeer-runtime/src/host.rs`, `session`, `worker.rs` | workers, generations, leases | unlock, lock, forward requests of a worker |
| network pump, joining | `taypeer-runtime/src/network.rs` | pending joins of the profile, download in progress | exchange every two seconds, `present_join`, `resume_join` |
| handoff workflow | `taypeer-runtime/src/management_handoff` | durable phases on two hosts | propose, accept, reject, retry |
| recovery | `taypeer-runtime/src/host/recovery.rs`, `platform_worker/recovery.rs` | an operation record, the candidate, the proof | recover a file into a new trust set |
| catalog | `taypeer-runtime/src/host/catalog.rs` | catalog file, registrations, contexts of open roots | create, import, relocate, open, adopt a recovered copy |
| profile, credentials | `taypeer-runtime/src/profile`, `platform_worker/credentials.rs` | keys, markers, staged credentials | stage, finalize, promote |
| biometric unlock | `taypeer-runtime` host and worker, `apps/taypeer-android/native` | wrapper record, keystore keys, reservations | enroll, disable, retry, open |
| document | `taypeer-document` | an Automerge document | user operations, history, merging |
| attachments and icons | `taypeer-services/src/binary.rs`, `managed/collection.rs`, `taypeer-storage/src/blobs.rs` | the contents a document, a form and a draft file name, and the objects that hold them | import, attach, rename, detach, purge, collect |
| standalone file | `taypeer-storage/src/file.rs`, `taypeer-services/src/persistence.rs` | one encrypted file, its lock and its draft file | create, open, unlock, save, cancel, reload |
| desktop window | `apps/taypeer/crates/taypeer-database-ui`, its client | the form, the queue of commands, the opening | open, type, save, navigate, lock |
| Android screen | `apps/taypeer-android` (`DocumentState.kt`, `native/src/document/session.rs`) | the form, one queue of commands, the native session | open, type, save, navigate, lock |
| cipher binder | `apps/taypeer-android` (`CipherBinder.kt`, `CiphertextDescriptors.kt`), `native/src/document/ciphertext.rs` | worker process, endpoint, native writer, descriptor tables | snapshot, commit, draft, kill and replace the worker |

### How they interact

One host process per profile owns the files. A *worker* process holds the
password-derived keys of one unlocked database, seals new versions and sends them
to the host; the coordinator in the host has no keys, checks each request under a
mutex and commits it with the archive store. Peers talk to the same coordinator
through `Backend::command` and `Backend::receive`; their objects stay encrypted and
are committed by the coordinator without any worker. So one file has two writers
that do not know of each other, the worker (which prepares outside the mutex) and
the network (which commits inside it). The host watches the file and wakes the worker,
which decrypts, verifies and merges what has arrived. Every control record a device
accepts comes from another device's file, after any delay, and a device may have been
restored from a backup or copied. The window sends commands to the worker through a
queue and polls for answers; a supervisor revokes access and ends the process. On Android the
worker is an isolated process that reaches its file only through Binder calls which carry
descriptors; the screen drives it through one queue that a lock may overtake.

### What is hard

* **Crashes and failing I/O.** A commit is marker, rename, sync, marker: each step
  can fail and the host can die between two of them. A failed sync after a rename
  leaves a version that is visible and may vanish. The same holds of draft sidecars,
  credential files, the catalog, journals of handoffs and biometric records.
* **Answers that are lost.** `CommitUncertain` means "perhaps"; the retry must be
  recognised as the same request, and confirmed by syncing and not by reading.
* **Two stores without a common transaction.** Archive and credentials at a rotation,
  record and keystore at a biometric enrollment, file and catalog at a relocation.
* **Interleaving.** Publications prepared outside the mutex; join requests and
  objects that arrive meanwhile; two recipients of one invitation; a close that races
  requests over a channel of one place; guards that drop late.
* **Stale authority.** Consents, invitations and signed records that are used after
  the chain went on, also after management was handed away and back.
* **Forks.** A copied profile signs two successors of one record; honest crashes and
  retries must never look like that.
* **Unreliable delivery.** Exchanges are repeated, delayed and interrupted anywhere;
  objects arrive before the sources, controls and attachments they depend on.
* **Concurrent edits.** Moves, deletions, restorations and resolutions made apart.

`PROJECT.json` lists each of these at its line under `hazards`, with the properties
that cover it.

### What makes each part correct

* Archive store: what was reported as saved is never lost, acknowledged versions form
  one line, an interrupted commit never locks the user out, a store that is not
  uncertain serves what the disk holds.
* Control chain: receivers accept exactly what a manager can produce; revocation
  changes the epoch; membership intervals mean what `continuous` says; management
  moves only to somebody who agreed to that very step.
* Coordinator: neither writer's acknowledged data is overwritten by the other.
* Authority across devices: one manager at a time, no fork without a copied profile,
  a fork stops the copies that know of it and they never switch branches.
* Invitations: an admission redeems a live invitation of the current manager for the
  device that asked for it; an admitted device gets its copy.
* Exchange and application: a change reaches every member, nothing still needed is
  collected, a discard holds, copies come to rest.
* Handoff, recovery: management moves, and a recovered copy replaces the old one, only
  as the users decided; no receipt confirms what a crash could undo.
* Sessions, editing, window: revoked access ends everything; acknowledged input is
  found again; nothing passes for saved before it is.
* Attachments: whatever a document or a form names can be read, and counts against the quota.
* Standalone file: what was stored is in the file or beside it, and a copy nobody read is not
  replaced.
* Cipher binder: a worker is told the truth of its writes, and nothing it held outlives it.
* Document: the groups stay a tree, deletion wins, late changes stay recoverable, and
  no device makes a document that others refuse.

## Modules

| module | models | uses |
| --- | --- | --- |
| `ArchiveStore` | the writer of one file with its marker, step by step | |
| `AtomicArchive` | what that writer promises: a crash-atomic archive | |
| `Coordinator` | local and network requests over one store | extends `ArchiveStore` |
| `Control` | operators of the control chain | |
| `ControlChain` | a receiver that validates arbitrary records | extends `Control` |
| `Authority` | the chains of several working copies, exchanges and forks | extends `Control` |
| `Enrollment` | invitations, requests, admissions and downloads | extends `Control` |
| `Handoff` | the decision of two users to hand management over, on two hosts | extends `Control` |
| `Exchange` | inventories and object transfer between copies | |
| `Replication` | what unlocked workers make of the objects | extends `Exchange` |
| `Observations` | live connections and attempts as shown to the user | |
| `Credentials` | active and prepared credentials around a rotation | |
| `Editing` | forms, their snapshots and the draft sidecar | |
| `Document` | groups and entries merged by causal history | |
| `Recovery` | recovery into a new trust set by isolated workers | |
| `Catalog` | working copies, registrations and relocation | |
| `Sessions` | a supervised worker process, its pipe and its callers | |
| `Biometry` | wrapper record, keystore and the one-shot opening | |
| `Workspace` | the desktop window over one database | |
| `Presenter` | the Android screen over one document | |
| `CipherPort` | an isolated Android worker, its endpoint, writer and descriptors | |
| `Binaries` | contents of attachments and icons, from import to collection | |
| `FileStore` | a standalone encrypted file and its draft file | |
| `*_proofs` | theorems (see Proofs) | extend the module they are about |

`MC*` modules give the instances for TLC. Components that do not interact share a run:
the variable `part` (in `MCShared`, whether `records` is empty) says which component a behaviour is about, the others rest, and each property
speaks of its own component's behaviours.

### ArchiveStore

A version stands for the whole bytes of an archive: the fingerprint covers the
metadata, and the manifest names each object. `visible` is what the path shows,
`survivors` is the set of contents the path may hold after a power loss: a rename
adds the new content, a successful sync of file and directory leaves only the
visible one. `anchor` is the marker in the operating system's protected storage,
written atomically but perhaps reported as failed although it was written
(`SaveAnchorFails`).

`pc` names the I/O step a call is about to make; each action is one such step with its
failure alternatives, in the order of `write.rs` and `read.rs`: `Commit` →
`CommitMark` → `CommitRecheck` → `CommitPublish` → `CommitSync` → `CommitAck`, and
likewise for creating, opening and confirming. `Exit` and `PowerLoss` may come
between any two. `Replace` is another program that puts any version, old or
unknown, at the path or removes it; `HostSpec` is the system without it, `StoreSpec` with
it. `acked` is a history variable: the last version a caller was told is saved.

### Control, ControlChain

A chain is a sequence of records. A record's place stands for its `sequence` and
`previous` link, its signature is the name of the signing device, and `Hash` of a
chain is what the head's hash commits to. `Genesis` and `CanExtend`/`Successor`
translate `genesis` and `transition` (the producer), `ValidBody` and
`ValidSuccessor` translate `validate_body` and `validate_successor` (the receiver),
which recomputes the kind of step from the two bodies. `ControlChain` presents
every body over small sets of values to the receiver, honest or not.

### Authority

A replica is one working copy; `device` says whose keys it uses, chosen once from `Profiles`,
and two replicas with one device are a copied profile. `saved` is the committed chain and fork
evidence, `doubt` the candidate of a commit that ended in `CommitUncertain` (a
restart finds either). `Administer` signs and commits a transition, `Consent`
signs a handoff consent, `Inventory` hands a copy's metadata to a peer which may
`Offer` it to its own coordinator any time later, with the three outcomes of
`Coordinator::offer`: evidence, fork, growth. `Join` creates a copy from the
manager's metadata and `Copy` copies a profile. With `DirectOffers` a caller of the
library may also send a frozen copy's metadata without asking its coordinator, as a
test of the repository does.

### Coordinator

Adds to `ArchiveStore` the coordinator's receipt, the request in the store
(`caller`), the worker's prepared request (`draft`), the immutable request it keeps
for a retry (`held`, `PendingTransfer`) and what it has told its callers (`acks`). Versions
carry content: an edit or object plus everything in the version they were built
from. A caller is answered in the step in which its call returns. `Lost` is the
case that the commit is done and spooling the snapshot for the worker fails, so the
worker sees an I/O error. Edits in `Retained` are those the worker repeats with the
same `PreparedCommit` (management); others are sealed anew.

### Enrollment

The manager's worker prepares (`CreateInvitation`, `ApproveInvitation`,
`CloseInvitation`, `Administer`) and its coordinator publishes (`Publish`, or `Refused`
when the snapshot moved on). Recipients record their intent in the profile before
they present it, present (`PresentJoin`), poll (`ResumePending`, `ResumeAccepted`)
and download in stages, each of which `Interrupted` may end. `HandedBack` is the
return of management from another device by way of an exchange. Time is a bounded clock and
matters only for an invitation's expiry.

### Handoff

`management_handoff.rs`, `drive.rs` and `store.rs` keep a journal of intents and phases in
the protected profile of each host (`journal`). A *driver* is one call of
`propose_management`, `accept_management`, `reject_management` or `retry_management`; its
stages are the points at which the code gives up every lock to ask the worker or the
other host, so anything may happen between two of them: another driver, a lock of
the worker (`session` is lost), an exchange, another administrative operation, a restart.
`Abort` ends a call wherever an answer is lost, a check refuses or a write fails before
it took effect. Requests of the other side are answered by `ReceiveProposal`, `Reply`
and `RecordApplied`, which together are `Owner::command` and `Owner::reply`; a status
request may arrive at any time, so `RecordApplied` needs no driver, and `Reply` waits until
a due completion is recorded, as the code records it before it answers.

A save of the journal succeeds (`Published`) or ends in `CommitUncertain` (`Uncertain`):
then either journal is visible, a power loss may reveal any of `lasting`, and the store
publishes its candidate again before any later use (`Republish`). The archive is here one
chain and a chain in doubt; its own steps are `ArchiveStore`'s and `Coordinator`'s
subject. The worker's retained transfer (`pending_management`) can be confirmed
(`exact`) or not, the latter when the store refused it because of another uncertain
commit, which is finding 2 met from the other side. The consent and the transfer control are
determined by the intent they answer, so records do not carry them. A new proposal
continues as a retry, as in the code. `asked`, `agreed`, `refused` and `told` are
history: what the users decided and what was reported.

### Exchange

A node's pump starts a conversation with an admitted peer; each step is one request at
one coordinator: `OfferTo`, `Put`, `Ask`, `TakeInventory`, `Fetch`, so anything may happen
between two of them. A conversation carries the inventory it read or the objects the other
side needs, which may both be stale by then. `announced` is the journal of offers,
`unseen` says which readers of a file (the worker's snapshot, the host's watch) have not seen
its latest fingerprint. `EndRefused` is a request that either side refuses, `Break` a lost
connection or answer. The chain is linear here: forks are `Authority`'s subject.

### Replication

Adds the unlocked workers. Objects are changes, blobs, checkpoints and baselines with the
original sources they hold; a document is a set of sources. `Unlock` opens the copy
(own current checkpoint, or the latest baseline) and applies what has come, `Watch` queues a
wakeup, `Apply` is `apply_received` with its passes over the packets, `ApplyWaits` the
`AwaitingData` outcome, `Edit`, `Discard`, `SetPolicy`, `Revoke` and `Collect` the commands of
the user, and `Publish` the commit they share. `Expire` closes a session whose epoch was
rotated. A worker's transaction is one step here; that a stale candidate changes nothing
is `Coordinator`'s subject.

### Observations

Tasks begin attempts and hold a guard of their connection; `Joined`, `Told` and `Left` are
the three locked operations, and a task may be cancelled, end late, or drop its guard after the
database was forgotten or the endpoint closed. The generation that `since` records is
what tells an old guard from a new entry.

### Credentials

An archive is the sequence of the keys of its epochs; a credential is sealed under one of
them. `RotatePassword`, `Commit`, `Finalize` are steps of one command of the worker, with `Fails`,
`FailsUncertain`, `RestartHost` and received rotations (`ReceiveRotation`, `Watch`) between any two.
`Portable` and `Platform` give the order in which each flavor tries its records.

### Editing

The worker's drafts, the immutable snapshot of a save, and the sidecar that carries both
over a lock or crash. A save is `SaveDraft`, `SaveCommit`, `SaveTidy`; each write may
fail, stay in doubt, or be the last thing before the process is killed.
`ReconcileUncertain` is the automatic repetition of a save whose commit stayed in doubt.

### Document

A document is a causally closed set of changes; `Visible`, `Selected` and `Merge` are
what Automerge is used for, and are marked external. The commands on groups and entries
(create, edit, move, trash, restore, purge, clone, extract, resolve, go back to a revision)
write keys exactly where `operations.rs` does. `Valid` is the validation after each
merge and command.

### Recovery, Catalog

`Recovery` is the protocol between workers that freeze a source and prepare a seed, and
the host that publishes, proves and adopts it; every host call is a list of durable writes
of which a failure may leave any prefix (`Stops`, `Past`). `Catalog` treats its
calls in the same way (`CreateWrites`, `StageWrites`, `MovedWrites`, `ConfirmWrites`, ...) and adds the
contexts that the host has opened in memory.

### Sessions

One supervised process: the `jobs` channel of one place, the pipe actor, the child, the
callers and `ProcessControl`. The child may hang or crash at every step, callbacks go to the
host and back over the same pipe, and `Close` must pass the channel that callers use.

### Biometry

The wrapper record (`file`, `synced`), the keystore (`keys`), the reservation (`busy`) and the
attempts that hold it without a mutex across a prompt. A publication may fail or stay
uncertain; a fence may fire at any step; the worker's key input can be used once.

### Workspace

The window (`w`, `form`), the host thread with its queue of openings, the worker's command queue
and its answers, and whoever revokes access. `Type`, `Save`, `Navigate`, `Lock` are clicks,
`Poll` takes the answers that have arrived, and each worker command may fail.

### Presenter

`ui` is the screen's state, `commands` and `command` its one queue and the coroutine that takes
from it, `service` the native session. A command that suspends (`Suspends`) goes on only when its
answer is taken, and locks, edits and polls come in between. `InputKept` exempts in `late` what is
typed while the form is being deleted or replaced: `navigating` is reset by any command of the queue that
fails (`DocumentState.kt:560-563`) and by dismissing the decision dialog (`LibraryScreen.kt:364`),
and such input is dropped without a message. Two things the model shows without losing
input: an attempt that never reached the service makes every later save fail once more is typed
(`DocumentState.kt:1106,1144`, `editing.rs:1462`), and while an uncertain save waits, patches fail
before the reconciling save is sent (`DocumentState.kt:1053,1103`).

### CipherPort

A worker is one generation of the isolated process. A call goes through places: in the worker, in the
endpoint's queue, in native code, published, answered (`transaction`); descriptors are members of
`leases` until somebody closes them. The endpoint may be closed, the process killed and an
answer lost at each of them. `known` is what a worker believes, `heard` what it was
told, `effects` what really happened. Simplifications: a next generation starts when the process
before is dead or its endpoint closed (`DocumentManager.kt:46-51`); the delivery of an answer is one step with the end
of the call; a call that fails before it is sent leaves no trace; the candidate of a recovery is not told from
other files, and all reading calls are one. `freeze_recovery` counts as reading, because it answers an ordinary error
even if the source was frozen, and reconciles when repeated. A late draft of a killed generation can replace
that of a newer one (no generation is checked in `cipher_persistence.rs:94-110`), therefore `DraftIsLatest` speaks
of the drafts of one generation.

### Binaries

A blob is a name in the order of import and a content; `doc`, `form`, `attempt`, `sidecar` and `copy` name
blobs, `store` is what the open session has and `copy` what the archive has. The session reads what the host serves
(`served`): after an uncertain commit that is the old snapshot, or the one put in place, and the host's store
(`unsure`) refuses every commit without writing, those of other devices too, until the file is registered again
(`Reattach`). A form, the direct commands, received changes, `Purge` and `Collect` meet in every order, with
crashes and uncertain commits. Two history
variables name what the code lets through. `overlooked`: attach, rename in a form, detach from the saved entry,
purge and collect, then save the form; the collected content is still bound, so `seal_new_blobs` skips it
(`managed/mod.rs:216-219`), and the saved document names an object that does not exist (`collection.rs:174` says
that an open editor must be handled first, which nothing enforces). `uncounted`: a form's
renaming brings a content back without a quota count.

### FileStore

A save is three writes (draft file, file, draft file), each a rename and a barrier that may fail; `files` and
`sidecars` are what a power loss may leave. `Replaced` is another program that puts a copy in place. What is
stored survives with one exception, which `kept` drops: a publication whose barrier failed,
then the discarding of its draft with a failed barrier when the file is opened again, then a power loss. Both were
reported as uncertain.

## Runs

| run | question | result |
| --- | --- | --- |
| `host` | the archive writer with four versions, failing I/O, process death and power loss; a supervised process with a hanging or crashing child; one recipient with two invitations, expiry and interruptions; a standalone file with three writes and a foreign copy; fair | `TypeOK`, `Recoverable`, `AckedSurvives`, `CertainIsOnDisk`, `ImplementsAtomic`, `Reopens`, `PreservedIsDurable`, `RevokedEnds`, `AdmittedReceives`, `FileSound` hold |
| `shared` | two devices and every record body, chains up to four; two devices that replicate | `AcceptedIsProduced`, `ContinuousMeansUninterrupted`, `RevokedByEpoch`, `HandoffConsented`, `BlobsKept`, `SourcesKept`, `QuietWhenLevel`, `DiscardHolds` hold |
| `authorities` | three devices with profiles of their own, chains up to four; a copied profile, chains up to three; the connections of two databases; credentials with four keys; two forms of the Android screen | `OwnProfilesAgree`, `EvidenceSound`, `ObservationsSound`, `CredentialsSound`, `ScreenSound` hold |
| `local` | other programs replace the file; three commits of two edits and one object; the document; recovery; catalog; two recipients who compete, chains up to five; editing; attachments | `OpenNotBehind`, `AckedLinear`, `AcksSurvive`, `DocumentSound`, `MergeAccepted`, `ConfirmedTakesEffect`, `RecoverySound`, `CatalogSound`, `InvitationsSound`, `KeepsRequests`, `EditingSound`, `BinariesSound` hold |
| `workflows` | two calls of two hosts on one handoff; two enrollments, a disabling and an opening; one form of the window; two generations of an isolated worker | `HandoffSound`, `BiometrySound`, `WindowSound`, `PortSound` hold |
| `replication_live` | two devices, a revocation, one lost conversation, fair | `Converges` holds |
| `authority_spread` | a copied profile and a third device, fair exchanges | `EvidenceSpreads` is violated (finding 1) |
| `coordinator_receipt` | one edit, one object | `ReceiptIsRetained` is violated (finding 2) |
| `coordinator_resume` | one edit, fair | `EditsResume` is violated (finding 3) |
| `document_lifetimes` | an entry with two lifetimes, a resolution on each of two devices | `MergeAccepted` is violated (finding 4) |
| `catalog_adoption` | a recovered copy on a portable profile | `RecoveredAdopted` is violated (finding 5) |
| `workspace_closing` | one form, two inputs | `ClosedIsSaved` is violated (finding 6) |

### Bounds

*Versions.* Three are needed for a commit on top of another whose outcome is in
doubt, a fourth for a sibling of either. Nothing compares versions except by equality
and `base`, so in `local` a new version is always the least unused one (`InOrder`).
The theorems hold for every set of versions.

*Control records.* Revoking and admitting again takes four records (genesis, admit,
rotate, admit), as does handing management over and using it. Away and back after an
invitation takes two operations that are no invitations; `local` has one, so no run shows
`InvitationsSound` there, and what is known of it is the theorem `MembershipIsInvited`.
`MaxControls` and `MaxMembers` are the code's own limits
at a small value, so reaching them is also checked. The handoffs of `workflows` grow the
chain to three: genesis, what overtakes, the transfer.

*Replicas.* A fork needs two signers of one device and a third copy that meets both.

*Consents and time.* One outstanding consent (`MaxConsents`) can be overtaken by any other
transition. An invitation's window is one tick; with time up to 1 (`host`) it can expire at
every stage of a download. In `local` time stands still, because expiry only
removes behaviours there.

*Handoffs.* Two calls are enough for one to find a record the other has moved: a call
holds one intent and compares phases only with the journal it finds. One operation is
proposed (`Proposable`) and another one can overtake or follow it, a rotation with or
without revoking the recipient (`Others`), also in doubt. The limit `MaxHandoffs` is modelled
and not reached.

*Replication.* Two nodes, one author and one change with an attachment are enough for a
change to arrive without its blob, before its control, or while it is discarded; two further
disturbances in all (`MaxSteps`), one lost conversation, a chain of two.

*Sessions, connections.* One process, three requests by two callers, one input; two databases, two
attempts, one inbound connection, one forgetting; three rotations of the credentials (`MaxKeys`). The theorems
lift all of these bounds.

*Document.* Each behaviour starts from a history (an empty tree, a group in trash, a late change
around a purge, an entry with two lifetimes) and adds two changes, one per device or both on one:
what is made apart and merged. The commands given to each history are those that can interact
there. `revision` is given to the history with
two lifetimes only in `document_lifetimes`, where it leads to finding 4.

*Recovery, catalog.* Two workers at a time with one more generation, or three in sequence with
two: a worker left over from a former attempt, and an attempt restarted after an edit. The
catalog has one chosen destination, two recoveries and two new trust roots, so a recovered copy
can be recovered again.

*Editing, window, biometry.* One form with two inputs, or two forms of which one is
parked, over one value and one that is refused; one form and two inputs in the window, with
two openings, one outside lock and one fault; two enrollments, one rotation, one fault
and one death.

*Attachments, files.* Two names over two contents with a quota of one, so that a name can outlive another of the
same content and the quota is reached (which content comes first is no difference: `ContentsInOrder`); one save, one
received change, one fault. Three writes of a
standalone file with two edits and one foreign copy: a save over a save, with a copy between the check and
the rename.

*Android.* Two forms and two inputs on the screen, with one command waiting while another runs. Two worker
generations (`MaxWorkers`) share two numbers (`MaxNumber`) of archives and drafts, so one generation can create
and commit, or store a draft over what another has read or created. The theorems about `Binaries`, `FileStore`, `CipherPort`
and `Handoff` hold without any of their bounds.

Deadlock is not checked in the runs that pass: some component may really stop, because the
bounded chain is full, the calls are used up or nobody wants to change anything.

### Fairness

* `ArchiveStore`: a call that has started is carried to its end (it runs on one
  thread, without waiting for anybody), and a user opens a closed file again.
  `Reopens` speaks of behaviours in which faults eventually stop.
* `Authority`: each pair of admitted copies that can talk exchanges inventories again
  and again; the network pump (`taypeer-runtime/src/network.rs:183-243`) does so
  every two seconds with every admitted peer that has a route.
* `Coordinator`: a request in the store is carried to its end under the mutex (weak
  fairness). The worker repeats its saves and peers their deliveries, and the
  coordinator's mutex goes to each of them at some point although others use it
  meanwhile (strong fairness).
* `Enrollment`: the recipient goes on resuming its join as the application does while it
  is open, and stages of a download are finished unless they are interrupted. Nothing
  obliges the manager to approve.
* `Sessions`: the supervisor's thread, its grace period and kill, and the actor that
  reads an ended process's pipe go on. The child and the callers are free to stop.
* `Replication`: the pump and the watch have timers, a conversation is finished or
  times out, and a user who locked the database opens it again.

### Findings

1. **Fork evidence does not spread.** `authorize` (`taypeer-sync/src/coordinator.rs:380`)
   refuses every command on a frozen copy, including the local `Inventory` with which
   `Node::exchange` starts. The copy that holds the evidence therefore never passes it on,
   and the devices that each know one branch go on writing. `docs/p2p-acceptance.md:41`
   lists handing the signed fork to a third participant as an accepted scenario; the test
   behind it calls `Backend::command` with the snapshot's metadata directly.
2. **A receipt for something that was never published.** When the store is uncertain about
   a received object it refuses a local request with `CommitUncertain` before writing
   anything (`taypeer-storage/src/archive/write.rs:112`), and `Coordinator::commit`
   (`coordinator.rs:233`) records a doubtful receipt for it. The retry that
   `docs/storage.md:125-130` describes finds no retained candidate.
3. **Edits do not resume after `CommitUncertain`.** `reconcile_uncertain` reads the
   coordinator's in-memory snapshot, which is the one before the uncertain commit, and
   seals the edit anew. It differs from the doubtful receipt, so `coordinator.rs:203`
   refuses it and all that follow, until the file is registered again.
   `docs/sessions.md:22-23` and `docs/storage.md:117-118` say that the service reconciles
   automatically.
4. **Two resolutions that agree cannot be merged.** Going back to a revision of another lifetime
   puts its attributes under their old ids (`taypeer-document/src/operations.rs:334`). When two
   devices do so independently, the merged document has two objects with one id, and each
   device refuses the other's change with `DuplicateId`. `docs/data-model.md:237` promises one
   shown variant.
5. **A recovered copy is not adopted on a portable profile.** `open_external` looks for the
   proof in the protected scope of the copy just opened (`host/catalog.rs:662`); it was saved in
   the scope of the source. `docs/architecture.md:228-231` says that opening the result
   replaces the catalog item.
6. **A key typed while a saved form closes is lost.** Between the request to delete
   the confirmed draft and its answer the form takes input, which the worker refuses and the answer
   drops (`taypeer-database-ui/src/ui/workspace.rs:812`). `docs/data-model.md:448` says that
   a form closes only without later input.

No run shows lost saved data in any of these: `AcksSurvive` and `EditingSound` hold throughout.

## Proofs

TLAPS proves the following for every value of the constants, under the assumptions named.
None of the properties is inductive; each module strengthens what it proves.

| module | theorems | assumes |
| --- | --- | --- |
| `Coordinator_proofs` (archive store) | `TypeCorrect`, `NeverBehind`, `LinearAcknowledgements` of `StoreSpec`; `AlwaysRecoverable`, `AcknowledgedSurvives`, `CertainStores`, `Refinement` of `HostSpec` | `NoneAssumption`: `Nil` is not a version |
| `Coordinator_proofs` (coordinator) | `AcknowledgedIsKept` | `NoneAssumption`, `CoordinatorAssumption` |
| `ControlChain_proofs` | `OnlyProducedIsAccepted`, `IntervalsAreUninterrupted`, `RemovalChangesTheEpoch`, `HandoffNeedsConsent` | `ControlAssumption`, `DeviceAssumption` |
| `Authority_proofs` (authority) | `ProfilesAgree`, `EvidenceHolds` | nothing |
| `Authority_proofs` (observations) | `ShownIsReal` | `Nil` is not an entry |
| `Enrollment_proofs` | `MembershipIsInvited`, `RequestsRemembered` | `Known`: the first manager is one of the identities |
| `Replication_proofs` | `AttachmentsAreKept`, `SourcesAreKept`, `LevelIsQuiet`, `DiscardsHold` | `Distinct`: `Nil` is none of the records |
| `Sessions_proofs` (sessions) | `DraftPreserved` | `Distinct`: `None` is none of the words the fields hold |
| `Binaries_proofs` (attachments) | `BinariesAreSound` | `LimitAssumption`: the quota is a number; `NothingAssumption`: `Nothing` is no form |
| `Binaries_proofs` (credentials) | `CredentialsAreSound` | `Distinct`, its hypothesis: `Missing` is no record |
| `Sessions_proofs` (file store) | `FilesAreSound` | `AbsentAssumption`: `Absent` is none of the records; `BoundsAssumption` |
| `Workflows_proofs` (handoff) | `HandoffIsSound` | `HandoffAssumption`; `NoneApart`, its hypothesis: `None` is neither a chain nor a worker |
| `Workflows_proofs` (cipher port) | `PortIsSound` | the bounds are numbers |

The assumptions only say that the value which stands for "absent" is told from what
may be present; TLC's model values satisfy them in every run.

**Archive store.** The argument has two layers. `LineInv` does not mention the disk, and
therefore stands however the file is replaced: every version in use was made (`RefsMade`),
the marker's accepted version is the acknowledged one or its child and a prepared one is a
child of the accepted (`MarkerLine`), and `CallLine` says what each call in progress has
established in memory and marker when it reaches a given step (a candidate in `commit_ack` is a
child of the acknowledged version, a confirmed candidate is the retained one, and so on).
Acknowledging is then always a step from a version to its child. `DiskInv` adds what the
steps know of the path if only the host writes (`CallDisk`), `Recoverable` and `AckedSurvives`
themselves, and the fact that makes them go through: while the marker accepts something not
yet acknowledged, that version alone survives. The retry after a lost acknowledgement needs it,
because its sync has already happened. `Refinement` maps `stable <- acked` and
`possible <- survivors`.

**Coordinator.** Every step of the store is a step of `ArchiveStore`, and the others leave it alone
except for one: a candidate that the coordinator throws away is made again later. `LineInv`
and `DiskInv` survive that because nothing refers to such a candidate (`Unused`), which
`RequestsOK` keeps for the worker's prepared request. `Grows` says that a candidate holds what
its base held, and `Settled` that a snapshot which is served but not acknowledged is the only
version on the disk; what `AckedSurvives` says of the store then gives `AcksSurvive`.

**Control chain.** `Bodies` is not constrained: a record may come from anyone. `IsChain` and
`EpochsOrdered` say what validation of one successor leaves true of each record and of the order of
epochs; with them each of the four properties is carried over an accepted record.

**Authority.** `GuardInv` needs nothing of the profiles: what a copy stores, or may find stored
when a doubtful commit is settled by a restart, contradicts the chain beside it and has stopped the
copy, and a commit in doubt never shortens the chain. It gives `EvidenceSound` also for copied profiles.
If no profile is copied (`OwnProfiles`), three facts hold of the chains that anybody has saved,
handed out or in doubt: they agree pairwise (`Agree`), each record is signed by the manager of the
one before (`Signed`), and whatever a device signed and *another* copy holds is in the chain the
signer has saved (`Kept`). `Kept` is the point: a record lost with a doubtful commit was lost to everybody,
so a manager that signs again after a crash continues all chains there are, and a recipient that became
manager is the only one who does. Passing chains on (`MoveKeeps`) can only shrink what is held apart from
the saver's own copy.

**Enrollment.** `MetaOK` speaks of any metadata, saved, prepared or in doubt: each member was admitted
by an accepted invitation of the management and the epoch that issued it (`Redeemed`). `Follows` says
what the next metadata may do to an invitation (`Keeps`): a request stays its recipient's until it is
closed. `RecipientOK` covers the recipient's profile and its staged download.

**Replication.** The invariant `Sound` is about one node at a time: an open worker shows what is
saved (`Served`), the attachments of what it shows are there (`HasBlobs`), an expired session is one the
watch still has to look at (`Watched`), and only existing sources are discarded (`Decided`). `Served`
is needed for both action properties: a collection compares with the worker's document, and what
counts is the saved one.

**Observations.** `Counts` ties the attempts of an entry to the tasks of its own life, `Follows` its
phase to the latest of them, and `Past` keeps lives from reaching into the future. A guard of an earlier
life can therefore not touch a new entry.

**Sessions.** `Pipe` ties what is in the pipe to what the child is doing, `Durable` the acknowledgment
to the disk, and `Counted` each answer to its request while access is permitted. `Fresh` says that a
session has nothing before it is connected, `Revokes` that a process is asked to close only after
access was revoked.

**Binaries.** `IInv` says that every place which keeps contents (the session's store, the file, the draft file)
has an object for each name bound there, unless it was overlooked, that names and contents match between those
places, and that what a form shows beyond its base was counted. `ServedSound` says the same of the snapshot the host
serves, which is the copy unless the store is in doubt; while it is, nothing is written (`StaysStep`). A save moves
names between places; `TakeStep` and `CommitStep` do that once for all of them.

**Credentials.** `Holds` says what a credential file needs for the device to be itself, and both files, as seen
and as saved, hold it under the archive served. That survives a crash because the archive that
comes back is the one served or extends it, and while an extension is in doubt the active records open an
epoch of the served one (`ArchiveOK`). `MarksOK` ties the host's mark of final credentials to the
files; `WorkerOK` says that no epoch later than the one a worker finalizes was final before.

**File store.** `FileInv` ties what is visible to what may be found after a power loss in each state of a save:
while the file's barrier is outstanding the draft file, whose own barrier has passed, holds the edit, and it
is removed only after the file's barrier or a confirmation. `blind` stays false because the fingerprint checked last is the base
the candidate was built on, and every write has a fresh one.

**Cipher port.** `PortInv` is `PortTypes`, `Capable` (who holds a descriptor and the writer in each place a call may
be) and `Truthful` (a call's answer, once made, agrees with what the file and the draft have gone through).
A publication that is in doubt on one side is one which the other has carried out or has refused, never
one it is still to carry out.

**Handoff.** A device forgets nothing but what a power loss may take, so `HandoffInv` speaks of every journal a
device may come back with, not only of the one it sees: `RecordOK` holds of each of them. Records only move on
(`Follows`) and chains only grow (`Begins`); what is established of them once, `Advances` carries over every
later step, and each action has to show only what it adds. `Decided` is the heart: a transfer in an archive, or in a
publication in doubt, names an intent whose consent the recipient can no longer forget (`Stands`). It goes
through because a worker prepares a transfer only for a call that has an answer (`Prepared`: a retained commit is the
one in doubt, for the intent its call remembers), and an answer, from the moment it is sent,
stands at its sender (`CallOK`). The sender's journal was written before it answered, whichever way the answer
took and however often the call was repeated.

Each invariant has one lemma per action or group of actions, and a lemma for the footprint of
those that leave it alone.

### Only model-checked

* Liveness: `Reopens`, `RevokedEnds`, `AdmittedReceives`, `Converges`, and the refuted
  `EvidenceSpreads` and `EditsResume`. Temporal reasoning with fairness is out of this prover's reach.
* `DocumentSound`, `MergeAccepted`: `Document` computes what is visible by recursion
  over groups and by choice over histories, which would need induction over data.
* `RecoverySound`, `BiometrySound`, `ConfirmedTakesEffect`,
  `CatalogSound`, `EditingSound`, `WindowSound`, `ScreenSound`: safety properties whose inductive
  invariants are still to be written.

## Not modelled, and the plan

Left out for good:

* cryptography and byte formats (`taypeer-core`'s crypto, streams, key derivation): hashes and
  signatures are what they commit to, and nobody forges one;
* QUIC, framing and routes; Automerge's own merging, of which `Document` uses what `taypeer-document`
  relies on;
* rendering of the user interfaces, lists and searches of the window, and a second database open in it;
* the scalar fields of entries, their order, and purging of history;
* transient read-only scopes, the reasons and epochs of locks that are only shown;
* the older text draft and keyed objects of the standalone file;
* export and viewing of binary data, icon receipts, and the synchronization panel;
* the operating system's prompt and keystore beyond the outcomes they report, Android's library of documents and
  the opening of files a user selects (`selected.rs`).

Left to do, by what it would say of the system:

1. Inductive invariants for the properties that are only model-checked. `Recovery` comes
   first: it relates durable records of two parties, and its theorem would lift the bounds on
   attempts.
2. Liveness of a handoff whose users retry, unless finding 2 stands in its way.
