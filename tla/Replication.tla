---------------------------- MODULE Replication ----------------------------
(***************************************************************************)
(* What the unlocked workers make of the ciphertext that Exchange moves    *)
(* (taypeer-services managed/): a worker opens its copy, saves local       *)
(* changes, accepts received original sources, collects redundant objects  *)
(* and, on the manager, publishes controls with a new baseline.  The host  *)
(* watches the copy and wakes the worker (taypeer-runtime lib.rs).         *)
(*                                                                         *)
(* A document is the set of original sources it contains.  A worker's      *)
(* transaction (snapshot, candidate, commit) is one step: the coordinator  *)
(* refuses a candidate whose snapshot is not the current one (Coordinator),*)
(* and such an attempt changes nothing.  Read keys follow the epoch: who   *)
(* opened the current epoch reads all earlier ones.                        *)
(***************************************************************************)
EXTENDS Exchange

CONSTANTS
  Manager,
  Authors,       \* the nodes whose users make changes
  Fresh,         \* the members that have not opened the database yet
  Absent,        \* members whose devices stay away
  WithBlob,      \* the sources that refer to an attachment
  MaxHead,   \* bound: length of the control chain
  MaxDiscards,   \* bound: sources a user discards
  MaxSteps       \* bound: local changes and disturbing commands together

ASSUME ReplicationAssumption ==
  /\ Manager \in Nodes
  /\ Authors \subseteq Nodes
  /\ WithBlob \subseteq Nat \ {0}
  /\ Fresh \subseteq Nodes \ {Manager}
  /\ Absent \cap Nodes = {}

VARIABLES
  checkpoint,   \* manifest.body.checkpoint: the active checkpoint of a copy
  baseline,     \* manifest.body.baseline
  proof,        \* SourceProof and dependencies of each source, in the order made
  sealed,       \* checkpoints each node has sealed
  session       \* the open worker of each node: ManagedState

workerVars == <<checkpoint, baseline, proof, sealed, session>>
replicationVars == <<exchangeVars, workerVars>>

Object(kind, by, number, sources, control, discarded) ==
  [kind |-> kind, by |-> by, number |-> number, sources |-> sources,
   control |-> control, discarded |-> discarded]

Change(s, n, control) == Object("change", n, 0, {s}, control, {})
Blob(s, n, control) == Object("blob", n, 0, {s}, control, {})

First(kind, n) == Object(kind, n, 0, {}, 1, {})

(* The database was created on the manager; every other member downloaded  *)
(* the archive when it joined.  Fresh members have not opened it yet; the  *)
(* others have sealed and exchanged a checkpoint of their own.             *)
ReplicationInit ==
  /\ controls = <<[members |-> Nodes \cup Absent, epoch |-> 0]>>
  /\ objects = [n \in Nodes |-> {First("baseline", Manager)}
                                 \cup {First("checkpoint", m) : m \in Nodes \ Fresh}]
  /\ head = [n \in Nodes |-> 1]
  /\ announced = [n \in Nodes |-> {}] /\ unseen = [n \in Nodes |-> Readers]
  /\ exchange = [i \in Nodes |-> [j \in Nodes |-> Nil]]
  /\ events = 0
  /\ checkpoint = [n \in Nodes |-> First("checkpoint", IF n \in Fresh THEN Manager ELSE n)]
  /\ baseline = [n \in Nodes |-> First("baseline", Manager)]
  /\ proof = <<>>
  /\ sealed = [n \in Nodes |-> 0]
  /\ session = [n \in Nodes |-> Nil]

Open(n) == session[n] # Nil
InBound == Len(proof) + events < MaxSteps
Event == InBound /\ events < MaxEvents /\ events' = events + 1
Control(n) == controls[head[n]]
EpochOf(control) == controls[control].epoch
Belongs(n) == n \in Control(n).members

(* current_checkpoint and latest_baseline: the objects that authenticate   *)
(* the current control.  Learning a control comes before its baseline.     *)
Current(n, o) == o.control = head[n]
Baselines(n) == {o \in objects[n] : o.kind = "baseline" /\ Current(n, o)}
LatestBaseline(n) ==
  IF Current(n, baseline[n]) THEN baseline[n] ELSE CHOOSE o \in Baselines(n) : TRUE

-----------------------------------------------------------------------------
(* ManagedState::apply                                                     *)

(* ControlChain::continuous: the author has been a member since it signed. *)
MemberSince(n, s) ==
  /\ proof[s].control <= head[n]
  /\ \A c \in proof[s].control..head[n] : proof[s].author \in controls[c].members

HasBlob(n, s) ==
  s \in WithBlob => \E o \in objects[n] : o.kind = "blob" /\ o.sources = {s}

(* Sources of the packets in the archive.                                  *)
Packets(n) == {o \in objects[n] : o.kind \in {"change", "checkpoint", "baseline"}}
Available(n) == UNION {o.sources : o \in Packets(n)}

(* Mutant of Eligible: a source is accepted before its attachment is here. *)
EligibleUnread(n, s, discarded) == s \notin discarded /\ MemberSince(n, s)

(* admit_source, apart from the dependencies                               *)
Eligible(n, s, discarded) == s \notin discarded /\ MemberSince(n, s) /\ HasBlob(n, s)

(* The passes over the packets go on while one accepts a source.  The      *)
(* dependencies of a source are all of its past, so a source is accepted   *)
(* in some pass when every missing one of them is eligible as well.        *)
Accepted(n, doc, discarded) ==
  LET eligible == {s \in Available(n) : Eligible(n, s, discarded)} IN
  doc \cup {s \in eligible : proof[s].deps \subseteq doc \cup eligible}

(* A newer control is accepted by merging the manager's baseline for it.   *)
Basis(n, w) ==
  IF w.control = head[n] THEN [doc |-> w.doc, baseline |-> w.baseline]
  ELSE [doc |-> w.doc \cup LatestBaseline(n).sources, baseline |-> LatestBaseline(n)]

Applied(n, w) ==
  LET basis == Basis(n, w) IN
  [w EXCEPT !.doc = Accepted(n, basis.doc, w.discarded),
            !.baseline = basis.baseline, !.control = head[n]]

HasBlobs(n, doc) == \A s \in doc : HasBlob(n, s)

(* AwaitingData or MissingBlob: the baseline of a learned control, or an   *)
(* attachment of it, has not arrived.                                      *)
CanApply(n, w) ==
  w.control = head[n] \/ (Baselines(n) # {} /\ HasBlobs(n, Basis(n, w).doc))

(* Whether an application is published.  A member may wrap an accepted     *)
(* history in a new checkpoint; rewriting one's own to acknowledge that    *)
(* wrapper would cause an endless exchange of receipts.                    *)
Changes(n, w) ==
  \/ Applied(n, w).doc # w.doc
  \/ Applied(n, w).baseline # w.baseline
  \/ w.accepted # checkpoint[n]

-----------------------------------------------------------------------------
(* ManagedState::persist_candidate and accept_publication                  *)

NextCheckpoint(kind, n, w, control) ==
  Object(kind, n, sealed[n] + 1, w.doc, control, w.discarded)

(* A commit of worker w on node n: its new objects, the objects it removes *)
(* and the announced objects that stay recorded.                            *)
Publish(n, w, new, remove, kept) ==
  LET seal == NextCheckpoint("checkpoint", n, w, w.control) IN
  /\ objects' = [objects EXCEPT ![n] = (@ \ remove) \cup new \cup {seal}]
  /\ checkpoint' = [checkpoint EXCEPT ![n] = seal]
  /\ baseline' = [baseline EXCEPT ![n] = w.baseline]
  /\ announced' = [announced EXCEPT ![n] = kept]
  /\ unseen' = [unseen EXCEPT ![n] = IF Open(n) THEN {"watch"} ELSE {}]
  /\ sealed' = [sealed EXCEPT ![n] = @ + 1]
  /\ session' = [session EXCEPT ![n] = [w EXCEPT !.accepted = seal]]

Unpublished(n) ==
  /\ unseen' = [unseen EXCEPT ![n] = IF Open(n) THEN @ \ {"worker"} ELSE {}]
  /\ UNCHANGED <<copies, checkpoint, baseline, sealed>>

(* Accepted sources are saved before the worker shows them.                *)
PublishApplied(n, w) ==
  \/ Changes(n, w) /\ Publish(n, Applied(n, w), {}, {}, announced[n]) /\ UNCHANGED head
  \/ ~Changes(n, w) /\ session' = [session EXCEPT ![n] = Applied(n, w)] /\ Unpublished(n)

-----------------------------------------------------------------------------
(* The life of a session                                                   *)

(* Mutant of Opened: reopening forgets the discard decisions.              *)
OpenedForgets(n) ==
  LET own == checkpoint[n].by = n
      direct == own /\ Current(n, checkpoint[n])
      selected == IF direct THEN checkpoint[n] ELSE LatestBaseline(n)
  IN [doc |-> selected.sources \cup (IF own THEN checkpoint[n].sources ELSE {}),
      discarded |-> {}, control |-> selected.control, accepted |-> selected,
      baseline |-> IF direct THEN baseline[n] ELSE selected, queued |-> TRUE]

(* open_with_authentication for an admitted author: the active checkpoint  *)
(* if it is current and its own, else the latest baseline, with the own    *)
(* active checkpoint merged into it.  Receipt and discard decisions of     *)
(* another device's checkpoint do not count.                               *)
Opened(n) ==
  LET active == checkpoint[n]
      own == active.by = n
      direct == own /\ Current(n, active)
      selected == IF direct THEN active ELSE LatestBaseline(n)
  IN [doc |-> selected.sources \cup (IF own THEN active.sources ELSE {}),
      discarded |-> IF own THEN active.discarded ELSE {},
      control |-> selected.control,
      accepted |-> selected,
      baseline |-> IF direct THEN baseline[n] ELSE selected,
      queued |-> TRUE]

CanOpen(n) ==
  /\ Belongs(n)
  /\ (checkpoint[n].by = n /\ Current(n, checkpoint[n])) \/ Baselines(n) # {}
  /\ HasBlobs(n, Opened(n).doc)

(* The worker opens the copy and applies what has been received before it  *)
(* serves commands; the host applies once more and starts to watch.        *)
Unlock(n) ==
  /\ ~Open(n)
  /\ CanOpen(n)
  /\ PublishApplied(n, Opened(n))
  /\ UNCHANGED <<controls, exchange, events, proof>>

Close(n) ==
  /\ session' = [session EXCEPT ![n] = Nil]
  /\ unseen' = [unseen EXCEPT ![n] = Readers]

Lock(n) ==
  /\ Open(n)
  /\ Event
  /\ Close(n)
  /\ UNCHANGED <<controls, copies, exchange, checkpoint, baseline, proof, sealed>>

(* authority_changed and the watch task: a rotation or a revocation closes *)
(* the session.                                                            *)
Expired(n) == EpochOf(session[n].control) # Control(n).epoch \/ ~Belongs(n)

Expire(n) ==
  /\ Open(n) /\ Expired(n)
  /\ Close(n)
  /\ UNCHANGED <<controls, copies, exchange, events, checkpoint, baseline, proof, sealed>>

(* The watch task compares fingerprints on events and on its interval, and *)
(* queues one wakeup; it remembers the fingerprint when the queue took it. *)
Watch(n) ==
  /\ Open(n) /\ ~Expired(n)
  /\ "watch" \in unseen[n] /\ ~session[n].queued
  /\ unseen' = [unseen EXCEPT ![n] = @ \ {"watch"}]
  /\ session' = [session EXCEPT ![n].queued = TRUE]
  /\ UNCHANGED <<controls, copies, exchange, events, checkpoint, baseline, proof, sealed>>

(* apply_received for a queued wakeup.                                     *)
Apply(n) ==
  /\ Open(n) /\ ~Expired(n)
  /\ session[n].queued
  /\ CanApply(n, session[n])
  /\ PublishApplied(n, [session[n] EXCEPT !.queued = FALSE])
  /\ UNCHANGED <<controls, exchange, events, proof>>

(* AwaitingData is not retried: the arrival of the baseline is a new       *)
(* fingerprint.                                                            *)
ApplyWaits(n) ==
  /\ Open(n) /\ ~Expired(n)
  /\ session[n].queued
  /\ ~CanApply(n, session[n])
  /\ session' = [session EXCEPT ![n].queued = FALSE]
  /\ Unpublished(n)
  /\ UNCHANGED <<controls, exchange, events, proof>>

-----------------------------------------------------------------------------
(* Commands of the user                                                    *)

(* writer: the worker's snapshot is the current one and its control too.   *)
Writes(n) ==
  /\ Open(n) /\ ~Expired(n)
  /\ "worker" \notin unseen[n]
  /\ session[n].control = head[n]

(* ManagedState::commit: one new original source, its blob and a new       *)
(* checkpoint.                                                             *)
Edit(n) ==
  /\ n \in Authors /\ Writes(n)
  /\ InBound
  /\ proof' = Append(proof, [author |-> n, control |-> head[n], deps |-> session[n].doc])
  /\ LET s == Len(proof)' IN
     Publish(n, [session[n] EXCEPT !.doc = @ \cup {s}],
             {Change(s, n, head[n])} \cup (IF s \in WithBlob THEN {Blob(s, n, head[n])} ELSE {}),
             {}, announced[n])
  /\ UNCHANGED <<controls, head, exchange, events>>

(* discard_received: a durable marker against one unaccepted source.       *)
Discard(n, s) ==
  /\ Open(n) /\ ~Expired(n)
  /\ session[n].control = head[n]
  /\ s \in Available(n) \ (session[n].doc \cup session[n].discarded)
  /\ Cardinality(session[n].discarded) < MaxDiscards
  /\ Publish(n, [session[n] EXCEPT !.discarded = @ \cup {s}], {}, {}, announced[n])
  /\ UNCHANGED <<controls, head, exchange, events, proof>>

(* applied_management_basis: the role belongs to an applied basis.         *)
Manages(n) ==
  /\ n = Manager /\ Writes(n)
  /\ session[n].accepted = checkpoint[n]
  /\ session[n].baseline = baseline[n]

(* persist with an administration::Transition: a control, a checkpoint and *)
(* a baseline under it.  A revocation rotates the epoch.                   *)
Administer(n, control) ==
  /\ Manages(n)
  /\ Len(controls) < MaxHead
  /\ Event
  /\ controls' = Append(controls, control)
  /\ head' = [head EXCEPT ![n] = Len(controls) + 1]
  /\ LET base == NextCheckpoint("baseline", n, session[n], Len(controls) + 1) IN
     Publish(n, [session[n] EXCEPT !.control = Len(controls) + 1, !.baseline = base],
             {base}, {}, announced[n])
  /\ UNCHANGED <<exchange, proof>>

SetPolicy(n) == Administer(n, Control(n))

Revoke(n, m) ==
  /\ m \in Control(n).members \ {Manager}
  /\ Administer(n, [members |-> Control(n).members \ {m}, epoch |-> Control(n).epoch + 1])

(* collect_received: nothing is removed while an announced object is still *)
(* missing.  A packet stays while it holds a source that is neither        *)
(* accepted nor discarded; the manager seals a new baseline, and any other *)
(* member keeps the manager's.                                             *)
Unaccepted(n, o) == o.sources \ (session[n].doc \cup session[n].discarded)

BlobsOf(n, sources) == {o \in objects[n] : o.kind = "blob" /\ o.sources \subseteq sources}

(* Mutant of Keep: packets whose sources still wait are removed.           *)
KeepAccepted(n) ==
  BlobsOf(n, session[n].doc) \cup (IF n = Manager THEN {} ELSE {LatestBaseline(n)})

Keep(n) ==
  LET waiting == {o \in Packets(n) : Unaccepted(n, o) # {}} IN
  waiting \cup BlobsOf(n, session[n].doc) \cup BlobsOf(n, UNION {o.sources : o \in waiting})
    \cup (IF n = Manager THEN {} ELSE {LatestBaseline(n)} \cup BlobsOf(n, LatestBaseline(n).sources))

(* Collecting again right after a collection writes nothing.               *)
Redundant(n) ==
  \/ announced[n] # {}
  \/ ~(objects[n] \ Keep(n) \subseteq {checkpoint[n], baseline[n]})

Complete(n) == announced[n] \subseteq objects[n]

Collect(n) ==
  /\ Open(n) /\ ~Expired(n)
  /\ session[n].control = head[n]
  /\ n # Manager => Baselines(n) # {}
  /\ Complete(n) /\ Redundant(n)
  /\ Event
  /\ LET base == NextCheckpoint("baseline", n, session[n], head[n])
     IN IF n = Manager
        THEN Publish(n, [session[n] EXCEPT !.baseline = base], {base}, objects[n] \ Keep(n), {})
        ELSE Publish(n, session[n], {}, objects[n] \ Keep(n), {})
  /\ UNCHANGED <<controls, head, exchange, proof>>

-----------------------------------------------------------------------------
Moves == UNCHANGED workerVars

Transport(i, j) ==
  \/ StartExchange(i, j) /\ Moves
  \/ ExchangeStep(i, j) /\ Moves
  \/ InBound /\ Break(i, j) /\ Moves

Background(n) == Expire(n) \/ Watch(n) \/ Apply(n) \/ ApplyWaits(n)

User(n) ==
  \/ Unlock(n) \/ Lock(n) \/ Edit(n) \/ SetPolicy(n) \/ Collect(n)
  \/ \E m \in Nodes \cup Absent : Revoke(n, m)
  \/ \E s \in DOMAIN proof : Discard(n, s)

ReplicationNext ==
  \/ \E i, j \in Nodes : Transport(i, j)
  \/ \E n \in Nodes : Background(n) \/ User(n)

ReplicationSpec == ReplicationInit /\ [][ReplicationNext]_replicationVars

(* The pump and the watch have timers, a conversation has timeouts, and a  *)
(* user who locked the database opens it again.                            *)
ReplicationFairness ==
  /\ \A i \in Dialers : \A j \in Nodes \ {i} :
       WF_replicationVars((StartExchange(i, j) \/ ExchangeStep(i, j)) /\ Moves)
  /\ \A n \in Nodes : WF_replicationVars(Background(n) \/ Unlock(n))
FairReplicationSpec == ReplicationSpec /\ ReplicationFairness

-----------------------------------------------------------------------------
(* Properties.                                                             *)

(* Every attachment of a saved document is in the archive, whatever has    *)
(* been collected since.                                                   *)
BlobsKept == \A n \in Nodes : HasBlobs(n, checkpoint[n].sources)

(* An archive never loses a source that is not discarded: not to a newer   *)
(* checkpoint, not to a collection while packets wait for dependencies.    *)
SourcesKept ==
  [][\A n \in Nodes : Available(n) \subseteq Available(n)' \cup checkpoint'[n].discarded]_replicationVars

(* Once all copies are level, nothing but a user's command writes: the     *)
(* copies neither echo each other's manifests nor acknowledge each other's *)
(* checkpoints.                                                            *)
Pointless(i, j) ==
  Idle(i, j) \/ (exchange[i][j].need = {} /\ exchange[i][j].meta \in {Nil, Inventory(i)})
Level ==
  \A n, m \in Nodes :
    /\ Open(n) /\ unseen[n] = {} /\ ~session[n].queued
    /\ objects[n] = objects[m] /\ head[n] = head[m]
    /\ Pointless(n, m)
QuietWhenLevel ==
  [][Level /\ unseen' # unseen => \E n \in Nodes : User(n)]_replicationVars

(* A source a user discarded comes back only with a baseline of the        *)
(* manager, however often the database is locked and opened.               *)
DiscardHolds ==
  [][\A n \in Nodes : checkpoint[n].by = n =>
       (checkpoint'[n].sources \ checkpoint[n].sources) \cap checkpoint[n].discarded
         \subseteq baseline'[n].sources]_replicationVars

(* A saved change reaches the saved document of every member, unless one   *)
(* of the two devices is revoked or somebody discards a change, whatever   *)
(* messages are lost and whichever objects arrive first.                   *)
Members == controls[Len(controls)].members \cap Nodes
Discarding == \E n \in Nodes : checkpoint[n].discarded # {}
Converges ==
  \A s \in 1..MaxSteps, author \in Authors : \A n \in Nodes \ {author} :
    s \in DOMAIN proof /\ proof[s].author = author ~>
      s \in checkpoint[n].sources \/ ~({n, author} \subseteq Members) \/ Discarding

=============================================================================
