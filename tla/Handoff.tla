------------------------------ MODULE Handoff ------------------------------
(***************************************************************************)
(* The two-sided decision to hand management over (taypeer-runtime,        *)
(* management_handoff.rs, drive.rs and store.rs; taypeer-sync,             *)
(* management.rs): the manager proposes, the recipient accepts or rejects, *)
(* the manager commits the transfer and learns that it was applied.  Each  *)
(* side keeps its decisions in a journal of its protected profile, and     *)
(* every request to the other side may be lost.                            *)
(*                                                                         *)
(* Two devices, each with one host.  A driver is one call of               *)
(* propose_management, accept_management, reject_management or             *)
(* retry_management in progress; requests of the other side are answered   *)
(* meanwhile.  The consent and the transfer control of an intent are       *)
(* determined by it, so a record carries no copy of them.                  *)
(***************************************************************************)
EXTENDS Control

CONSTANTS
  Founder, Joiner,  \* the identities of the first manager and of its member
  FirstPolicy,
  FirstOperation,   \* the operation that admitted the member
  Drivers,          \* calls that may be in progress at once
  MaxHandoffs,      \* MAX_HANDOFFS
  Proposable        \* bound: the operations of handoffs; the others are
                    \* those of other administrative operations

ASSUME HandoffAssumption ==
  /\ Identities = {Founder, Joiner} /\ Founder.device # Joiner.device
  /\ FirstPolicy \in Policies /\ FirstOperation \in Operations
  /\ MaxHandoffs \in Nat /\ Proposable \subseteq Operations

VARIABLES
  chain,     \* the control chain each coordinator serves
  doubt,     \* the chain of a commit that ended in CommitUncertain
  worker,    \* the unlocked worker: [basis, pending]
  journal,   \* the protected journal: operation -> [intent, phase]
  lasting,   \* journals that a power loss may reveal
  unsaved,   \* PendingJournal.candidate
  call,      \* drivers in progress: [host, intent, stage, session, reply]
  asked,     \* history: intents that a manager's user proposed
  agreed,    \* history: intents that a recipient's user accepted
  refused,   \* history: intents whose rejection was confirmed to its user
  told       \* history: what each host last reported of an operation

archive == <<chain, doubt>>
profile == <<journal, lasting, unsaved>>
users == <<asked, agreed, refused>>
vars == <<archive, worker, profile, call, users, told>>

StartChain ==
  LET root == <<Genesis(Founder, FirstPolicy)>> IN
  Append(root, Successor(root, FirstOperation, Admit(Joiner)))

Init ==
  /\ chain = [h \in Devices |-> StartChain]
  /\ doubt = [h \in Devices |-> None]
  /\ worker = [h \in Devices |-> None]
  /\ journal = [h \in Devices |-> <<>>]
  /\ lasting = [h \in Devices |-> {<<>>}]
  /\ unsaved = [h \in Devices |-> None]
  /\ call = [c \in Drivers |-> None]
  /\ asked = {} /\ agreed = {} /\ refused = {}
  /\ told = [h \in Devices |-> [o \in Operations |-> None]]

-----------------------------------------------------------------------------
(* ManagementIntent                                                        *)

Intent(previous, operation, manager, recipient) ==
  [previous |-> previous, operation |-> operation,
   manager |-> manager, recipient |-> recipient]

Consent(i) == [previous |-> i.previous, recipient |-> i.recipient, operation |-> i.operation]

(* ControlChain::at                                                        *)
Reaches(c, hash) ==
  Len(hash) <= Len(c) /\ Hash(SubSeq(c, 1, Len(hash))) = hash

Verify(c, i) ==
  LET n == Len(i.previous) IN
  /\ Reaches(c, i.previous)
  /\ c[n].manager = i.manager
  /\ i.manager # i.recipient
  /\ Continuous(c, i.manager, n) /\ Continuous(c, i.recipient, n)

(* ManagementIntent::committed_control                                     *)
Committed(c, i) ==
  LET n == Len(i.previous) + 1 IN
  /\ n \in DOMAIN c
  /\ c[n].operation = i.operation
  /\ c[n].manager = i.recipient /\ c[n].handoff = Consent(i)

-----------------------------------------------------------------------------
(* Store: the journal and its publication.                                 *)

Has(h, i) == i.operation \in DOMAIN journal[h] /\ journal[h][i.operation].intent = i
Phase(h, i) == journal[h][i.operation].phase

Put(h, i, phase) ==
  [o \in DOMAIN journal[h] \cup {i.operation} |->
     IF o = i.operation THEN [intent |-> i, phase |-> phase] ELSE journal[h][o]]

Room(h, i) == i.operation \in DOMAIN journal[h] \/ Cardinality(DOMAIN journal[h]) < MaxHandoffs

(* Store::publish: done, or CommitUncertain with either journal visible.   *)
Published(h, j) ==
  /\ unsaved[h] = None
  /\ journal' = [journal EXCEPT ![h] = j]
  /\ lasting' = [lasting EXCEPT ![h] = {j}]
  /\ UNCHANGED unsaved

Uncertain(h, j) ==
  /\ unsaved[h] = None
  /\ \E seen \in {journal[h], j} : journal' = [journal EXCEPT ![h] = seen]
  /\ lasting' = [lasting EXCEPT ![h] = @ \cup {j}]
  /\ unsaved' = [unsaved EXCEPT ![h] = j]

(* Store::read_locked: an uncertain journal is published again before the  *)
(* next use of the store.                                                  *)
Republish(h) ==
  /\ unsaved[h] # None
  /\ journal' = [journal EXCEPT ![h] = unsaved[h]]
  /\ lasting' = [lasting EXCEPT ![h] = {unsaved[h]}]
  /\ unsaved' = [unsaved EXCEPT ![h] = None]
  /\ UNCHANGED <<archive, worker, call, users, told>>

Report(h, i, phase) ==
  told' = [told EXCEPT ![h][i.operation] = [intent |-> i, phase |-> phase]]

-----------------------------------------------------------------------------
(* Owner::live: an unlocked worker that has applied the current authority. *)

Live(h) ==
  worker[h] # None /\ worker[h].pending = None /\ worker[h].basis = chain[h]

(* require_previous, and what require_remote asks of a reply.              *)
AtPrevious(h, i) == Live(h) /\ Hash(chain[h]) = i.previous

Driver(h, i, stage) == [host |-> h, intent |-> i, stage |-> stage, session |-> TRUE, reply |-> None]
Start(c, h, i, stage) == call' = [call EXCEPT ![c] = Driver(h, i, stage)]

At(c, stage) == call[c] # None /\ call[c].stage = stage
Goto(c, stage) == call' = [call EXCEPT ![c].stage = stage, ![c].reply = None]
Return(c) == call' = [call EXCEPT ![c] = None]

(* A timeout, a lost answer, a refused check or a failing write: the call  *)
(* ends with an error, and what it has written so far stays.               *)
Abort(c) ==
  /\ call[c] # None
  /\ Return(c)
  /\ UNCHANGED <<archive, worker, profile, users, told>>

-----------------------------------------------------------------------------
(* The manager.                                                            *)

(* Operations are random digests: a new one is used nowhere else.          *)
Archives(h) == {chain[h], doubt[h]} \ {None}
Fresh(operation) == \A h \in Devices : \A a \in Archives(h) : ~Uses(a, operation)

(* propose_management of a new operation; it goes on with a retry.         *)
Propose(c, h, recipient, operation) ==
  LET i == Intent(Hash(chain[h]), operation, h, recipient)
  IN  /\ call[c] = None
      /\ Live(h) /\ Latest(chain[h]).manager = h
      /\ operation \in Proposable \ DOMAIN journal[h] /\ Fresh(operation)
      /\ Verify(chain[h], i) /\ Room(h, i)
      /\ Published(h, Put(h, i, "proposed")) \/ Uncertain(h, Put(h, i, "proposed"))
      /\ asked' = asked \cup {i}
      /\ UNCHANGED <<archive, worker, call, agreed, refused, told>>

(* How the call goes on once its record is confirmed.                      *)
Resume(c, h, i) ==
  \/ /\ h = i.recipient /\ Phase(h, i) = "requested" /\ AtPrevious(h, i)
     /\ Start(c, h, i, "ask_source") /\ UNCHANGED told
  \/ /\ h = i.manager /\ Phase(h, i) \in {"committed", "awaiting"} /\ Committed(chain[h], i)
     /\ Start(c, h, i, "deliver") /\ UNCHANGED told
  \/ /\ h = i.manager /\ Phase(h, i) = "proposed" /\ Committed(chain[h], i)
     /\ worker[h] # None
     /\ Start(c, h, i, "transfer") /\ UNCHANGED told
  \/ /\ h = i.manager /\ Phase(h, i) = "proposed" /\ ~Uses(chain[h], i.operation)
     /\ AtPrevious(h, i) \/ (worker[h] # None /\ worker[h].pending # None)
     /\ Start(c, h, i, IF AtPrevious(h, i) THEN "propose" ELSE "ask") /\ UNCHANGED told
  \/ /\ \/ h = i.manager /\ Phase(h, i) \in {"rejected", "completed"}
        \/ h = i.recipient /\ Phase(h, i) # "requested"
     /\ UNCHANGED call /\ Report(h, i, Phase(h, i))

(* Owner::reply: the transfer is part of what the worker has applied.      *)
Applies(h, i) ==
  /\ h = i.recipient /\ Has(h, i) /\ Phase(h, i) = "consented"
  /\ Live(h) /\ Verify(chain[h], i) /\ Committed(chain[h], i)

(* retry_management, also of a repeated or a new proposal                  *)
Retry(c, h, operation) ==
  LET i == journal[h][operation].intent IN
  /\ call[c] = None
  /\ operation \in DOMAIN journal[h]
  /\ Verify(chain[h], i) /\ ~Applies(h, i)
  /\ \/ Published(h, journal[h]) /\ Resume(c, h, i)
     \/ Uncertain(h, journal[h]) /\ UNCHANGED <<call, told>>
  /\ UNCHANGED <<archive, worker, users>>

(* The answer to a proposal.                                               *)
Decide(c) ==
  LET h == call[c].host i == call[c].intent r == call[c].reply IN
  /\ At(c, "answered")
  /\ \/ /\ r.decision \in {"waiting", "requested", "unknown"}
        /\ Return(c) /\ UNCHANGED profile
     \/ /\ r.decision = "rejected" /\ Has(h, i) /\ Phase(h, i) = "proposed"
        /\ Published(h, Put(h, i, "rejected")) \/ Uncertain(h, Put(h, i, "rejected"))
        /\ Return(c)
     \/ /\ r.decision = "consented" /\ r.ready
        /\ call[c].session /\ Verify(chain[h], i)
        /\ Goto(c, "transfer") /\ UNCHANGED profile
  /\ UNCHANGED <<archive, worker, users, told>>

(* Mutant of TransferManagement: an uncertain commit is taken for one.     *)
TransferManagementInDoubt(c) ==
  LET h == call[c].host
      i == call[c].intent
      next == Append(chain[h], Successor(chain[h], i.operation, Transfer(Consent(i))))
  IN  /\ At(c, "transfer") /\ call[c].session
      /\ Live(h) /\ doubt[h] = None
      /\ CanExtend(chain[h], h, i.operation, Transfer(Consent(i)))
      /\ \/ /\ chain' = [chain EXCEPT ![h] = next]
            /\ worker' = [worker EXCEPT ![h].basis = next]
            /\ UNCHANGED doubt
         \/ /\ doubt' = [doubt EXCEPT ![h] = next]
            /\ UNCHANGED <<chain, worker>>
      /\ Goto(c, "record")
      /\ UNCHANGED <<profile, users, told>>

(* TransferManagement in the worker: DatabaseService::transfer_management. *)
TransferManagement(c) ==
  LET h == call[c].host
      i == call[c].intent
      w == worker[h]
      next == Append(w.basis, Successor(w.basis, i.operation, Transfer(Consent(i))))
      Retained(exact) == [w EXCEPT !.pending = [operation |-> i.operation, exact |-> exact]]
  IN  /\ At(c, "transfer") /\ call[c].session
      /\ \/ /\ w.pending # None /\ w.pending.operation = i.operation /\ w.pending.exact
            /\ chain' = [chain EXCEPT ![h] = doubt[h]]
            /\ doubt' = [doubt EXCEPT ![h] = None]
            /\ worker' = [worker EXCEPT ![h] = [basis |-> doubt[h], pending |-> None]]
            /\ Goto(c, "record")
         \/ /\ w.pending = None /\ Committed(w.basis, i)
            /\ Goto(c, "record") /\ UNCHANGED <<archive, worker>>
         \/ /\ Live(h) /\ doubt[h] = None
            /\ CanExtend(w.basis, h, i.operation, Transfer(Consent(i)))
            /\ \/ /\ chain' = [chain EXCEPT ![h] = next]
                  /\ worker' = [worker EXCEPT ![h].basis = next]
                  /\ Goto(c, "record") /\ UNCHANGED doubt
               \/ /\ doubt' = [doubt EXCEPT ![h] = next]
                  /\ worker' = [worker EXCEPT ![h] = Retained(TRUE)]
                  /\ Return(c) /\ UNCHANGED chain
         \/ /\ Live(h) /\ doubt[h] # None
            /\ CanExtend(w.basis, h, i.operation, Transfer(Consent(i)))
            /\ worker' = [worker EXCEPT ![h] = Retained(FALSE)]
            /\ Return(c) /\ UNCHANGED archive
      /\ UNCHANGED <<profile, users, told>>

(* A source record moves on if it is in one of the phases `from'.  When    *)
(* the save is uncertain the call ends.                                    *)
Advanced(c, from, phase) ==
  LET h == call[c].host i == call[c].intent IN
  IF Phase(h, i) \in from THEN Put(h, i, phase) ELSE journal[h]

AdvanceUncertain(c, from, phase) ==
  Uncertain(call[c].host, Advanced(c, from, phase)) /\ Return(c)

RecordCommitted(c) ==
  LET h == call[c].host i == call[c].intent IN
  /\ At(c, "record")
  /\ Has(h, i) /\ Phase(h, i) # "rejected"
  /\ \/ /\ Published(h, Advanced(c, {"proposed"}, "committed"))
        /\ Phase(h, i) # "completed" /\ Goto(c, "deliver")
     \/ /\ Published(h, journal[h])
        /\ Phase(h, i) = "completed" /\ Return(c)
     \/ AdvanceUncertain(c, {"proposed"}, "committed")
  /\ UNCHANGED <<archive, worker, users, told>>

RecordCompleted(c) ==
  LET h == call[c].host i == call[c].intent IN
  /\ At(c, "status_answered")
  /\ \/ /\ call[c].reply.decision = "completed"
        /\ Verify(chain[h], i) /\ Committed(chain[h], i)
        /\ Has(h, i) /\ Phase(h, i) \in {"committed", "awaiting", "completed"}
        /\ \/ Published(h, Advanced(c, {"committed", "awaiting"}, "completed")) /\ Return(c)
           \/ AdvanceUncertain(c, {"committed", "awaiting"}, "completed")
     \/ /\ call[c].reply.decision # "completed"
        /\ Return(c) /\ UNCHANGED profile
  /\ UNCHANGED <<archive, worker, users, told>>

-----------------------------------------------------------------------------
(* The recipient.                                                          *)

(* accept_management: the decision is saved before anything is signed.     *)
Accept(c, h, operation) ==
  LET i == journal[h][operation].intent IN
  /\ call[c] = None
  /\ operation \in DOMAIN journal[h]
  /\ h = i.recipient /\ Phase(h, i) = "waiting"
  /\ Verify(chain[h], i) /\ AtPrevious(h, i)
  /\ \/ /\ Published(h, Put(h, i, "requested"))
        /\ Start(c, h, i, "ask_source")
     \/ Uncertain(h, Put(h, i, "requested")) /\ UNCHANGED call
  /\ agreed' = agreed \cup {i}
  /\ UNCHANGED <<archive, worker, asked, refused, told>>

(* The manager's proposal still stands: the worker signs                   *)
(* (ConsentManagement) and the consent is recorded, if it is still live.   *)
RecordConsent(c) ==
  LET h == call[c].host i == call[c].intent r == call[c].reply IN
  /\ At(c, "source_answered")
  /\ r.decision = "proposed" /\ r.ready
  /\ call[c].session /\ AtPrevious(h, i)
  /\ Has(h, i) /\ Phase(h, i) \in {"requested", "consented"}
  /\ Published(h, Put(h, i, "consented")) \/ Uncertain(h, Put(h, i, "consented"))
  /\ Return(c)
  /\ UNCHANGED <<archive, worker, users, told>>

(* Mutant of Reject: an uncertain save is reported as a rejection.         *)
RejectInDoubt(c, h, operation) ==
  LET i == journal[h][operation].intent IN
  /\ call[c] = None
  /\ operation \in DOMAIN journal[h]
  /\ h = i.recipient /\ Phase(h, i) \in {"waiting", "rejected"}
  /\ Verify(chain[h], i) /\ AtPrevious(h, i)
  /\ Published(h, Put(h, i, "rejected")) \/ Uncertain(h, Put(h, i, "rejected"))
  /\ refused' = refused \cup {i}
  /\ UNCHANGED <<archive, worker, call, asked, agreed, told>>

(* reject_management                                                       *)
Reject(c, h, operation) ==
  LET i == journal[h][operation].intent IN
  /\ call[c] = None
  /\ operation \in DOMAIN journal[h]
  /\ h = i.recipient /\ Phase(h, i) \in {"waiting", "rejected"}
  /\ Verify(chain[h], i) /\ AtPrevious(h, i)
  /\ \/ Published(h, Put(h, i, "rejected")) /\ refused' = refused \cup {i}
     \/ Uncertain(h, Put(h, i, "rejected")) /\ UNCHANGED refused
  /\ UNCHANGED <<archive, worker, call, asked, agreed, told>>

(* Owner::reply, for a status request or a retry of the recipient.         *)
RecordApplied(h, operation) ==
  LET i == journal[h][operation].intent IN
  /\ operation \in DOMAIN journal[h]
  /\ Applies(h, i)
  /\ Published(h, Put(h, i, "completed")) \/ Uncertain(h, Put(h, i, "completed"))
  /\ UNCHANGED <<archive, worker, call, users, told>>

-----------------------------------------------------------------------------
(* Requests at the other side: Owner::command.                             *)

Other(h, i) == IF h = i.manager THEN i.recipient ELSE i.manager

(* A proposal the recipient does not know yet, while its worker is live.   *)
ReceiveProposal(c) ==
  LET i == call[c].intent g == Other(call[c].host, i) IN
  /\ At(c, "propose")
  /\ Verify(chain[g], i)
  /\ i.operation \notin DOMAIN journal[g]
  /\ AtPrevious(g, i) /\ Room(g, i)
  /\ \/ Published(g, Put(g, i, "waiting")) /\ UNCHANGED call
     \/ Uncertain(g, Put(g, i, "waiting")) /\ Return(c)
  /\ UNCHANGED <<archive, worker, users, told>>

Requests == {"propose", "ask", "ask_source", "status"}
Answered(stage) ==
  CASE stage \in {"propose", "ask"} -> "answered"
    [] stage = "ask_source" -> "source_answered"
    [] stage = "status" -> "status_answered"

(* Mutant of Reply: the record is answered as it is read.                  *)
ReplyAsRead(c) ==
  LET i == call[c].intent
      g == Other(call[c].host, i)
      decision == IF Has(g, i) THEN Phase(g, i) ELSE "unknown"
  IN  /\ call[c] # None /\ call[c].stage \in Requests
      /\ Verify(chain[g], i)
      /\ i.operation \in DOMAIN journal[g] => Has(g, i)
      /\ worker[g] # None => worker[g].pending = None
      /\ At(c, "propose") /\ ~Has(g, i) => ~Live(g)
      /\ ~Applies(g, i)
      /\ IF Has(g, i) THEN UNCHANGED profile /\ Report(g, i, decision)
                      ELSE unsaved[g] = None /\ UNCHANGED <<profile, told>>
      /\ call' = [call EXCEPT ![c].stage = Answered(@),
                              ![c].reply = [decision |-> decision, ready |-> AtPrevious(g, i)]]
      /\ UNCHANGED <<archive, worker, users>>

(* Owner::reply: the record is confirmed by publishing it again.           *)
Reply(c) ==
  LET i == call[c].intent
      g == Other(call[c].host, i)
      decision == IF Has(g, i) THEN Phase(g, i) ELSE "unknown"
  IN  /\ call[c] # None /\ call[c].stage \in Requests
      /\ Verify(chain[g], i)
      /\ i.operation \in DOMAIN journal[g] => Has(g, i)
      /\ worker[g] # None => worker[g].pending = None
      /\ At(c, "propose") /\ ~Has(g, i) => ~Live(g)
      /\ ~Applies(g, i)
      /\ IF Has(g, i) THEN Published(g, journal[g]) /\ Report(g, i, decision)
                      ELSE unsaved[g] = None /\ UNCHANGED <<profile, told>>
      /\ call' = [call EXCEPT ![c].stage = Answered(@),
                              ![c].reply = [decision |-> decision, ready |-> AtPrevious(g, i)]]
      /\ UNCHANGED <<archive, worker, users>>

(* The confirmation of the record is uncertain: no answer.                 *)
ReplyUncertain(c) ==
  LET i == call[c].intent g == Other(call[c].host, i) IN
  /\ call[c] # None /\ call[c].stage \in Requests
  /\ Verify(chain[g], i) /\ Has(g, i)
  /\ Uncertain(g, journal[g])
  /\ Return(c)
  /\ UNCHANGED <<archive, worker, users, told>>

-----------------------------------------------------------------------------
(* The rest of the two hosts.                                              *)

(* Coordinator::offer of h's chain at g.                                   *)
Offer(h, g) ==
  /\ g # h
  /\ Admits(chain[h], g) /\ Admits(chain[g], h)
  /\ ~Forks(chain[g], chain[h])
  /\ Len(chain[h]) > Len(chain[g])
  /\ doubt[g] = None
  /\ chain' = [chain EXCEPT ![g] = chain[h]]
  /\ UNCHANGED doubt

Exchange(h, g) == Offer(h, g) /\ UNCHANGED <<worker, profile, call, users, told>>

(* The exchange of a committed transfer; its success is recorded.          *)
Deliver(c) ==
  LET h == call[c].host g == Other(h, call[c].intent) IN
  /\ At(c, "deliver")
  /\ \/ Offer(h, g)
     \/ Len(chain[g]) >= Len(chain[h]) /\ Admits(chain[g], h) /\ UNCHANGED archive
  /\ Has(h, call[c].intent)
  /\ \/ Published(h, Advanced(c, {"committed"}, "awaiting")) /\ Goto(c, "status")
     \/ AdvanceUncertain(c, {"committed"}, "awaiting")
  /\ UNCHANGED <<worker, users, told>>

(* Another administrative operation of the manager.                        *)
Administer(h, operation, intent) ==
  LET next == Append(chain[h], Successor(chain[h], operation, intent)) IN
  /\ Live(h) /\ doubt[h] = None
  /\ operation \notin Proposable /\ Fresh(operation)
  /\ CanExtend(chain[h], h, operation, intent)
  /\ \/ /\ chain' = [chain EXCEPT ![h] = next]
        /\ worker' = [worker EXCEPT ![h].basis = next]
        /\ UNCHANGED doubt
     \/ doubt' = [doubt EXCEPT ![h] = next] /\ UNCHANGED <<chain, worker>>
  /\ UNCHANGED <<profile, call, users, told>>

(* A worker is registered once it has applied what it found.               *)
Unlock(h) ==
  /\ worker[h] = None
  /\ worker' = [worker EXCEPT ![h] = [basis |-> chain[h], pending |-> None]]
  /\ UNCHANGED <<archive, profile, call, users, told>>

(* The worker applies the authority its coordinator serves; a new epoch    *)
(* needs a new unlock.                                                     *)
Apply(h) ==
  /\ worker[h] # None /\ worker[h].pending = None /\ worker[h].basis # chain[h]
  /\ Latest(worker[h].basis).epoch = Latest(chain[h]).epoch
  /\ worker' = [worker EXCEPT ![h].basis = chain[h]]
  /\ UNCHANGED <<archive, profile, call, users, told>>

(* The worker ends; calls in progress have lost their session.             *)
Lock(h) ==
  /\ worker[h] # None
  /\ worker' = [worker EXCEPT ![h] = None]
  /\ call' = [c \in Drivers |-> IF call[c] # None /\ call[c].host = h
                                THEN [call[c] EXCEPT !.session = FALSE] ELSE call[c]]
  /\ UNCHANGED <<archive, profile, users, told>>

(* The host ends, with or without power loss, and starts again.            *)
Restart(h) ==
  /\ \E found \in Archives(h) : chain' = [chain EXCEPT ![h] = found]
  /\ doubt' = [doubt EXCEPT ![h] = None]
  /\ worker' = [worker EXCEPT ![h] = None]
  /\ \/ UNCHANGED <<journal, lasting>>
     \/ \E j \in lasting[h] : /\ journal' = [journal EXCEPT ![h] = j]
                              /\ lasting' = [lasting EXCEPT ![h] = {j}]
  /\ unsaved' = [unsaved EXCEPT ![h] = None]
  /\ call' = [c \in Drivers |-> IF call[c] # None /\ call[c].host = h THEN None ELSE call[c]]
  /\ UNCHANGED <<users, told>>

-----------------------------------------------------------------------------
DriverStep(c) ==
  \/ Decide(c) \/ TransferManagement(c) \/ RecordCommitted(c)
  \/ Deliver(c) \/ RecordCompleted(c)
  \/ RecordConsent(c) \/ ReceiveProposal(c) \/ Reply(c) \/ ReplyUncertain(c)

(* The other operations of a manager, bounded to rotations, one of which   *)
(* revokes the first recipient; a change of policy changes less.           *)
Others == {Rotate(d, p) : d \in {None, Joiner.device}, p \in Policies}

Next ==
  \/ \E c \in Drivers, h \in Devices, o \in Operations :
       \/ \E r \in Devices : Propose(c, h, r, o)
       \/ Retry(c, h, o) \/ Accept(c, h, o) \/ Reject(c, h, o)
  \/ \E c \in Drivers : DriverStep(c) \/ Abort(c)
  \/ \E h \in Devices, o \in Operations : RecordApplied(h, o)
  \/ \E h \in Devices, o \in Operations, i \in Others : Administer(h, o, i)
  \/ \E h, g \in Devices : Exchange(h, g)
  \/ \E h \in Devices : Republish(h) \/ Unlock(h) \/ Apply(h) \/ Lock(h) \/ Restart(h)

Spec == Init /\ [][Next]_vars

-----------------------------------------------------------------------------
(* Properties.                                                             *)

(* Management moves only by a decision of both users that was not taken    *)
(* back: every transfer in an archive, also in one that is in doubt, was   *)
(* proposed by the manager and accepted by the recipient for that very     *)
(* head, and a rejection that was confirmed to its user is never followed  *)
(* by the transfer, whatever was signed, lost or forgotten in between.     *)
HandoffAgreed ==
  \A h \in Devices : \A c \in Archives(h) : \A n \in DOMAIN c :
    c[n].handoff # None =>
      LET i == Intent(c[n].handoff.previous, c[n].operation, c[n].signer, c[n].manager)
      IN  i \in asked /\ i \in agreed /\ i \notin refused

(* A reported decision is durable: what a host has answered to the other   *)
(* side or shown to its user stands in every journal that a power loss may *)
(* reveal, or has gone on from there.                                      *)
After ==
  [proposed  |-> {"proposed", "rejected", "committed", "awaiting", "completed"},
   waiting   |-> {"waiting", "requested", "consented", "rejected", "completed"},
   requested |-> {"requested", "consented", "completed"},
   consented |-> {"consented", "completed"},
   rejected  |-> {"rejected"},
   committed |-> {"committed", "awaiting", "completed"},
   awaiting  |-> {"awaiting", "completed"},
   completed |-> {"completed"}]
ToldStands ==
  \A h \in Devices, o \in Operations : told[h][o] # None =>
    \A j \in lasting[h] :
      /\ o \in DOMAIN j
      /\ j[o].intent = told[h][o].intent
      /\ j[o].phase \in After[told[h][o].phase]

(* Receipts are never ahead of what they confirm: a recorded commit is in  *)
(* every archive its host can find after a crash, and a recorded           *)
(* completion is in the recipient's archive and in its own journal.        *)
ReceiptsNotAhead ==
  \A h \in Devices : \A j \in lasting[h] : \A o \in DOMAIN j :
    LET i == j[o].intent IN
    /\ j[o].phase \in {"committed", "awaiting", "completed"} =>
         \A c \in Archives(h) : Committed(c, i)
    /\ j[o].phase = "completed" /\ h = i.manager =>
         /\ \A c \in Archives(i.recipient) : Committed(c, i)
         /\ \A k \in lasting[i.recipient] :
              o \in DOMAIN k /\ k[o] = [intent |-> i, phase |-> "completed"]

(* Management moves only where both users said yes, what a user was told   *)
(* stands, and no receipt is ahead of the chain.                           *)
HandoffSound == HandoffAgreed /\ ToldStands /\ ReceiptsNotAhead
=============================================================================
