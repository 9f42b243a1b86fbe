----------------------------- MODULE CipherPort -----------------------------
(***************************************************************************)
(* The private ciphertext port of one working copy on Android: an isolated *)
(* worker reads and publishes encrypted generations through synchronous    *)
(* Binder calls on an endpoint of the host, and descriptors travel with    *)
(* them (native/src/document/ciphertext.rs, recovery.rs, descriptors.rs;   *)
(* platform/CipherBinder.kt, CiphertextDescriptors.kt; platform_worker.rs).*)
(*                                                                         *)
(* A worker generation is killed at any time; what it sent goes on in a    *)
(* thread of the host.  The host closes the endpoint of a generation and   *)
(* then its descriptor table, whatever is under way, and a later           *)
(* generation has an endpoint of its own.  A worker waits for each of its  *)
(* calls, so there is one at a time for every generation.                  *)
(*                                                                         *)
(* Publications and draft operations are numbered by the calls that ask    *)
(* for them, and a call that reads has the number of what it has seen; 0   *)
(* is no archive and no draft.                                             *)
(***************************************************************************)
EXTENDS Naturals, FiniteSets

CONSTANTS
  MaxWorkers,  \* bound: worker generations of the working copy
  MaxNumber    \* bound: calls, and commits of the host's own exchange

VARIABLES
  process,     \* per generation, its process
  endpoint,    \* CipherPersistenceEndpoint.accepting
  writers,     \* generations whose endpoint holds the native writer
  tables,      \* generations whose host descriptor table is open
  transaction, \* per generation, its call, which may outlive it
  leases,      \* per generation, the descriptors this call owns
  latest,        \* the archive at the path
  stored,      \* the last draft operation that reached the file beside it, and whose it was
  known,       \* the archive a worker has accepted
  number,      \* the last number given
  effects,     \* history: numbers of what took effect
  heard        \* history: what a worker was told for certain last, and who of a draft

portVars == <<process, endpoint, writers, tables, transaction, leases, latest, stored,
              known, number, effects, heard>>

ASSUME PortAssumption == MaxWorkers \in Nat \ {0} /\ MaxNumber \in Nat \ {0}

Workers == 1..MaxWorkers   \* generations, in the order they start
Numbered == 0..MaxNumber
Reading == {"read"}                           \* snapshot; other readings show no archive
Publishing == {"create", "commit", "recover"}
Drafting == {"save", "discard"}
Calls == Reading \cup Publishing \cup Drafting
Carrying == Publishing \cup {"save"}          \* take ciphertext along
Showing == {"read", "commit"}                 \* answer with a descriptor
Outcomes == {"done", "refused", "uncertain"}
Places == {"none", "sent", "inside", "owned", "decided"}
Transactions == [op : Calls, at : Places, id : Numbered]

(* Who owns a descriptor: the worker, the call's parcel, the host's table  *)
(* (for the call, the reply, or objects that it retains).                  *)
Owners == {"object", "parcel", "table", "retained"}
OfTable == {"table", "retained"}

NoDraft == [id |-> 0, by |-> 0]
NothingTold == [id |-> 0, out |-> "none", by |-> 0]
NoTransaction == [op |-> "read", at |-> "none", id |-> 0]

PortInit ==
  /\ process = [w \in Workers |-> "unborn"] /\ endpoint = [w \in Workers |-> "none"]
  /\ writers = {} /\ tables = {}
  /\ transaction = [w \in Workers |-> NoTransaction] /\ leases = [w \in Workers |-> {}]
  /\ latest \in {0, 1} /\ number = latest /\ effects = 1..latest   \* a new archive, or an existing one
  /\ stored = NoDraft /\ known = [w \in Workers |-> 0]
  /\ heard = NothingTold

Files == <<latest, stored, effects>>
Answers == <<known, heard>>
Capabilities == <<process, endpoint, writers, tables>>

Place(w) == transaction[w].at
(* withWriter: between calls++ and calls--                                 *)
Inside(w) == Place(w) \in {"inside", "owned", "decided"}

MovesTo(w, place) == transaction' = [transaction EXCEPT ![w].at = place]
Leases(w, gone, new) == leases' = [leases EXCEPT ![w] = (@ \ gone) \cup new]

-----------------------------------------------------------------------------
(* The worker's process and the host's side of it.                         *)

StartWorker(w) ==
  /\ process[w] = "unborn"
  /\ \A v \in Workers : v < w => process[v] = "dead" \/ endpoint[v] = "closed"
  /\ process' = [process EXCEPT ![w] = "running"]
  /\ endpoint' = [endpoint EXCEPT ![w] = "accepting"]
  /\ writers' = writers \cup {w} /\ tables' = tables \cup {w}
  /\ UNCHANGED <<transaction, leases, number, Files, Answers>>

(* A killed process loses its own descriptors.                             *)
WorkerDies(w) ==
  /\ process[w] = "running"
  /\ process' = [process EXCEPT ![w] = "dead"]
  /\ Leases(w, {"object"}, {})
  /\ UNCHANGED <<transaction, endpoint, writers, tables, number, Files, Answers>>

(* close: new calls are refused, an accepted one keeps the native writer.  *)
CloseEndpoint(w) ==
  /\ endpoint[w] = "accepting"
  /\ endpoint' = [endpoint EXCEPT ![w] = "closed"]
  /\ writers' = IF Inside(w) THEN writers ELSE writers \ {w}
  /\ UNCHANGED <<process, tables, transaction, leases, number, Files, Answers>>

(* dispose: the endpoint first, its descriptor table after it.             *)
CloseTable(w) ==
  /\ endpoint[w] = "closed" /\ w \in tables
  /\ tables' = tables \ {w} /\ Leases(w, OfTable, {})
  /\ UNCHANGED <<process, endpoint, writers, transaction, number, Files, Answers>>

(* The host's exchange with other devices commits too.                     *)
HostCommits ==
  /\ latest # 0 /\ number < MaxNumber
  /\ number' = number + 1 /\ latest' = number' /\ effects' = effects \cup {number'}
  /\ UNCHANGED <<stored, transaction, leases, Capabilities, Answers>>

-----------------------------------------------------------------------------
(* The worker's side of a call.                                            *)

(* Only an accepted archive binds the working copy that drafts belong to.  *)
Able(w, op) ==
  /\ op = "create" => known[w] = 0
  /\ op \in {"commit", "recover"} \cup Drafting => known[w] # 0

(* spool: the objects are copied into descriptors of the worker's own, and *)
(* their duplicates leave with the transaction.  What fails before that    *)
(* fails for certain and leaves no trace.                                  *)
Submit(w, op) ==
  /\ process[w] = "running" /\ Place(w) = "none" /\ Able(w, op)
  /\ op \in Reading \/ number < MaxNumber
  /\ number' = IF op \in Reading THEN number ELSE number + 1
  /\ transaction' = [transaction EXCEPT ![w] =
       [op |-> op, at |-> "sent", id |-> IF op \in Reading THEN 0 ELSE number']]
  /\ Leases(w, {}, IF op \in Carrying THEN {"object", "parcel"} ELSE {})
  /\ UNCHANGED <<Capabilities, Files, Answers>>

(* An answer that cannot be had or used proves nothing about a mutation.   *)
UnprovenAsRefused(op) == "refused"   \* mutant: a lost answer is an ordinary failure
Unproven(op) == IF op \in Reading THEN "refused" ELSE "uncertain"

Tells(w, out) ==
  LET t == transaction[w] IN
  /\ heard' = IF t.op \in Reading THEN heard
              ELSE IF out = "uncertain" THEN NothingTold
              ELSE [id |-> t.id, out |-> out,
                    by |-> IF out = "done" /\ t.op \in Drafting THEN w ELSE 0]
  /\ known' = IF out = "done" /\ t.op \in Showing THEN [known EXCEPT ![w] = t.id] ELSE known

(* The call is over for both sides.  Its answer arrives as it was given,   *)
(* or it is lost, or the archive it shows cannot be verified; nobody waits *)
(* for the answer to a killed worker.                                      *)
Over(w, out) ==
  /\ transaction' = [transaction EXCEPT ![w] = NoTransaction]
  /\ IF process[w] = "running"
     THEN Tells(w, out) \/ Tells(w, Unproven(transaction[w].op))
     ELSE UNCHANGED Answers
  /\ UNCHANGED <<number, process, endpoint, tables>>

(* What a killed worker sent may never reach the host.                     *)
Undelivered(w) ==
  /\ process[w] = "dead" /\ Place(w) = "sent"
  /\ transaction' = [transaction EXCEPT ![w] = NoTransaction] /\ Leases(w, {"parcel"}, {})
  /\ UNCHANGED <<number, Capabilities, Files, Answers>>

-----------------------------------------------------------------------------
(* The host's side of it: a Binder thread.                                 *)

EnterEndpoint(w) ==
  /\ Place(w) = "sent" /\ endpoint[w] = "accepting"
  /\ MovesTo(w, "inside")
  /\ UNCHANGED <<leases, number, Capabilities, Files, Answers>>

(* withIncoming: a call that comes too late still owns its descriptors.    *)
RejectLate(w) ==
  /\ Place(w) = "sent" /\ endpoint[w] # "accepting"
  /\ Over(w, "refused") /\ Leases(w, {"object", "parcel"}, {})
  /\ UNCHANGED <<writers, Files>>

(* A call ends: calls--, and the last call of a closed endpoint releases   *)
(* the native writer.                                                      *)
Leaves(w, out) ==
  /\ Over(w, out)
  /\ writers' = IF endpoint[w] = "accepting" THEN writers ELSE writers \ {w}

(* consume: the table takes the descriptors over, then the native side.    *)
Consume(w) ==
  /\ Place(w) = "inside"
  /\ MovesTo(w, "owned")
  /\ IF transaction[w].op \in Carrying
     THEN w \in tables /\ Leases(w, {"parcel"}, {"table"})
     ELSE UNCHANGED leases
  /\ UNCHANGED <<number, Capabilities, Files, Answers>>
Unconsumed(w) ==
  /\ Place(w) = "inside"
  /\ Leaves(w, "refused") /\ Leases(w, {"object", "parcel"}, {})
  /\ UNCHANGED Files

(* Whatever is refused leaves the files as they were.                      *)
NativeRefuses(w) ==
  /\ Place(w) = "owned"
  /\ Leaves(w, "refused") /\ Leases(w, {"object", "table"}, {})
  /\ UNCHANGED Files

NativeReads(w) ==
  /\ Place(w) = "owned" /\ transaction[w].op \in Reading /\ latest # 0
  /\ transaction' = [transaction EXCEPT ![w].at = "decided", ![w].id = latest]
  /\ UNCHANGED <<leases, number, Capabilities, Files, Answers>>

(* commit: only over the generation it was prepared from.  A recovery has  *)
(* a file of its own, which a repetition finds.                            *)
Publishes(w) ==
  LET t == transaction[w] IN
  /\ t.op = "create" => latest = 0
  /\ t.op = "commit" => latest = known[w]
  /\ latest' = IF t.op \in {"create", "commit"} THEN t.id ELSE latest
  /\ effects' = effects \cup {t.id}
  /\ UNCHANGED stored
(* save_local_draft, discard_local_draft: no generation is compared.       *)
PutsDraft(w) ==
  LET t == transaction[w] IN
  /\ stored' = [id |-> t.id, by |-> w] /\ effects' = effects \cup {t.id}
  /\ UNCHANGED latest
TakesEffect(w) ==
  \/ transaction[w].op \in Publishing /\ Publishes(w)
  \/ transaction[w].op \in Drafting /\ PutsDraft(w)

(* The native side reads the objects through the host's table.  A commit   *)
(* has its new generation to show.                                         *)
Mutates(w) ==
  /\ Place(w) = "owned" /\ transaction[w].op \notin Reading
  /\ transaction[w].op \in Carrying => w \in tables
NativeDone(w) ==
  /\ Mutates(w) /\ transaction[w].op \notin Showing /\ TakesEffect(w)
  /\ Leaves(w, "done") /\ Leases(w, {"object", "table"}, {})
NativeCommits(w) ==
  /\ Mutates(w) /\ transaction[w].op \in Showing /\ TakesEffect(w)
  /\ MovesTo(w, "decided") /\ Leases(w, {"table"}, {})
  /\ UNCHANGED <<number, Capabilities, Answers>>
(* The objects of a commit in doubt may be retained for its repetition.    *)
NativeUncertain(w) ==
  /\ Mutates(w) /\ (TakesEffect(w) \/ UNCHANGED Files)
  /\ Leaves(w, "uncertain")
  /\ \/ Leases(w, {"object", "table"}, {})
     \/ transaction[w].op = "commit" /\ Leases(w, {"object", "table"}, {"retained"})

(* view: the archive is copied into a descriptor of the table and from     *)
(* there into the reply.  A commit that cannot show it is in doubt.        *)
Show(w) ==
  /\ Place(w) = "decided" /\ w \in tables
  /\ Leaves(w, "done") /\ Leases(w, {"object"}, {})
  /\ UNCHANGED Files
CannotShow(w) ==
  /\ Place(w) = "decided"
  /\ Leaves(w, Unproven(transaction[w].op)) /\ Leases(w, {"object"}, {})
  /\ UNCHANGED Files

-----------------------------------------------------------------------------
WorkerStep(w) ==
  \/ StartWorker(w) \/ WorkerDies(w) \/ CloseEndpoint(w) \/ CloseTable(w)
  \/ \E op \in Calls : Submit(w, op)
  \/ Undelivered(w)
HostStep(w) ==
  \/ EnterEndpoint(w) \/ RejectLate(w) \/ Consume(w) \/ Unconsumed(w)
  \/ NativeRefuses(w) \/ NativeReads(w)
  \/ NativeDone(w) \/ NativeCommits(w) \/ NativeUncertain(w)
  \/ Show(w) \/ CannotShow(w)

PortNext == HostCommits \/ \E w \in Workers : WorkerStep(w) \/ HostStep(w)

PortSpec == PortInit /\ [][PortNext]_portVars

-----------------------------------------------------------------------------
(* What a worker is told of a call is true, whatever was lost on the way:  *)
(* what was done has taken effect, what was refused never does, and the    *)
(* archive it goes on from was published.                                  *)
ToldIsTrue ==
  /\ heard.out = "done" => heard.id \in effects
  /\ heard.out = "refused" => heard.id \notin effects
  /\ \A w \in Workers : known[w] \in effects \cup {0}

(* The native writer lives exactly as long as its endpoint accepts calls   *)
(* or one is inside: none runs without it, none keeps it.                  *)
WriterHeld ==
  \A w \in Workers : w \in writers <=> endpoint[w] = "accepting" \/ Inside(w)

(* No descriptor outlives its call, except what the host retains in an     *)
(* open table, however the call ends and whoever is gone by then.          *)
NothingLeaks ==
  \A w \in Workers :
    /\ Place(w) = "none" => leases[w] \subseteq {"retained"}
    /\ process[w] = "dead" => "object" \notin leases[w]
    /\ w \notin tables => leases[w] \cap OfTable = {}

(* A draft in place is not older than what its own generation was told.    *)
DraftIsLatest ==
  heard.by # 0 /\ heard.by = stored.by => heard.id <= stored.id

PortSound == ToldIsTrue /\ WriterHeld /\ NothingLeaks /\ DraftIsLatest
=============================================================================
