---------------------------- MODULE Enrollment ----------------------------
(***************************************************************************)
(* How a device joins a database: the manager issues a five-minute         *)
(* invitation, a recipient presents it, the manager admits the recipient   *)
(* and the recipient downloads its working copy (taypeer-trust             *)
(* invitation.rs, taypeer-sync coordinator.rs, taypeer-services            *)
(* managed/administration.rs, taypeer-runtime network.rs).                 *)
(*                                                                         *)
(* The manager's worker prepares a publication outside the coordinator's   *)
(* mutex; presentations of recipients are handled inside it meanwhile.     *)
(* Saving is the commit of ArchiveStore as its callers see it: done, or in *)
(* doubt until the same request is repeated or the host restarts.          *)
(***************************************************************************)
EXTENDS Control

CONSTANTS
  Invitations,  \* invitations the manager may issue
  Issuer,       \* identity of the device whose coordinator is modelled
  FirstPolicy,
  Window,       \* lifetime of an invitation (300 seconds)
  MaxTime       \* bound: the clock stops here

VARIABLES
  clock,      \* unix_seconds at the manager
  saved,      \* the manager's committed snapshot: [chain, journal]
  doubt,      \* the candidate of a commit that ended in CommitUncertain
  prepared,      \* what the worker prepared: [expected, meta, codes]
  codes,      \* invitations whose code was returned to the manager's user
  told,       \* history: who was told that its request is pending or accepted
  pending,    \* PendingJoin records in the profile of each recipient
  download,   \* a resume_join in progress: [request, stage]
  file,       \* recipients whose registered working copy exists
  catalog     \* recipients whose copy is in the common catalog

manager == <<saved, doubt, prepared, codes>>
recipient == <<pending, download, file, catalog>>
vars == <<clock, manager, told, recipient>>

Recipients == Devices \ {Issuer.device}
IdentityOf(device) == CHOOSE i \in Identities : i.device = device

Meta(chain, journal) == [chain |-> chain, journal |-> journal]

(* InvitationStatus; Rejected and Cancelled are both Closed.               *)
Status(state, device, control) == [state |-> state, by |-> device, control |-> control]
Available == Status("available", None, None)
Requested(device) == Status("requested", device, None)
Accepted(device, control) == Status("accepted", device, control)
ClosedStatus == Status("closed", None, None)

Init ==
  /\ clock = 0
  /\ saved = Meta(<<Genesis(Issuer, FirstPolicy)>>, <<>>)
  /\ doubt = None /\ prepared = None
  /\ codes = {}
  /\ told = [i \in Invitations |-> {}]
  /\ pending = [d \in Recipients |-> {}]
  /\ download = [d \in Recipients |-> None]
  /\ file = {} /\ catalog = {}

Issued(i) == i \in DOMAIN saved.journal
StatusOf(i) == saved.journal[i].status
SetStatus(journal, i, status) == [journal EXCEPT ![i].status = status]

-----------------------------------------------------------------------------
(* Invitation::verify                                                      *)

(* Mutant of Verify: only the latest control is compared with the issuing  *)
(* one.                                                                    *)
VerifyLatest(record, chain, now) ==
  /\ record.manager = Latest(chain).manager
  /\ record.issued_at <= now /\ now < record.issued_at + Window
  /\ record.control \in DOMAIN chain
  /\ Latest(chain).epoch = chain[record.control].epoch

Verify(record, chain, now) ==
  /\ record.manager = Latest(chain).manager
  /\ record.issued_at <= now /\ now < record.issued_at + Window
  /\ record.control \in DOMAIN chain
  /\ \A n \in record.control..Len(chain) :
       chain[n].manager = record.manager /\ chain[n].epoch = chain[record.control].epoch

-----------------------------------------------------------------------------
(* The manager's worker                                                    *)

Prepared(chain, journal, revealed) ==
  /\ prepared = None
  /\ prepared' = [expected |-> saved, meta |-> Meta(chain, journal), codes |-> revealed]
  /\ UNCHANGED <<clock, saved, doubt, codes, told, recipient>>

IsManager == Latest(saved.chain).manager = Issuer.device

(* create_invitation                                                       *)
CreateInvitation(i) ==
  /\ IsManager
  /\ ~Issued(i)
  /\ LET record == [issued_at |-> clock, control |-> Len(saved.chain),
                    manager |-> Issuer.device, status |-> Available]
         journal == [j \in DOMAIN saved.journal \cup {i} |->
                       IF j = i THEN record ELSE saved.journal[j]]
     IN  Prepared(saved.chain, journal, {i})

(* approve_invitation: admission and acceptance in one publication.        *)
ApproveInvitation(i) ==
  /\ IsManager
  /\ Issued(i)
  /\ StatusOf(i).state = "requested"
  /\ Verify(saved.journal[i], saved.chain, clock)
  /\ LET device == StatusOf(i).by
         intent == Admit(IdentityOf(device))
         chain == Append(saved.chain, Successor(saved.chain, i, intent))
     IN  /\ CanExtend(saved.chain, Issuer.device, i, intent)
         /\ Prepared(chain, SetStatus(saved.journal, i, Accepted(device, Len(chain))), {})

(* close_invitation                                                        *)
CloseInvitation(i) ==
  /\ IsManager
  /\ Issued(i)
  /\ StatusOf(i).state # "accepted"
  /\ Prepared(saved.chain, SetStatus(saved.journal, i, ClosedStatus), {})

(* rotate_password and transfer_management to a device that consents.      *)
Administer(operation, intent) ==
  /\ CanExtend(saved.chain, Issuer.device, operation, intent)
  /\ Prepared(Append(saved.chain, Successor(saved.chain, operation, intent)), saved.journal, {})

Handoffs(operation) ==
  {Transfer(ConsentTo(saved.chain, d, operation)) :
     d \in {e \in Devices : CanConsent(saved.chain, e)}}
Intents(operation) ==
  {Rotate(d, FirstPolicy) : d \in Devices \cup {None}} \cup Handoffs(operation)

(* Mutant of Publish: the snapshot is not compared with the one the worker *)
(* prepared its publication from.                                          *)
PublishStale ==
  /\ prepared # None
  /\ doubt = None
  /\ \/ saved' = prepared.meta /\ codes' = codes \cup prepared.codes /\ UNCHANGED doubt
     \/ doubt' = prepared.meta /\ UNCHANGED <<saved, codes>>
  /\ prepared' = None
  /\ UNCHANGED <<clock, told, recipient>>

(* Coordinator::commit of the prepared publication.                        *)
Publish ==
  /\ prepared # None
  /\ prepared.expected = saved
  /\ doubt = None
  /\ \/ saved' = prepared.meta /\ codes' = codes \cup prepared.codes /\ UNCHANGED doubt
     \/ doubt' = prepared.meta /\ UNCHANGED <<saved, codes>>
  /\ prepared' = None
  /\ UNCHANGED <<clock, told, recipient>>

(* Refused with Changed or CommitUncertain, also because of writes that    *)
(* this module leaves out; or the session locked.                          *)
Refused ==
  /\ prepared # None
  /\ prepared' = None
  /\ UNCHANGED <<clock, saved, doubt, codes, told, recipient>>

(* The manager's host ends and registers the file it finds at start.       *)
Restart ==
  /\ prepared # None \/ doubt # None
  /\ saved' \in {saved, doubt} \ {None}
  /\ doubt' = None /\ prepared' = None
  /\ UNCHANGED <<clock, codes, told, recipient>>

(* Another device manages now and hands management back; the coordinator   *)
(* adopts the extended chain from an offer.                                *)
HandedBack(operation) ==
  LET consent == ConsentTo(saved.chain, Issuer.device, operation) IN
  /\ ~IsManager
  /\ doubt = None
  /\ CanConsent(saved.chain, Issuer.device)
  /\ CanExtend(saved.chain, Latest(saved.chain).manager, operation, Transfer(consent))
  /\ saved' = Meta(Append(saved.chain, Successor(saved.chain, operation, Transfer(consent))),
                   saved.journal)
  /\ UNCHANGED <<clock, doubt, prepared, codes, told, recipient>>

Tick == clock < MaxTime /\ clock' = clock + 1 /\ UNCHANGED <<manager, told, recipient>>

-----------------------------------------------------------------------------
(* A recipient                                                             *)

(* Mutant of RecordJoinIntent: the other requests are not written again.   *)
RecordJoinIntentAlone(d, i) ==
  /\ i \in codes \ pending[d]
  /\ d \notin catalog
  /\ pending' = [pending EXCEPT ![d] = {i}]
  /\ UNCHANGED <<clock, manager, told, download, file, catalog>>

(* record_join_intent: the request is in the profile before it is sent.    *)
RecordJoinIntent(d, i) ==
  /\ i \in codes \ pending[d]
  /\ d \notin catalog
  /\ pending' = [pending EXCEPT ![d] = @ \cup {i}]
  /\ UNCHANGED <<clock, manager, told, download, file, catalog>>

(* The reply.  One that is lost would only leave the history smaller.      *)
Tell(d, i) == told' = [told EXCEPT ![i] = @ \cup {d}]

(* Command::Join with InvitationStatus::request.  A presentation that      *)
(* matches the candidate in doubt makes the store confirm it.              *)
PresentJoin(d, i) ==
  LET requested == Meta(saved.chain, SetStatus(saved.journal, i, Requested(d))) IN
  /\ i \in pending[d]
  /\ IsManager
  /\ Issued(i)
  /\ Verify(saved.journal[i], saved.chain, clock)
  /\ \/ /\ StatusOf(i) = Requested(d)
        /\ Tell(d, i)
        /\ UNCHANGED <<saved, doubt>>
     \/ /\ StatusOf(i) = Available
        /\ doubt \in {None, requested}
        /\ saved' = requested /\ doubt' = None
        /\ Tell(d, i)
     \/ /\ StatusOf(i) = Available
        /\ doubt = None
        /\ doubt' = requested
        /\ UNCHANGED <<saved, told>>
  /\ UNCHANGED <<clock, prepared, codes, recipient>>

(* Command::JoinStatus of a request that waits.                            *)
ResumePending(d, i) ==
  /\ i \in pending[d]
  /\ Issued(i)
  /\ StatusOf(i) = Requested(d)
  /\ Verify(saved.journal[i], saved.chain, clock)
  /\ Tell(d, i)
  /\ UNCHANGED <<clock, manager, recipient>>

(* Command::JoinStatus of an accepted request: the metadata is sent.       *)
ResumeAccepted(d, i) ==
  /\ i \in pending[d]
  /\ download[d] = None
  /\ Issued(i)
  /\ StatusOf(i).state = "accepted" /\ StatusOf(i).by = d
  /\ Admits(saved.chain, d)
  /\ Tell(d, i)
  /\ download' = [download EXCEPT ![d] = [request |-> i, stage |-> "fetch"]]
  /\ UNCHANGED <<clock, manager, pending, file, catalog>>

At(d, stage) == download[d] # None /\ download[d].stage = stage

(* Mutant of DownloadJoin: a file from an interrupted attempt is an error. *)
DownloadJoinOnce(d) ==
  /\ At(d, "fetch")
  /\ d \notin file /\ Admits(saved.chain, d)
  /\ file' = file \cup {d}
  /\ download' = [download EXCEPT ![d].stage = "register"]
  /\ UNCHANGED <<clock, manager, told, pending, catalog>>

(* download_join: attach the file of an earlier attempt, or fetch every    *)
(* object from a manager that still admits this device and create it.      *)
DownloadJoin(d) ==
  /\ At(d, "fetch")
  /\ d \in file \/ Admits(saved.chain, d)
  /\ file' = file \cup {d}
  /\ download' = [download EXCEPT ![d].stage = "register"]
  /\ UNCHANGED <<clock, manager, told, pending, catalog>>

(* register_working_copy                                                   *)
RegisterCopy(d) ==
  /\ At(d, "register")
  /\ catalog' = catalog \cup {d}
  /\ download' = [download EXCEPT ![d].stage = "finish"]
  /\ UNCHANGED <<clock, manager, told, pending, file>>

FinishJoin(d) ==
  /\ At(d, "finish")
  /\ pending' = [pending EXCEPT ![d] = @ \ {download[d].request}]
  /\ download' = [download EXCEPT ![d] = None]
  /\ UNCHANGED <<clock, manager, told, file, catalog>>

(* Cancelled, an error, or the recipient's host ends.                      *)
Interrupted(d) ==
  /\ download[d] # None
  /\ download' = [download EXCEPT ![d] = None]
  /\ UNCHANGED <<clock, manager, told, pending, file, catalog>>

-----------------------------------------------------------------------------
ManagerNext ==
  \/ \E i \in Invitations :
       CreateInvitation(i) \/ ApproveInvitation(i) \/ CloseInvitation(i)
  \/ \E o \in Operations \ Invitations :
       HandedBack(o) \/ \E intent \in Intents(o) : Administer(o, intent)
  \/ Publish \/ Refused \/ Restart \/ Tick

RecipientNext(d) ==
  \/ \E i \in Invitations :
       RecordJoinIntent(d, i) \/ PresentJoin(d, i) \/ ResumePending(d, i) \/ ResumeAccepted(d, i)
  \/ DownloadJoin(d) \/ RegisterCopy(d) \/ FinishJoin(d) \/ Interrupted(d)

Next == ManagerNext \/ \E d \in Recipients : RecipientNext(d)
Spec == Init /\ [][Next]_vars

(* A recipient keeps resuming its requests and carries a download through. *)
Fairness ==
  \A d \in Recipients :
    /\ \A i \in Invitations : WF_vars(ResumeAccepted(d, i))
    /\ WF_vars(DownloadJoin(d)) /\ WF_vars(RegisterCopy(d)) /\ WF_vars(FinishJoin(d))
FairSpec == Spec /\ Fairness

-----------------------------------------------------------------------------
(* Properties.                                                             *)

(* An invitation is redeemed once: whoever was told that its request is    *)
(* pending or accepted keeps it until the manager closes the invitation;   *)
(* no other device, lost commit, restart or concurrent publication of the  *)
(* manager's worker takes it away.                                         *)
RequestStands ==
  \A i \in Invitations : \A d \in told[i] :
    /\ Issued(i)
    /\ StatusOf(i).state \in {"requested", "accepted"} => StatusOf(i).by = d
    /\ StatusOf(i).state # "available"

(* Every device in the trust set beside the founder was admitted by an     *)
(* accepted invitation, under the management and the read epoch in which   *)
(* that invitation was issued, without an interruption in between.         *)
AdmissionRedeemed ==
  LET chain == saved.chain IN
  \A n \in DOMAIN chain :
    n > 1 /\ chain[n].intent.kind = "admit" =>
      LET i == chain[n].operation
          device == chain[n].intent.identity.device
      IN  /\ Issued(i)
          /\ StatusOf(i) = Accepted(device, n)
          /\ \A m \in saved.journal[i].control..n :
               /\ chain[m].manager = saved.journal[i].manager
               /\ chain[m].epoch = chain[n].epoch

(* Both: what was told stands, and membership rests on it.                 *)
InvitationsSound == RequestStands /\ AdmissionRedeemed

(* A recipient's profile forgets a request only when its working copy is   *)
(* in the catalog, whatever other requests it handles.                     *)
KeepsRequests ==
  [][\A d \in Recipients : pending[d] \subseteq pending'[d] \/ d \in catalog']_vars

(* A recipient whose admission is committed gets its working copy, also    *)
(* after the invitation expired and after interruptions at any point,      *)
(* unless it is revoked meanwhile.                                         *)
Waits(d) ==
  \E i \in pending[d] : Issued(i) /\ StatusOf(i).state = "accepted" /\ StatusOf(i).by = d
AdmittedReceives ==
  \A d \in Recipients :
    <>[][~Interrupted(d)]_vars =>
      (Waits(d) ~> (d \in catalog \/ ~Admits(saved.chain, d)))

=============================================================================
