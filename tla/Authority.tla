----------------------------- MODULE Authority -----------------------------
(***************************************************************************)
(* The signed authority of one database across its devices: managers       *)
(* extend their copy's control chain, coordinators exchange chains and     *)
(* stop on contradictory ones (taypeer-sync coordinator.rs and node.rs,    *)
(* taypeer-services managed/administration.rs).                            *)
(*                                                                         *)
(* A replica is one working copy of the archive.  Two replicas may carry   *)
(* the same device keys: a profile restored from a backup or copied to a   *)
(* second machine.  A saved copy is the chain and the fork evidence in its *)
(* journal; saving is the commit of ArchiveStore, reduced to what callers  *)
(* see of it: done, refused, or in doubt until it is repeated or the host  *)
(* restarts and finds the old or the new file.                             *)
(***************************************************************************)
EXTENDS Control

CONSTANTS
  Replicas,       \* working copies
  Profiles,       \* how profiles may be spread: the device of each working copy
  Founder,        \* the working copy the database was created in
  FirstPolicy,
  MaxConsents,    \* bound: consents signed in one behaviour
  DirectOffers    \* may a caller offer a frozen copy's metadata itself?

ASSUME AuthorityAssumption ==
  /\ Profiles \subseteq [Replicas -> Devices]
  /\ Founder \in Replicas
  /\ FirstPolicy \in Policies
  /\ MaxConsents \in Nat
  /\ DirectOffers \in BOOLEAN

VARIABLES
  device,     \* the device whose keys a working copy uses
  saved,      \* the committed snapshot of each copy: [chain, forks]
  doubt,      \* the candidate of a commit that ended in CommitUncertain
  frozen,     \* WorkingCopy.frozen
  inventory,  \* the last metadata each copy handed out: [to, meta]
  consents    \* handoff consents signed so far

vars == <<device, saved, doubt, frozen, inventory, consents>>

Meta(chain, forks) == [chain |-> chain, forks |-> forks]
NoCopy == Meta(<<>>, {})
Chain(r) == saved[r].chain
Registered(r) == Chain(r) # <<>>

FounderIdentity == CHOOSE i \in Identities : i.device = device[Founder]

Init ==
  /\ device \in Profiles
  /\ saved = [r \in Replicas |->
       IF r = Founder THEN Meta(<<Genesis(FounderIdentity, FirstPolicy)>>, {}) ELSE NoCopy]
  /\ doubt = [r \in Replicas |-> None]
  /\ frozen = [r \in Replicas |-> FALSE]
  /\ inventory = [r \in Replicas |-> None]
  /\ consents = {}

-----------------------------------------------------------------------------
(* ArchiveStore::commit and confirm_commit as seen by the coordinator.     *)

(* Mutant of Save: an uncertain candidate is served, and the old file may  *)
(* still be the one a restart finds.                                       *)
SaveServesDoubt(r, meta) ==
  /\ doubt[r] = None
  /\ \/ saved' = [saved EXCEPT ![r] = meta] /\ UNCHANGED doubt
     \/ saved' = [saved EXCEPT ![r] = meta] /\ doubt' = [doubt EXCEPT ![r] = saved[r]]

Save(r, meta) ==
  /\ doubt[r] = None
  /\ \/ saved' = [saved EXCEPT ![r] = meta] /\ UNCHANGED doubt
     \/ doubt' = [doubt EXCEPT ![r] = meta] /\ UNCHANGED saved

SaveFails == UNCHANGED <<saved, doubt>>

(* The same request repeated: the retained candidate is synced again.      *)
Confirm(r) ==
  /\ doubt[r] # None
  /\ ~frozen[r]
  /\ saved' = [saved EXCEPT ![r] = doubt[r]]
  /\ doubt' = [doubt EXCEPT ![r] = None]
  /\ UNCHANGED <<device, frozen, inventory, consents>>

(* The host ends, with or without power loss, and registers the file that  *)
(* it then finds: Coordinator::register.                                   *)
Restart(r) ==
  /\ Registered(r)
  /\ \E meta \in {saved[r], doubt[r]} \ {None} :
       /\ saved' = [saved EXCEPT ![r] = meta]
       /\ frozen' = [frozen EXCEPT ![r] = meta.forks # {}]
  /\ doubt' = [doubt EXCEPT ![r] = None]
  /\ UNCHANGED <<device, inventory, consents>>

-----------------------------------------------------------------------------
(* The manager and its successor.                                          *)

Intents ==
  UNION {{Admit(i) : i \in Identities},
         {Rotate(d, p) : d \in Devices \cup {None}, p \in Policies},
         {Policy(p) : p \in Policies},
         {Transfer(c) : c \in consents}}

(* A worker prepares the transition and Coordinator::commit saves it.      *)
Administer(r, operation, intent) ==
  /\ Registered(r) /\ ~frozen[r]
  /\ CanExtend(Chain(r), device[r], operation, intent)
  /\ Save(r, Meta(Append(Chain(r), Successor(Chain(r), operation, intent)), saved[r].forks))
  /\ UNCHANGED <<device, frozen, inventory, consents>>

(* HandoffConsent::sign for an operation the two devices agreed on.        *)
Consent(r, operation) ==
  /\ Registered(r) /\ ~frozen[r]
  /\ CanConsent(Chain(r), device[r])
  /\ Cardinality(consents) < MaxConsents
  /\ consents' = consents \cup {ConsentTo(Chain(r), device[r], operation)}
  /\ UNCHANGED <<device, saved, doubt, frozen, inventory>>

-----------------------------------------------------------------------------
(* Exchange between coordinators.  Peers are told apart by their transport *)
(* key, so two copies of one profile never talk to each other.             *)

CanTalk(r, s) == Registered(r) /\ device[r] # device[s]

(* authorize                                                               *)
Authorized(r, peer) == ~frozen[r] /\ Admits(Chain(r), device[peer])

(* Command::Inventory: what an exchange sends to the other side.  It may   *)
(* arrive late, twice or never.                                            *)
Inventory(r, s) ==
  /\ CanTalk(r, s) /\ Authorized(r, s)
  /\ inventory' = [inventory EXCEPT ![r] = [to |-> s, meta |-> saved[r]]]
  /\ UNCHANGED <<device, saved, doubt, frozen, consents>>

(* A caller of the library that sends what Coordinator::snapshot returned. *)
Announce(r, s) ==
  /\ DirectOffers
  /\ CanTalk(r, s)
  /\ inventory' = [inventory EXCEPT ![r] = [to |-> s, meta |-> saved[r]]]
  /\ UNCHANGED <<device, saved, doubt, frozen, consents>>

(* The evidence to keep beside the chain `common'.                         *)
Contradictions(common, evidence) == {e \in evidence : Forks(common, e)}

(* Mutant of OfferEvidence: the evidence is kept beside the old chain.     *)
OfferEvidenceUnchecked(s, r) ==
  LET incoming == inventory[r].meta
      mine == Chain(s)
      common == IF Forks(mine, incoming.chain) THEN mine ELSE Longer(mine, incoming.chain)
      evidence == saved[s].forks \cup {incoming.chain} \cup incoming.forks
  IN  /\ incoming.forks # {}
      /\ frozen' = [frozen EXCEPT ![s] = TRUE]
      /\ Save(s, Meta(common, evidence)) \/ SaveFails

(* The sender already holds fork evidence.                                 *)
OfferEvidence(s, r) ==
  LET incoming == inventory[r].meta
      mine == Chain(s)
      common == IF Forks(mine, incoming.chain) THEN mine ELSE Longer(mine, incoming.chain)
      evidence == saved[s].forks \cup
                  Contradictions(mine, {incoming.chain}) \cup
                  Contradictions(common, incoming.forks)
  IN  /\ incoming.forks # {}
      /\ frozen' = [frozen EXCEPT ![s] = TRUE]
      /\ Save(s, Meta(common, evidence)) \/ SaveFails

(* The sender's chain contradicts ours.                                    *)
OfferFork(s, r) ==
  LET incoming == inventory[r].meta IN
  /\ incoming.forks = {}
  /\ Forks(Chain(s), incoming.chain)
  /\ frozen' = [frozen EXCEPT ![s] = TRUE]
  /\ Save(s, Meta(Chain(s), saved[s].forks \cup {incoming.chain})) \/ SaveFails

(* The sender's chain extends ours.                                        *)
OfferGrow(s, r) ==
  LET incoming == inventory[r].meta IN
  /\ incoming.forks = {}
  /\ ~Forks(Chain(s), incoming.chain)
  /\ Len(incoming.chain) > Len(Chain(s))
  /\ Save(s, Meta(incoming.chain, saved[s].forks))
  /\ UNCHANGED frozen

(* Command::Offer at s of what r handed out for it.                        *)
Offer(s, r) ==
  /\ inventory[r] # None /\ inventory[r].to = s
  /\ Registered(s) /\ Authorized(s, r)
  /\ OfferEvidence(s, r) \/ OfferFork(s, r) \/ OfferGrow(s, r)
  /\ UNCHANGED <<device, inventory, consents>>

(* Command::JoinStatus answered with Joined: the recipient of an admission *)
(* creates its working copy from the metadata it receives.                 *)
Join(s, r) ==
  /\ ~Registered(s) /\ CanTalk(r, s) /\ Authorized(r, s)
  /\ saved' = [saved EXCEPT ![s] = saved[r]]
  /\ UNCHANGED <<device, doubt, frozen, inventory, consents>>

(* Somebody copies the profile and its file, or restores it from a backup. *)
Copy(s, r) ==
  /\ ~Registered(s) /\ Registered(r) /\ device[r] = device[s]
  /\ saved' = [saved EXCEPT ![s] = saved[r]]
  /\ frozen' = [frozen EXCEPT ![s] = saved[r].forks # {}]
  /\ UNCHANGED <<device, doubt, inventory, consents>>

Next ==
  \/ \E r \in Replicas : Confirm(r) \/ Restart(r)
  \/ \E r \in Replicas, o \in Operations, i \in Intents : Administer(r, o, i)
  \/ \E r \in Replicas, o \in Operations : Consent(r, o)
  \/ \E r, s \in Replicas :
       Inventory(r, s) \/ Announce(r, s) \/ Offer(s, r) \/ Join(s, r) \/ Copy(s, r)

Spec == Init /\ [][Next]_vars

(* Copies that stay online exchange again and again (the network loop of   *)
(* taypeer-runtime retries every known peer), and their disks recover.     *)
Fairness ==
  \A s \in Replicas :
    /\ WF_vars(Confirm(s))
    /\ WF_vars(\E r \in Replicas : Inventory(r, s))
    /\ WF_vars(\E r \in Replicas : Offer(s, r))
FairSpec == Spec /\ Fairness

-----------------------------------------------------------------------------
(* Properties.                                                             *)

(* As long as no profile is copied, devices never see contradictory signed *)
(* states (lost commits, restarts, handoffs and delayed exchanges do not   *)
(* freeze anybody), and at most one device believes it manages the         *)
(* database, also while a handoff is on its way or in doubt.               *)
OwnProfiles == \A r, s \in Replicas : device[r] = device[s] => r = s
NoFalseFork == \A r \in Replicas : ~frozen[r] /\ saved[r].forks = {}
Manages(r) == Registered(r) /\ Latest(Chain(r)).manager = device[r]
OneManager == \A r, s \in Replicas : Manages(r) /\ Manages(s) => r = s
OwnProfilesAgree == OwnProfiles => NoFalseFork /\ OneManager

(* The evidence a copy stores contradicts the chain it stores, which       *)
(* ArchiveMetadata::verify requires of every file it opens: no sequence of *)
(* offers writes an archive that can no longer be opened.  And it stops    *)
(* the copy for good: whether it was written here, or found in doubt, or   *)
(* arrived with the archive a device joined with or a profile was copied   *)
(* from, the copy is frozen across every restart.                          *)
EvidenceContradicts ==
  \A r \in Replicas : \A e \in saved[r].forks : Forks(Chain(r), e)
EvidenceFreezes == \A r \in Replicas : saved[r].forks # {} => frozen[r]
EvidenceSound == EvidenceContradicts /\ EvidenceFreezes

(* Fork evidence reaches the other devices: once a copy has stored it,     *)
(* every device it exchanges with stops too.                               *)
EvidenceSpreads ==
  \A s \in Replicas :
    (\E r \in Replicas : saved[r].forks # {} /\ Admits(Chain(r), device[s])
                           /\ device[r] # device[s])
      ~> (frozen[s] \/ ~Registered(s))

=============================================================================
