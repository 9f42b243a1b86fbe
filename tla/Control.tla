------------------------------ MODULE Control ------------------------------
(***************************************************************************)
(* Signed authority of one database (taypeer-trust, control.rs): the       *)
(* records of a control chain, how a manager extends it and how a receiver *)
(* checks it.  Operators only; ControlChain and Authority add the state.   *)
(*                                                                         *)
(* A chain is a sequence of controls.  The field `previous' of the code is *)
(* a control's place in the sequence, and a signature is the name of the   *)
(* device that made it.  Database, trust set, schema and version never     *)
(* differ between the records of one root and are left out.                *)
(***************************************************************************)
EXTENDS Naturals, Sequences, FiniteSets

CONSTANTS
  Identities,   \* identities that can be admitted: [device, transport]
  Policies,     \* commitments to the encrypted database policy
  Operations,   \* durable retry identities of administrative operations
  MaxControls,  \* MAX_CONTROLS
  MaxMembers,   \* MAX_MEMBERS
  None

ASSUME ControlAssumption ==
  /\ MaxControls \in Nat
  /\ MaxMembers \in Nat
  /\ None \notin Operations

Devices == {i.device : i \in Identities}

ASSUME DeviceAssumption == None \notin Devices

Member(identity, sequence) == [identity |-> identity, admitted_at |-> sequence]

(* ControlChain::head                                                      *)
Latest(chain) == chain[Len(chain)]

(* What a control's hash commits to: each record names its predecessor, so *)
(* equal hashes mean equal operations and intents all the way to the root. *)
Hash(chain) == [n \in DOMAIN chain |-> <<chain[n].operation, chain[n].intent>>]

Admitted(control) == DOMAIN control.members

-----------------------------------------------------------------------------
(* ControlTransition and HandoffConsent                                    *)

Admit(identity) == [kind |-> "admit", identity |-> identity]
Rotate(revoke, policy) == [kind |-> "rotate", revoke |-> revoke, policy |-> policy]
Policy(policy) == [kind |-> "policy", policy |-> policy]
Transfer(consent) == [kind |-> "transfer", consent |-> consent]

ConsentTo(chain, recipient, operation) ==
  [previous |-> Hash(chain), recipient |-> recipient, operation |-> operation]

CanConsent(chain, recipient) ==
  recipient \in Admitted(Latest(chain)) /\ recipient # Latest(chain).manager

(* Mutant of ConsentHolds: a consent given for an older state still counts. *)
ConsentHoldsLater(consent, chain) ==
  /\ consent.recipient # Latest(chain).manager
  /\ consent.recipient \in Admitted(Latest(chain))

ConsentHolds(consent, chain) ==
  /\ consent.previous = Hash(chain)
  /\ consent.recipient # Latest(chain).manager
  /\ consent.recipient \in Admitted(Latest(chain))

-----------------------------------------------------------------------------
(* Genesis and successors                                                  *)

Genesis(identity, policy) ==
  [sequence |-> 0, epoch |-> 0, manager |-> identity.device,
   members |-> [d \in {identity.device} |-> Member(identity, 0)],
   policy |-> policy, operation |-> None, intent |-> None, handoff |-> None,
   signer |-> identity.device]

(* The member map that an intent leaves.                                   *)
NextMembers(head, intent) ==
  CASE intent.kind = "admit" ->
         [d \in Admitted(head) \cup {intent.identity.device} |->
           IF d = intent.identity.device
           THEN Member(intent.identity, head.sequence + 1)
           ELSE head.members[d]]
    [] intent.kind = "rotate" ->
         [d \in Admitted(head) \ {intent.revoke} |-> head.members[d]]
    [] OTHER -> head.members

(* The body that ControlChain::transition signs.                           *)
Successor(chain, operation, intent) ==
  LET head == Latest(chain) IN
  [sequence  |-> head.sequence + 1,
   epoch     |-> IF intent.kind = "rotate" THEN head.epoch + 1 ELSE head.epoch,
   manager   |-> IF intent.kind = "transfer" THEN intent.consent.recipient ELSE head.manager,
   members   |-> NextMembers(head, intent),
   policy    |-> IF intent.kind \in {"rotate", "policy"} THEN intent.policy ELSE head.policy,
   operation |-> operation,
   intent    |-> intent,
   handoff   |-> IF intent.kind = "transfer" THEN intent.consent ELSE None,
   signer    |-> head.manager]

Uses(chain, operation) == \E n \in DOMAIN chain : chain[n].operation = operation

(* validate_body                                                           *)
ValidBody(c) ==
  /\ Cardinality(Admitted(c)) \in 1..MaxMembers
  /\ c.manager \in Admitted(c)
  /\ \A d \in Admitted(c) :
       c.members[d].identity.device = d /\ c.members[d].admitted_at <= c.sequence
  /\ \A d, e \in Admitted(c) :
       c.members[d].identity.transport = c.members[e].identity.transport => d = e

(* ControlChain::transition of an operation the chain does not hold yet;   *)
(* its last step validates the extended chain.                             *)
CanExtend(chain, device, operation, intent) ==
  LET head == Latest(chain) IN
  /\ ~Uses(chain, operation)
  /\ device = head.manager
  /\ \/ intent.kind = "admit" /\ intent.identity.device \notin Admitted(head)
     \/ intent.kind = "rotate" /\ intent.revoke \in {None} \cup (Admitted(head) \ {head.manager})
     \/ intent.kind = "policy"
     \/ /\ intent.kind = "transfer"
        /\ ConsentHolds(intent.consent, chain)
        /\ intent.consent.operation = operation
  /\ ValidBody(Successor(chain, operation, intent))
  /\ Len(chain) < MaxControls

-----------------------------------------------------------------------------
(* validate_successor: a receiver infers the intent from the two bodies.   *)

Added(a, b) == Admitted(b) \ Admitted(a)
Removed(a, b) == Admitted(a) \ Admitted(b)

IsTransfer(chain, b) ==
  LET a == Latest(chain) IN
  /\ b.manager # a.manager
  /\ b.handoff # None
  /\ ConsentHolds(b.handoff, chain)
  /\ b.handoff.recipient = b.manager
  /\ b.handoff.operation = b.operation
  /\ b.members = a.members /\ b.epoch = a.epoch /\ b.policy = a.policy
  /\ b.intent = Transfer(b.handoff)

Stays(a, b) == b.manager = a.manager /\ b.handoff = None

(* Mutant of IsAdmit: the interval of a new member is not checked.         *)
IsAdmitAnytime(chain, b) ==
  LET a == Latest(chain) IN
  /\ Stays(a, b)
  /\ b.epoch = a.epoch /\ Removed(a, b) = {}
  /\ \E d \in Devices :
       /\ Added(a, b) = {d}
       /\ b.policy = a.policy
       /\ b.intent = Admit(b.members[d].identity)

IsAdmit(chain, b) ==
  LET a == Latest(chain) IN
  /\ Stays(a, b)
  /\ b.epoch = a.epoch /\ Removed(a, b) = {}
  /\ \E d \in Devices :
       /\ Added(a, b) = {d}
       /\ b.members[d].admitted_at = b.sequence
       /\ b.policy = a.policy
       /\ b.intent = Admit(b.members[d].identity)

(* Mutant of IsPolicy: a record that keeps the epoch may drop a member.    *)
IsPolicyDropping(chain, b) ==
  LET a == Latest(chain) IN
  /\ Stays(a, b)
  /\ b.epoch = a.epoch /\ Added(a, b) = {}
  /\ b.intent = Policy(b.policy)

IsPolicy(chain, b) ==
  LET a == Latest(chain) IN
  /\ Stays(a, b)
  /\ b.epoch = a.epoch /\ Removed(a, b) = {} /\ Added(a, b) = {}
  /\ b.intent = Policy(b.policy)

(* Mutant of IsRotate: the recorded intent is not compared.                *)
IsRotateUnbound(chain, b) ==
  LET a == Latest(chain) IN
  /\ Stays(a, b)
  /\ b.epoch = a.epoch + 1 /\ Added(a, b) = {}
  /\ \A d, e \in Removed(a, b) : d = e

IsRotate(chain, b) ==
  LET a == Latest(chain) IN
  /\ Stays(a, b)
  /\ b.epoch = a.epoch + 1 /\ Added(a, b) = {}
  /\ \A d, e \in Removed(a, b) : d = e
  /\ \E revoke \in Devices \cup {None} :
       /\ Removed(a, b) = {revoke} \ {None}
       /\ b.intent = Rotate(revoke, b.policy)

ValidSuccessor(chain, b) ==
  LET a == Latest(chain) IN
  /\ ValidBody(b)
  /\ b.signer = a.manager
  /\ b.sequence = a.sequence + 1
  /\ b.operation # None
  /\ \A d \in Admitted(a) \cap Admitted(b) : b.members[d] = a.members[d]
  /\ IsTransfer(chain, b) \/ IsAdmit(chain, b) \/ IsPolicy(chain, b) \/ IsRotate(chain, b)

(* One turn of the loop of ControlChain::validate.                         *)
Acceptable(chain, b) ==
  ValidSuccessor(chain, b) /\ ~Uses(chain, b.operation) /\ Len(chain) < MaxControls

-----------------------------------------------------------------------------
(* Questions the program asks of a chain.                                  *)

(* ControlChain::admit_transport, by the device that owns the key.         *)
Admits(chain, device) == device \in Admitted(Latest(chain))

(* ControlChain::continuous, for the control at place n.                   *)
Continuous(chain, device, n) ==
  /\ device \in Admitted(chain[n])
  /\ device \in Admitted(Latest(chain))
  /\ Latest(chain).members[device] = chain[n].members[device]

Forks(mine, incoming) ==
  \E n \in DOMAIN mine \cap DOMAIN incoming : mine[n] # incoming[n]

(* ControlChain::reconcile when the two do not contradict each other.      *)
Longer(mine, incoming) == IF Len(incoming) > Len(mine) THEN incoming ELSE mine

=============================================================================
