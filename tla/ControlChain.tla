---------------------------- MODULE ControlChain ----------------------------
(***************************************************************************)
(* A device that validates a control chain record by record against its    *)
(* pinned root (ControlChain::validate).  The records come from outside:   *)
(* any signer, any body.  What the accepted chain guarantees must follow   *)
(* from the checks alone, not from how an honest manager builds records.   *)
(***************************************************************************)
EXTENDS Control

CONSTANTS
  Bodies(_)   \* the signed controls that may be presented after a chain

VARIABLE records
vars == <<records>>

Init == \E identity \in Identities, policy \in Policies :
          records = <<Genesis(identity, policy)>>

(* Decoding: the fields of Control with values of their types.             *)
Decoded(b) ==
  /\ b = [sequence |-> b.sequence, epoch |-> b.epoch, manager |-> b.manager,
          members |-> b.members, policy |-> b.policy, operation |-> b.operation,
          intent |-> b.intent, handoff |-> b.handoff, signer |-> b.signer]
  /\ b.sequence \in Nat /\ b.epoch \in Nat
  /\ Admitted(b) \subseteq Devices
  /\ b.members \in [Admitted(b) -> [identity : Identities, admitted_at : Nat]]
  /\ b.handoff # None =>
       b.handoff = [previous |-> b.handoff.previous, recipient |-> b.handoff.recipient,
                    operation |-> b.handoff.operation]

Accept(b) ==
  /\ Decoded(b)
  /\ Acceptable(records, b)
  /\ records' = Append(records, b)

Next == \E b \in Bodies(records) : Accept(b)

Spec == Init /\ [][Next]_vars

-----------------------------------------------------------------------------
(* Properties.                                                             *)

(* validate_successor accepts exactly what ControlChain::transition can    *)
(* sign: a receiver that sees only two bodies infers the one operation and *)
(* intent that lead from one to the other.                                 *)
AcceptedIsProduced ==
  \A n \in 1..Len(records) - 1 :
    LET prior == SubSeq(records, 1, n)
        b == records[n + 1]
    IN  /\ b = Successor(prior, b.operation, b.intent)
        /\ CanExtend(prior, b.signer, b.operation, b.intent)

(* ControlChain::continuous compares two member entries; equality means    *)
(* the device was admitted in every control in between, because a second   *)
(* admission of the same key starts a new interval.                        *)
ContinuousMeansUninterrupted ==
  \A n \in DOMAIN records, d \in Devices :
    Continuous(records, d, n) =>
      \A m \in n..Len(records) :
        d \in Admitted(records[m]) /\ records[m].members[d] = records[n].members[d]

(* Whoever was admitted in an epoch and is not admitted later is cut off   *)
(* from the later read key: no control of the same epoch lacks the device. *)
RevokedByEpoch ==
  \A m, n \in DOMAIN records :
    m < n /\ records[m].epoch = records[n].epoch =>
      Admitted(records[m]) \subseteq Admitted(records[n])

(* Management changes hands only to a device that consented to exactly     *)
(* that operation on exactly that preceding control.                       *)
HandoffConsented ==
  \A n \in 1..Len(records) - 1 :
    records[n + 1].manager # records[n].manager =>
      records[n + 1].handoff =
        ConsentTo(SubSeq(records, 1, n), records[n + 1].manager, records[n + 1].operation)
=============================================================================
