------------------------- MODULE ControlChain_proofs -------------------------
(***************************************************************************)
(* What a validated control chain guarantees, whatever records are         *)
(* presented: Bodies is not constrained, so a record may come from anyone. *)
(*                                                                         *)
(* IInv says of every accepted record what the checks of one successor     *)
(* establish (Sound) and, between records, what they add up to (Ordered).  *)
(***************************************************************************)
EXTENDS ControlChain, SequenceTheorems, TLAPS

(* What validation established for the record at one place of the chain.   *)
Sound(c) ==
  /\ Decoded(c)
  /\ \A d \in Admitted(c) : c.members[d].admitted_at <= c.sequence

IsChain ==
  /\ records \in Seq({records[n] : n \in DOMAIN records})
  /\ Len(records) >= 1
  /\ \A n \in DOMAIN records : Sound(records[n]) /\ records[n].sequence = n - 1

(* The epochs of a chain never go back.                                    *)
EpochsOrdered ==
  \A m, n \in DOMAIN records : m <= n => records[m].epoch <= records[n].epoch

IInv ==
  /\ IsChain
  /\ EpochsOrdered
  /\ AcceptedIsProduced
  /\ ContinuousMeansUninterrupted
  /\ RevokedByEpoch
  /\ HandoffConsented

-----------------------------------------------------------------------------
(* Appending a record leaves the earlier ones and their prefixes alone.    *)
LEMMA AppendKeeps ==
  ASSUME NEW S, NEW s \in Seq(S), NEW e \in S
  PROVE  /\ Append(s, e) \in Seq(S)
         /\ Len(Append(s, e)) = Len(s) + 1
         /\ DOMAIN Append(s, e) = 1..Len(s) + 1
         /\ Append(s, e)[Len(s) + 1] = e
         /\ \A n \in 1..Len(s) : Append(s, e)[n] = s[n]
         /\ \A n \in 1..Len(s) : SubSeq(Append(s, e), 1, n) = SubSeq(s, 1, n)
<1>1. /\ Append(s, e) \in Seq(S)
      /\ Len(Append(s, e)) = Len(s) + 1
      /\ DOMAIN Append(s, e) = 1..Len(s) + 1
      /\ Append(s, e)[Len(s) + 1] = e
      /\ \A n \in 1..Len(s) : Append(s, e)[n] = s[n]
  OBVIOUS
<1>2. ASSUME NEW n \in 1..Len(s) PROVE SubSeq(Append(s, e), 1, n) = SubSeq(s, 1, n)
  <2>1. /\ SubSeq(s, 1, n) \in Seq(S) /\ SubSeq(Append(s, e), 1, n) \in Seq(S)
        /\ Len(SubSeq(s, 1, n)) = n /\ Len(SubSeq(Append(s, e), 1, n)) = n
        /\ \A i \in 1..n : SubSeq(s, 1, n)[i] = s[i]
        /\ \A i \in 1..n : SubSeq(Append(s, e), 1, n)[i] = Append(s, e)[i]
    BY <1>1
  <2>2. QED
    BY <1>1, <2>1, SeqEqual
<1>3. QED
  BY <1>1, <1>2

(* A sequence is its own longest prefix.                                   *)
LEMMA WholePrefix ==
  ASSUME NEW S, NEW s \in Seq(S)
  PROVE  SubSeq(s, 1, Len(s)) = s
<1>1. /\ SubSeq(s, 1, Len(s)) \in Seq(S) /\ Len(SubSeq(s, 1, Len(s))) = Len(s)
      /\ \A i \in 1..Len(s) : SubSeq(s, 1, Len(s))[i] = s[i]
  OBVIOUS
<1>2. QED
  BY <1>1, SeqEqual

(* One accepted record after a validated head: which of the four kinds of  *)
(* change the receiver inferred, and what the change leaves of the members. *)
LEMMA AcceptedRecord ==
  ASSUME IsChain, NEW b, Decoded(b), Acceptable(records, b)
  PROVE  /\ Sound(b)
         /\ b.sequence = Latest(records).sequence + 1
         /\ b.epoch \in {Latest(records).epoch, Latest(records).epoch + 1}
         /\ b.epoch = Latest(records).epoch => Admitted(Latest(records)) \subseteq Admitted(b)
         /\ \A d \in Admitted(Latest(records)) \cap Admitted(b) :
              b.members[d] = Latest(records).members[d]
         /\ \A d \in Admitted(b) \ Admitted(Latest(records)) :
              b.members[d].admitted_at = b.sequence
         /\ b.manager # Latest(records).manager =>
              b.handoff = ConsentTo(records, b.manager, b.operation)
         /\ b = Successor(records, b.operation, b.intent)
         /\ CanExtend(records, b.signer, b.operation, b.intent)
<1> DEFINE a == Latest(records)
<1>0. Len(records) \in DOMAIN records /\ Sound(a) /\ a.sequence \in Nat
  BY DEF IsChain, Latest, Sound, Decoded
<1>1. /\ Decoded(a) /\ a.epoch \in Nat /\ b.epoch \in Nat
      /\ a.members = [d \in Admitted(a) |-> a.members[d]]
      /\ b.members = [d \in Admitted(b) |-> b.members[d]]
  BY <1>0 DEF Sound, Decoded
<1>2. /\ ValidBody(b) /\ b.signer = a.manager /\ b.sequence = a.sequence + 1
      /\ b.operation # None
      /\ \A d \in Admitted(a) \cap Admitted(b) : b.members[d] = a.members[d]
      /\ IsTransfer(records, b) \/ IsAdmit(records, b) \/ IsPolicy(records, b)
                                \/ IsRotate(records, b)
      /\ ~Uses(records, b.operation) /\ Len(records) < MaxControls
  BY DEF Acceptable, ValidSuccessor
<1>3. Sound(b)
  BY <1>2 DEF Sound, ValidBody
<1> DEFINE Sums == /\ b.epoch \in {a.epoch, a.epoch + 1}
                   /\ b.epoch = a.epoch => Admitted(a) \subseteq Admitted(b)
                   /\ \A d \in Admitted(b) \ Admitted(a) : b.members[d].admitted_at = b.sequence
                   /\ b.manager # a.manager => b.handoff = ConsentTo(records, b.manager, b.operation)
           Form == /\ b.epoch = IF b.intent.kind = "rotate" THEN a.epoch + 1 ELSE a.epoch
                   /\ b.manager = IF b.intent.kind = "transfer" THEN b.intent.consent.recipient
                                                              ELSE a.manager
                   /\ b.members = NextMembers(a, b.intent)
                   /\ b.policy = IF b.intent.kind \in {"rotate", "policy"} THEN b.intent.policy
                                                                       ELSE a.policy
                   /\ b.handoff = IF b.intent.kind = "transfer" THEN b.intent.consent ELSE None
           May == \/ /\ b.intent.kind = "admit"
                     /\ b.intent.identity.device \notin Admitted(a)
                  \/ /\ b.intent.kind = "rotate"
                     /\ b.intent.revoke \in {None} \cup (Admitted(a) \ {a.manager})
                  \/ b.intent.kind = "policy"
                  \/ /\ b.intent.kind = "transfer"
                     /\ ConsentHolds(b.intent.consent, records)
                     /\ b.intent.consent.operation = b.operation
<1>4. ASSUME IsTransfer(records, b) PROVE Sums /\ Form /\ May
  <2>1. /\ b.handoff # None /\ ConsentHolds(b.handoff, records)
        /\ b.handoff.recipient = b.manager /\ b.handoff.operation = b.operation
        /\ b.members = a.members /\ b.epoch = a.epoch /\ b.policy = a.policy
        /\ b.intent = Transfer(b.handoff)
    BY <1>4 DEF IsTransfer
  <2>2. b.intent.kind = "transfer" /\ b.intent.consent = b.handoff
    BY <2>1 DEF Transfer
  <2>3. b.handoff = ConsentTo(records, b.manager, b.operation)
    BY <2>1 DEF ConsentHolds, ConsentTo, Decoded
  <2>4. Sums
    BY <1>1, <2>1, <2>3 DEF Admitted
  <2>5. Form
    BY <2>1, <2>2 DEF NextMembers
  <2>6. May
    BY <2>1, <2>2
  <2>7. QED
    BY <2>4, <2>5, <2>6
<1>5. ASSUME IsAdmit(records, b) PROVE Sums /\ Form /\ May
  <2>1. PICK d \in Devices : /\ Added(a, b) = {d} /\ b.members[d].admitted_at = b.sequence
                             /\ b.policy = a.policy /\ b.intent = Admit(b.members[d].identity)
    BY <1>5 DEF IsAdmit
  <2>2. /\ Admitted(b) = Admitted(a) \cup {d} /\ d \notin Admitted(a)
        /\ b.epoch = a.epoch /\ b.manager = a.manager /\ b.handoff = None
    BY <1>5, <2>1 DEF IsAdmit, Stays, Added, Removed
  <2>3. /\ b.intent.kind = "admit" /\ b.intent.identity = b.members[d].identity
        /\ b.intent.identity.device = d
    BY <1>2, <2>1, <2>2 DEF Admit, ValidBody
  <2>4. b.members[d] = Member(b.intent.identity, a.sequence + 1)
    <3>1. b.members[d] \in [identity : Identities, admitted_at : Nat]
      BY <2>2 DEF Decoded
    <3>2. QED
      BY <1>2, <2>1, <2>3, <3>1 DEF Member
  <2>5. b.members = NextMembers(a, b.intent)
    <3>1. NextMembers(a, b.intent) =
            [e \in Admitted(a) \cup {d} |-> IF e = d THEN Member(b.intent.identity, a.sequence + 1)
                                                    ELSE a.members[e]]
      BY <2>3 DEF NextMembers
    <3>2. \A e \in Admitted(b) : b.members[e] = NextMembers(a, b.intent)[e]
      BY <1>2, <2>2, <2>4, <3>1
    <3>3. QED
      BY <1>1, <2>2, <3>1, <3>2
  <2>6. Sums
    BY <1>1, <2>1, <2>2
  <2>7. Form
    BY <2>1, <2>2, <2>3, <2>5
  <2>8. May
    BY <2>2, <2>3
  <2>9. QED
    BY <2>6, <2>7, <2>8
<1>6. ASSUME IsPolicy(records, b) PROVE Sums /\ Form /\ May
  <2>1. /\ Admitted(b) = Admitted(a) /\ b.epoch = a.epoch /\ b.manager = a.manager
        /\ b.handoff = None /\ b.intent.kind = "policy" /\ b.intent.policy = b.policy
    <3>1. /\ b.epoch = a.epoch /\ Removed(a, b) = {} /\ Added(a, b) = {}
          /\ b.intent = Policy(b.policy) /\ b.manager = a.manager /\ b.handoff = None
      BY <1>6 DEF IsPolicy, Stays
    <3>2. b.intent.kind = "policy" /\ b.intent.policy = b.policy
      BY <3>1 DEF Policy
    <3>3. Admitted(b) = Admitted(a)
      BY <3>1 DEF Added, Removed
    <3>4. QED
      BY <3>1, <3>2, <3>3
  <2>2. b.members = a.members
    BY <1>1, <1>2, <2>1
  <2>3. Sums
    BY <1>1, <2>1
  <2>4. Form
    BY <2>1, <2>2 DEF NextMembers
  <2>5. QED
    BY <2>1, <2>3, <2>4
<1>7. ASSUME IsRotate(records, b) PROVE Sums /\ Form /\ May
  <2>1. PICK revoke \in Devices \cup {None} : /\ Removed(a, b) = {revoke} \ {None}
                                             /\ b.intent = Rotate(revoke, b.policy)
    BY <1>7 DEF IsRotate
  <2>2. /\ Added(a, b) = {} /\ b.epoch = a.epoch + 1 /\ b.manager = a.manager
        /\ b.handoff = None
        /\ b.intent.kind = "rotate" /\ b.intent.revoke = revoke /\ b.intent.policy = b.policy
    BY <1>7, <2>1 DEF IsRotate, Stays, Rotate
  <2>3. Admitted(b) = Admitted(a) \ {revoke}
    <3>1. None \notin Admitted(a)
      BY <1>1, DeviceAssumption DEF Decoded
    <3>2. QED
      BY <2>1, <2>2, <3>1 DEF Added, Removed
  <2>4. b.members = NextMembers(a, b.intent)
    <3>1. NextMembers(a, b.intent) = [d \in Admitted(a) \ {revoke} |-> a.members[d]]
      BY <2>2 DEF NextMembers
    <3>2. QED
      BY <1>1, <1>2, <2>3, <3>1
  <2>5. revoke # None => revoke \in Admitted(a) \ {a.manager}
    BY <1>2, <2>1, <2>2 DEF Removed, ValidBody
  <2>6. Sums
    BY <1>1, <2>2, <2>3
  <2>7. Form
    BY <2>2, <2>4
  <2>8. May
    BY <2>2, <2>5
  <2>9. QED
    BY <2>6, <2>7, <2>8
<1>8. Sums /\ Form /\ May
  BY <1>2, <1>4, <1>5, <1>6, <1>7
<1>9. b = Successor(records, b.operation, b.intent)
  <2>1. b = [sequence |-> b.sequence, epoch |-> b.epoch, manager |-> b.manager,
             members |-> b.members, policy |-> b.policy, operation |-> b.operation,
             intent |-> b.intent, handoff |-> b.handoff, signer |-> b.signer]
    BY DEF Decoded
  <2> HIDE DEF a
  <2>2. QED
    BY <1>2, <1>8, <2>1 DEF Successor, a
<1>10. CanExtend(records, b.signer, b.operation, b.intent)
  BY <1>2, <1>8, <1>9 DEF CanExtend
<1>11. QED
  BY <1>2, <1>3, <1>8, <1>9, <1>10

-----------------------------------------------------------------------------
(* The root alone satisfies the invariant.                                 *)
LEMMA RootInv == Init => IInv
<1> SUFFICES ASSUME NEW identity \in Identities, NEW policy \in Policies,
                    records = <<Genesis(identity, policy)>>
             PROVE  IInv
  BY DEF Init
<1> DEFINE g == Genesis(identity, policy)
<1>1. Len(records) = 1 /\ DOMAIN records = {1} /\ records[1] = g
  OBVIOUS
<1>2. /\ g.sequence = 0 /\ g.epoch = 0 /\ g.handoff = None
      /\ g.members = [d \in {identity.device} |-> Member(identity, 0)]
      /\ g = [sequence |-> g.sequence, epoch |-> g.epoch, manager |-> g.manager,
              members |-> g.members, policy |-> g.policy, operation |-> g.operation,
              intent |-> g.intent, handoff |-> g.handoff, signer |-> g.signer]
  BY DEF Genesis
<1>3. Admitted(g) = {identity.device} /\ identity.device \in Devices
  BY <1>2 DEF Admitted, Devices
<1> HIDE DEF g
<1>4. Sound(g)
  <2>1. Member(identity, 0) \in [identity : Identities, admitted_at : Nat]
        /\ Member(identity, 0).admitted_at = 0
    BY DEF Member
  <2>2. /\ g.members \in [Admitted(g) -> [identity : Identities, admitted_at : Nat]]
        /\ \A d \in Admitted(g) : g.members[d].admitted_at = 0
    BY <1>2, <1>3, <2>1
  <2>3. QED
    BY <1>2, <1>3, <2>2 DEF Sound, Decoded
<1>5. IsChain
  <2>1. records \in Seq({records[n] : n \in DOMAIN records})
    BY <1>1
  <2>2. QED
    BY <1>1, <1>2, <1>4, <2>1 DEF IsChain
<1>6. EpochsOrdered /\ RevokedByEpoch /\ AcceptedIsProduced /\ HandoffConsented
  BY <1>1, <1>2 DEF EpochsOrdered, RevokedByEpoch, AcceptedIsProduced, HandoffConsented
<1>7. ContinuousMeansUninterrupted
  BY <1>1 DEF ContinuousMeansUninterrupted, Continuous, Latest
<1>8. QED
  BY <1>5, <1>6, <1>7 DEF IInv

(* Whatever record is accepted, the longer chain satisfies it again.       *)
LEMMA AcceptInv ==
  ASSUME IInv, NEW b, Accept(b)
  PROVE  IInv'
<1> DEFINE N == Len(records)
           a == Latest(records)
           S == {records[n] : n \in DOMAIN records} \cup {b}
<1>1. IsChain /\ Decoded(b) /\ Acceptable(records, b) /\ records' = Append(records, b)
  BY DEF IInv, Accept
<1>2. /\ records \in Seq(S) /\ N \in Nat /\ N >= 1 /\ DOMAIN records = 1..N
      /\ a = records[N]
      /\ \A n \in 1..N : Sound(records[n]) /\ records[n].sequence = n - 1
  <2>1. records \in Seq({records[n] : n \in DOMAIN records})
    BY <1>1 DEF IsChain
  <2>2. records \in Seq(S)
    BY <2>1
  <2>3. QED
    BY <1>1, <2>2 DEF IsChain, Latest
<1>3. /\ records' \in Seq(S) /\ Len(records') = N + 1 /\ DOMAIN records' = 1..N + 1
      /\ records'[N + 1] = b /\ Latest(records') = b
      /\ \A n \in 1..N : records'[n] = records[n]
      /\ \A n \in 1..N : SubSeq(records', 1, n) = SubSeq(records, 1, n)
      /\ SubSeq(records', 1, N) = records
  <2>1. b \in S
    OBVIOUS
  <2> HIDE DEF S
  <2>2. QED
    BY <1>1, <1>2, <2>1, AppendKeeps, WholePrefix DEF Latest
<1>4. /\ Sound(b) /\ b.sequence = N /\ b.epoch \in {a.epoch, a.epoch + 1}
      /\ b.epoch = a.epoch => Admitted(a) \subseteq Admitted(b)
      /\ \A d \in Admitted(a) \cap Admitted(b) : b.members[d] = a.members[d]
      /\ \A d \in Admitted(b) \ Admitted(a) : b.members[d].admitted_at = b.sequence
      /\ b.manager # a.manager => b.handoff = ConsentTo(records, b.manager, b.operation)
      /\ b = Successor(records, b.operation, b.intent)
      /\ CanExtend(records, b.signer, b.operation, b.intent)
  BY <1>1, <1>2, AcceptedRecord
<1>5. \A n \in 1..N : records[n].epoch \in Nat /\ records[n].epoch <= a.epoch
  <2>1. \A n \in 1..N : records[n].epoch \in Nat
    BY <1>2 DEF Sound, Decoded
  <2>2. \A m, n \in 1..N : m <= n => records[m].epoch <= records[n].epoch
    BY <1>2 DEF IInv, EpochsOrdered
  <2>3. QED
    BY <1>2, <2>1, <2>2
<1> HIDE DEF N, a, S
<1>6. IsChain'
  <2>1. S = {records'[n] : n \in DOMAIN records'}
    <3>1. {records'[n] : n \in 1..N + 1} = {records'[n] : n \in 1..N} \cup {b}
      BY <1>2, <1>3
    <3>2. {records'[n] : n \in 1..N} = {records[n] : n \in 1..N}
      BY <1>3
    <3>3. QED
      BY <1>2, <1>3, <3>1, <3>2 DEF S
  <2>2. records' \in Seq({records'[n] : n \in DOMAIN records'}) /\ Len(records') >= 1
    <3>1. records' \in Seq(S) /\ Len(records') >= 1
      BY <1>2, <1>3
    <3>2. QED
      BY <2>1, <3>1, Zenon
  <2>3. \A n \in 1..N + 1 : Sound(records'[n]) /\ records'[n].sequence = n - 1
    BY <1>2, <1>3, <1>4
  <2>4. QED
    BY <1>3, <2>2, <2>3 DEF IsChain
<1>7. EpochsOrdered'
  <2>1. \A m, n \in 1..N : m <= n => records[m].epoch <= records[n].epoch
    BY <1>2 DEF IInv, EpochsOrdered
  <2>2. \A m \in 1..N : records[m].epoch <= b.epoch
    BY <1>2, <1>4, <1>5
  <2>3. b.epoch \in Nat
    BY <1>4 DEF Sound, Decoded
  <2>4. \A m, n \in 1..N + 1 : m <= n => records'[m].epoch <= records'[n].epoch
    BY <1>2, <1>3, <2>1, <2>2, <2>3
  <2>5. QED
    BY <1>3, <2>4 DEF EpochsOrdered
<1>8. RevokedByEpoch'
  <2>1. ASSUME NEW m \in 1..N, records[m].epoch = b.epoch
        PROVE  Admitted(records[m]) \subseteq Admitted(b)
    <3>1. b.epoch = a.epoch
      BY <1>2, <1>4, <1>5, <2>1
    <3>2. Admitted(records[m]) \subseteq Admitted(a)
      BY <1>2, <2>1, <3>1 DEF IInv, RevokedByEpoch
    <3>3. QED
      BY <1>4, <3>1, <3>2
  <2>2. \A m, n \in 1..N : m < n /\ records[m].epoch = records[n].epoch =>
          Admitted(records[m]) \subseteq Admitted(records[n])
    BY <1>2 DEF IInv, RevokedByEpoch
  <2>3. \A m, n \in 1..N + 1 : m < n /\ records'[m].epoch = records'[n].epoch =>
          Admitted(records'[m]) \subseteq Admitted(records'[n])
    BY <1>2, <1>3, <2>1, <2>2
  <2>4. QED
    BY <1>3, <2>3 DEF RevokedByEpoch
<1>9. HandoffConsented'
  <2>1. \A n \in 1..N - 1 : records[n + 1].manager # records[n].manager =>
          records[n + 1].handoff = ConsentTo(SubSeq(records, 1, n), records[n + 1].manager,
                                             records[n + 1].operation)
    BY <1>2 DEF IInv, HandoffConsented, N
  <2>2. \A n \in 1..N : records'[n + 1].manager # records'[n].manager =>
          records'[n + 1].handoff = ConsentTo(SubSeq(records', 1, n), records'[n + 1].manager,
                                              records'[n + 1].operation)
    <3>1. ASSUME NEW n \in 1..N, n # N, records'[n + 1].manager # records'[n].manager
          PROVE  records'[n + 1].handoff = ConsentTo(SubSeq(records', 1, n), records'[n + 1].manager,
                                                     records'[n + 1].operation)
      <4>1. n \in 1..N - 1 /\ n + 1 \in 1..N
        BY <1>2, <3>1
      <4>2. QED
        BY <1>3, <2>1, <3>1, <4>1
    <3>2. records'[N + 1].manager # records'[N].manager =>
            records'[N + 1].handoff = ConsentTo(SubSeq(records', 1, N), records'[N + 1].manager,
                                                records'[N + 1].operation)
      <4>1. records'[N] = a
        BY <1>2, <1>3
      <4>2. QED
        BY <1>3, <1>4, <4>1
    <3>3. QED
      BY <3>1, <3>2
  <2>3. QED
    BY <1>2, <1>3, <2>2 DEF HandoffConsented
<1>10. AcceptedIsProduced'
  <2>1. \A n \in 1..N - 1 :
          /\ records[n + 1] = Successor(SubSeq(records, 1, n), records[n + 1].operation,
                                        records[n + 1].intent)
          /\ CanExtend(SubSeq(records, 1, n), records[n + 1].signer, records[n + 1].operation,
                       records[n + 1].intent)
    BY <1>2 DEF IInv, AcceptedIsProduced, N
  <2>2. ASSUME NEW n \in 1..N
        PROVE  /\ records'[n + 1] = Successor(SubSeq(records', 1, n), records'[n + 1].operation,
                                              records'[n + 1].intent)
               /\ CanExtend(SubSeq(records', 1, n), records'[n + 1].signer,
                            records'[n + 1].operation, records'[n + 1].intent)
    <3>1. CASE n = N
      BY <1>3, <1>4, <3>1
    <3>2. CASE n # N
      <4>1. n \in 1..N - 1 /\ n + 1 \in 1..N
        BY <1>2, <3>2
      <4>2. QED
        BY <1>3, <2>1, <4>1
    <3>3. QED
      BY <3>1, <3>2
  <2>3. QED
    BY <1>2, <1>3, <2>2 DEF AcceptedIsProduced
<1>11. ContinuousMeansUninterrupted'
  <2>1. ASSUME NEW n \in 1..N, NEW d \in Devices, d \in Admitted(records[n]),
               d \in Admitted(b), b.members[d] = records[n].members[d]
        PROVE  \A m \in n..N : /\ d \in Admitted(records[m])
                               /\ records[m].members[d] = records[n].members[d]
    <3>1. d \in Admitted(a)
      <4>1. records[n].members[d].admitted_at <= records[n].sequence /\ records[n].sequence < N
        BY <1>2, <2>1 DEF Sound
      <4>2. records[n].members[d].admitted_at # b.sequence
        <5>1. records[n].members[d].admitted_at \in Nat
          BY <1>2, <2>1 DEF Sound, Decoded
        <5>2. QED
          BY <1>2, <1>4, <4>1, <5>1
      <4>3. QED
        BY <1>4, <2>1, <4>2
    <3>2. Continuous(records, d, n)
      BY <1>2, <1>4, <2>1, <3>1 DEF Continuous, a
    <3>3. QED
      BY <1>2, <3>2 DEF IInv, ContinuousMeansUninterrupted, N
  <2>2. ASSUME NEW n \in 1..N + 1, NEW d \in Devices,
               d \in Admitted(records'[n]), d \in Admitted(b),
               b.members[d] = records'[n].members[d]
        PROVE  \A m \in n..N + 1 : /\ d \in Admitted(records'[m])
                                   /\ records'[m].members[d] = records'[n].members[d]
    <3>1. CASE n = N + 1
      BY <1>2, <1>3, <2>2, <3>1
    <3>2. CASE n \in 1..N
      <4>1. \A m \in n..N : /\ d \in Admitted(records[m])
                            /\ records[m].members[d] = records[n].members[d]
        BY <1>3, <2>1, <2>2, <3>2
      <4>2. \A m \in n..N + 1 : m = N + 1 \/ (m \in n..N /\ m \in 1..N)
        <5>1. N \in Nat
          BY <1>2
        <5>2. QED
          BY <3>2, <5>1
      <4>3. QED
        BY <1>3, <2>2, <3>2, <4>1, <4>2
    <3>3. QED
      BY <1>2, <2>2, <3>1, <3>2
  <2>3. QED
    BY <1>3, <2>2 DEF ContinuousMeansUninterrupted, Continuous
<1>12. QED
  BY <1>6, <1>7, <1>8, <1>9, <1>10, <1>11 DEF IInv

-----------------------------------------------------------------------------
(* IInv holds of every chain a device accepts.                             *)
LEMMA ChainInv == Spec => []IInv
<1>1. IInv /\ [Next]_vars => IInv'
  <2>1. ASSUME IInv, NEW b \in Bodies(records), Accept(b) PROVE IInv'
    BY <2>1, AcceptInv
  <2>2. ASSUME IInv, UNCHANGED vars PROVE IInv'
    <3>1. records' = records
      BY <2>2 DEF vars
    <3>2. IsChain' /\ EpochsOrdered' /\ RevokedByEpoch'
      BY <2>2, <3>1 DEF IInv, IsChain, EpochsOrdered, RevokedByEpoch
    <3>3. AcceptedIsProduced' /\ HandoffConsented'
      BY <2>2, <3>1 DEF IInv, AcceptedIsProduced, HandoffConsented
    <3>4. ContinuousMeansUninterrupted'
      BY <2>2, <3>1 DEF IInv, ContinuousMeansUninterrupted, Continuous, Latest
    <3>5. QED
      BY <3>2, <3>3, <3>4 DEF IInv
  <2>3. QED
    BY <2>1, <2>2 DEF Next
<1>2. QED
  BY RootInv, <1>1, PTL DEF Spec

(* What validate_successor accepts is exactly what a manager's transition  *)
(* can sign: the receiver's inference of intent and operation is complete. *)
THEOREM OnlyProducedIsAccepted == Spec => []AcceptedIsProduced
<1>1. IInv => AcceptedIsProduced
  BY DEF IInv
<1>2. QED
  BY ChainInv, <1>1, PTL

(* Equal member entries mean an admission that was never interrupted.      *)
THEOREM IntervalsAreUninterrupted == Spec => []ContinuousMeansUninterrupted
<1>1. IInv => ContinuousMeansUninterrupted
  BY DEF IInv
<1>2. QED
  BY ChainInv, <1>1, PTL

(* A device loses its place only together with the epoch's read key.       *)
THEOREM RemovalChangesTheEpoch == Spec => []RevokedByEpoch
<1>1. IInv => RevokedByEpoch
  BY DEF IInv
<1>2. QED
  BY ChainInv, <1>1, PTL

(* Management passes only to a device that consented to that very change.  *)
THEOREM HandoffNeedsConsent == Spec => []HandoffConsented
<1>1. IInv => HandoffConsented
  BY DEF IInv
<1>2. QED
  BY ChainInv, <1>1, PTL
=============================================================================
