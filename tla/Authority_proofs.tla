------------------------- MODULE Authority_proofs --------------------------
(***************************************************************************)
(* What the chains of a database's working copies guarantee, for any       *)
(* number of copies, devices, operations and delayed inventories.          *)
(*                                                                         *)
(* Guarded needs no assumption about profiles: the evidence a copy stores, *)
(* or may find stored after a restart, contradicts the chain beside it and *)
(* has stopped the copy.                                                   *)
(*                                                                         *)
(* When no profile is copied (OwnProfiles), all chains that anybody holds  *)
(* agree (Agree), because whatever a device has signed and another one     *)
(* holds is in the chain that the signer itself has saved (Kept): a        *)
(* manager that signs again continues it, and a record lost in a doubtful  *)
(* commit was lost to all.                                                 *)
(*                                                                         *)
(* The second part is about the connections over which copies exchange.    *)
(***************************************************************************)
EXTENDS Authority, Observations, SequenceTheorems, TLAPS

(* A chain is a sequence, of whatever records.                             *)
Whole(c) == c \in Seq({c[n] : n \in DOMAIN c})

(* What is stored, or may be found stored: the evidence contradicts the    *)
(* chain beside it, and the copy is stopped by it.                         *)
Fit(meta, stopped) ==
  /\ Whole(meta.chain)
  /\ \A e \in meta.forks : Forks(meta.chain, e)
  /\ meta.forks # {} => stopped

Shapes ==
  /\ saved = [r \in Replicas |-> saved[r]]
  /\ doubt = [r \in Replicas |-> doubt[r]]
  /\ inventory = [r \in Replicas |-> inventory[r]]
  /\ frozen \in [Replicas -> BOOLEAN]

Guarded(r) ==
  /\ Fit(saved[r], frozen[r])
  /\ doubt[r] # None =>
       /\ Fit(doubt[r], frozen[r])
       /\ Registered(r) /\ Len(Chain(r)) <= Len(doubt[r].chain)
  /\ inventory[r] # None => Whole(inventory[r].meta.chain)

GuardInv == Shapes /\ \A r \in Replicas : Guarded(r)

-----------------------------------------------------------------------------
(* Chains.                                                                 *)

LEMMA WholeIs ==
  ASSUME NEW c, Whole(c)
  PROVE  Len(c) \in Nat /\ DOMAIN c = 1..Len(c) /\ (c = <<>> <=> Len(c) = 0)
  BY LenProperties, EmptySeq DEF Whole

LEMMA EmptyIsWhole == Whole(<<>>) /\ Len(<<>>) = 0
  BY DEF Whole

LEMMA GrownChain ==
  ASSUME NEW c, Whole(c), NEW e
  PROVE  /\ Whole(Append(c, e))
         /\ Len(Append(c, e)) = Len(c) + 1
         /\ DOMAIN Append(c, e) = 1..(Len(c) + 1)
         /\ Append(c, e)[Len(c) + 1] = e
         /\ \A n \in 1..Len(c) : Append(c, e)[n] = c[n]
<1> DEFINE S == {c[n] : n \in DOMAIN c} \cup {e}
           a == Append(c, e)
           T == {a[n] : n \in DOMAIN a}
<1>1. c \in Seq(S)
  BY SeqDef, LenProperties DEF Whole
<1>2. e \in S
  OBVIOUS
<1> HIDE DEF S
<1>3. /\ a \in Seq(S) /\ Len(a) = Len(c) + 1
      /\ a[Len(c) + 1] = e /\ \A n \in 1..Len(c) : a[n] = c[n]
  BY <1>1, <1>2, AppendProperties
<1> HIDE DEF a
<1>4. /\ DOMAIN a = 1..(Len(c) + 1) /\ Len(a) \in Nat
      /\ a \in [1..Len(a) -> S]
  BY <1>3, LenProperties
<1>5. Whole(a)
  <2>1. \A n \in DOMAIN a : a[n] \in T
    OBVIOUS
  <2> HIDE DEF T
  <2>2. a \in [1..Len(a) -> T]
    BY <1>3, <1>4, <2>1
  <2>3. a \in Seq(T)
    BY <1>4, <2>2, SeqDef
  <2> QED BY <2>3 DEF T, Whole
<1> QED BY <1>3, <1>4, <1>5 DEF a

-----------------------------------------------------------------------------
(* The evidence.                                                           *)

(* A step that saves one copy leaves the others as they were.              *)
LEMMA SaveIs ==
  ASSUME Shapes, NEW s \in Replicas, NEW meta, Save(s, meta)
  PROVE  /\ doubt[s] = None
         /\ saved' = [r \in Replicas |-> saved'[r]]
         /\ doubt' = [r \in Replicas |-> doubt'[r]]
         /\ \A r \in Replicas \ {s} : saved'[r] = saved[r] /\ doubt'[r] = doubt[r]
         /\ \/ saved'[s] = meta /\ doubt'[s] = None
            \/ saved'[s] = saved[s] /\ doubt'[s] = meta
<1>1. CASE saved' = [saved EXCEPT ![s] = meta] /\ UNCHANGED doubt
  BY <1>1 DEF Shapes, Save
<1>2. CASE doubt' = [doubt EXCEPT ![s] = meta] /\ UNCHANGED saved
  BY <1>2 DEF Shapes, Save
<1> QED BY <1>1, <1>2 DEF Save

(* What is saved continues the chain saved before.                         *)
LEMMA SaveGuards ==
  ASSUME GuardInv, NEW s \in Replicas, NEW meta,
         Save(s, meta), Registered(s),
         frozen' \in [Replicas -> BOOLEAN],
         \A r \in Replicas \ {s} : frozen'[r] = frozen[r],
         frozen[s] => frozen'[s],
         UNCHANGED inventory,
         Fit(meta, frozen'[s]), Len(Chain(s)) <= Len(meta.chain)
  PROVE  GuardInv'
<1> USE DEF GuardInv
<1>1. Shapes'
  BY SaveIs DEF Shapes
<1>2. ASSUME NEW r \in Replicas, r # s PROVE Guarded(r)'
  <2>1. saved'[r] = saved[r] /\ doubt'[r] = doubt[r] /\ frozen'[r] = frozen[r]
    BY SaveIs, <1>2
  <2> QED BY <2>1 DEF Guarded, Fit, Registered, Chain
<1>3. Guarded(s)'
  <2>1. Fit(saved[s], frozen'[s])
    BY DEF Guarded, Fit
  <2>2. inventory'[s] # None => Whole(inventory'[s].meta.chain)
    BY DEF Guarded
  <2>3. Len(Chain(s)) \in Nat /\ Len(Chain(s)) # 0 /\ Len(meta.chain) \in Nat
    BY WholeIs DEF Guarded, Fit, Registered, Chain
  <2>4. CASE saved'[s] = meta /\ doubt'[s] = None
    BY <2>2, <2>4 DEF Guarded
  <2>5. CASE saved'[s] = saved[s] /\ doubt'[s] = meta
    BY <2>1, <2>2, <2>5 DEF Guarded, Registered, Chain
  <2> QED BY <2>4, <2>5, SaveIs
<1> QED BY <1>1, <1>2, <1>3

(* A commit that ended without an answer changed nothing but the stop.     *)
LEMMA StopGuards ==
  ASSUME GuardInv, NEW s \in Replicas,
         frozen' = [frozen EXCEPT ![s] = TRUE], SaveFails, UNCHANGED inventory
  PROVE  GuardInv'
<1>1. /\ frozen' \in [Replicas -> BOOLEAN]
      /\ \A r \in Replicas : frozen[r] => frozen'[r]
  BY DEF GuardInv, Shapes
<1>2. saved' = saved /\ doubt' = doubt /\ inventory' = inventory
  BY DEF SaveFails
<1>3. ASSUME NEW r \in Replicas PROVE Guarded(r)'
  BY <1>1, <1>2 DEF GuardInv, Guarded, Fit, Registered, Chain
<1> QED BY <1>1, <1>2, <1>3 DEF GuardInv, Shapes

LEMMA OfferGuards ==
  ASSUME GuardInv, NEW s \in Replicas, NEW r \in Replicas, Offer(s, r)
  PROVE  GuardInv'
<1> DEFINE inc == inventory[r].meta
           mine == Chain(s)
<1>1. /\ inventory[r] # None /\ Registered(s) /\ ~frozen[s]
      /\ UNCHANGED inventory
  BY DEF Offer, Authorized
<1>2. /\ Whole(inc.chain) /\ Whole(mine)
      /\ \A e \in saved[s].forks : Forks(mine, e)
      /\ saved[s].forks = {}
  BY <1>1 DEF GuardInv, Guarded, Fit, Chain
<1>3. Len(inc.chain) \in Nat /\ Len(mine) \in Nat
  BY <1>2, WholeIs
<1>4. frozen \in [Replicas -> BOOLEAN]
  BY DEF GuardInv, Shapes
<1>5. CASE OfferEvidence(s, r)
  <2> DEFINE common == IF Forks(mine, inc.chain) THEN mine ELSE Longer(mine, inc.chain)
             evidence == saved[s].forks \cup Contradictions(mine, {inc.chain})
                           \cup Contradictions(common, inc.forks)
  <2>1. /\ frozen' = [frozen EXCEPT ![s] = TRUE]
        /\ Save(s, Meta(common, evidence)) \/ SaveFails
    BY <1>5 DEF OfferEvidence
  <2>2. Whole(common) /\ Len(mine) <= Len(common)
    BY <1>2, <1>3 DEF Longer
  <2>3. ASSUME NEW e \in evidence PROVE Forks(common, e)
    <3>1. CASE e \in Contradictions(mine, {inc.chain})
      BY <3>1 DEF Contradictions
    <3>2. CASE e \in Contradictions(common, inc.forks)
      BY <3>2 DEF Contradictions
    <3> QED BY <2>3, <3>1, <3>2, <1>2
  <2> HIDE DEF common, evidence
  <2>4. /\ frozen' \in [Replicas -> BOOLEAN] /\ frozen'[s]
        /\ \A q \in Replicas \ {s} : frozen'[q] = frozen[q]
    BY <1>4, <2>1
  <2>5. Meta(common, evidence).chain = common /\ Meta(common, evidence).forks = evidence
    BY DEF Meta
  <2>6. Fit(Meta(common, evidence), frozen'[s])
    BY <2>2, <2>3, <2>4, <2>5 DEF Fit
  <2>7. CASE Save(s, Meta(common, evidence))
    BY <2>7, <2>6, <2>5, <2>4, <2>2, <1>1, SaveGuards
  <2>8. CASE SaveFails
    BY <2>8, <2>1, <1>1, StopGuards
  <2> QED BY <2>1, <2>7, <2>8
<1>6. CASE OfferFork(s, r)
  <2> DEFINE kept == saved[s].forks \cup {inc.chain}
  <2>1. /\ frozen' = [frozen EXCEPT ![s] = TRUE]
        /\ Forks(mine, inc.chain)
        /\ Save(s, Meta(mine, kept)) \/ SaveFails
    BY <1>6 DEF OfferFork
  <2>2. \A e \in kept : Forks(mine, e)
    BY <1>2, <2>1
  <2> HIDE DEF kept
  <2>3. /\ frozen' \in [Replicas -> BOOLEAN] /\ frozen'[s]
        /\ \A q \in Replicas \ {s} : frozen'[q] = frozen[q]
    BY <1>4, <2>1
  <2>4. Meta(mine, kept).chain = mine /\ Meta(mine, kept).forks = kept
    BY DEF Meta
  <2>5. Fit(Meta(mine, kept), frozen'[s])
    BY <1>2, <2>2, <2>3, <2>4 DEF Fit
  <2>6. CASE Save(s, Meta(mine, kept))
    <3>1. Len(mine) <= Len(Meta(mine, kept).chain)
      BY <1>3, <2>4
    <3> QED BY <2>6, <2>5, <2>3, <3>1, <1>1, SaveGuards
  <2>7. CASE SaveFails
    BY <2>7, <2>1, <1>1, StopGuards
  <2> QED BY <2>1, <2>6, <2>7
<1>7. CASE OfferGrow(s, r)
  <2>1. /\ Len(inc.chain) > Len(mine) /\ Save(s, Meta(inc.chain, saved[s].forks))
        /\ frozen' = frozen
    BY <1>7 DEF OfferGrow
  <2>2. /\ Meta(inc.chain, saved[s].forks).chain = inc.chain
        /\ Meta(inc.chain, saved[s].forks).forks = {}
    BY <1>2 DEF Meta
  <2>3. Fit(Meta(inc.chain, saved[s].forks), frozen'[s])
    BY <1>2, <2>2 DEF Fit
  <2>4. Len(mine) <= Len(Meta(inc.chain, saved[s].forks).chain)
    BY <1>3, <2>1, <2>2
  <2> QED BY <2>1, <2>3, <2>4, <1>1, <1>4, SaveGuards
<1> QED BY <1>5, <1>6, <1>7 DEF Offer

LEMMA GuardStarts == Init => GuardInv
<1> SUFFICES ASSUME Init PROVE GuardInv
  OBVIOUS
<1> DEFINE root == <<Genesis(FounderIdentity, FirstPolicy)>>
<1>1. Shapes
  BY DEF Init, Shapes
<1>2. Whole(root)
  BY DEF Whole
<1>3. ASSUME NEW r \in Replicas PROVE Guarded(r)
  <2>1. doubt[r] = None /\ inventory[r] = None
    BY DEF Init
  <2>2. saved[r].forks = {} /\ saved[r].chain \in {root, <<>>}
    <3> HIDE DEF root
    <3>1. saved[r] = IF r = Founder THEN Meta(root, {}) ELSE NoCopy
      BY DEF Init, root
    <3> QED BY <3>1 DEF Meta, NoCopy
  <2>3. Fit(saved[r], frozen[r])
    BY <1>2, <2>2, EmptyIsWhole DEF Fit
  <2> QED BY <2>1, <2>3 DEF Guarded
<1> QED BY <1>1, <1>3 DEF GuardInv

LEMMA GuardStep ==
  ASSUME GuardInv, [Next]_vars
  PROVE  GuardInv'
<1> USE DEF GuardInv
<1>0. CASE UNCHANGED vars
  BY <1>0 DEF vars, Shapes, Guarded, Fit, Registered, Chain
<1>1. ASSUME NEW r \in Replicas, Confirm(r) PROVE GuardInv'
  <2>1. Shapes'
    BY <1>1 DEF Confirm, Shapes
  <2>2. ASSUME NEW q \in Replicas, q # r PROVE Guarded(q)'
    <3>1. UNCHANGED <<saved[q], doubt[q], frozen[q], inventory[q]>>
      BY <1>1, <2>2 DEF Confirm, Shapes
    <3> QED BY <3>1 DEF Guarded, Fit, Registered, Chain
  <2>3. Guarded(r)'
    <3>1. /\ saved'[r] = doubt[r] /\ doubt'[r] = None /\ doubt[r] # None
          /\ UNCHANGED <<frozen[r], inventory[r]>>
      BY <1>1 DEF Confirm, Shapes
    <3> QED BY <3>1 DEF Guarded, Fit
  <2> QED BY <2>1, <2>2, <2>3
<1>2. ASSUME NEW r \in Replicas, Restart(r) PROVE GuardInv'
  <2>1. PICK meta \in {saved[r], doubt[r]} \ {None} :
          /\ saved' = [saved EXCEPT ![r] = meta]
          /\ frozen' = [frozen EXCEPT ![r] = meta.forks # {}]
    BY <1>2 DEF Restart
  <2>2. doubt' = [doubt EXCEPT ![r] = None] /\ inventory' = inventory
    BY <1>2 DEF Restart
  <2>3. Shapes'
    BY <2>1, <2>2 DEF Shapes
  <2>4. ASSUME NEW q \in Replicas, q # r PROVE Guarded(q)'
    <3>1. UNCHANGED <<saved[q], doubt[q], frozen[q], inventory[q]>>
      BY <2>1, <2>2, <2>4 DEF Shapes
    <3> QED BY <3>1 DEF Guarded, Fit, Registered, Chain
  <2>5. Guarded(r)'
    <3>1. /\ saved'[r] = meta /\ doubt'[r] = None /\ inventory'[r] = inventory[r]
          /\ frozen'[r] = (meta.forks # {})
      BY <2>1, <2>2 DEF Shapes
    <3>2. Fit(meta, frozen[r])
      BY <2>1 DEF Guarded
    <3>3. Fit(meta, frozen'[r])
      BY <3>1, <3>2 DEF Fit
    <3> QED BY <3>1, <3>3 DEF Guarded
  <2> QED BY <2>3, <2>4, <2>5
<1>3. ASSUME NEW r \in Replicas, NEW o \in Operations, NEW i \in Intents, Administer(r, o, i)
      PROVE  GuardInv'
  <2> DEFINE grown == Append(Chain(r), Successor(Chain(r), o, i))
             meta == Meta(grown, saved[r].forks)
  <2>1. Registered(r) /\ ~frozen[r] /\ Save(r, meta) /\ UNCHANGED <<frozen, inventory>>
    BY <1>3 DEF Administer
  <2>2. Whole(Chain(r)) /\ saved[r].forks = {}
    BY <2>1 DEF Guarded, Fit, Chain
  <2>3. Whole(grown) /\ Len(grown) = Len(Chain(r)) + 1 /\ Len(Chain(r)) \in Nat
    BY <2>2, GrownChain, WholeIs
  <2> HIDE DEF grown
  <2>4. meta.chain = grown /\ meta.forks = {}
    BY <2>2 DEF Meta
  <2>5. Fit(meta, frozen'[r]) /\ Len(Chain(r)) <= Len(meta.chain)
    BY <2>3, <2>4 DEF Fit
  <2> HIDE DEF meta
  <2>6. frozen' \in [Replicas -> BOOLEAN]
    BY <2>1 DEF Shapes
  <2> QED BY <2>1, <2>5, <2>6, SaveGuards
<1>4. ASSUME NEW r \in Replicas, NEW o \in Operations, Consent(r, o) PROVE GuardInv'
  BY <1>4 DEF Consent, Shapes, Guarded, Fit, Registered, Chain
<1>5. ASSUME NEW r \in Replicas, NEW s \in Replicas, Inventory(r, s) \/ Announce(r, s)
      PROVE  GuardInv'
  <2>1. /\ inventory' = [inventory EXCEPT ![r] = [to |-> s, meta |-> saved[r]]]
        /\ UNCHANGED <<saved, doubt, frozen>>
    BY <1>5 DEF Inventory, Announce
  <2>2. Shapes'
    BY <2>1 DEF Shapes
  <2>3. ASSUME NEW q \in Replicas PROVE Guarded(q)'
    <3>1. inventory'[q] # None => Whole(inventory'[q].meta.chain)
      <4>1. CASE q = r
        BY <4>1, <2>1 DEF Shapes, Guarded, Fit
      <4>2. CASE q # r
        BY <4>2, <2>1 DEF Shapes, Guarded
      <4> QED BY <4>1, <4>2
    <3> QED BY <2>1, <3>1 DEF Guarded, Fit, Registered, Chain
  <2> QED BY <2>2, <2>3
<1>6. ASSUME NEW r \in Replicas, NEW s \in Replicas, Join(s, r) \/ Copy(s, r)
      PROVE  GuardInv'
  <2>1. /\ ~Registered(s) /\ saved' = [saved EXCEPT ![s] = saved[r]]
        /\ UNCHANGED <<doubt, inventory>>
        /\ \/ ~frozen[r] /\ frozen' = frozen
           \/ frozen' = [frozen EXCEPT ![s] = saved[r].forks # {}]
    BY <1>6 DEF Join, Copy, Authorized
  <2>2. Shapes'
    BY <2>1 DEF Shapes
  <2>3. ASSUME NEW q \in Replicas, q # s PROVE Guarded(q)'
    <3>1. UNCHANGED <<saved[q], doubt[q], frozen[q], inventory[q]>>
      BY <2>1, <2>3 DEF Shapes
    <3> QED BY <3>1 DEF Guarded, Fit, Registered, Chain
  <2>4. Guarded(s)'
    <3>1. doubt'[s] = None /\ saved'[s] = saved[r] /\ inventory'[s] = inventory[s]
      BY <2>1 DEF Shapes, Guarded
    <3>2. Fit(saved[r], frozen[r])
      BY DEF Guarded
    <3>3. Fit(saved[r], frozen'[s])
      <4>1. CASE ~frozen[r] /\ frozen' = frozen
        BY <3>2, <4>1 DEF Fit
      <4>2. CASE frozen' = [frozen EXCEPT ![s] = saved[r].forks # {}]
        BY <3>2, <4>2 DEF Fit, Shapes
      <4> QED BY <4>1, <4>2, <2>1
    <3> QED BY <3>1, <3>3 DEF Guarded
  <2> QED BY <2>2, <2>3, <2>4
<1>7. ASSUME NEW r \in Replicas, NEW s \in Replicas, Offer(s, r) PROVE GuardInv'
  BY <1>7, OfferGuards
<1> QED BY <1>0, <1>1, <1>2, <1>3, <1>4, <1>5, <1>6, <1>7 DEF Next

(* No sequence of offers, lost commits, restarts and copied profiles       *)
(* writes an archive that can no longer be opened, or lets a copy that     *)
(* holds fork evidence go on.                                              *)
THEOREM EvidenceHolds == Spec => []EvidenceSound
<1>1. GuardInv => EvidenceSound
  BY DEF GuardInv, Guarded, Fit, EvidenceSound, EvidenceContradicts, EvidenceFreezes, Chain
<1> QED BY <1>1, GuardStarts, GuardStep, PTL DEF Spec

-----------------------------------------------------------------------------
(* The chains of profiles that nobody copied.                              *)

(* The chains that anybody holds, those in doubt only at the copies R.     *)
Chains(R) ==
  {Chain(q) : q \in Replicas}
    \cup {inventory[q].meta.chain : q \in {p \in Replicas : inventory[p] # None}}
    \cup {doubt[q].chain : q \in {p \in R : doubt[p] # None}}

(* Nobody was stopped, and nobody has anything to be stopped by.           *)
Unstopped(r) ==
  /\ ~frozen[r]
  /\ saved[r].forks = {}
  /\ doubt[r] # None => doubt[r].forks = {}
  /\ inventory[r] # None => inventory[r].meta.forks = {}

Agree == \A c, d \in Chains(Replicas) : ~Forks(c, d)

Signed ==
  \A c \in Chains(Replicas) : \A n \in DOMAIN c \ {1} : c[n].signer = c[n - 1].manager

(* What a device has signed and another copy holds, the signer has saved.  *)
Kept(r) ==
  \A c \in Chains(Replicas \ {r}) : \A n \in DOMAIN c \ {1} :
    c[n].signer = device[r] => n <= Len(Chain(r))

LineInv == Agree /\ Signed /\ \A r \in Replicas : Kept(r)

AgreeInv == OwnProfiles => LineInv /\ \A r \in Replicas : Unstopped(r)

LEMMA HeldIsWhole ==
  ASSUME GuardInv
  PROVE  /\ \A c \in Chains(Replicas) : Whole(c)
         /\ \A r \in Replicas : Chains(Replicas \ {r}) \subseteq Chains(Replicas)
         /\ \A r, q \in Replicas : Chain(q) \in Chains(Replicas \ {r})
  BY DEF Chains, GuardInv, Guarded, Fit, Chain

(* A step that only passes chains on.                                      *)
LEMMA MoveKeeps ==
  ASSUME GuardInv, GuardInv', LineInv, UNCHANGED device,
         Chains(Replicas)' \subseteq Chains(Replicas),
         \A r \in Replicas :
           /\ Chains(Replicas \ {r})' \subseteq Chains(Replicas \ {r}) \cup {Chain(r)'}
           /\ Len(Chain(r)) <= Len(Chain(r)')
  PROVE  LineInv'
<1>1. Agree' /\ Signed'
  BY DEF LineInv, Agree, Signed
<1>2. ASSUME NEW r \in Replicas PROVE Kept(r)'
  <2> SUFFICES ASSUME NEW c \in Chains(Replicas \ {r})', NEW n \in DOMAIN c \ {1},
                      c[n].signer = device[r]
               PROVE  n <= Len(Chain(r)')
    BY DEF Kept
  <2>1. CASE c \in Chains(Replicas \ {r})
    <3>1. n <= Len(Chain(r))
      BY <2>1 DEF LineInv, Kept
    <3>2. Whole(c) /\ Whole(Chain(r)) /\ Whole(Chain(r)')
      BY <2>1, HeldIsWhole DEF GuardInv, Guarded, Fit, Chain
    <3>3. n \in Nat
      BY <3>2, WholeIs
    <3>4. Len(Chain(r)) \in Nat
      BY <3>2, WholeIs
    <3>5. Len(Chain(r)') \in Nat
      BY <3>2, WholeIs
    <3>6. Len(Chain(r)) <= Len(Chain(r)')
      OBVIOUS
    <3> QED BY <3>1, <3>3, <3>4, <3>5, <3>6
  <2>2. CASE c = Chain(r)'
    <3>1. Whole(c)
      BY <2>2 DEF GuardInv, Guarded, Fit, Chain
    <3> QED BY <2>2, <3>1, WholeIs
  <2> QED BY <2>1, <2>2
<1> QED BY <1>1, <1>2 DEF LineInv

(* Saving what somebody has handed out, or what was in doubt here.         *)
LEMMA PassKeeps ==
  ASSUME GuardInv, GuardInv', LineInv, UNCHANGED device,
         NEW s \in Replicas,
         UNCHANGED inventory,
         \A r \in Replicas \ {s} : Chain(r)' = Chain(r) /\ doubt'[r] = doubt[r],
         Chain(s)' \in Chains({s}),
         doubt'[s] # None => doubt'[s].chain \in Chains({s}),
         Len(Chain(s)) <= Len(Chain(s)')
  PROVE  LineInv'
<1>1. ASSUME NEW R \in SUBSET Replicas, s \in R
      PROVE  Chains({s}) \subseteq Chains(R)
  BY <1>1 DEF Chains
<1>2. ASSUME NEW R \in SUBSET Replicas, NEW c \in Chains(R)'
      PROVE  c \in Chains(R) \cup Chains({s})
  <2>1. CASE \E q \in Replicas : c = Chain(q)'
    <3>1. PICK q \in Replicas : c = Chain(q)'
      BY <2>1
    <3>2. CASE q = s
      BY <3>1, <3>2
    <3>3. CASE q # s
      BY <3>1, <3>3 DEF Chains
    <3> QED BY <3>2, <3>3
  <2>2. CASE \E q \in Replicas : inventory[q] # None /\ c = inventory[q].meta.chain
    BY <2>2 DEF Chains
  <2>3. CASE \E q \in R : doubt'[q] # None /\ c = doubt'[q].chain
    <3>1. PICK q \in R : doubt'[q] # None /\ c = doubt'[q].chain
      BY <2>3
    <3>2. CASE q = s
      BY <3>1, <3>2
    <3>3. CASE q # s
      BY <3>1, <3>3 DEF Chains
    <3> QED BY <3>2, <3>3
  <2> QED BY <1>2, <2>1, <2>2, <2>3 DEF Chains
<1>3. Chains(Replicas)' \subseteq Chains(Replicas)
  BY <1>1, <1>2
<1>4. ASSUME NEW r \in Replicas
      PROVE  /\ Chains(Replicas \ {r})' \subseteq Chains(Replicas \ {r}) \cup {Chain(r)'}
             /\ Len(Chain(r)) <= Len(Chain(r)')
  <2>1. CASE r # s
    <3>1. Chains(Replicas \ {r})' \subseteq Chains(Replicas \ {r})
      BY <2>1, <1>1, <1>2
    <3>2. Whole(Chain(r))
      BY DEF GuardInv, Guarded, Fit, Chain
    <3>3. Len(Chain(r)) \in Nat
      BY <3>2, WholeIs
    <3>4. Chain(r)' = Chain(r)
      BY <2>1
    <3>5. Len(Chain(r)) <= Len(Chain(r)')
      <4> DEFINE before == Chain(r)
                 after == saved'[r].chain
      <4>1. after = before
        BY <3>4 DEF Chain
      <4> HIDE DEF before, after
      <4>2. Len(before) \in Nat => Len(before) <= Len(after)
        BY <4>1
      <4> QED BY <3>3, <4>2 DEF before, after, Chain
    <3> QED BY <3>1, <3>5
  <2>2. CASE r = s
    <3> SUFFICES ASSUME NEW c \in Chains(Replicas \ {s})', c # Chain(s)'
                 PROVE  c \in Chains(Replicas \ {s})
      BY <2>2
    <3>1. CASE \E q \in Replicas : c = Chain(q)'
      BY <3>1 DEF Chains
    <3>2. CASE \E q \in Replicas : inventory[q] # None /\ c = inventory[q].meta.chain
      BY <3>2 DEF Chains
    <3>3. CASE \E q \in Replicas \ {s} : doubt'[q] # None /\ c = doubt'[q].chain
      BY <3>3 DEF Chains
    <3> QED BY <3>1, <3>2, <3>3 DEF Chains
  <2> QED BY <2>1, <2>2
<1> QED BY <1>3, <1>4, MoveKeeps

(* The new record of a manager continues every chain that anybody holds.   *)
LEMMA GrowthAgrees ==
  ASSUME GuardInv, LineInv, NEW r \in Replicas, Registered(r), doubt[r] = None,
         NEW e, e.signer = device[r], Latest(Chain(r)).manager = device[r],
         NEW c \in Chains(Replicas)
  PROVE  ~Forks(Append(Chain(r), e), c) /\ ~Forks(c, Append(Chain(r), e))
<1> DEFINE mine == Chain(r)
           k == Len(mine)
           grown == Append(mine, e)
<1>1. Whole(mine) /\ Whole(c) /\ mine \in Chains(Replicas)
  BY HeldIsWhole DEF GuardInv, Guarded, Fit, Chain, Chains
<1>2. k \in Nat /\ k # 0 /\ DOMAIN mine = 1..k
  BY <1>1, WholeIs DEF Registered
<1>3. /\ DOMAIN grown = 1..(k + 1)
      /\ \A n \in 1..k : grown[n] = mine[n]
  BY <1>1, GrownChain
<1>4. DOMAIN c = 1..Len(c) /\ Len(c) \in Nat
  BY <1>1, WholeIs
<1>5. c \in Chains(Replicas \ {r})
  BY DEF Chains
<1>6. \A n \in DOMAIN mine \cap DOMAIN c : mine[n] = c[n]
  BY <1>1 DEF LineInv, Agree, Forks
<1>7. k + 1 \notin DOMAIN c
  <2> SUFFICES ASSUME k + 1 \in DOMAIN c PROVE FALSE
    OBVIOUS
  <2>1. k \in DOMAIN c /\ k \in DOMAIN mine /\ k + 1 \in DOMAIN c \ {1} /\ (k + 1) - 1 = k
    BY <1>2, <1>4
  <2>2. c[k + 1].signer = c[k].manager
    BY <2>1 DEF LineInv, Signed
  <2>3. c[k].manager = device[r]
    BY <2>1, <1>6 DEF Latest
  <2>4. k + 1 <= k
    BY <2>1, <2>2, <2>3, <1>5 DEF LineInv, Kept
  <2> QED BY <2>4, <1>2
<1>8. \A n \in DOMAIN grown \cap DOMAIN c : n \in DOMAIN mine
  BY <1>2, <1>3, <1>7
<1> HIDE DEF grown, k, mine
<1>9. \A n \in DOMAIN grown \cap DOMAIN c : grown[n] = c[n]
  BY <1>2, <1>3, <1>6, <1>8
<1> QED BY <1>9 DEF Forks, grown, mine

LEMMA AdministerKeeps ==
  ASSUME GuardInv, GuardInv', LineInv, OwnProfiles,
         NEW r \in Replicas, NEW o \in Operations, NEW i \in Intents, Administer(r, o, i)
  PROVE  LineInv'
<1> DEFINE mine == Chain(r)
           k == Len(mine)
           e == Successor(mine, o, i)
           grown == Append(mine, e)
           meta == Meta(grown, saved[r].forks)
<1>1. /\ Registered(r) /\ CanExtend(mine, device[r], o, i) /\ Save(r, meta)
      /\ UNCHANGED <<device, inventory>>
  BY DEF Administer
<1>2. Whole(mine) /\ mine \in Chains(Replicas) /\ Shapes
  BY HeldIsWhole DEF GuardInv, Guarded, Fit, Chain, Chains
<1>3. e.signer = device[r] /\ Latest(mine).manager = device[r]
  BY <1>1 DEF CanExtend, Successor
<1> HIDE DEF e
<1>4. k \in Nat /\ k # 0 /\ DOMAIN mine = 1..k
  BY <1>1, <1>2, WholeIs DEF Registered
<1>5. /\ Whole(grown) /\ Len(grown) = k + 1 /\ DOMAIN grown = 1..(k + 1)
      /\ grown[k + 1] = e
      /\ \A n \in 1..k : grown[n] = mine[n]
  BY <1>2, GrownChain
<1>6. doubt[r] = None
  BY <1>1, <1>2, SaveIs
<1>7. \A c \in Chains(Replicas) : ~Forks(grown, c) /\ ~Forks(c, grown)
  BY <1>1, <1>3, <1>6, GrowthAgrees
<1>8. meta.chain = grown
  BY DEF Meta
<1> HIDE DEF grown, meta
<1>9. /\ \A q \in Replicas \ {r} : Chain(q)' = Chain(q) /\ doubt'[q] = doubt[q]
      /\ \/ Chain(r)' = grown /\ doubt'[r] = None
         \/ Chain(r)' = mine /\ (doubt'[r] # None => doubt'[r].chain = grown)
  <2>1. /\ \A q \in Replicas \ {r} : saved'[q] = saved[q] /\ doubt'[q] = doubt[q]
        /\ \/ saved'[r] = meta /\ doubt'[r] = None
           \/ saved'[r] = saved[r] /\ doubt'[r] = meta
    BY <1>1, <1>2, SaveIs
  <2> QED BY <2>1, <1>8 DEF Chain
<1>10. \A R \in SUBSET Replicas : \A c \in Chains(R)' : c \in Chains(R) \cup {grown}
  <2> SUFFICES ASSUME NEW R \in SUBSET Replicas, NEW c \in Chains(R)'
               PROVE  c \in Chains(R) \cup {grown}
    OBVIOUS
  <2>1. CASE \E q \in Replicas : c = Chain(q)'
    <3>1. PICK q \in Replicas : c = Chain(q)'
      BY <2>1
    <3>2. Chain(q)' \in {Chain(q), grown}
      BY <1>9 DEF Chain
    <3> QED BY <3>1, <3>2 DEF Chains
  <2>2. CASE \E q \in Replicas : inventory'[q] # None /\ c = inventory'[q].meta.chain
    BY <2>2, <1>1 DEF Chains
  <2>3. CASE \E q \in R : doubt'[q] # None /\ c = doubt'[q].chain
    <3>1. PICK q \in R : doubt'[q] # None /\ c = doubt'[q].chain
      BY <2>3
    <3>2. CASE q # r
      BY <1>9, <3>1, <3>2 DEF Chains
    <3>3. CASE q = r
      BY <1>9, <3>1, <3>3
    <3> QED BY <3>2, <3>3
  <2> QED BY <2>1, <2>2, <2>3 DEF Chains
<1>11. Agree'
  <2> SUFFICES ASSUME NEW c \in Chains(Replicas)', NEW d \in Chains(Replicas)'
               PROVE  ~Forks(c, d)
    BY DEF Agree
  <2>1. c \in Chains(Replicas) \cup {grown} /\ d \in Chains(Replicas) \cup {grown}
    BY <1>10
  <2>2. ~Forks(grown, grown)
    BY DEF Forks
  <2> QED BY <2>1, <2>2, <1>7 DEF LineInv, Agree
<1>12. Signed'
  <2> SUFFICES ASSUME NEW c \in Chains(Replicas)', NEW n \in DOMAIN c \ {1}
               PROVE  c[n].signer = c[n - 1].manager
    BY DEF Signed
  <2>1. CASE c \in Chains(Replicas)
    BY <2>1 DEF LineInv, Signed
  <2>2. CASE c = grown
    <3>1. n \in 1..(k + 1) /\ n # 1
      BY <2>2, <1>5
    <3>2. n - 1 \in 1..k /\ grown[n - 1] = mine[n - 1]
      BY <3>1, <1>4, <1>5
    <3>3. CASE n = k + 1
      <4>1. n - 1 = k /\ grown[n] = e
        BY <3>3, <1>4, <1>5
      <4> QED BY <2>2, <3>2, <4>1, <1>3 DEF Latest
    <3>4. CASE n # k + 1
      <4>1. n \in 1..k /\ grown[n] = mine[n]
        BY <3>1, <3>4, <1>4, <1>5
      <4>2. n \in DOMAIN mine \ {1}
        BY <3>1, <4>1, <1>4
      <4>3. mine[n].signer = mine[n - 1].manager
        BY <1>2, <4>2 DEF LineInv, Signed
      <4> QED BY <2>2, <3>2, <4>1, <4>3
    <3> QED BY <3>3, <3>4
  <2> QED BY <2>1, <2>2, <1>10
<1>13. ASSUME NEW q \in Replicas PROVE Kept(q)'
  <2> SUFFICES ASSUME NEW c \in Chains(Replicas \ {q})', NEW n \in DOMAIN c \ {1},
                      c[n].signer = device[q]
               PROVE  n <= Len(Chain(q)')
    BY <1>1 DEF Kept
  <2>1. Len(Chain(q)) \in Nat /\ Chain(q)' \in {Chain(q), grown}
    <3>1. Whole(Chain(q))
      BY DEF GuardInv, Guarded, Fit, Chain
    <3>2. Chain(q)' \in {Chain(q), grown}
      BY <1>9 DEF Chain
    <3> QED BY <3>1, <3>2, WholeIs
  <2>2. Chain(q)' = grown => q = r \/ Chain(q) = grown
    BY <1>9 DEF Chain
  <2>3. Len(Chain(q)) <= Len(Chain(q)')
    <3>1. CASE Chain(q)' = Chain(q)
      BY <2>1, <3>1
    <3>2. CASE Chain(q)' # Chain(q)
      BY <2>1, <2>2, <3>2, <1>4, <1>5
    <3> QED BY <3>1, <3>2
  <2>4. Len(Chain(q)') \in Nat
    BY <2>1, <1>4, <1>5
  <2>5. c \in Chains(Replicas \ {q}) \cup {grown}
    BY <1>10
  <2>6. CASE c \in Chains(Replicas \ {q})
    <3>1. n <= Len(Chain(q))
      BY <2>6 DEF LineInv, Kept
    <3>2. Whole(c)
      BY <2>6, HeldIsWhole
    <3>3. n \in Nat
      BY <3>2, WholeIs
    <3> QED BY <3>1, <3>3, <2>1, <2>3, <2>4
  <2>7. CASE c = grown /\ q # r
    <3>1. n \in 1..(k + 1)
      BY <2>7, <1>5
    <3>2. n # k + 1
      BY <2>7, <1>3, <1>5 DEF OwnProfiles
    <3>3. n \in DOMAIN mine \ {1} /\ grown[n] = mine[n] /\ n \in Nat
      BY <3>1, <3>2, <1>4, <1>5
    <3>4. mine \in Chains(Replicas \ {q})
      BY HeldIsWhole
    <3>5. mine[n].signer = device[q]
      BY <2>7, <3>3
    <3>6. n <= Len(Chain(q))
      BY <3>3, <3>4, <3>5 DEF LineInv, Kept
    <3> QED BY <3>3, <3>6, <2>1, <2>3, <2>4
  <2>8. CASE c = grown /\ q = r /\ c \notin Chains(Replicas \ {q})
    <3>1. n \in 1..(k + 1)
      BY <2>8, <1>5
    <3>2. CASE Chain(r)' = grown
      BY <2>8, <3>1, <3>2, <1>5
    <3>3. CASE Chain(r)' = mine
      <4>1. CASE \E p \in Replicas : c = Chain(p)'
        <5>1. PICK p \in Replicas : c = Chain(p)'
          BY <4>1
        <5>2. p = r \/ Chain(p)' = Chain(p)
          BY <1>9 DEF Chain
        <5>3. Chain(p)' # Chain(p)
          BY <5>1, <2>8, HeldIsWhole
        <5> QED BY <5>1, <5>2, <5>3, <3>3, <2>8
      <4>2. CASE \E p \in Replicas : inventory'[p] # None /\ c = inventory'[p].meta.chain
        BY <4>2, <1>1, <2>8 DEF Chains
      <4>3. CASE \E p \in Replicas \ {q} : doubt'[p] # None /\ c = doubt'[p].chain
        BY <4>3, <1>9, <2>8 DEF Chains
      <4> QED BY <4>1, <4>2, <4>3 DEF Chains
    <3> QED BY <3>2, <3>3, <1>9
  <2> QED BY <2>5, <2>6, <2>7, <2>8
<1> QED BY <1>11, <1>12, <1>13 DEF LineInv

LEMMA AgreeStarts == Init => AgreeInv
<1> SUFFICES ASSUME Init PROVE AgreeInv
  OBVIOUS
<1> DEFINE root == <<Genesis(FounderIdentity, FirstPolicy)>>
<1>1. DOMAIN root = {1}
  OBVIOUS
<1> HIDE DEF root
<1>2. \A r \in Replicas : /\ doubt[r] = None /\ inventory[r] = None /\ ~frozen[r]
                          /\ saved[r] = IF r = Founder THEN Meta(root, {}) ELSE NoCopy
  BY DEF Init, root
<1>3. \A r \in Replicas : saved[r].forks = {} /\ Chain(r) \in {root, <<>>}
  BY <1>2 DEF Meta, NoCopy, Chain
<1>4. \A R \in SUBSET Replicas : Chains(R) \subseteq {root, <<>>}
  BY <1>2, <1>3 DEF Chains
<1>5. \A c \in {root, <<>>} : DOMAIN c \in {{1}, {}}
  BY <1>1
<1>6. Agree
  <2>1. \A c, d \in {root, <<>>} : ~Forks(c, d)
    BY <1>1 DEF Forks
  <2> QED BY <1>4, <2>1 DEF Agree
<1>7. Signed
  BY <1>4, <1>5 DEF Signed
<1>8. \A r \in Replicas : Kept(r)
  BY <1>4, <1>5 DEF Kept
<1> QED BY <1>2, <1>3, <1>6, <1>7, <1>8 DEF AgreeInv, LineInv, Unstopped

LEMMA AgreeStep ==
  ASSUME GuardInv, AgreeInv, [Next]_vars
  PROVE  AgreeInv'
<1>1. UNCHANGED device
  BY DEF vars, Next, Confirm, Restart, Administer, Consent, Inventory, Announce, Offer, Join, Copy
<1> SUFFICES ASSUME OwnProfiles
             PROVE  LineInv' /\ \A r \in Replicas : Unstopped(r)'
  BY <1>1 DEF AgreeInv, OwnProfiles
<1>2. LineInv /\ \A r \in Replicas : Unstopped(r)
  BY DEF AgreeInv
<1>3. GuardInv' /\ Shapes
  BY GuardStep DEF GuardInv
<1>4. CASE UNCHANGED vars
  BY <1>2, <1>4 DEF vars, LineInv, Agree, Signed, Kept, Chains, Chain, Unstopped
<1>5. ASSUME NEW r \in Replicas, Confirm(r)
      PROVE  LineInv' /\ \A q \in Replicas : Unstopped(q)'
  <2>1. /\ saved'[r] = doubt[r] /\ doubt'[r] = None /\ doubt[r] # None
        /\ \A q \in Replicas \ {r} : saved'[q] = saved[q] /\ doubt'[q] = doubt[q]
        /\ UNCHANGED <<inventory, frozen>>
    BY <1>3, <1>5 DEF Confirm, Shapes
  <2>2. Chain(r)' \in Chains({r}) /\ Len(Chain(r)) <= Len(Chain(r)')
    BY <2>1 DEF Chains, Chain, GuardInv, Guarded
  <2>3. \A q \in Replicas \ {r} : Chain(q)' = Chain(q) /\ doubt'[q] = doubt[q]
    BY <2>1 DEF Chain
  <2>4. LineInv'
    BY <1>1, <1>2, <1>3, <2>1, <2>2, <2>3, PassKeeps
  <2>5. \A q \in Replicas : Unstopped(q)'
    BY <1>2, <2>1 DEF Unstopped
  <2> QED BY <2>4, <2>5
<1>6. ASSUME NEW r \in Replicas, Restart(r)
      PROVE  LineInv' /\ \A q \in Replicas : Unstopped(q)'
  <2>1. PICK meta \in {saved[r], doubt[r]} \ {None} :
          /\ saved' = [saved EXCEPT ![r] = meta]
          /\ frozen' = [frozen EXCEPT ![r] = meta.forks # {}]
    BY <1>6 DEF Restart
  <2>2. doubt' = [doubt EXCEPT ![r] = None] /\ inventory' = inventory
    BY <1>6 DEF Restart
  <2>3. /\ saved'[r] = meta /\ doubt'[r] = None /\ frozen'[r] = (meta.forks # {})
        /\ \A q \in Replicas \ {r} :
             saved'[q] = saved[q] /\ doubt'[q] = doubt[q] /\ frozen'[q] = frozen[q]
    BY <1>3, <2>1, <2>2 DEF Shapes
  <2>4. meta.forks = {}
    BY <1>2, <2>1 DEF Unstopped
  <2>5. Chain(r)' \in Chains({r})
    BY <2>1, <2>3 DEF Chains, Chain
  <2>6. Len(Chain(r)) <= Len(Chain(r)')
    <3>1. Len(saved[r].chain) \in Nat
      BY WholeIs DEF GuardInv, Guarded, Fit
    <3>2. Len(saved[r].chain) <= Len(meta.chain)
      BY <2>1, <3>1 DEF GuardInv, Guarded, Chain
    <3> QED BY <2>3, <3>2 DEF Chain
  <2>7. \A q \in Replicas \ {r} : Chain(q)' = Chain(q) /\ doubt'[q] = doubt[q]
    BY <2>3 DEF Chain
  <2>8. LineInv'
    BY <1>1, <1>2, <1>3, <2>2, <2>3, <2>5, <2>6, <2>7, PassKeeps
  <2>9. \A q \in Replicas : Unstopped(q)'
    BY <1>2, <2>2, <2>3, <2>4 DEF Unstopped
  <2> QED BY <2>8, <2>9
<1>7. ASSUME NEW r \in Replicas, NEW o \in Operations, NEW i \in Intents, Administer(r, o, i)
      PROVE  LineInv' /\ \A q \in Replicas : Unstopped(q)'
  <2> DEFINE meta == Meta(Append(Chain(r), Successor(Chain(r), o, i)), saved[r].forks)
  <2>1. LineInv'
    BY <1>2, <1>3, <1>7, AdministerKeeps
  <2>2. Save(r, meta) /\ UNCHANGED <<frozen, inventory>>
    BY <1>7 DEF Administer
  <2>3. meta.forks = {}
    BY <1>2 DEF Meta, Unstopped
  <2> HIDE DEF meta
  <2>4. \A q \in Replicas : Unstopped(q)'
    BY <1>2, <1>3, <2>2, <2>3, SaveIs DEF Unstopped
  <2> QED BY <2>1, <2>4
<1>8. ASSUME NEW r \in Replicas, NEW o \in Operations, Consent(r, o)
      PROVE  LineInv' /\ \A q \in Replicas : Unstopped(q)'
  BY <1>2, <1>8 DEF Consent, LineInv, Agree, Signed, Kept, Chains, Chain, Unstopped
<1>9. ASSUME NEW r \in Replicas, NEW s \in Replicas, Inventory(r, s) \/ Announce(r, s)
      PROVE  LineInv' /\ \A q \in Replicas : Unstopped(q)'
  <2>1. /\ inventory' = [inventory EXCEPT ![r] = [to |-> s, meta |-> saved[r]]]
        /\ UNCHANGED <<saved, doubt, frozen>>
    BY <1>9 DEF Inventory, Announce
  <2>2. /\ inventory'[r].meta = saved[r]
        /\ \A q \in Replicas \ {r} : inventory'[q] = inventory[q]
    BY <1>3, <2>1 DEF Shapes
  <2>3. ASSUME NEW R \in SUBSET Replicas PROVE Chains(R)' \subseteq Chains(R)
    <3> SUFFICES ASSUME NEW c \in Chains(R)' PROVE c \in Chains(R)
      OBVIOUS
    <3>1. CASE \E q \in Replicas : inventory'[q] # None /\ c = inventory'[q].meta.chain
      <4>1. PICK q \in Replicas : inventory'[q] # None /\ c = inventory'[q].meta.chain
        BY <3>1
      <4>2. CASE q = r
        BY <2>2, <4>1, <4>2 DEF Chains, Chain
      <4>3. CASE q # r
        BY <2>2, <4>1, <4>3 DEF Chains
      <4> QED BY <4>2, <4>3
    <3>2. CASE \E q \in Replicas : c = Chain(q)'
      BY <2>1, <3>2 DEF Chains, Chain
    <3>3. CASE \E q \in R : doubt'[q] # None /\ c = doubt'[q].chain
      BY <2>1, <3>3 DEF Chains
    <3> QED BY <3>1, <3>2, <3>3 DEF Chains
  <2>4. ASSUME NEW q \in Replicas PROVE Len(Chain(q)) <= Len(Chain(q)')
    <3>1. Len(saved[q].chain) \in Nat
      BY WholeIs DEF GuardInv, Guarded, Fit
    <3> QED BY <2>1, <3>1 DEF Chain
  <2>5. LineInv'
    BY <1>1, <1>2, <1>3, <2>3, <2>4, MoveKeeps
  <2>6. \A q \in Replicas : Unstopped(q)'
    BY <1>2, <2>1, <2>2 DEF Unstopped
  <2> QED BY <2>5, <2>6
<1>10. ASSUME NEW r \in Replicas, NEW s \in Replicas, Offer(s, r)
       PROVE  LineInv' /\ \A q \in Replicas : Unstopped(q)'
  <2> DEFINE inc == inventory[r].meta
             meta == Meta(inc.chain, saved[s].forks)
  <2>1. inventory[r] # None /\ UNCHANGED inventory
    BY <1>10 DEF Offer
  <2>2. inc.forks = {} /\ inc.chain \in Chains({s})
    BY <1>2, <2>1 DEF Unstopped, Chains
  <2>3. Whole(Chain(s)) /\ Chain(s) \in Chains({s})
    BY DEF GuardInv, Guarded, Fit, Chain, Chains
  <2>4. inc.chain \in Chains(Replicas) /\ Chain(s) \in Chains(Replicas)
    BY <2>1 DEF Chains
  <2>5. ~Forks(Chain(s), inc.chain)
    BY <1>2, <2>4 DEF LineInv, Agree
  <2>6. OfferGrow(s, r)
    BY <1>10, <2>2, <2>5 DEF Offer, OfferEvidence, OfferFork
  <2>7. Len(inc.chain) > Len(Chain(s)) /\ Save(s, meta) /\ UNCHANGED frozen
    BY <2>6 DEF OfferGrow
  <2>8. meta.chain = inc.chain /\ meta.forks = {}
    BY <1>2 DEF Meta, Unstopped
  <2> HIDE DEF inc, meta
  <2>9. /\ doubt[s] = None
        /\ \A q \in Replicas \ {s} : saved'[q] = saved[q] /\ doubt'[q] = doubt[q]
        /\ \/ saved'[s] = meta /\ doubt'[s] = None
           \/ saved'[s] = saved[s] /\ doubt'[s] = meta
    BY <1>3, <2>7, SaveIs
  <2>10. \A q \in Replicas \ {s} : Chain(q)' = Chain(q) /\ doubt'[q] = doubt[q]
    BY <2>9 DEF Chain
  <2>11. Len(Chain(s)) \in Nat /\ Len(inc.chain) \in Nat
    <3>1. Whole(inc.chain)
      BY <2>4, HeldIsWhole
    <3> QED BY <2>3, <3>1, WholeIs
  <2>12. /\ Chain(s)' \in Chains({s})
         /\ doubt'[s] # None => doubt'[s].chain \in Chains({s})
         /\ Len(Chain(s)) <= Len(Chain(s)')
    <3>1. Chain(s) = saved[s].chain /\ Chain(s)' = saved'[s].chain
      BY DEF Chain
    <3>2. CASE saved'[s] = meta /\ doubt'[s] = None
      BY <2>2, <2>7, <2>8, <2>11, <3>1, <3>2 DEF inc
    <3>3. CASE saved'[s] = saved[s] /\ doubt'[s] = meta
      BY <2>2, <2>3, <2>8, <2>11, <3>1, <3>3 DEF inc
    <3> QED BY <2>9, <3>2, <3>3
  <2>13. LineInv'
    BY <1>1, <1>2, <1>3, <2>1, <2>10, <2>12, PassKeeps
  <2>14. \A q \in Replicas : Unstopped(q)'
    BY <1>2, <2>1, <2>7, <2>8, <2>9 DEF Unstopped
  <2> QED BY <2>13, <2>14
<1>11. ASSUME NEW r \in Replicas, NEW s \in Replicas, Join(s, r)
       PROVE  LineInv' /\ \A q \in Replicas : Unstopped(q)'
  <2>1. /\ ~Registered(s) /\ saved' = [saved EXCEPT ![s] = saved[r]]
        /\ UNCHANGED <<doubt, inventory, frozen>>
    BY <1>11 DEF Join
  <2>2. /\ saved'[s] = saved[r] /\ doubt[s] = None
        /\ \A q \in Replicas \ {s} : saved'[q] = saved[q]
    BY <1>3, <2>1 DEF Shapes, GuardInv, Guarded
  <2>3. Chain(s)' \in Chains({s})
    BY <2>2 DEF Chains, Chain
  <2>4. \A q \in Replicas \ {s} : Chain(q)' = Chain(q) /\ doubt'[q] = doubt[q]
    BY <2>1, <2>2 DEF Chain
  <2>5. Len(Chain(s)) <= Len(Chain(s)')
    <3>1. Len(Chain(s)) = 0
      BY <2>1, EmptyIsWhole DEF Registered
    <3>2. Whole(saved[r].chain)
      BY DEF GuardInv, Guarded, Fit
    <3>3. Len(saved[r].chain) \in Nat
      BY <3>2, WholeIs
    <3> QED BY <2>2, <3>1, <3>3 DEF Chain
  <2>6. doubt'[s] = None
    BY <2>1, <2>2
  <2>7. LineInv'
    BY <1>1, <1>2, <1>3, <2>1, <2>3, <2>4, <2>5, <2>6, PassKeeps
  <2>8. \A q \in Replicas : Unstopped(q)'
    BY <1>2, <2>1, <2>2 DEF Unstopped
  <2> QED BY <2>7, <2>8
<1>12. ASSUME NEW r \in Replicas, NEW s \in Replicas, Copy(s, r) PROVE FALSE
  BY <1>12 DEF Copy, OwnProfiles
<1> QED BY <1>4, <1>5, <1>6, <1>7, <1>8, <1>9, <1>10, <1>11, <1>12 DEF Next

(* Two chains of one database end under managers that each signed for the  *)
(* other one's last state only if they are the same device.                *)
LEMMA OneManagerHolds ==
  ASSUME GuardInv, LineInv, OwnProfiles
  PROVE  OneManager
<1>1. ASSUME NEW r \in Replicas, NEW s \in Replicas, Manages(r), Manages(s),
             Len(Chain(r)) <= Len(Chain(s))
      PROVE  r = s
  <2> DEFINE k == Len(Chain(r))
             c == Chain(s)
  <2>1. Whole(Chain(r)) /\ Whole(c)
    BY DEF GuardInv, Guarded, Fit, Chain
  <2>2. /\ k \in Nat /\ k # 0 /\ DOMAIN Chain(r) = 1..k
        /\ Len(c) \in Nat /\ DOMAIN c = 1..Len(c)
    BY <1>1, <2>1, WholeIs DEF Manages, Registered
  <2>3. k \in DOMAIN Chain(r) /\ k \in DOMAIN c
    BY <1>1, <2>2
  <2>4. c[k] = Chain(r)[k]
    BY <2>3 DEF LineInv, Agree, Forks, Chains
  <2>5. c[k].manager = device[r]
    BY <1>1, <2>4 DEF Manages, Latest
  <2>6. CASE Len(c) = k
    BY <1>1, <2>5, <2>6 DEF Manages, Latest, OwnProfiles
  <2>7. CASE Len(c) # k
    <3>0. k <= Len(c)
      BY <1>1
    <3> HIDE DEF k, c
    <3>1. k + 1 \in DOMAIN c \ {1} /\ (k + 1) - 1 = k
      <4>1. \A x, y \in Nat : x # 0 /\ x <= y /\ y # x
                              => x + 1 \in 1..y /\ x + 1 # 1 /\ (x + 1) - 1 = x
        OBVIOUS
      <4>2. k + 1 \in 1..Len(c) /\ k + 1 # 1 /\ (k + 1) - 1 = k
        BY <3>0, <2>2, <2>7, <4>1, Zenon
      <4> QED BY <4>2, <2>2, Zenon
    <3> USE DEF k, c
    <3>2. c[k + 1].signer = c[k].manager
      BY <3>1 DEF LineInv, Signed, Chains
    <3>3. k + 1 <= k
      BY <2>5, <3>1, <3>2, HeldIsWhole DEF LineInv, Kept
    <3> QED BY <3>3, <2>2
  <2> QED BY <2>6, <2>7
<1>2. ASSUME NEW r \in Replicas, NEW s \in Replicas, Manages(r), Manages(s)
      PROVE  r = s
  <2>1. Whole(Chain(r)) /\ Whole(Chain(s))
    BY DEF GuardInv, Guarded, Fit, Chain
  <2>2. Len(Chain(r)) \in Nat /\ Len(Chain(s)) \in Nat
    BY <2>1, WholeIs
  <2>3. Len(Chain(r)) <= Len(Chain(s)) \/ Len(Chain(s)) <= Len(Chain(r))
    BY <2>2
  <2> QED BY <1>1, <1>2, <2>3
<1> QED BY <1>2 DEF OneManager

(* As long as nobody copies a profile, lost commits, restarts, handoffs    *)
(* and delayed inventories never make two devices hold contradictory       *)
(* chains, and at most one of them takes itself for the manager.           *)
THEOREM ProfilesAgree == Spec => []OwnProfilesAgree
<1>1. GuardInv /\ AgreeInv => OwnProfilesAgree
  BY OneManagerHolds DEF AgreeInv, Unstopped, OwnProfilesAgree, NoFalseFork
<1>2. Init => GuardInv /\ AgreeInv
  BY GuardStarts, AgreeStarts
<1>3. GuardInv /\ AgreeInv /\ [Next]_vars => (GuardInv /\ AgreeInv)'
  BY GuardStep, AgreeStep
<1> QED BY <1>1, <1>2, <1>3, PTL DEF Spec
-----------------------------------------------------------------------------
(***************************************************************************)
(* Late guards and late attempts: what the endpoint shows of a database is *)
(* right for any number of databases, connections, attempts and forgets.   *)
(*                                                                         *)
(* IInv ties each entry to the tasks: the attempts it counts are those of  *)
(* its own life (Counts), of which the latest gives the phase (Follows).   *)
(***************************************************************************)

(* What a task does or reports, and what an entry shows.                   *)
Stages == {"waiting", "connecting", "begun", "connected", "transferring", "completed", "failed",
           "cancelled", "settled", "ended"}

Entries == [since : Nat, generation : Nat, phase : Stages, connections : SUBSET Nat]
Tasks == [database : Databases, via : Inbound \cup {"exchange", "request"}, at : Stages,
          guard : BOOLEAN, phase : Stages, life : Nat]

TypeOK ==
  /\ closed \in BOOLEAN
  /\ peers \in [Databases -> Entries \cup {Nil}]
  /\ tasks \in Seq(Tasks)
  /\ forgets \in [Databases -> Nat]

(* No attempt belongs to a life that is still to come, and one that waits  *)
(* holds no connection.                                                    *)
Past ==
  \A t \in DOMAIN tasks :
    /\ tasks[t].life <= forgets[tasks[t].database]
    /\ tasks[t].at = "waiting" => ~tasks[t].guard

(* An entry counts the attempts of this life: they came after `since'.     *)
Counts(d) ==
  /\ \A t \in DOMAIN tasks :
       tasks[t].database = d => (t >= peers[d].since <=> tasks[t].life = forgets[d])
  /\ peers[d].connections = Live(d)

(* It follows the latest of them.                                          *)
Follows(d) ==
  /\ peers[d].generation \in Began(d)
  /\ \A u \in Began(d) : u <= peers[d].generation
  /\ peers[d].phase = tasks[peers[d].generation].phase

Shown(d) ==
  /\ closed => peers[d] = Nil
  /\ ~closed /\ peers[d] = Nil => Began(d) = {}
  /\ peers[d] # Nil => Counts(d) /\ Follows(d)

IInv == TypeOK /\ Past /\ \A d \in Databases : Shown(d)

-----------------------------------------------------------------------------
(* Replacing an element keeps a sequence and its length.                   *)
LEMMA ReplaceInSeq ==
  ASSUME NEW S, NEW s \in Seq(S), NEW i \in DOMAIN s, NEW e \in S
  PROVE  /\ [s EXCEPT ![i] = e] \in Seq(S)
         /\ DOMAIN [s EXCEPT ![i] = e] = DOMAIN s
         /\ [s EXCEPT ![i] = e][i] = e
         /\ \A j \in DOMAIN s : j # i => [s EXCEPT ![i] = e][j] = s[j]
<1>1. [s EXCEPT ![i] = e] \in Seq(S)
  BY ExceptSeq
<1>2. QED
  BY <1>1

(* So does appending one.                                                  *)
LEMMA AppendFacts ==
  ASSUME NEW S, NEW s \in Seq(S), NEW e \in S
  PROVE  /\ Append(s, e) \in Seq(S)
         /\ DOMAIN Append(s, e) = DOMAIN s \cup {Len(s) + 1}
         /\ Len(s) + 1 \in Nat /\ Len(s) + 1 \notin DOMAIN s
         /\ Append(s, e)[Len(s) + 1] = e
         /\ \A i \in DOMAIN s : i \in Nat /\ i < Len(s) + 1 /\ Append(s, e)[i] = s[i]
<1>1. DOMAIN s = 1..Len(s) /\ Len(s) \in Nat
  OBVIOUS
<1>2. /\ Append(s, e) \in Seq(S) /\ Len(Append(s, e)) = Len(s) + 1
      /\ Append(s, e)[Len(s) + 1] = e
      /\ \A i \in 1..Len(s) : Append(s, e)[i] = s[i]
  BY AppendProperties
<1>3. DOMAIN Append(s, e) = 1..Len(s) + 1
  BY <1>2
<1>4. 1..Len(s) + 1 = (1..Len(s)) \cup {Len(s) + 1}
  BY <1>1
<1>5. QED
  BY <1>1, <1>2, <1>3, <1>4

(* What a step of one task changes: nothing of the others, and neither the *)
(* database nor the life of its own.                                       *)
LEMMA MovesOne ==
  ASSUME TypeOK, NEW t \in DOMAIN tasks, NEW at \in Stages, NEW guard \in BOOLEAN,
         NEW phase \in Stages, Moves(t, at, guard, phase)
  PROVE  /\ tasks' \in Seq(Tasks) /\ DOMAIN tasks' = DOMAIN tasks
         /\ tasks'[t].at = at /\ tasks'[t].guard = guard /\ tasks'[t].phase = phase
         /\ tasks'[t].database = tasks[t].database /\ tasks'[t].life = tasks[t].life
         /\ tasks'[t].via = tasks[t].via
         /\ \A u \in DOMAIN tasks : u # t => tasks'[u] = tasks[u]
<1> DEFINE e == [tasks[t] EXCEPT !.at = at, !.guard = guard, !.phase = phase]
<1>1. tasks[t] \in Tasks /\ tasks \in Seq(Tasks)
  BY DEF TypeOK
<1>2. /\ e \in Tasks /\ e.at = at /\ e.guard = guard /\ e.phase = phase
      /\ e.database = tasks[t].database /\ e.life = tasks[t].life /\ e.via = tasks[t].via
  BY <1>1 DEF Tasks
<1>3. tasks' = [tasks EXCEPT ![t] = e]
  BY <1>1 DEF Moves
<1> HIDE DEF e
<1>4. QED
  BY <1>1, <1>2, <1>3, ReplaceInSeq

(* The entry of each database after a step of one task: it stays or stays  *)
(* absent, shows the phase of its own generation, and holds the connection *)
(* if the task has one that counts.                                        *)
Updates(t) ==
  \A d \in Databases :
    /\ peers[d] = Nil => peers'[d] = Nil
    /\ peers[d] # Nil =>
         /\ peers'[d] # Nil
         /\ peers'[d].since = peers[d].since
         /\ peers'[d].generation = peers[d].generation
         /\ peers'[d].phase = IF d = tasks[t].database /\ peers[d].generation = t
                              THEN tasks'[t].phase ELSE peers[d].phase
         /\ peers'[d].connections =
              IF d # tasks[t].database THEN peers[d].connections
              ELSE IF tasks'[t].guard /\ t >= peers[d].since THEN peers[d].connections \cup {t}
              ELSE peers[d].connections \ {t}

(* Updates, from what happens to the entry of the task's own database.     *)
LEMMA UpdatesOwn ==
  ASSUME NEW t, NEW d \in Databases, d = tasks[t].database,
         \A e \in Databases : e # d => peers'[e] = peers[e],
         peers[d] = Nil => peers'[d] = Nil,
         peers[d] # Nil =>
           /\ peers'[d] # Nil
           /\ peers'[d].since = peers[d].since
           /\ peers'[d].generation = peers[d].generation
           /\ peers'[d].phase = IF peers[d].generation = t THEN tasks'[t].phase ELSE peers[d].phase
           /\ peers'[d].connections =
                IF tasks'[t].guard /\ t >= peers[d].since THEN peers[d].connections \cup {t}
                ELSE peers[d].connections \ {t}
  PROVE  Updates(t)
<1>1. ASSUME NEW e \in Databases, e # d
      PROVE  peers'[e] = peers[e]
  BY <1>1
<1>2. QED
  BY <1>1 DEF Updates

LEMMA TaskStep ==
  ASSUME IInv, NEW t \in DOMAIN tasks, NEW at \in Stages, NEW guard \in BOOLEAN,
         NEW phase \in Stages, Moves(t, at, guard, phase),
         at = "waiting" => ~guard,
         peers' \in [Databases -> Entries \cup {Nil}], Updates(t),
         closed' = closed, forgets' = forgets
  PROVE  IInv'
<1>1. /\ tasks' \in Seq(Tasks) /\ DOMAIN tasks' = DOMAIN tasks
      /\ tasks'[t].at = at /\ tasks'[t].guard = guard /\ tasks'[t].phase = phase
      /\ \A u \in DOMAIN tasks :
           /\ tasks'[u].database = tasks[u].database /\ tasks'[u].life = tasks[u].life
           /\ u # t => tasks'[u] = tasks[u]
  BY MovesOne DEF IInv
<1>2. TypeOK'
  BY <1>1 DEF IInv, TypeOK
<1>3. Past'
  BY <1>1 DEF IInv, Past
<1>4. ASSUME NEW d \in Databases PROVE Shown(d)'
  <2>1. Shown(d) /\ forgets'[d] = forgets[d]
    BY DEF IInv
  <2>2. Began(d)' = Began(d)
    BY <1>1 DEF Began
  <2>3. CASE peers[d] = Nil
    BY <2>1, <2>2, <2>3 DEF Shown, Updates
  <2>4. CASE peers[d] # Nil
    <3>1. Counts(d) /\ Follows(d)
      BY <2>1, <2>4 DEF Shown
    <3>2. Live(d)' = IF d # tasks[t].database THEN Live(d)
                     ELSE IF guard /\ t >= peers[d].since THEN Live(d) \cup {t} ELSE Live(d) \ {t}
      BY <1>1, <3>1 DEF Live, Counts
    <3>3. Counts(d)'
      BY <1>1, <2>4, <3>1, <3>2 DEF Counts, Updates
    <3>4. peers[d].generation \in DOMAIN tasks /\ tasks[peers[d].generation].database = d
      BY <3>1 DEF Follows, Began
    <3>5. Follows(d)'
      BY <1>1, <2>2, <2>4, <3>1, <3>4 DEF Follows, Updates
    <3>6. QED
      BY <2>1, <2>4, <3>3, <3>5 DEF Shown, Updates
  <2>5. QED
    BY <2>3, <2>4
<1>5. QED
  BY <1>2, <1>3, <1>4 DEF IInv

-----------------------------------------------------------------------------
(* The locked operations on the entries.                                   *)
PeersOK(p) == p \in [Databases -> Entries \cup {Nil}]

LEMMA ToldEntry ==
  ASSUME Nil \notin Entries, NEW p, PeersOK(p), NEW d \in Databases, NEW t \in Nat,
         NEW phase \in Stages
  PROVE  /\ PeersOK(Told(p, d, t, phase))
         /\ \A e \in Databases : e # d => Told(p, d, t, phase)[e] = p[e]
         /\ p[d] = Nil => Told(p, d, t, phase)[d] = Nil
         /\ p[d] # Nil =>
              /\ Told(p, d, t, phase)[d] # Nil
              /\ Told(p, d, t, phase)[d].since = p[d].since
              /\ Told(p, d, t, phase)[d].generation = p[d].generation
              /\ Told(p, d, t, phase)[d].connections = p[d].connections
              /\ Told(p, d, t, phase)[d].phase =
                   IF p[d].generation = t THEN phase ELSE p[d].phase
  BY DEF Told, PeersOK, Entries

LEMMA JoinedEntry ==
  ASSUME Nil \notin Entries, NEW p, PeersOK(p), NEW d \in Databases, NEW t \in Nat
  PROVE  /\ PeersOK(Joined(p, d, t))
         /\ \A e \in Databases : e # d => Joined(p, d, t)[e] = p[e]
         /\ p[d] = Nil => Joined(p, d, t)[d] = Nil
         /\ p[d] # Nil =>
              /\ Joined(p, d, t)[d] # Nil
              /\ Joined(p, d, t)[d].since = p[d].since
              /\ Joined(p, d, t)[d].generation = p[d].generation
              /\ Joined(p, d, t)[d].phase = p[d].phase
              /\ Joined(p, d, t)[d].connections =
                   IF t >= p[d].since THEN p[d].connections \cup {t} ELSE p[d].connections
  BY DEF Joined, PeersOK, Entries

LEMMA LeftEntry ==
  ASSUME Nil \notin Entries, NEW p, PeersOK(p), NEW d \in Databases, NEW t \in Nat
  PROVE  /\ PeersOK(Left(p, d, t))
         /\ \A e \in Databases : e # d => Left(p, d, t)[e] = p[e]
         /\ p[d] = Nil => Left(p, d, t)[d] = Nil
         /\ p[d] # Nil =>
              /\ Left(p, d, t)[d] # Nil
              /\ Left(p, d, t)[d].since = p[d].since
              /\ Left(p, d, t)[d].generation = p[d].generation
              /\ Left(p, d, t)[d].phase = p[d].phase
              /\ Left(p, d, t)[d].connections = p[d].connections \ {t}
  BY DEF Left, PeersOK, Entries

LEMMA EnteredEntry ==
  ASSUME Nil \notin Entries, NEW p, PeersOK(p), NEW d \in Databases, NEW t \in Nat
  PROVE  /\ PeersOK(Entered(p, d, t))
         /\ \A e \in Databases : e # d => Entered(p, d, t)[e] = p[e]
         /\ Entered(p, d, t)[d] # Nil
         /\ Entered(p, d, t)[d].generation = t /\ Entered(p, d, t)[d].phase = "waiting"
         /\ Entered(p, d, t)[d].since = IF p[d] = Nil THEN t ELSE p[d].since
         /\ Entered(p, d, t)[d].connections = IF p[d] = Nil THEN {} ELSE p[d].connections
<1> DEFINE e == IF p[d] = Nil
                THEN [since |-> t, generation |-> t, phase |-> "waiting", connections |-> {}]
                ELSE [p[d] EXCEPT !.generation = t, !.phase = "waiting"]
<1>1. /\ e \in Entries /\ e.generation = t /\ e.phase = "waiting"
      /\ e.since = IF p[d] = Nil THEN t ELSE p[d].since
      /\ e.connections = IF p[d] = Nil THEN {} ELSE p[d].connections
  <2>1. CASE p[d] = Nil
    BY <2>1 DEF Entries, Stages
  <2>2. CASE p[d] # Nil
    <3>1. p[d] \in Entries
      BY <2>2 DEF PeersOK
    <3>2. QED
      BY <2>2, <3>1 DEF Entries, Stages
  <2>3. QED
    BY <2>1, <2>2
<1>2. Entered(p, d, t) = [p EXCEPT ![d] = e]
  BY DEF Entered, PeersOK
<1> HIDE DEF e
<1>3. QED
  BY <1>1, <1>2 DEF PeersOK

(* What a task knows of its database's entry before it moves.              *)
LEMMA TaskFacts ==
  ASSUME IInv, NEW t \in DOMAIN tasks
  PROVE  /\ t \in Nat /\ tasks[t] \in Tasks /\ tasks[t].database \in Databases
         /\ PeersOK(peers)
         /\ tasks[t].at = "waiting" => ~tasks[t].guard
         /\ \A d \in Databases : peers[d] # Nil =>
              /\ peers[d].connections \subseteq Nat
              /\ peers[d].since \in Nat
              /\ t \in peers[d].connections <=>
                   tasks[t].guard /\ tasks[t].database = d /\ t >= peers[d].since
              /\ peers[d].generation = t => /\ tasks[t].database = d
                                            /\ peers[d].phase = tasks[t].phase
<1>1. TypeOK /\ Past /\ \A d \in Databases : Shown(d)
  BY DEF IInv
<1>2. t \in Nat /\ tasks[t] \in Tasks /\ tasks[t].database \in Databases /\ PeersOK(peers)
  <2>1. tasks \in Seq(Tasks) /\ PeersOK(peers)
    BY <1>1 DEF TypeOK, PeersOK
  <2>2. t \in Nat /\ tasks[t] \in Tasks
    BY <2>1
  <2>3. QED
    BY <2>1, <2>2 DEF Tasks
<1>3. ASSUME NEW d \in Databases, peers[d] # Nil
      PROVE  /\ peers[d].connections \subseteq Nat /\ peers[d].since \in Nat
             /\ t \in peers[d].connections <=>
                  tasks[t].guard /\ tasks[t].database = d /\ t >= peers[d].since
             /\ peers[d].generation = t => /\ tasks[t].database = d
                                           /\ peers[d].phase = tasks[t].phase
  <2>1. peers[d] \in Entries
    BY <1>2, <1>3 DEF PeersOK
  <2>2. Counts(d) /\ Follows(d)
    BY <1>1, <1>3 DEF Shown
  <2>3. peers[d].connections \subseteq Nat /\ peers[d].since \in Nat
    BY <2>1 DEF Entries
  <2>4. QED
    BY <2>2, <2>3 DEF Counts, Follows, Live, Began
<1>4. QED
  BY <1>1, <1>2, <1>3 DEF Past

-----------------------------------------------------------------------------
(* The steps of a task.                                                    *)
LEMMA ConnectInv == ASSUME Nil \notin Entries, IInv, NEW t \in DOMAIN tasks, Connect(t) PROVE IInv'
<1> DEFINE d == tasks[t].database
<1>1. Moves(t, "connecting", FALSE, "connecting") /\ tasks[t].at = "waiting"
      /\ peers' = Told(peers, tasks[t].database, t, "connecting")
      /\ closed' = closed /\ forgets' = forgets
  BY DEF Connect
<1>2. tasks'[t].phase = "connecting" /\ tasks'[t].guard = FALSE
  BY <1>1, MovesOne DEF IInv, Stages
<1>3. PeersOK(peers') /\ Updates(t)
  <2>1. "connecting" \in Stages
    BY DEF Stages
  <2>2. /\ t \in Nat /\ d \in Databases /\ PeersOK(peers) /\ ~tasks[t].guard
        /\ peers[d] # Nil => t \notin peers[d].connections
    BY <1>1, TaskFacts
  <2>3. /\ PeersOK(peers')
        /\ \A e \in Databases : e # d => peers'[e] = peers[e]
        /\ peers[d] = Nil => peers'[d] = Nil
        /\ peers[d] # Nil =>
             /\ peers'[d] # Nil
             /\ peers'[d].since = peers[d].since
             /\ peers'[d].generation = peers[d].generation
             /\ peers'[d].connections = peers[d].connections
             /\ peers'[d].phase = IF peers[d].generation = t THEN "connecting" ELSE peers[d].phase
    BY <1>1, <2>1, <2>2, ToldEntry
  <2>4. QED
    BY <1>2, <2>2, <2>3, UpdatesOwn
<1>4. QED
  BY <1>1, <1>3, TaskStep DEF PeersOK, Stages

(* An outbound and an inbound task obtain their connection alike.          *)
LEMMA JoinInv ==
  ASSUME Nil \notin Entries, IInv, NEW t \in DOMAIN tasks,
         Moves(t, "connected", TRUE, "transferring"),
         peers' = Told(Joined(peers, tasks[t].database, t), tasks[t].database, t, "transferring"),
         closed' = closed, forgets' = forgets
  PROVE  IInv'
<1> DEFINE d0 == tasks[t].database
           p == Joined(peers, d0, t)
<1>1. tasks'[t].phase = "transferring" /\ tasks'[t].guard = TRUE
  BY MovesOne DEF IInv, Stages
<1>2. /\ t \in Nat /\ d0 \in Databases /\ PeersOK(peers)
      /\ \A d \in Databases : peers[d] # Nil =>
           /\ t \in peers[d].connections => t >= peers[d].since
           /\ peers[d].connections \subseteq Nat
  BY TaskFacts
<1>3. /\ PeersOK(p)
      /\ \A e \in Databases : e # d0 => p[e] = peers[e]
      /\ peers[d0] = Nil => p[d0] = Nil
      /\ peers[d0] # Nil =>
           /\ p[d0] # Nil
           /\ p[d0].since = peers[d0].since
           /\ p[d0].generation = peers[d0].generation
           /\ p[d0].phase = peers[d0].phase
           /\ p[d0].connections =
                IF t >= peers[d0].since THEN peers[d0].connections \cup {t} ELSE peers[d0].connections
  <2>1. t \in Nat /\ d0 \in Databases /\ PeersOK(peers)
    BY <1>2
  <2> HIDE DEF d0
  <2>2. QED
    BY <2>1, JoinedEntry
<1> HIDE DEF p
<1>4. /\ PeersOK(peers')
      /\ \A e \in Databases : e # d0 => peers'[e] = p[e]
      /\ p[d0] = Nil => peers'[d0] = Nil
      /\ p[d0] # Nil =>
           /\ peers'[d0] # Nil
           /\ peers'[d0].since = p[d0].since
           /\ peers'[d0].generation = p[d0].generation
           /\ peers'[d0].connections = p[d0].connections
           /\ peers'[d0].phase = IF p[d0].generation = t THEN "transferring" ELSE p[d0].phase
  <2>1. peers' = Told(p, d0, t, "transferring") /\ "transferring" \in Stages
    BY DEF p, Stages
  <2>2. QED
    BY <1>2, <1>3, <2>1, ToldEntry
<1>5. Updates(t)
  <2>1. peers[d0] # Nil =>
          peers[d0].connections \ {t} =
            IF t >= peers[d0].since THEN peers[d0].connections \ {t} ELSE peers[d0].connections
    BY <1>2
  <2>2. tasks'[t].guard
    BY <1>1
  <2>3. /\ d0 = tasks[t].database /\ d0 \in Databases
        /\ \A e \in Databases : e # d0 => peers'[e] = peers[e]
    BY <1>2, <1>3, <1>4
  <2>4. /\ peers[d0] = Nil => peers'[d0] = Nil
        /\ peers[d0] # Nil =>
             /\ peers'[d0] # Nil
             /\ peers'[d0].since = peers[d0].since
             /\ peers'[d0].generation = peers[d0].generation
             /\ peers'[d0].phase = IF peers[d0].generation = t THEN tasks'[t].phase ELSE peers[d0].phase
             /\ peers'[d0].connections =
                  IF tasks'[t].guard /\ t >= peers[d0].since THEN peers[d0].connections \cup {t}
                  ELSE peers[d0].connections \ {t}
    BY <1>1, <1>2, <1>3, <1>4, <2>1, <2>2
  <2>5. QED
    BY <2>3, <2>4, UpdatesOwn
<1>6. QED
  BY <1>4, <1>5, TaskStep DEF PeersOK, Stages

(* A guard drops: with an outbound task, and after an inbound one settled. *)
LEMMA DropInv ==
  ASSUME Nil \notin Entries, IInv, NEW t \in DOMAIN tasks, NEW at \in Stages,
         Moves(t, at, FALSE, tasks[t].phase),
         \/ peers' = Left(peers, tasks[t].database, t)
         \/ peers' = peers /\ ~tasks[t].guard,
         closed' = closed, forgets' = forgets
  PROVE  IInv'
<1> DEFINE d == tasks[t].database
<1>1. tasks[t].phase \in Stages
  BY TaskFacts DEF Tasks
<1>2. tasks'[t].phase = tasks[t].phase /\ tasks'[t].guard = FALSE
  BY <1>1, MovesOne DEF IInv
<1>3. PeersOK(peers') /\ Updates(t)
  <2>a. t \in Nat /\ d \in Databases /\ PeersOK(peers)
    BY TaskFacts
  <2>b. peers[d] # Nil =>
          /\ t \in peers[d].connections => tasks[t].guard
          /\ peers[d].generation = t => peers[d].phase = tasks[t].phase
    BY <2>a, TaskFacts
  <2>1. CASE peers' = Left(peers, tasks[t].database, t)
    <3>1. /\ PeersOK(peers')
          /\ \A e \in Databases : e # d => peers'[e] = peers[e]
          /\ peers[d] = Nil => peers'[d] = Nil
          /\ peers[d] # Nil =>
               /\ peers'[d] # Nil
               /\ peers'[d].since = peers[d].since
               /\ peers'[d].generation = peers[d].generation
               /\ peers'[d].phase = peers[d].phase
               /\ peers'[d].connections = peers[d].connections \ {t}
      BY <2>1, <2>a, LeftEntry
    <3>2. QED
      BY <1>2, <2>a, <2>b, <3>1, UpdatesOwn
  <2>2. CASE peers' = peers /\ ~tasks[t].guard
    BY <1>2, <2>2, <2>a, <2>b, UpdatesOwn
  <2>3. QED
    BY <2>1, <2>2
<1>4. QED
  BY <1>1, <1>3, TaskStep DEF PeersOK

LEMMA SettleInv == ASSUME Nil \notin Entries, IInv, NEW t \in DOMAIN tasks, Settle(t) PROVE IInv'
<1> DEFINE d == tasks[t].database
           at == IF Outbound(t) THEN "ended" ELSE "settled"
<1>1. /\ Moves(t, at, tasks[t].guard, tasks[t].at)
      /\ peers' = Told(peers, tasks[t].database, t, tasks[t].at)
      /\ closed' = closed /\ forgets' = forgets
  BY DEF Settle
<1>2. tasks[t].at \in Stages /\ tasks[t].guard \in BOOLEAN /\ at \in Stages /\ at # "waiting"
  BY TaskFacts DEF Tasks, Stages
<1> HIDE DEF at
<1>3. tasks'[t].phase = tasks[t].at /\ tasks'[t].guard = tasks[t].guard
  BY <1>1, <1>2, MovesOne DEF IInv
<1>4. PeersOK(peers') /\ Updates(t)
  <2>1. t \in Nat /\ d \in Databases /\ PeersOK(peers)
    BY TaskFacts
  <2>2. peers[d] # Nil =>
          (t \in peers[d].connections <=> tasks[t].guard /\ t >= peers[d].since)
    BY <2>1, TaskFacts
  <2>3. /\ PeersOK(peers')
        /\ \A e \in Databases : e # d => peers'[e] = peers[e]
        /\ peers[d] = Nil => peers'[d] = Nil
        /\ peers[d] # Nil =>
             /\ peers'[d] # Nil
             /\ peers'[d].since = peers[d].since
             /\ peers'[d].generation = peers[d].generation
             /\ peers'[d].connections = peers[d].connections
             /\ peers'[d].phase = IF peers[d].generation = t THEN tasks[t].at ELSE peers[d].phase
    BY <1>1, <1>2, <2>1, ToldEntry
  <2>4. peers[d] # Nil =>
          peers[d].connections = IF tasks[t].guard /\ t >= peers[d].since
                                 THEN peers[d].connections \cup {t} ELSE peers[d].connections \ {t}
    BY <2>2
  <2>5. QED
    BY <1>3, <2>1, <2>3, <2>4, UpdatesOwn
<1>5. QED
  BY <1>1, <1>2, <1>4, TaskStep DEF PeersOK

-----------------------------------------------------------------------------
(* A new attempt, outbound or of an inbound connection.                    *)
Enters(d, via, at) ==
  /\ tasks' = Append(tasks, Task(d, via, at, FALSE, "waiting"))
  /\ peers' = Entered(peers, d, Len(tasks) + 1)
  /\ closed' = closed /\ forgets' = forgets

LEMMA EnterInv ==
  ASSUME Nil \notin Entries, IInv, ~closed, NEW d \in Databases,
         NEW via \in Inbound \cup {"exchange", "request"}, NEW at \in Stages, Enters(d, via, at)
  PROVE  IInv'
<1> DEFINE N == Len(tasks) + 1
           k == Task(d, via, at, FALSE, "waiting")
<1>1. TypeOK /\ Past /\ \A e \in Databases : Shown(e)
  BY DEF IInv
<1>2. /\ k \in Tasks /\ k.database = d /\ ~k.guard /\ k.phase = "waiting"
      /\ k.life = forgets[d]
  BY <1>1 DEF TypeOK, Tasks, Task, Stages
<1>3. tasks \in Seq(Tasks) /\ tasks' = Append(tasks, k)
  BY <1>1 DEF TypeOK, Enters
<1>a. closed' = closed /\ forgets' = forgets
  BY DEF Enters
<1> HIDE DEF k
<1>4. /\ tasks' \in Seq(Tasks) /\ DOMAIN tasks' = DOMAIN tasks \cup {N} /\ N \notin DOMAIN tasks
      /\ N \in Nat /\ tasks'[N] = k
      /\ \A t \in DOMAIN tasks : t \in Nat /\ t < N /\ tasks'[t] = tasks[t]
  <2>1. k \in Tasks
    BY <1>2
  <2>2. QED
    BY <1>3, <2>1, AppendFacts
<1>5. /\ PeersOK(peers')
      /\ \A e \in Databases : e # d => peers'[e] = peers[e]
      /\ peers'[d] # Nil
      /\ peers'[d].generation = N /\ peers'[d].phase = "waiting"
      /\ peers'[d].since = IF peers[d] = Nil THEN N ELSE peers[d].since
      /\ peers'[d].connections = IF peers[d] = Nil THEN {} ELSE peers[d].connections
  <2>1. PeersOK(peers) /\ N \in Nat /\ peers' = Entered(peers, d, N)
    BY <1>1, <1>4 DEF TypeOK, PeersOK, Enters
  <2> HIDE DEF N
  <2>2. QED
    BY <2>1, EnteredEntry
<1> HIDE DEF N
<1>6. TypeOK'
  BY <1>a, <1>1, <1>4, <1>5 DEF TypeOK, PeersOK
<1>7. Past'
  <2>1. forgets[d] \in Nat
    BY <1>a, <1>1 DEF TypeOK
  <2>2. tasks'[N].life <= forgets'[tasks'[N].database] /\ ~tasks'[N].guard
    <3>1. tasks'[N] = k
      BY <1>4
    <3>2. QED
      BY <1>2, <1>a, <2>1, <3>1
  <2>3. ASSUME NEW t \in DOMAIN tasks
        PROVE  /\ tasks'[t].life <= forgets'[tasks'[t].database]
               /\ tasks'[t].at = "waiting" => ~tasks'[t].guard
    BY <1>a, <1>1, <1>4 DEF Past
  <2>4. QED
    BY <1>a, <1>4, <2>2, <2>3 DEF Past
<1>8. ASSUME NEW e \in Databases, e # d PROVE Shown(e)'
  <2>1. Live(e)' = Live(e) /\ Began(e)' = Began(e)
    <3>1. ~(tasks'[N].database = e)
      BY <1>2, <1>4, <1>8
    <3>2. \A t \in DOMAIN tasks : tasks'[t] = tasks[t]
      BY <1>4
    <3>3. QED
      BY <1>a, <1>4, <3>1, <3>2 DEF Live, Began
  <2>2. peers'[e] = peers[e] /\ Shown(e)
    BY <1>1, <1>5, <1>8
  <2>3. CASE peers[e] = Nil
    BY <1>a, <2>1, <2>2, <2>3 DEF Shown
  <2>4. CASE peers[e] # Nil
    <3>1. Counts(e) /\ Follows(e)
      BY <1>a, <2>2, <2>4 DEF Shown
    <3>2. Counts(e)'
      <4>1. \A t \in DOMAIN tasks' : tasks'[t].database = e => t \in DOMAIN tasks /\ tasks'[t] = tasks[t]
        BY <1>2, <1>4, <1>8
      <4>2. QED
        BY <1>a, <2>1, <2>2, <3>1, <4>1 DEF Counts
    <3>3. Follows(e)'
      BY <1>a, <1>4, <2>1, <2>2, <3>1 DEF Follows, Began
    <3>4. QED
      BY <1>a, <2>2, <2>4, <3>2, <3>3 DEF Shown
  <2>5. QED
    BY <2>3, <2>4
<1>9. Shown(d)'
  <2>1. Began(d)' = Began(d) \cup {N}
    BY <1>a, <1>2, <1>4 DEF Began
  <2>2. Live(d)' = Live(d)
    BY <1>a, <1>2, <1>4 DEF Live
  <2>3. CASE peers[d] = Nil
    <3>1. Began(d) = {} /\ Live(d) = {}
      BY <1>a, <1>1, <2>3 DEF Shown, Live, Began
    <3>2. \A t \in DOMAIN tasks : tasks[t].database = d => tasks[t].life # forgets[d]
      BY <1>a, <3>1 DEF Began
    <3>3. Counts(d)'
      <4>1. ASSUME NEW t \in DOMAIN tasks', tasks'[t].database = d
            PROVE  t >= N <=> tasks'[t].life = forgets[d]
        <5>1. CASE t = N
          <6>1. N \in Nat /\ tasks'[N].life = forgets[d]
            BY <1>2, <1>4
          <6>2. QED
            BY <5>1, <6>1
        <5>2. CASE t \in DOMAIN tasks
          <6>1. t \in Nat /\ N \in Nat /\ t < N /\ tasks'[t] = tasks[t]
            BY <1>4, <5>2
          <6>2. tasks[t].life # forgets[d]
            BY <3>2, <4>1, <5>2, <6>1
          <6>3. QED
            BY <6>1, <6>2
        <5>3. QED
          BY <1>4, <5>1, <5>2
      <4>2. QED
        BY <1>a, <1>5, <2>2, <2>3, <3>1, <4>1 DEF Counts
    <3>4. Follows(d)'
      <4>1. Began(d)' = {N}
        BY <2>1, <3>1
      <4>2. N \in Nat /\ tasks'[N].phase = "waiting"
        BY <1>2, <1>4
      <4>3. QED
        BY <1>a, <1>5, <4>1, <4>2 DEF Follows
    <3>5. QED
      BY <1>a, <1>5, <3>3, <3>4 DEF Shown
  <2>4. CASE peers[d] # Nil
    <3>1. Counts(d) /\ Follows(d)
      BY <1>a, <1>1, <2>4 DEF Shown
    <3>2. peers[d].since \in Nat /\ peers[d].since <= N
      <4>1. peers[d].since \in Nat
        BY <1>a, <1>1, <2>4 DEF TypeOK, Entries
      <4>2. peers[d].generation \in DOMAIN tasks /\ peers[d].generation >= peers[d].since
        BY <1>a, <3>1 DEF Counts, Follows, Began
      <4>3. QED
        BY <1>4, <4>1, <4>2
    <3>3. Counts(d)'
      <4>1. ASSUME NEW t \in DOMAIN tasks', tasks'[t].database = d
            PROVE  t >= peers[d].since <=> tasks'[t].life = forgets[d]
        <5>1. CASE t = N
          BY <1>2, <1>4, <3>2, <5>1
        <5>2. CASE t \in DOMAIN tasks
          BY <1>a, <1>4, <3>1, <4>1, <5>2 DEF Counts
        <5>3. QED
          BY <1>4, <5>1, <5>2
      <4>2. QED
        BY <1>a, <1>5, <2>2, <2>4, <3>1, <4>1 DEF Counts
    <3>4. Follows(d)'
      <4>1. \A u \in Began(d) : u \in DOMAIN tasks
        BY DEF Began
      <4>2. \A u \in Began(d) \cup {N} : u <= N
        BY <1>4, <4>1
      <4>3. tasks'[N].phase = "waiting"
        BY <1>2, <1>4
      <4>4. QED
        BY <1>a, <1>5, <2>1, <4>2, <4>3 DEF Follows
    <3>5. QED
      BY <1>a, <1>5, <3>3, <3>4 DEF Shown
  <2>5. QED
    BY <2>3, <2>4
<1>10. QED
  BY <1>6, <1>7, <1>8, <1>9 DEF IInv

(* serve ends a connection: its attempts remember how it ended.            *)
LEMMA EndInboundInv ==
  ASSUME IInv, NEW c \in Inbound, NEW outcome \in Outcomes, EndInbound(c, outcome)
  PROVE  IInv'
<1>1. TypeOK /\ Past /\ \A d \in Databases : Shown(d)
  BY DEF IInv
<1>2. tasks \in Seq(Tasks) /\ DOMAIN tasks = 1..Len(tasks) /\ Len(tasks) \in Nat
  BY <1>1 DEF TypeOK
<1>3. closed' = closed /\ peers' = peers /\ forgets' = forgets
  BY DEF EndInbound
<1>4. /\ DOMAIN tasks' = DOMAIN tasks
      /\ \A t \in DOMAIN tasks :
           /\ tasks'[t] \in Tasks
           /\ tasks'[t].database = tasks[t].database /\ tasks'[t].life = tasks[t].life
           /\ tasks'[t].guard = tasks[t].guard /\ tasks'[t].phase = tasks[t].phase
           /\ tasks'[t].at = "waiting" => tasks[t].at = "waiting"
  <2>1. ASSUME NEW t \in DOMAIN tasks
        PROVE  InboundOutcome(c, t, outcome) \in Stages /\ InboundOutcome(c, t, outcome) # "waiting"
    BY DEF InboundOutcome, Outcomes, Stages
  <2>2. \A t \in DOMAIN tasks : tasks[t] \in Tasks
    BY <1>2
  <2>3. tasks' = [t \in DOMAIN tasks |->
          IF t \in Of(c) THEN [tasks[t] EXCEPT !.at = InboundOutcome(c, t, outcome)] ELSE tasks[t]]
    BY DEF EndInbound
  <2> HIDE DEF EndInbound
  <2>4. QED
    BY <2>1, <2>2, <2>3 DEF Tasks
<1>5. tasks' \in Seq(Tasks)
  BY <1>2, <1>4, IsASeq DEF EndInbound
<1>6. TypeOK' /\ Past'
  BY <1>1, <1>3, <1>4, <1>5 DEF TypeOK, Past
<1>7. ASSUME NEW d \in Databases PROVE Shown(d)'
  <2>1. Live(d)' = Live(d) /\ Began(d)' = Began(d)
    BY <1>3, <1>4 DEF Live, Began
  <2>2. Counts(d) => Counts(d)'
    BY <1>3, <1>4, <2>1 DEF Counts
  <2>3. Follows(d) => Follows(d)'
    BY <1>3, <1>4, <2>1 DEF Follows, Began
  <2>4. QED
    BY <1>1, <1>3, <2>1, <2>2, <2>3 DEF Shown
<1>8. QED
  BY <1>6, <1>7 DEF IInv

(* A forgotten database starts a life that no attempt belongs to yet.      *)
LEMMA ForgetInv == ASSUME IInv, NEW d \in Databases, Forget(d) PROVE IInv'
<1>1. TypeOK /\ Past /\ \A e \in Databases : Shown(e)
  BY DEF IInv
<1>2. /\ tasks' = tasks /\ closed' = closed
      /\ peers' = [peers EXCEPT ![d] = Nil] /\ forgets' = [forgets EXCEPT ![d] = @ + 1]
  BY DEF Forget
<1>3. TypeOK'
  BY <1>1, <1>2 DEF TypeOK
<1>4. \A t \in DOMAIN tasks : tasks[t] \in Tasks
  BY <1>1 DEF TypeOK
<1>5. Past'
  BY <1>1, <1>2, <1>4 DEF Past, TypeOK, Tasks
<1>6. ASSUME NEW e \in Databases, e # d PROVE Shown(e)'
  <2>1. peers'[e] = peers[e] /\ forgets'[e] = forgets[e] /\ Shown(e)
    BY <1>1, <1>2, <1>6 DEF TypeOK
  <2>2. QED
    BY <1>2, <2>1 DEF Shown, Counts, Follows, Live, Began
<1>7. Shown(d)'
  <2>1. peers'[d] = Nil /\ forgets'[d] = forgets[d] + 1 /\ forgets[d] \in Nat
    BY <1>1, <1>2 DEF TypeOK
  <2>2. Began(d)' = {}
    BY <1>1, <1>2, <1>4, <2>1 DEF Began, Past, Tasks
  <2>3. QED
    BY <2>1, <2>2 DEF Shown
<1>8. QED
  BY <1>3, <1>5, <1>6, <1>7 DEF IInv

-----------------------------------------------------------------------------
LEMMA InitInv == ObservationsInit => IInv
<1> SUFFICES ASSUME ObservationsInit PROVE IInv
  OBVIOUS
<1>1. tasks \in Seq(Tasks) /\ DOMAIN tasks = {}
  BY DEF ObservationsInit
<1>2. TypeOK /\ Past
  BY <1>1 DEF ObservationsInit, TypeOK, Past
<1>3. \A d \in Databases : Began(d) = {} /\ peers[d] = Nil
  BY <1>1 DEF ObservationsInit, Began
<1>4. QED
  BY <1>2, <1>3 DEF ObservationsInit, IInv, Shown

LEMMA StepInv == ASSUME Nil \notin Entries, IInv, [ObservationsNext]_observationVars PROVE IInv'
<1>1. ASSUME NEW d \in Databases, NEW via \in {"exchange", "request"}, Begin(d, via) PROVE IInv'
  <2>1. ~closed /\ Enters(d, via, "waiting")
    BY <1>1 DEF Begin, CanBegin, Enters
  <2>2. QED
    BY <2>1, EnterInv DEF Stages
<1>2. ASSUME NEW t \in DOMAIN tasks, Connect(t) PROVE IInv'
  BY <1>2, ConnectInv
<1>3. ASSUME NEW t \in DOMAIN tasks, Authorize(t) PROVE IInv'
  BY <1>3, JoinInv DEF Authorize
<1>4. ASSUME NEW t \in DOMAIN tasks, Settle(t) PROVE IInv'
  BY <1>4, SettleInv
<1>5. ASSUME NEW t \in DOMAIN tasks, DropGuard(t) PROVE IInv'
  BY <1>5, DropInv DEF DropGuard, Stages
<1>6. ASSUME NEW t \in DOMAIN tasks, NEW outcome \in Outcomes, EndOutbound(t, outcome) PROVE IInv'
  <2>1. outcome \in Stages
    BY DEF Outcomes, Stages
  <2>2. tasks[t].guard \in BOOLEAN
    BY TaskFacts DEF Tasks
  <2>3. QED
    BY <1>6, <2>1, <2>2, DropInv DEF EndOutbound
<1>7. ASSUME NEW c \in Inbound, NEW d \in Databases, Receive(c, d) PROVE IInv'
  <2>1. ~closed /\ Enters(d, c, "begun")
    BY <1>7 DEF Receive, CanBegin, Enters
  <2>2. QED
    BY <2>1, EnterInv DEF Stages
<1>8. ASSUME NEW c \in Inbound, NEW t \in DOMAIN tasks, ReceiveJoins(c, t) PROVE IInv'
  BY <1>8, JoinInv DEF ReceiveJoins
<1>9. ASSUME NEW c \in Inbound, NEW outcome \in Outcomes, EndInbound(c, outcome) PROVE IInv'
  BY <1>9, EndInboundInv
<1>10. ASSUME NEW d \in Databases, Forget(d) PROVE IInv'
  BY <1>10, ForgetInv
<1>11. ASSUME CloseEndpoint PROVE IInv'
  BY <1>11 DEF CloseEndpoint, IInv, TypeOK, Past, Shown
<1>12. ASSUME UNCHANGED <<closed, peers, tasks, forgets>> PROVE IInv'
  BY <1>12 DEF IInv, TypeOK, Past, Shown, Counts, Follows, Live, Began
<1>13. ASSUME NEW c \in Inbound, NEW d \in Databases, ReceiveFails(c, d) PROVE IInv'
  BY <1>12, <1>13 DEF ReceiveFails
<1>14. QED
  BY <1>1, <1>2, <1>3, <1>4, <1>5, <1>6, <1>7, <1>8, <1>9, <1>10, <1>11, <1>12, <1>13
  DEF ObservationsNext, observationVars

(* A database is shown as connected exactly while a guard lives that was   *)
(* taken since it was last forgotten, and with the latest attempt's phase, *)
(* however late tasks end and guards drop.                                 *)
THEOREM ShownIsReal ==
  ASSUME Nil \notin Entries
  PROVE  ObservationsSpec => []ObservationsSound
<1>1. IInv /\ [ObservationsNext]_observationVars => IInv'
  BY StepInv
<1>2. IInv => ObservationsSound
  <2>1. ASSUME IInv, NEW d \in Databases
        PROVE  (IF peers[d] = Nil THEN {} ELSE peers[d].connections) =
               (IF closed THEN {} ELSE Live(d))
    <3>1. Shown(d) /\ closed \in BOOLEAN
      BY <2>1 DEF IInv, TypeOK
    <3>2. Live(d) \subseteq Began(d)
      BY DEF Live, Began
    <3>3. QED
      BY <3>1, <3>2 DEF Shown, Counts
  <2>2. ASSUME IInv, NEW d \in Databases, peers[d] # Nil
        PROVE  \E t \in Began(d) : (\A u \in Began(d) : u <= t) /\ peers[d].phase = tasks[t].phase
    BY <2>2 DEF IInv, Shown, Follows
  <2>3. QED
    BY <2>1, <2>2 DEF ObservationsSound, PresenceIsLive, PhaseIsLatest
<1>3. QED
  BY InitInv, <1>1, <1>2, PTL DEF ObservationsSpec
=============================================================================
