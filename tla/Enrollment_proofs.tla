-------------------------- MODULE Enrollment_proofs --------------------------
(***************************************************************************)
(* Joining a database, for any number of devices, invitations and          *)
(* administrative operations: what a recipient was told about its request  *)
(* stands, every member was admitted by an invitation that was accepted    *)
(* under the management and the epoch that issued it, and a profile        *)
(* forgets no request before its working copy is in the catalog.           *)
(*                                                                         *)
(* MetaOK is about any metadata that the manager has saved, prepared or is *)
(* in doubt about; Follows says what the next one may do to an invitation. *)
(***************************************************************************)
EXTENDS Enrollment, TLAPS

Known == Issuer \in Identities

Statuses == [state : {"available", "requested", "accepted", "closed"},
             by : Recipients \cup {None}, control : Nat \cup {None}]
Records == [issued_at : Nat, control : Nat \ {0}, manager : Devices, status : Statuses]

IsJournal(journal) ==
  /\ journal \in [DOMAIN journal -> Records]
  /\ \A i \in DOMAIN journal :
       journal[i].status.state = "requested" => journal[i].status.by \in Recipients
IsChain(chain) == chain # <<>> /\ \E S : chain \in Seq(S)

(* AdmissionRedeemed of any metadata.                                      *)
Redeemed(m) ==
  \A n \in DOMAIN m.chain :
    n > 1 /\ m.chain[n].intent.kind = "admit" =>
      LET i == m.chain[n].operation IN
      /\ i \in DOMAIN m.journal
      /\ m.journal[i].status = Accepted(m.chain[n].intent.identity.device, n)
      /\ \A k \in m.journal[i].control..n :
           m.chain[k].manager = m.journal[i].manager /\ m.chain[k].epoch = m.chain[n].epoch

MetaOK(m) == IsChain(m.chain) /\ IsJournal(m.journal) /\ Redeemed(m)

(* What becomes of an invitation that somebody may have been told of.      *)
Keeps(s, t) ==
  s.state # "available" =>
    /\ t.state # "available"
    /\ t.state \in {"requested", "accepted"} =>
         s.state \in {"requested", "accepted"} /\ t.by = s.by
Follows(m, next) ==
  \A i \in DOMAIN m.journal :
    i \in DOMAIN next.journal /\ Keeps(m.journal[i].status, next.journal[i].status)

Downloads == [request : Invitations, stage : {"fetch", "register", "finish"}]

RecipientOK ==
  /\ pending \in [Recipients -> SUBSET Invitations]
  /\ download \in [Recipients -> Downloads \cup {None}]
  /\ \A d \in Recipients : At(d, "finish") => d \in catalog

Inv ==
  /\ clock \in Nat
  /\ MetaOK(saved)
  /\ doubt # None => MetaOK(doubt) /\ Follows(saved, doubt)
  /\ prepared # None => MetaOK(prepared.meta) /\ Follows(prepared.expected, prepared.meta)
  /\ told \in [Invitations -> SUBSET Recipients]
  /\ RequestStands

-----------------------------------------------------------------------------
LEMMA MetaParts ==
  ASSUME NEW chain, NEW journal
  PROVE  Meta(chain, journal).chain = chain /\ Meta(chain, journal).journal = journal
  BY DEF Meta

LEMMA ChainExtended ==
  ASSUME NEW chain, IsChain(chain), NEW control
  PROVE  /\ IsChain(Append(chain, control)) /\ Len(chain) \in Nat \ {0}
         /\ DOMAIN chain = 1..Len(chain)
         /\ DOMAIN Append(chain, control) = 1..(Len(chain) + 1)
         /\ Len(Append(chain, control)) = Len(chain) + 1
         /\ \A n \in 1..Len(chain) : Append(chain, control)[n] = chain[n]
         /\ Append(chain, control)[Len(chain) + 1] = control
<1>1. PICK S : chain \in Seq(S)
  BY DEF IsChain
<1>2. chain \in Seq(S \cup {control}) /\ control \in S \cup {control}
  BY <1>1
<1>3. /\ Append(chain, control) \in Seq(S \cup {control})
      /\ Len(Append(chain, control)) = Len(chain) + 1 /\ Len(chain) \in Nat
  BY <1>2
<1>4. chain # <<>> /\ Append(chain, control) # <<>>
  BY <1>3, Len(<<>>) = 0 DEF IsChain
<1>5. QED
  BY <1>2, <1>3, <1>4 DEF IsChain

(* What the status of one invitation becomes.                              *)
LEMMA StatusSet ==
  ASSUME NEW journal, IsJournal(journal), NEW i \in DOMAIN journal, NEW s \in Statuses,
         s.state = "requested" => s.by \in Recipients
  PROVE  /\ IsJournal(SetStatus(journal, i, s))
         /\ DOMAIN SetStatus(journal, i, s) = DOMAIN journal
         /\ SetStatus(journal, i, s)[i].status = s
         /\ SetStatus(journal, i, s)[i].control = journal[i].control
         /\ SetStatus(journal, i, s)[i].manager = journal[i].manager
         /\ \A j \in DOMAIN journal : j # i => SetStatus(journal, i, s)[j] = journal[j]
<1> DEFINE r == [journal[i] EXCEPT !.status = s]
<1>1. journal[i] \in Records
  BY DEF IsJournal
<1>2. /\ r \in Records /\ r.status = s /\ r.control = journal[i].control
      /\ r.manager = journal[i].manager
  BY <1>1 DEF Records
<1>3. SetStatus(journal, i, s) = [journal EXCEPT ![i] = r]
  BY DEF SetStatus, IsJournal
<1> HIDE DEF r
<1>4. QED
  BY <1>2, <1>3 DEF IsJournal

(* Closing or requesting an invitation that was not accepted.              *)
LEMMA StatusStep ==
  ASSUME NEW m, MetaOK(m), NEW i \in DOMAIN m.journal, NEW s \in Statuses,
         s.state = "requested" => s.by \in Recipients,
         m.journal[i].status.state # "accepted", Keeps(m.journal[i].status, s)
  PROVE  /\ MetaOK(Meta(m.chain, SetStatus(m.journal, i, s)))
         /\ Follows(m, Meta(m.chain, SetStatus(m.journal, i, s)))
<1> DEFINE journal == SetStatus(m.journal, i, s)
           next == Meta(m.chain, journal)
<1>1. /\ IsJournal(journal) /\ DOMAIN journal = DOMAIN m.journal /\ journal[i].status = s
      /\ \A j \in DOMAIN m.journal : j # i => journal[j] = m.journal[j]
  BY StatusSet DEF MetaOK
<1>2. next.chain = m.chain /\ next.journal = journal
  BY MetaParts
<1> HIDE DEF journal, next
<1>3. Redeemed(next)
  BY <1>1, <1>2 DEF MetaOK, Redeemed, Accepted, Status
<1>4. Follows(m, next)
  BY <1>1, <1>2 DEF Follows, Keeps
<1>5. MetaOK(next)
  BY <1>1, <1>2, <1>3 DEF MetaOK
<1>6. QED
  BY <1>4, <1>5 DEF next, journal

(* A new invitation.                                                       *)
LEMMA InvitationStep ==
  ASSUME NEW m, MetaOK(m), NEW i, i \notin DOMAIN m.journal, NEW r \in Records,
         r.status.state = "available"
  PROVE  LET journal == [j \in DOMAIN m.journal \cup {i} |-> IF j = i THEN r ELSE m.journal[j]]
         IN  MetaOK(Meta(m.chain, journal)) /\ Follows(m, Meta(m.chain, journal))
<1> DEFINE journal == [j \in DOMAIN m.journal \cup {i} |-> IF j = i THEN r ELSE m.journal[j]]
           next == Meta(m.chain, journal)
<1>1. /\ DOMAIN journal = DOMAIN m.journal \cup {i} /\ journal[i] = r
      /\ \A j \in DOMAIN m.journal : journal[j] = m.journal[j]
  OBVIOUS
<1>2. next.chain = m.chain /\ next.journal = journal
  BY MetaParts
<1>3. IsJournal(journal)
  BY DEF MetaOK, IsJournal
<1> HIDE DEF journal, next
<1>4. Redeemed(next)
  BY <1>1, <1>2 DEF MetaOK, Redeemed
<1>5. Follows(m, next)
  BY <1>1, <1>2 DEF Follows, Keeps
<1>6. MetaOK(next)
  BY <1>2, <1>3, <1>4 DEF MetaOK
<1>7. QED
  BY <1>5, <1>6 DEF next, journal

(* Rotations and transfers admit nobody.                                   *)
LEMMA ControlStep ==
  ASSUME NEW m, MetaOK(m), NEW control, control.intent.kind # "admit"
  PROVE  /\ MetaOK(Meta(Append(m.chain, control), m.journal))
         /\ Follows(m, Meta(Append(m.chain, control), m.journal))
<1> DEFINE chain == Append(m.chain, control)
           next == Meta(chain, m.journal)
<1>1. /\ IsChain(chain) /\ Len(m.chain) \in Nat /\ DOMAIN m.chain = 1..Len(m.chain)
      /\ DOMAIN chain = 1..(Len(m.chain) + 1)
      /\ \A n \in 1..Len(m.chain) : chain[n] = m.chain[n]
      /\ chain[Len(m.chain) + 1] = control
  BY ChainExtended DEF MetaOK
<1>2. next.chain = chain /\ next.journal = m.journal
  BY MetaParts
<1> HIDE DEF chain, next
<1>3. ASSUME NEW n \in DOMAIN chain, n > 1, chain[n].intent.kind = "admit"
      PROVE  /\ n \in DOMAIN m.chain /\ chain[n] = m.chain[n]
             /\ \A k \in 1..n : chain[k] = m.chain[k]
  BY <1>1, <1>3
<1>4. Redeemed(next)
  <2> SUFFICES ASSUME NEW n \in DOMAIN chain, n > 1, chain[n].intent.kind = "admit",
                      NEW i, i = chain[n].operation
               PROVE  /\ i \in DOMAIN m.journal
                      /\ m.journal[i].status = Accepted(chain[n].intent.identity.device, n)
                      /\ \A k \in m.journal[i].control..n :
                           /\ chain[k].manager = m.journal[i].manager
                           /\ chain[k].epoch = chain[n].epoch
    BY <1>2 DEF Redeemed
  <2>1. /\ n \in DOMAIN m.chain /\ chain[n] = m.chain[n]
        /\ \A k \in 1..n : chain[k] = m.chain[k]
    BY <1>3
  <2>2. /\ i \in DOMAIN m.journal
        /\ m.journal[i].status = Accepted(chain[n].intent.identity.device, n)
        /\ \A k \in m.journal[i].control..n :
             m.chain[k].manager = m.journal[i].manager /\ m.chain[k].epoch = m.chain[n].epoch
    BY <2>1 DEF MetaOK, Redeemed
  <2>3. m.journal[i].control \in Nat \ {0} /\ n \in Nat
    BY <1>1, <2>2 DEF MetaOK, IsJournal, Records
  <2>4. \A k \in m.journal[i].control..n : k \in 1..n
    BY <2>3
  <2>5. QED
    BY <2>1, <2>2, <2>4
<1>5. QED
  BY <1>1, <1>2, <1>4 DEF MetaOK, Follows, Keeps, next, chain

LEMMA IdentityOfDevice ==
  ASSUME NEW d \in Devices
  PROVE  IdentityOf(d) \in Identities /\ IdentityOf(d).device = d
<1>1. \E i \in Identities : i.device = d
  BY DEF Devices
<1>2. QED
  BY <1>1 DEF IdentityOf

(* What the manager signs when it admits an identity.                      *)
LEMMA AdmitFields ==
  ASSUME NEW chain, NEW operation, NEW identity
  PROVE  LET c == Successor(chain, operation, Admit(identity)) IN
         /\ c.manager = Latest(chain).manager /\ c.epoch = Latest(chain).epoch
         /\ c.operation = operation /\ c.intent.kind = "admit"
         /\ c.intent.identity = identity
  BY DEF Successor, Admit

(* Admission and acceptance in one publication: the interval that Verify   *)
(* checked is the one that the admitting control ends.                     *)
LEMMA AdmissionStep ==
  ASSUME NEW m, MetaOK(m), NEW i \in DOMAIN m.journal, NEW now,
         m.journal[i].status.state = "requested",
         Verify(m.journal[i], m.chain, now)
  PROVE  LET device == m.journal[i].status.by
             chain == Append(m.chain, Successor(m.chain, i, Admit(IdentityOf(device))))
             next == Meta(chain, SetStatus(m.journal, i, Accepted(device, Len(chain))))
         IN  MetaOK(next) /\ Follows(m, next)
<1> DEFINE device == m.journal[i].status.by
           control == Successor(m.chain, i, Admit(IdentityOf(device)))
           chain == Append(m.chain, control)
           last == Len(m.chain) + 1
           journal == SetStatus(m.journal, i, Accepted(device, Len(chain)))
           next == Meta(chain, journal)
<1>1. /\ IsChain(chain) /\ Len(m.chain) \in Nat \ {0} /\ DOMAIN m.chain = 1..Len(m.chain)
      /\ DOMAIN chain = 1..last /\ Len(chain) = last
      /\ \A n \in 1..Len(m.chain) : chain[n] = m.chain[n]
      /\ chain[last] = control
  BY ChainExtended DEF MetaOK
<1>2. device \in Recipients /\ device \in Devices /\ m.journal[i] \in Records
  BY DEF MetaOK, IsJournal, Recipients
<1>3. /\ control.manager = Latest(m.chain).manager /\ control.epoch = Latest(m.chain).epoch
      /\ control.operation = i /\ control.intent.identity.device = device
  BY <1>2, AdmitFields, IdentityOfDevice
<1>4. Accepted(device, last) \in Statuses /\ Accepted(device, last).state = "accepted"
      /\ Accepted(device, last).by = device
  BY <1>1, <1>2 DEF Accepted, Status, Statuses
<1>5. /\ IsJournal(journal) /\ DOMAIN journal = DOMAIN m.journal
      /\ journal[i].status = Accepted(device, last)
      /\ journal[i].control = m.journal[i].control
      /\ journal[i].manager = m.journal[i].manager
      /\ \A j \in DOMAIN m.journal : j # i => journal[j] = m.journal[j]
  BY <1>1, <1>4, StatusSet DEF MetaOK
<1>6. next.chain = chain /\ next.journal = journal
  BY MetaParts
<1>7. /\ m.journal[i].control \in 1..Len(m.chain)
      /\ m.journal[i].manager = Latest(m.chain).manager
      /\ \A n \in m.journal[i].control..Len(m.chain) :
           /\ m.chain[n].manager = m.journal[i].manager
           /\ m.chain[n].epoch = Latest(m.chain).epoch
  <2>1. /\ m.journal[i].control \in 1..Len(m.chain)
        /\ m.journal[i].manager = Latest(m.chain).manager
        /\ \A n \in m.journal[i].control..Len(m.chain) :
             /\ m.chain[n].manager = m.journal[i].manager
             /\ m.chain[n].epoch = m.chain[m.journal[i].control].epoch
    BY <1>1 DEF Verify
  <2>2. Len(m.chain) \in m.journal[i].control..Len(m.chain)
    BY <1>1, <2>1
  <2>3. QED
    BY <2>1, <2>2 DEF Latest
<1> HIDE DEF device, control, chain, journal, next
<1>8. Redeemed(next)
  <2> SUFFICES ASSUME NEW n \in DOMAIN chain, n > 1, chain[n].intent.kind = "admit",
                      NEW j, j = chain[n].operation
               PROVE  /\ j \in DOMAIN journal
                      /\ journal[j].status = Accepted(chain[n].intent.identity.device, n)
                      /\ \A k \in journal[j].control..n :
                           /\ chain[k].manager = journal[j].manager
                           /\ chain[k].epoch = chain[n].epoch
    BY <1>6 DEF Redeemed
  <2>1. CASE n = last
    <3>1. j = i /\ chain[n] = control
      BY <1>1, <1>3, <2>1
    <3>2. ASSUME NEW k \in m.journal[i].control..last
          PROVE  chain[k].manager = m.journal[i].manager /\ chain[k].epoch = control.epoch
      <4>1. k = last \/ (k \in m.journal[i].control..Len(m.chain) /\ k \in 1..Len(m.chain))
        <5>1. m.journal[i].control \in 1..Len(m.chain) /\ Len(m.chain) \in Nat
          BY <1>1, <1>7
        <5>2. QED
          BY <5>1
      <4>2. QED
        BY <4>1, <1>1, <1>3, <1>7
    <3>3. QED
      BY <2>1, <3>1, <3>2, <1>3, <1>5
  <2>2. CASE n # last
    <3>1. n \in 1..Len(m.chain) /\ chain[n] = m.chain[n]
      BY <1>1, <2>2
    <3>2. /\ j \in DOMAIN m.journal
          /\ m.journal[j].status = Accepted(chain[n].intent.identity.device, n)
          /\ \A k \in m.journal[j].control..n :
               m.chain[k].manager = m.journal[j].manager /\ m.chain[k].epoch = m.chain[n].epoch
      BY <3>1, <1>1 DEF MetaOK, Redeemed
    <3>3. j # i
      BY <3>2 DEF Accepted, Status
    <3>4. m.journal[j].control \in Nat \ {0}
      BY <3>2 DEF MetaOK, IsJournal, Records
    <3>5. \A k \in m.journal[j].control..n : k \in 1..Len(m.chain)
      BY <3>1, <3>4, <1>1
    <3>6. QED
      BY <3>1, <3>2, <3>3, <3>5, <1>1, <1>5
  <2>3. QED
    BY <2>1, <2>2
<1>9. Follows(m, next)
  BY <1>4, <1>5, <1>6 DEF Follows, Keeps, device
<1>10. MetaOK(next)
  BY <1>1, <1>5, <1>6, <1>8 DEF MetaOK
<1>11. Len(chain) = last /\ chain = Append(m.chain, control)
  BY <1>1 DEF chain
<1>12. QED
  BY <1>9, <1>10 DEF next, journal, chain, control, device

-----------------------------------------------------------------------------
LEMMA InitInv == ASSUME Known, Init PROVE Inv
<1> DEFINE g == Genesis(Issuer, FirstPolicy)
<1>1. saved.chain = <<g>> /\ saved.journal = <<>>
  BY MetaParts DEF Init
<1>2. clock \in Nat /\ doubt = None /\ prepared = None /\ told = [i \in Invitations |-> {}]
  BY DEF Init
<1> HIDE DEF g
<1>3. IsChain(saved.chain)
  <2>1. <<g>> \in Seq({g}) /\ <<g>> # <<>>
    OBVIOUS
  <2>2. QED
    BY <1>1, <2>1 DEF IsChain
<1>4. DOMAIN saved.journal = {} /\ DOMAIN saved.chain = {1}
  BY <1>1
<1>5. IsJournal(saved.journal)
  <2>1. <<>> = [j \in {} |-> None]
    OBVIOUS
  <2>2. saved.journal \in [DOMAIN saved.journal -> Records]
    BY <1>1, <1>4, <2>1
  <2>3. QED
    BY <1>4, <2>2 DEF IsJournal
<1>6. Redeemed(saved)
  BY <1>4 DEF Redeemed
<1>7. told \in [Invitations -> SUBSET Recipients] /\ RequestStands
  BY <1>2 DEF RequestStands
<1>8. QED
  BY <1>2, <1>3, <1>5, <1>6, <1>7 DEF Inv, MetaOK

(* What was told stands in every metadata that follows.                    *)
LEMMA StandsAfter ==
  ASSUME RequestStands, told' = told, Follows(saved, saved')
  PROVE  RequestStands'
<1> SUFFICES ASSUME NEW i \in Invitations, NEW d \in told[i]
             PROVE  /\ i \in DOMAIN saved'.journal
                    /\ saved'.journal[i].status.state \in {"requested", "accepted"} =>
                         saved'.journal[i].status.by = d
                    /\ saved'.journal[i].status.state # "available"
  BY DEF RequestStands, Issued, StatusOf
<1>1. /\ i \in DOMAIN saved.journal
      /\ saved.journal[i].status.state \in {"requested", "accepted"} =>
           saved.journal[i].status.by = d
      /\ saved.journal[i].status.state # "available"
  BY DEF RequestStands, Issued, StatusOf
<1>2. QED
  BY <1>1 DEF Follows, Keeps

(* A step that tells nobody: the manager's metadata stays, is followed, or *)
(* the candidate in doubt was prepared from it.                            *)
LEMMA Advances ==
  ASSUME Inv, clock' \in Nat, told' = told,
         saved' = saved \/ (MetaOK(saved') /\ Follows(saved, saved')),
         saved' = saved \/ doubt' = None,
         doubt' \in {doubt, None} \/ (MetaOK(doubt') /\ Follows(saved, doubt')),
         prepared' \in {prepared, None}
           \/ (MetaOK(prepared'.meta) /\ Follows(prepared'.expected, prepared'.meta))
  PROVE  Inv'
<1>1. MetaOK(saved')
  BY DEF Inv
<1>2. (doubt # None => MetaOK(doubt) /\ Follows(saved, doubt))'
  BY DEF Inv
<1>3. (prepared # None => MetaOK(prepared.meta) /\ Follows(prepared.expected, prepared.meta))'
  BY DEF Inv
<1>4. RequestStands'
  <2>1. CASE saved' = saved
    BY <2>1 DEF Inv, RequestStands, Issued, StatusOf
  <2>2. CASE Follows(saved, saved')
    BY <2>2, StandsAfter DEF Inv
  <2>3. QED
    BY <2>1, <2>2
<1>5. told' \in [Invitations -> SUBSET Recipients]
  BY DEF Inv
<1>6. QED
  BY <1>1, <1>2, <1>3, <1>4, <1>5 DEF Inv

-----------------------------------------------------------------------------
(* The manager's worker: whatever it prepares is made from what is saved.  *)
LEMMA PreparedInv ==
  ASSUME Inv, NEW chain, NEW journal, NEW revealed, Prepared(chain, journal, revealed),
         MetaOK(Meta(chain, journal)), Follows(saved, Meta(chain, journal))
  PROVE  Inv'
<1>1. /\ prepared'.expected = saved /\ prepared'.meta = Meta(chain, journal)
      /\ UNCHANGED <<clock, saved, doubt, told>>
  BY DEF Prepared
<1>2. clock' \in Nat
  BY <1>1 DEF Inv
<1>3. QED
  BY <1>1, <1>2, Advances

LEMMA CreateInvitationInv ==
  ASSUME Known, Inv, NEW i \in Invitations, CreateInvitation(i) PROVE Inv'
<1> DEFINE r == [issued_at |-> clock, control |-> Len(saved.chain),
                 manager |-> Issuer.device, status |-> Available]
           journal == [j \in DOMAIN saved.journal \cup {i} |->
                         IF j = i THEN r ELSE saved.journal[j]]
<1>1. Issuer.device \in Devices
  BY DEF Known, Devices
<1>2. Len(saved.chain) \in Nat \ {0}
  BY ChainExtended DEF Inv, MetaOK
<1>3. Available \in Statuses /\ Available.state = "available"
  BY DEF Available, Status, Statuses
<1>4. r \in Records /\ r.status.state = "available"
  BY <1>1, <1>2, <1>3 DEF Records, Inv
<1>5. i \notin DOMAIN saved.journal /\ Prepared(saved.chain, journal, {i})
  BY DEF CreateInvitation, Issued
<1> HIDE DEF r
<1>6. MetaOK(Meta(saved.chain, journal)) /\ Follows(saved, Meta(saved.chain, journal))
  BY <1>4, <1>5, InvitationStep DEF Inv
<1> HIDE DEF journal
<1>7. QED
  BY <1>5, <1>6, PreparedInv

LEMMA ApproveInvitationInv ==
  ASSUME Inv, NEW i \in Invitations, ApproveInvitation(i) PROVE Inv'
<1> DEFINE device == StatusOf(i).by
           chain == Append(saved.chain,
                           Successor(saved.chain, i, Admit(IdentityOf(device))))
           journal == SetStatus(saved.journal, i, Accepted(device, Len(chain)))
<1>1. /\ i \in DOMAIN saved.journal /\ saved.journal[i].status.state = "requested"
      /\ Verify(saved.journal[i], saved.chain, clock)
      /\ Prepared(chain, journal, {})
  BY DEF ApproveInvitation, Issued, StatusOf
<1>2. MetaOK(Meta(chain, journal)) /\ Follows(saved, Meta(chain, journal))
  BY <1>1, AdmissionStep DEF Inv, StatusOf
<1> HIDE DEF device, chain, journal
<1>3. QED
  BY <1>1, <1>2, PreparedInv

LEMMA CloseInvitationInv ==
  ASSUME Inv, NEW i \in Invitations, CloseInvitation(i) PROVE Inv'
<1>1. /\ i \in DOMAIN saved.journal /\ saved.journal[i].status.state # "accepted"
      /\ Prepared(saved.chain, SetStatus(saved.journal, i, ClosedStatus), {})
  BY DEF CloseInvitation, Issued, StatusOf
<1>2. ClosedStatus \in Statuses /\ ClosedStatus.state = "closed"
  BY DEF ClosedStatus, Status, Statuses
<1>3. Keeps(saved.journal[i].status, ClosedStatus)
  BY <1>2 DEF Keeps
<1>4. /\ MetaOK(Meta(saved.chain, SetStatus(saved.journal, i, ClosedStatus)))
      /\ Follows(saved, Meta(saved.chain, SetStatus(saved.journal, i, ClosedStatus)))
  BY <1>1, <1>2, <1>3, StatusStep DEF Inv
<1>5. QED
  BY <1>1, <1>4, PreparedInv

LEMMA SuccessorIntent ==
  ASSUME NEW chain, NEW operation, NEW intent
  PROVE  Successor(chain, operation, intent).intent = intent
  BY DEF Successor

LEMMA AdministerInv ==
  ASSUME Inv, NEW o, NEW intent \in Intents(o), Administer(o, intent) PROVE Inv'
<1> DEFINE control == Successor(saved.chain, o, intent)
<1>1. control.intent.kind # "admit"
  BY SuccessorIntent DEF Intents, Handoffs, Rotate, Transfer
<1>2. Prepared(Append(saved.chain, control), saved.journal, {})
  BY DEF Administer
<1> HIDE DEF control
<1>3. /\ MetaOK(Meta(Append(saved.chain, control), saved.journal))
      /\ Follows(saved, Meta(Append(saved.chain, control), saved.journal))
  BY <1>1, ControlStep DEF Inv
<1>4. QED
  BY <1>2, <1>3, PreparedInv

-----------------------------------------------------------------------------
(* What becomes of it.                                                     *)
LEMMA PublicationInv ==
  ASSUME Inv, Publish \/ Refused \/ Restart \/ Tick PROVE Inv'
<1>1. told' = told /\ clock' \in Nat
  BY DEF Publish, Refused, Restart, Tick, Inv
<1>2. CASE Publish
  <2>1. MetaOK(prepared.meta) /\ Follows(saved, prepared.meta) /\ prepared' = None
    BY <1>2 DEF Publish, Inv
  <2>2. (saved' = prepared.meta /\ doubt' = None) \/ (doubt' = prepared.meta /\ saved' = saved)
    BY <1>2 DEF Publish
  <2>3. QED
    BY <1>1, <2>1, <2>2, Advances
<1>3. CASE Refused
  BY <1>1, <1>3, Advances DEF Refused
<1>4. CASE Restart
  <2>1. (saved' = saved \/ (MetaOK(saved') /\ Follows(saved, saved')))
        /\ doubt' = None /\ prepared' = None
    BY <1>4 DEF Restart, Inv
  <2>2. QED
    BY <1>1, <2>1, Advances
<1>5. CASE Tick
  BY <1>1, <1>5, Advances DEF Tick, manager
<1>6. QED
  BY <1>2, <1>3, <1>4, <1>5

LEMMA HandedBackInv == ASSUME Inv, NEW o, HandedBack(o) PROVE Inv'
<1> DEFINE control == Successor(saved.chain, o,
                                Transfer(ConsentTo(saved.chain, Issuer.device, o)))
<1>1. control.intent.kind # "admit"
  BY SuccessorIntent DEF Transfer
<1>2. /\ saved' = Meta(Append(saved.chain, control), saved.journal)
      /\ doubt = None /\ UNCHANGED <<clock, doubt, prepared, told>>
  BY DEF HandedBack
<1> HIDE DEF control
<1>3. MetaOK(saved') /\ Follows(saved, saved')
  BY <1>1, <1>2, ControlStep DEF Inv
<1>4. clock' \in Nat
  BY <1>2 DEF Inv
<1>5. QED
  BY <1>2, <1>3, <1>4, Advances

-----------------------------------------------------------------------------
(* The replies to a recipient.                                             *)
LEMMA ToldAfter ==
  ASSUME Inv, NEW i \in Invitations, NEW d \in Recipients, Tell(d, i),
         saved' = saved \/ Follows(saved, saved'),
         i \in DOMAIN saved'.journal,
         saved'.journal[i].status.state \in {"requested", "accepted"},
         saved'.journal[i].status.by = d
  PROVE  told' \in [Invitations -> SUBSET Recipients] /\ RequestStands'
<1>1. told \in [Invitations -> SUBSET Recipients] /\ RequestStands
  BY DEF Inv
<1>2. /\ told' \in [Invitations -> SUBSET Recipients]
      /\ \A j \in Invitations : \A e \in told'[j] : e \in told[j] \/ (j = i /\ e = d)
  <2>1. /\ told' = [told EXCEPT ![i] = told[i] \cup {d}]
        /\ told'[i] = told[i] \cup {d}
        /\ \A j \in Invitations : j # i => told'[j] = told[j]
    BY <1>1 DEF Tell
  <2>2. QED
    BY <1>1, <2>1
<1>3. ASSUME NEW j \in Invitations, NEW e \in told'[j]
      PROVE  /\ j \in DOMAIN saved'.journal
             /\ saved'.journal[j].status.state \in {"requested", "accepted"} =>
                  saved'.journal[j].status.by = e
             /\ saved'.journal[j].status.state # "available"
  <2>1. CASE j = i /\ e = d
    BY <2>1
  <2>2. CASE e \in told[j]
    <3>1. /\ j \in DOMAIN saved.journal
          /\ saved.journal[j].status.state \in {"requested", "accepted"} =>
               saved.journal[j].status.by = e
          /\ saved.journal[j].status.state # "available"
      BY <1>1, <2>2 DEF RequestStands, Issued, StatusOf
    <3>2. QED
      BY <3>1 DEF Follows, Keeps
  <2>3. QED
    BY <1>2, <2>1, <2>2
<1>4. RequestStands'
  BY <1>3 DEF RequestStands, Issued, StatusOf
<1>5. QED
  BY <1>2, <1>4

LEMMA PresentJoinInv ==
  ASSUME Inv, NEW d \in Recipients, NEW i \in Invitations, PresentJoin(d, i) PROVE Inv'
<1> DEFINE requested == Meta(saved.chain, SetStatus(saved.journal, i, Requested(d)))
<1>1. i \in DOMAIN saved.journal /\ UNCHANGED <<clock, prepared>>
  BY DEF PresentJoin, Issued
<1>2. clock' \in Nat /\ MetaOK(saved)
  BY <1>1 DEF Inv
<1>3. Requested(d) \in Statuses /\ Requested(d).state = "requested" /\ Requested(d).by = d
  BY DEF Requested, Status, Statuses
<1>4. CASE StatusOf(i) = Requested(d) /\ Tell(d, i) /\ UNCHANGED <<saved, doubt>>
  <2>1. told' \in [Invitations -> SUBSET Recipients] /\ RequestStands'
    BY <1>1, <1>3, <1>4, ToldAfter DEF StatusOf
  <2>2. QED
    BY <1>1, <1>2, <1>4, <2>1 DEF Inv
<1>5. CASE StatusOf(i) = Available /\ (doubt = None \/ doubt = requested)
  <2>1. saved.journal[i].status.state = "available"
    BY <1>5 DEF StatusOf, Available, Status
  <2>2. Keeps(saved.journal[i].status, Requested(d))
    BY <2>1 DEF Keeps
  <2>3. MetaOK(requested) /\ Follows(saved, requested)
    BY <1>1, <1>2, <1>3, <2>1, <2>2, StatusStep
  <2>4. /\ requested.journal = SetStatus(saved.journal, i, Requested(d))
        /\ DOMAIN requested.journal = DOMAIN saved.journal
        /\ requested.journal[i].status = Requested(d)
    <3>1. requested.journal = SetStatus(saved.journal, i, Requested(d))
      BY MetaParts
    <3>2. QED
      BY <3>1, <1>1, <1>2, <1>3, StatusSet DEF MetaOK
  <2> HIDE DEF requested
  <2>5. CASE saved' = requested /\ doubt' = None /\ Tell(d, i)
    <3>1. told' \in [Invitations -> SUBSET Recipients] /\ RequestStands'
      BY <1>1, <1>3, <2>3, <2>4, <2>5, ToldAfter
    <3>2. QED
      BY <1>1, <1>2, <2>3, <2>5, <3>1 DEF Inv
  <2>6. CASE doubt' = requested /\ UNCHANGED <<saved, told>>
    BY <1>1, <1>2, <2>3, <2>6, Advances
  <2>7. \/ saved' = requested /\ doubt' = None /\ Tell(d, i)
        \/ doubt' = requested /\ UNCHANGED <<saved, told>>
    <3>1. StatusOf(i) # Requested(d)
      BY <1>3, <2>1 DEF StatusOf
    <3>2. QED
      BY <3>1 DEF PresentJoin, requested
  <2>8. QED
    BY <2>5, <2>6, <2>7
<1>6. QED
  BY <1>4, <1>5 DEF PresentJoin

LEMMA ResumeInv ==
  ASSUME Inv, NEW d \in Recipients, NEW i \in Invitations,
         ResumePending(d, i) \/ ResumeAccepted(d, i)
  PROVE  Inv'
<1>1. /\ i \in DOMAIN saved.journal
      /\ saved.journal[i].status.state \in {"requested", "accepted"}
      /\ saved.journal[i].status.by = d
      /\ Tell(d, i) /\ UNCHANGED <<clock, saved, doubt, prepared>>
  BY DEF ResumePending, ResumeAccepted, Issued, StatusOf, Requested, Status, manager
<1>2. told' \in [Invitations -> SUBSET Recipients] /\ RequestStands'
  BY <1>1, ToldAfter
<1>3. QED
  BY <1>1, <1>2 DEF Inv

(* Everything else that a recipient does is its own.                       *)
LEMMA QuietInv ==
  ASSUME Inv, UNCHANGED <<clock, manager, told>> PROVE Inv'
  BY Advances DEF Inv, manager

LEMMA StepInv == ASSUME Known, Inv, [Next]_vars PROVE Inv'
<1>1. CASE UNCHANGED vars
  BY <1>1, QuietInv DEF vars
<1>2. CASE ManagerNext
  BY <1>2, CreateInvitationInv, ApproveInvitationInv, CloseInvitationInv, AdministerInv,
     HandedBackInv, PublicationInv
  DEF ManagerNext
<1>3. ASSUME NEW d \in Recipients, RecipientNext(d) PROVE Inv'
  <2>1. CASE \E i \in Invitations :
               PresentJoin(d, i) \/ ResumePending(d, i) \/ ResumeAccepted(d, i)
    BY <2>1, PresentJoinInv, ResumeInv
  <2>2. CASE \/ \E i \in Invitations : RecordJoinIntent(d, i)
             \/ DownloadJoin(d) \/ RegisterCopy(d) \/ FinishJoin(d) \/ Interrupted(d)
    BY <2>2, QuietInv
    DEF RecordJoinIntent, DownloadJoin, RegisterCopy, FinishJoin, Interrupted
  <2>3. QED
    BY <1>3, <2>1, <2>2 DEF RecipientNext
<1>4. QED
  BY <1>1, <1>2, <1>3 DEF Next

LEMMA RedeemedSaved == ASSUME Inv PROVE InvitationsSound
  BY DEF Inv, MetaOK, Redeemed, InvitationsSound, AdmissionRedeemed, Issued, StatusOf

(* An invitation is redeemed once and membership rests on it: no other     *)
(* device, commit in doubt, restart or stale publication of the manager's  *)
(* worker takes a request away, and each member beside the founder was     *)
(* admitted by an accepted invitation under the management and the read    *)
(* epoch that issued it.                                                   *)
THEOREM MembershipIsInvited == ASSUME Known PROVE Spec => []InvitationsSound
<1>1. QED
  BY InitInv, StepInv, RedeemedSaved, PTL DEF Spec

-----------------------------------------------------------------------------
(* A recipient's side.                                                     *)
LEMMA RecipientStep == ASSUME RecipientOK, [Next]_vars PROVE RecipientOK'
<1>1. CASE UNCHANGED recipient
  BY <1>1 DEF RecipientOK, recipient, At
<1>2. ASSUME NEW d \in Recipients, RecipientNext(d) PROVE RecipientOK'
  <2>1. ASSUME NEW i \in Invitations,
               RecordJoinIntent(d, i) \/ PresentJoin(d, i)
                 \/ ResumePending(d, i) \/ ResumeAccepted(d, i)
        PROVE  RecipientOK'
    BY <2>1
    DEF RecipientOK, RecordJoinIntent, PresentJoin, ResumePending, ResumeAccepted,
        recipient, At, Downloads
  <2>2. CASE DownloadJoin(d)
    BY <2>2 DEF RecipientOK, DownloadJoin, At, Downloads
  <2>3. CASE RegisterCopy(d)
    BY <2>3 DEF RecipientOK, RegisterCopy, At, Downloads
  <2>4. CASE FinishJoin(d)
    BY <2>4 DEF RecipientOK, FinishJoin, At, Downloads
  <2>5. CASE Interrupted(d)
    BY <2>5 DEF RecipientOK, Interrupted, At, Downloads
  <2>6. QED
    BY <1>2, <2>1, <2>2, <2>3, <2>4, <2>5 DEF RecipientNext
<1>3. ManagerNext => UNCHANGED recipient
  BY DEF ManagerNext, CreateInvitation, ApproveInvitation, CloseInvitation, Administer,
     Prepared, HandedBack, Publish, Refused, Restart, Tick
<1>4. QED
  BY <1>1, <1>2, <1>3 DEF Next, vars

LEMMA Remembered ==
  ASSUME RecipientOK, [Next]_vars
  PROVE  [\A d \in Recipients : pending[d] \subseteq pending'[d] \/ d \in catalog']_vars
<1> SUFFICES ASSUME Next PROVE \A d \in Recipients :
                                 pending[d] \subseteq pending'[d] \/ d \in catalog'
  OBVIOUS
<1>1. ManagerNext => UNCHANGED pending
  BY DEF ManagerNext, CreateInvitation, ApproveInvitation, CloseInvitation, Administer,
     Prepared, HandedBack, Publish, Refused, Restart, Tick, recipient
<1>2. ASSUME NEW e \in Recipients, RecipientNext(e)
      PROVE  UNCHANGED pending \/ (FinishJoin(e))
               \/ (\E i \in Invitations : RecordJoinIntent(e, i))
  BY <1>2
  DEF RecipientNext, PresentJoin, ResumePending, ResumeAccepted, DownloadJoin, RegisterCopy,
      Interrupted, recipient
<1>3. ASSUME NEW e \in Recipients, FinishJoin(e), NEW d \in Recipients
      PROVE  pending[d] \subseteq pending'[d] \/ d \in catalog'
  BY <1>3 DEF RecipientOK, FinishJoin
<1>4. ASSUME NEW e \in Recipients, NEW i \in Invitations, RecordJoinIntent(e, i),
             NEW d \in Recipients
      PROVE  pending[d] \subseteq pending'[d]
  BY <1>4 DEF RecipientOK, RecordJoinIntent
<1>5. QED
  BY <1>1, <1>2, <1>3, <1>4 DEF Next

(* A profile forgets a request only when its working copy is in the        *)
(* catalog, whatever other requests it records, resumes or finishes, and   *)
(* wherever a download was interrupted.                                    *)
THEOREM RequestsRemembered == Spec => KeepsRequests
<1>1. Init => RecipientOK
  BY DEF Init, RecipientOK, At
<1>2. QED
  BY <1>1, RecipientStep, Remembered, PTL DEF Spec, KeepsRequests
=============================================================================
