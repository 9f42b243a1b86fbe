------------------------ MODULE Replication_proofs -------------------------
(***************************************************************************)
(* What the copies of a database may count on, for any number of devices,  *)
(* sources, controls and conversations: no source that was not discarded   *)
(* leaves an archive, every attachment of a saved document stays, a        *)
(* discard holds, and level copies are quiet.                              *)
(*                                                                         *)
(* The invariant speaks of one node at a time (Sound): the open worker     *)
(* shows what is saved (Served), attachments are here (HasBlobs), a        *)
(* session that the watch has not to look at is not expired (Watched), and *)
(* only sources that exist are discarded (Decided).                        *)
(***************************************************************************)
EXTENDS Replication, SequenceTheorems, TLAPS

Kinds == {"change", "blob", "checkpoint", "baseline"}
Objects == [kind : Kinds, by : Nodes, number : Nat, sources : SUBSET Nat,
            control : Nat, discarded : SUBSET Nat]
Seals == {o \in Objects : o.kind = "checkpoint"}
Bases == {o \in Objects : o.kind = "baseline"}
Workers == [doc : SUBSET Nat, discarded : SUBSET Nat, control : Nat,
            accepted : Objects, baseline : Bases, queued : BOOLEAN]
Inventories == [head : Nat, objects : SUBSET Objects]
Steps == {"offer", "put", "ask", "accept", "fetch"}
Conversations == [step : Steps, meta : Inventories \cup {Nil}, need : SUBSET Objects]
Controls == [members : SUBSET (Nodes \cup Absent), epoch : Nat]
Proofs == [author : Nodes, control : Nat, deps : SUBSET Nat]

Distinct == Nil \notin Workers /\ Nil \notin Inventories /\ Nil \notin Conversations

(* What one conversation holds.                                            *)
Talking(t) ==
  t = Nil \/ ( /\ t \in Conversations
               /\ t.step \in {"offer", "accept"} =>
                    t.meta \in Inventories /\ t.meta.head \in 1..Len(controls) )

SharedOK ==
  /\ controls \in Seq(Controls)
  /\ proof \in Seq(Proofs)
  /\ head \in [Nodes -> 1..Len(controls)]
  /\ objects \in [Nodes -> SUBSET Objects]
  /\ unseen \in [Nodes -> SUBSET Readers]
  /\ exchange \in [Nodes -> [Nodes -> Conversations \cup {Nil}]]
  /\ \A i, j \in Nodes : Talking(exchange[i][j])

WorkersOK ==
  /\ checkpoint \in [Nodes -> Seals]
  /\ baseline \in [Nodes -> Bases]
  /\ sealed \in [Nodes -> Nat]
  /\ session \in [Nodes -> Workers \cup {Nil}]

(* An open worker shows exactly what its node has saved.                   *)
Served(n) ==
  Open(n) =>
    /\ session[n].doc = checkpoint[n].sources
    /\ session[n].discarded = checkpoint[n].discarded
    /\ session[n].accepted = checkpoint[n]
    /\ checkpoint[n].by = n
    /\ session[n].control \in 1..Len(controls)

(* An expired session is still to be looked at.                            *)
Watched(n) == Open(n) /\ "watch" \notin unseen[n] => ~Expired(n)

Decided(n) == checkpoint[n].discarded \subseteq 1..Len(proof)

Sound(n) == Served(n) /\ HasBlobs(n, checkpoint[n].sources) /\ Watched(n) /\ Decided(n)

IInv == SharedOK /\ WorkersOK /\ \A n \in Nodes : Sound(n)

-----------------------------------------------------------------------------
(* The chain grows by one control at a time.                               *)

Grown == controls' = controls \/ \E c \in Controls : controls' = Append(controls, c)

LEMMA GrownKeeps ==
  ASSUME controls \in Seq(Controls), Grown
  PROVE  /\ controls' \in Seq(Controls)
         /\ Len(controls) \in Nat /\ Len(controls') \in Nat
         /\ Len(controls) <= Len(controls')
         /\ \A k \in 1..Len(controls) : controls'[k] = controls[k]
         /\ 1..Len(controls) \subseteq 1..Len(controls')
<1>1. CASE controls' = controls
  BY <1>1, LenProperties
<1>2. CASE \E c \in Controls : controls' = Append(controls, c)
  <2>1. PICK c \in Controls : controls' = Append(controls, c)
    BY <1>2
  <2>2. Len(controls') = Len(controls) + 1 /\ Len(controls) \in Nat
    BY <2>1, AppendProperties, LenProperties
  <2>3. \A k \in 1..Len(controls) : controls'[k] = controls[k]
    BY <2>1, AppendProperties
  <2> QED BY <2>1, <2>2, <2>3, AppendProperties
<1> QED BY <1>1, <1>2 DEF Grown

LEMMA ControlIsOne ==
  ASSUME SharedOK, NEW n \in Nodes
  PROVE  /\ head[n] \in 1..Len(controls) /\ head[n] \in Nat
         /\ Control(n) \in Controls
  BY LenProperties, ElementOfSeq DEF SharedOK, Control

(* What is known of a node stays when it keeps its worker, its chain and   *)
(* its objects, whatever the others do.                                    *)
Rests(n) ==
  /\ checkpoint'[n] = checkpoint[n] /\ session'[n] = session[n]
  /\ head'[n] = head[n] /\ unseen'[n] = unseen[n]
  /\ objects[n] \subseteq objects'[n]

LEMMA BlobsStay ==
  ASSUME NEW n \in Nodes, NEW doc, HasBlobs(n, doc), objects[n] \subseteq objects'[n]
  PROVE  \A s \in doc : HasBlob(n, s)'
  BY DEF HasBlobs, HasBlob

Proved == proof' = proof \/ \E e \in Proofs : proof' = Append(proof, e)

LEMMA ProvedKeeps ==
  ASSUME proof \in Seq(Proofs), Proved
  PROVE  /\ proof' \in Seq(Proofs)
         /\ Len(proof) \in Nat /\ Len(proof') \in Nat
         /\ 1..Len(proof) \subseteq 1..Len(proof')
<1>1. CASE proof' = proof
  BY <1>1, LenProperties
<1>2. CASE \E e \in Proofs : proof' = Append(proof, e)
  BY <1>2, AppendProperties, LenProperties
<1> QED BY <1>1, <1>2 DEF Proved

LEMMA RestKeeps ==
  ASSUME IInv, NEW n \in Nodes, Rests(n), Grown, Proved
  PROVE  Sound(n)'
<1>1. Sound(n) /\ controls \in Seq(Controls) /\ proof \in Seq(Proofs)
  BY DEF IInv, SharedOK
<1>2. /\ head[n] \in 1..Len(controls)
      /\ \A k \in 1..Len(controls) : controls'[k] = controls[k]
      /\ 1..Len(controls) \subseteq 1..Len(controls')
      /\ 1..Len(proof) \subseteq 1..Len(proof')
  BY <1>1, ControlIsOne, GrownKeeps, ProvedKeeps DEF IInv
<1>3. Served(n)'
  BY <1>1, <1>2 DEF Sound, Served, Open, Rests
<1>4. HasBlobs(n, checkpoint[n].sources)'
  <2>1. HasBlobs(n, checkpoint[n].sources) /\ checkpoint'[n].sources = checkpoint[n].sources
    BY <1>1 DEF Sound, Rests
  <2> QED BY <2>1, BlobsStay DEF HasBlobs, HasBlob, Rests
<1>5. Watched(n)'
  <2>1. SUFFICES ASSUME Open(n)', "watch" \notin unseen'[n]
                 PROVE  ~Expired(n)'
    BY DEF Watched
  <2>2. Open(n) /\ ~Expired(n) /\ session[n].control \in 1..Len(controls)
    BY <2>1, <1>1 DEF Sound, Watched, Served, Open, Rests
  <2>3. controls'[head'[n]] = controls[head[n]]
        /\ controls'[session'[n].control] = controls[session[n].control]
    BY <2>2, <1>2 DEF Rests
  <2> QED BY <2>2, <2>3 DEF Expired, EpochOf, Control, Belongs
<1>6. Decided(n)'
  BY <1>1, <1>2 DEF Sound, Decided, Rests
<1> QED BY <1>3, <1>4, <1>5, <1>6 DEF Sound

-----------------------------------------------------------------------------
(* Transport: the workers and the chain do not move.                       *)

Carries(n) ==
  /\ objects' = [objects EXCEPT ![n] = objects'[n]]
  /\ objects'[n] \in SUBSET Objects /\ objects[n] \subseteq objects'[n]
  /\ head' = [head EXCEPT ![n] = head'[n]] /\ head'[n] \in 1..Len(controls)
  /\ unseen' = [unseen EXCEPT ![n] = unseen'[n]]
  /\ unseen'[n] = Readers \/ (unseen'[n] = unseen[n] /\ head'[n] = head[n])

LEMMA CarriedIsSound ==
  ASSUME IInv, NEW n \in Nodes, Carries(n), UNCHANGED <<controls, workerVars>>
  PROVE  /\ \A m \in Nodes : Sound(m)'
         /\ objects' \in [Nodes -> SUBSET Objects]
         /\ head' \in [Nodes -> 1..Len(controls)]
         /\ unseen' \in [Nodes -> SUBSET Readers]
<1>1. /\ objects \in [Nodes -> SUBSET Objects] /\ head \in [Nodes -> 1..Len(controls)]
      /\ unseen \in [Nodes -> SUBSET Readers]
  BY DEF IInv, SharedOK
<1>2. Grown /\ Proved
  BY DEF Grown, Proved, workerVars
<1>3. ASSUME NEW m \in Nodes \ {n}
      PROVE  Sound(m)'
  <2>1. Rests(m)
    BY <1>1, <1>3 DEF Rests, Carries, workerVars
  <2> QED BY <2>1, <1>2, <1>3, RestKeeps
<1>4. Sound(n)'
  <2>1. CASE unseen'[n] = unseen[n] /\ head'[n] = head[n]
    <3>1. Rests(n)
      BY <2>1 DEF Rests, Carries, workerVars
    <3> QED BY <3>1, <1>2, RestKeeps
  <2>2. CASE unseen'[n] = Readers
    <3>1. Watched(n)'
      BY <2>2 DEF Watched, Readers
    <3>2. Sound(n) /\ objects[n] \subseteq objects'[n]
      BY DEF IInv, Carries
    <3>3. HasBlobs(n, checkpoint[n].sources)'
      BY <3>2 DEF Sound, HasBlobs, HasBlob, workerVars
    <3>4. Served(n)' /\ Decided(n)'
      BY <3>2 DEF Sound, Served, Decided, Open, workerVars
    <3> QED BY <3>1, <3>3, <3>4 DEF Sound
  <2> QED BY <2>1, <2>2 DEF Carries
<1> QED BY <1>1, <1>3, <1>4 DEF Carries

LEMMA QuietIsCarried ==
  ASSUME IInv, NEW n \in Nodes, NoCommit
  PROVE  Carries(n)
<1>1. /\ objects \in [Nodes -> SUBSET Objects] /\ head \in [Nodes -> 1..Len(controls)]
      /\ unseen \in [Nodes -> SUBSET Readers]
  BY DEF IInv, SharedOK
<1>2. objects' = objects /\ head' = head /\ unseen' = unseen
  BY DEF NoCommit, copies
<1> QED BY <1>1, <1>2 DEF Carries

LEMMA OfferIsCarried ==
  ASSUME IInv, NEW n \in Nodes, NEW meta \in Inventories, meta.head \in 1..Len(controls),
         Offer(n, meta)
  PROVE  Carries(n)
<1>1. /\ objects \in [Nodes -> SUBSET Objects] /\ head \in [Nodes -> 1..Len(controls)]
      /\ unseen \in [Nodes -> SUBSET Readers]
  BY DEF IInv, SharedOK
<1>2. CASE NoCommit
  BY <1>2, QuietIsCarried
<1>3. CASE Record(n, meta)
  <2>1. objects' = objects
        /\ head' = [head EXCEPT ![n] = IF Newer(n, meta) THEN meta.head ELSE head[n]]
        /\ unseen' = [unseen EXCEPT ![n] = Readers]
    BY <1>3 DEF Record, Commits
  <2> QED BY <2>1, <1>1 DEF Carries
<1> QED BY <1>2, <1>3 DEF Offer

LEMMA ReceiveIsCarried ==
  ASSUME IInv, NEW n \in Nodes, NEW o \in Objects, Receive(n, o)
  PROVE  Carries(n)
<1>1. /\ objects \in [Nodes -> SUBSET Objects] /\ head \in [Nodes -> 1..Len(controls)]
      /\ unseen \in [Nodes -> SUBSET Readers]
  BY DEF IInv, SharedOK
<1>2. CASE NoCommit
  BY <1>2, QuietIsCarried
<1>3. CASE objects' = [objects EXCEPT ![n] = @ \cup {o}] /\ UNCHANGED <<head, announced>> /\ Commits(n)
  BY <1>3, <1>1 DEF Carries, Commits
<1> QED BY <1>2, <1>3 DEF Receive

(* What a conversation may become.                                         *)
Says(i, j, t) == Say(i, j, t) /\ Talking(t)

LEMMA SaidIsTalk ==
  ASSUME IInv, Distinct, NEW i \in Nodes, NEW j \in Nodes, NEW t, Says(i, j, t),
         UNCHANGED controls
  PROVE  /\ exchange' \in [Nodes -> [Nodes -> Conversations \cup {Nil}]]
         /\ \A a, b \in Nodes : Talking(exchange[a][b])'
<1>1. /\ exchange \in [Nodes -> [Nodes -> Conversations \cup {Nil}]]
      /\ \A a, b \in Nodes : Talking(exchange[a][b])
  BY DEF IInv, SharedOK
<1>2. exchange' = [exchange EXCEPT ![i][j] = t] /\ t \in Conversations \cup {Nil}
  BY DEF Says, Say, Talking
<1>3. exchange' \in [Nodes -> [Nodes -> Conversations \cup {Nil}]]
  BY <1>1, <1>2
<1>4. ASSUME NEW a \in Nodes, NEW b \in Nodes
      PROVE  Talking(exchange[a][b])'
  <2>1. exchange'[a][b] = t \/ exchange'[a][b] = exchange[a][b]
    BY <1>1, <1>2
  <2>2. Talking(exchange'[a][b])
    BY <2>1, <1>1 DEF Says
  <2> QED BY <2>2 DEF Talking
<1> QED BY <1>3, <1>4

LEMMA TalkIsTalk ==
  ASSUME NEW need \in SUBSET Objects
  PROVE  Talking(AfterOffer(need)) /\ Talking(AfterInventory(need)) /\ Talking(Nil)
  BY DEF Talking, AfterOffer, AfterInventory, Talk, Conversations, Steps

LEMMA InventoryIsTalk ==
  ASSUME IInv, NEW n \in Nodes, NEW step \in {"offer", "accept"}
  PROVE  Inventory(n) \in Inventories /\ Talking(Talk(step, Inventory(n), {}))
<1>1. objects[n] \in SUBSET Objects /\ head[n] \in 1..Len(controls) /\ head[n] \in Nat
  BY ControlIsOne DEF IInv, SharedOK
<1>2. Inventory(n) \in Inventories /\ Inventory(n).head \in 1..Len(controls)
  BY <1>1 DEF Inventory, Inventories
<1> QED BY <1>2 DEF Talking, Talk, Conversations, Steps

LEMMA TalkHolds ==
  ASSUME IInv, Distinct, NEW i \in Nodes, NEW j \in Nodes, ~Idle(i, j)
  PROVE  /\ exchange[i][j] \in Conversations
         /\ exchange[i][j].need \in SUBSET Objects
         /\ exchange[i][j].step \in {"offer", "accept"} =>
              exchange[i][j].meta \in Inventories
              /\ exchange[i][j].meta.head \in 1..Len(controls)
<1>1. Talking(exchange[i][j]) /\ exchange[i][j] # Nil
  BY DEF IInv, SharedOK, Idle
<1> QED BY <1>1 DEF Talking, Conversations

Carried(i, j) ==
  /\ \E n \in Nodes : Carries(n)
  /\ \E t : Says(i, j, t)
  /\ UNCHANGED controls

LEMMA StartIsCarried ==
  ASSUME IInv, NEW i \in Nodes, NEW j \in Nodes, StartExchange(i, j)
  PROVE  Carried(i, j)
  BY QuietIsCarried, InventoryIsTalk DEF StartExchange, Carried, Says

LEMMA OfferToIsCarried ==
  ASSUME IInv, Distinct, NEW i \in Nodes, NEW j \in Nodes, OfferTo(i, j)
  PROVE  Carried(i, j)
<1> DEFINE meta == exchange[i][j].meta
<1>1. meta \in Inventories /\ meta.head \in 1..Len(controls)
  BY TalkHolds DEF OfferTo, At
<1>2. Carries(j)
  BY <1>1, OfferIsCarried DEF OfferTo
<1>3. Need(j, meta) \in SUBSET Objects
  BY <1>1 DEF Need, Inventories
<1>4. Says(i, j, AfterOffer(Need(j, meta)))
  BY <1>3, TalkIsTalk DEF OfferTo, Says
<1> QED BY <1>2, <1>4 DEF OfferTo, Carried

LEMMA TakeInventoryIsCarried ==
  ASSUME IInv, Distinct, NEW i \in Nodes, NEW j \in Nodes, TakeInventory(i, j)
  PROVE  Carried(i, j)
<1> DEFINE meta == exchange[i][j].meta
<1>1. meta \in Inventories /\ meta.head \in 1..Len(controls)
  BY TalkHolds DEF TakeInventory, At
<1>2. Carries(i)
  BY <1>1, OfferIsCarried DEF TakeInventory
<1>3. Need(i, meta) \in SUBSET Objects
  BY <1>1 DEF Need, Inventories
<1>4. Says(i, j, AfterInventory(Need(i, meta)))
  BY <1>3, TalkIsTalk DEF TakeInventory, Says
<1> QED BY <1>2, <1>4 DEF TakeInventory, Carried

LEMMA PutIsCarried ==
  ASSUME IInv, Distinct, NEW i \in Nodes, NEW j \in Nodes, Put(i, j)
  PROVE  Carried(i, j)
<1>1. exchange[i][j].need \in SUBSET Objects
  BY TalkHolds DEF Put, At
<1>2. PICK o \in exchange[i][j].need :
        Receive(j, o) /\ Say(i, j, AfterOffer(exchange[i][j].need \ {o}))
  BY DEF Put
<1>3. Carries(j)
  BY <1>1, <1>2, ReceiveIsCarried
<1>4. Says(i, j, AfterOffer(exchange[i][j].need \ {o}))
  BY <1>1, <1>2, TalkIsTalk DEF Says
<1> QED BY <1>3, <1>4 DEF Put, Carried

LEMMA FetchIsCarried ==
  ASSUME IInv, Distinct, NEW i \in Nodes, NEW j \in Nodes, Fetch(i, j)
  PROVE  Carried(i, j)
<1>1. exchange[i][j].need \in SUBSET Objects
  BY TalkHolds DEF Fetch, At
<1>2. PICK o \in exchange[i][j].need :
        Receive(i, o) /\ Say(i, j, AfterInventory(exchange[i][j].need \ {o}))
  BY DEF Fetch
<1>3. Carries(i)
  BY <1>1, <1>2, ReceiveIsCarried
<1>4. Says(i, j, AfterInventory(exchange[i][j].need \ {o}))
  BY <1>1, <1>2, TalkIsTalk DEF Says
<1> QED BY <1>3, <1>4 DEF Fetch, Carried

LEMMA TransportIsCarried ==
  ASSUME IInv, Distinct, NEW i \in Nodes, NEW j \in Nodes, Transport(i, j)
  PROVE  Carried(i, j) /\ Moves
<1>0. Moves
  BY DEF Transport
<1>1. CASE Ask(i, j)
  <2>1. NoCommit /\ UNCHANGED controls /\ Say(i, j, Talk("accept", Inventory(j), {}))
    BY <1>1 DEF Ask
  <2>2. Says(i, j, Talk("accept", Inventory(j), {}))
    BY <2>1, InventoryIsTalk DEF Says
  <2>3. Carries(j)
    BY <2>1, QuietIsCarried
  <2> QED BY <1>0, <2>1, <2>2, <2>3 DEF Carried
<1>2. CASE EndRefused(i, j) \/ Break(i, j)
  <2>1. NoCommit /\ UNCHANGED controls /\ Say(i, j, Nil)
    BY <1>2 DEF EndRefused, Break
  <2>2. Says(i, j, Nil)
    BY <2>1 DEF Says, Talking
  <2>3. Carries(j)
    BY <2>1, QuietIsCarried
  <2> QED BY <1>0, <2>1, <2>2, <2>3 DEF Carried
<1>3. Carried(i, j)
  BY <1>1, <1>2, StartIsCarried, OfferToIsCarried, TakeInventoryIsCarried, PutIsCarried,
     FetchIsCarried DEF Transport, ExchangeStep
<1> QED BY <1>0, <1>3

LEMMA TransportKeeps ==
  ASSUME IInv, Distinct, NEW i \in Nodes, NEW j \in Nodes, Transport(i, j)
  PROVE  IInv'
<1>1. PICK n \in Nodes : Carries(n)
  BY TransportIsCarried DEF Carried
<1>2. UNCHANGED <<controls, workerVars>>
  BY TransportIsCarried DEF Carried, Moves
<1>3. /\ \A m \in Nodes : Sound(m)'
      /\ objects' \in [Nodes -> SUBSET Objects]
      /\ head' \in [Nodes -> 1..Len(controls)]
      /\ unseen' \in [Nodes -> SUBSET Readers]
  BY <1>1, <1>2, CarriedIsSound
<1>4. /\ exchange' \in [Nodes -> [Nodes -> Conversations \cup {Nil}]]
      /\ \A a, b \in Nodes : Talking(exchange[a][b])'
  BY TransportIsCarried, SaidIsTalk DEF Carried
<1>5. SharedOK'
  BY <1>2, <1>3, <1>4 DEF IInv, SharedOK, workerVars
<1>6. WorkersOK'
  BY <1>2 DEF IInv, WorkersOK, workerVars
<1> QED BY <1>3, <1>5, <1>6 DEF IInv

-----------------------------------------------------------------------------
(* A node's own step: only its own worker and copy move.                   *)

Alone(n) ==
  /\ objects' = [objects EXCEPT ![n] = objects'[n]]
  /\ head' = [head EXCEPT ![n] = head'[n]]
  /\ unseen' = [unseen EXCEPT ![n] = unseen'[n]]
  /\ checkpoint' = [checkpoint EXCEPT ![n] = checkpoint'[n]]
  /\ baseline' = [baseline EXCEPT ![n] = baseline'[n]]
  /\ sealed' = [sealed EXCEPT ![n] = sealed'[n]]
  /\ session' = [session EXCEPT ![n] = session'[n]]
  /\ UNCHANGED exchange
  /\ Grown /\ Proved

Placed(n) ==
  /\ objects'[n] \in SUBSET Objects
  /\ head'[n] \in 1..Len(controls')
  /\ unseen'[n] \in SUBSET Readers
  /\ checkpoint'[n] \in Seals
  /\ baseline'[n] \in Bases
  /\ sealed'[n] \in Nat
  /\ session'[n] \in Workers \cup {Nil}

LEMMA AloneKeeps ==
  ASSUME IInv, NEW n \in Nodes, Alone(n), Placed(n), Sound(n)'
  PROVE  IInv'
<1>1. controls \in Seq(Controls) /\ proof \in Seq(Proofs) /\ head \in [Nodes -> 1..Len(controls)]
      /\ objects \in [Nodes -> SUBSET Objects] /\ unseen \in [Nodes -> SUBSET Readers]
      /\ exchange \in [Nodes -> [Nodes -> Conversations \cup {Nil}]]
      /\ \A i, j \in Nodes : Talking(exchange[i][j])
  BY DEF IInv, SharedOK
<1>2. /\ controls' \in Seq(Controls) /\ proof' \in Seq(Proofs)
      /\ 1..Len(controls) \subseteq 1..Len(controls')
  BY <1>1, GrownKeeps, ProvedKeeps DEF Alone
<1>3. ASSUME NEW m \in Nodes \ {n}
      PROVE  Sound(m)'
  <2>1. checkpoint \in [Nodes -> Seals] /\ session \in [Nodes -> Workers \cup {Nil}]
    BY DEF IInv, WorkersOK
  <2>2. Rests(m)
    BY <1>1, <1>3, <2>1 DEF Rests, Alone
  <2> QED BY <2>2, <1>3, RestKeeps DEF Alone
<1>4. WorkersOK'
  <2>1. WorkersOK
    BY DEF IInv
  <2>2. /\ checkpoint' \in [Nodes -> Seals] /\ baseline' \in [Nodes -> Bases]
        /\ sealed' \in [Nodes -> Nat]
    BY <2>1 DEF WorkersOK, Alone, Placed
  <2>3. session' \in [Nodes -> Workers \cup {Nil}]
    BY <2>1 DEF WorkersOK, Alone, Placed
  <2> QED BY <2>2, <2>3 DEF WorkersOK
<1>5. head' \in [Nodes -> 1..Len(controls')]
  BY <1>1, <1>2 DEF Alone, Placed
<1>6. objects' \in [Nodes -> SUBSET Objects] /\ unseen' \in [Nodes -> SUBSET Readers]
  BY <1>1 DEF Alone, Placed
<1>7. exchange' = exchange /\ \A i, j \in Nodes : Talking(exchange[i][j])'
  <2>1. exchange' = exchange
    BY DEF Alone
  <2> QED BY <2>1, <1>1, <1>2 DEF Talking
<1>8. SharedOK'
  BY <1>1, <1>2, <1>5, <1>6, <1>7 DEF SharedOK
<1> QED BY <1>3, <1>4, <1>8 DEF IInv

-----------------------------------------------------------------------------
(* A commit of a worker.                                                   *)

Seal(n, w) == NextCheckpoint("checkpoint", n, w, w.control)

LEMMA SealIsSeal ==
  ASSUME IInv, NEW n \in Nodes, NEW w \in Workers
  PROVE  /\ Seal(n, w) \in Seals
         /\ Seal(n, w).sources = w.doc /\ Seal(n, w).discarded = w.discarded
         /\ Seal(n, w).by = n
  BY DEF IInv, WorkersOK, Workers, Seal, NextCheckpoint, Object, Seals, Objects, Kinds

(* What the worker must know for its commit to be sound.                   *)
Ready(n, w) ==
  /\ w.control \in 1..Len(controls')
  /\ head' = [head EXCEPT ![n] = w.control]
  /\ \A s \in w.doc : HasBlob(n, s)'
  /\ w.discarded \subseteq 1..Len(proof')
  /\ Open(n) \/ n \in controls'[w.control].members

LEMMA PublishKeeps ==
  ASSUME IInv, Distinct, NEW n \in Nodes, NEW w \in Workers, NEW new \in SUBSET Objects,
         NEW remove, NEW kept, Publish(n, w, new, remove, kept), Ready(n, w),
         UNCHANGED exchange, Grown, Proved
  PROVE  IInv'
<1> DEFINE seal == Seal(n, w)
<1>1. /\ objects' = [objects EXCEPT ![n] = (@ \ remove) \cup new \cup {seal}]
      /\ checkpoint' = [checkpoint EXCEPT ![n] = seal]
      /\ baseline' = [baseline EXCEPT ![n] = w.baseline]
      /\ unseen' = [unseen EXCEPT ![n] = IF Open(n) THEN {"watch"} ELSE {}]
      /\ sealed' = [sealed EXCEPT ![n] = @ + 1]
      /\ session' = [session EXCEPT ![n] = [w EXCEPT !.accepted = seal]]
  BY DEF Publish, Seal
<1>2. /\ seal \in Seals /\ seal \in Objects
      /\ seal.sources = w.doc /\ seal.discarded = w.discarded /\ seal.by = n
  BY SealIsSeal DEF Seals
<1> HIDE DEF seal
<1>3. /\ objects \in [Nodes -> SUBSET Objects] /\ unseen \in [Nodes -> SUBSET Readers]
      /\ checkpoint \in [Nodes -> Seals] /\ baseline \in [Nodes -> Bases]
      /\ sealed \in [Nodes -> Nat] /\ session \in [Nodes -> Workers \cup {Nil}]
      /\ head \in [Nodes -> 1..Len(controls)]
  BY DEF IInv, SharedOK, WorkersOK
<1> DEFINE shown == [w EXCEPT !.accepted = seal]
<1>4. /\ shown \in Workers /\ shown.doc = w.doc /\ shown.discarded = w.discarded
      /\ shown.accepted = seal /\ shown.control = w.control
  BY <1>2 DEF Workers
<1> HIDE DEF shown
<1>5. /\ checkpoint'[n] = seal /\ session'[n] = shown /\ head'[n] = w.control
      /\ baseline'[n] = w.baseline /\ sealed'[n] = sealed[n] + 1
      /\ unseen'[n] = IF Open(n) THEN {"watch"} ELSE {}
      /\ objects'[n] = (objects[n] \ remove) \cup new \cup {seal}
  BY <1>1, <1>3 DEF Ready, shown
<1>6. Alone(n)
  BY <1>1, <1>5, <1>3 DEF Alone, Ready
<1>7. Placed(n)
  <2>1. w.baseline \in Bases
    BY DEF Workers
  <2> QED BY <1>2, <1>3, <1>4, <1>5, <2>1 DEF Placed, Ready, Readers
<1>8. Served(n)'
  BY <1>2, <1>4, <1>5 DEF Served, Ready
<1>9. HasBlobs(n, checkpoint[n].sources)'
  <2>1. checkpoint'[n].sources = w.doc /\ \A s \in w.doc : HasBlob(n, s)'
    BY <1>2, <1>5 DEF Ready
  <2> QED BY <2>1 DEF HasBlobs
<1>10. Watched(n)'
  <2>1. CASE Open(n)
    BY <2>1, <1>5 DEF Watched
  <2>2. CASE n \in controls'[w.control].members
    BY <2>2, <1>4, <1>5 DEF Watched, Expired, EpochOf, Control, Belongs
  <2> QED BY <2>1, <2>2 DEF Ready
<1>11. Decided(n)'
  BY <1>2, <1>5 DEF Decided, Ready
<1>12. Sound(n)'
  BY <1>8, <1>9, <1>10, <1>11 DEF Sound
<1> QED BY <1>6, <1>7, <1>12, AloneKeeps

-----------------------------------------------------------------------------
(* What a worker makes of the archive.                                     *)

LEMMA LatestIsBase ==
  ASSUME IInv, NEW n \in Nodes, Current(n, baseline[n]) \/ Baselines(n) # {}
  PROVE  LatestBaseline(n) \in Bases /\ Current(n, LatestBaseline(n))
<1>1. CASE Current(n, baseline[n])
  BY <1>1 DEF LatestBaseline, IInv, WorkersOK
<1>2. CASE ~Current(n, baseline[n])
  <2>1. PICK o \in Baselines(n) : TRUE
    BY <1>2
  <2>2. LatestBaseline(n) \in Baselines(n)
    BY <1>2, <2>1 DEF LatestBaseline
  <2>3. objects[n] \in SUBSET Objects
    BY DEF IInv, SharedOK
  <2> QED BY <2>2, <2>3 DEF Baselines, Bases
<1> QED BY <1>1, <1>2

LEMMA AcceptedIs ==
  ASSUME IInv, NEW n \in Nodes, NEW doc \in SUBSET Nat, NEW discarded
  PROVE  /\ Accepted(n, doc, discarded) \in SUBSET Nat
         /\ doc \subseteq Accepted(n, doc, discarded)
         /\ (Accepted(n, doc, discarded) \ doc) \cap discarded = {}
         /\ HasBlobs(n, doc) => HasBlobs(n, Accepted(n, doc, discarded))
<1>1. objects[n] \in SUBSET Objects
  BY DEF IInv, SharedOK
<1>2. Available(n) \in SUBSET Nat
  BY <1>1 DEF Available, Packets, Objects
<1>3. \A s \in Accepted(n, doc, discarded) :
        s \in doc \/ (s \in Available(n) /\ Eligible(n, s, discarded))
  BY DEF Accepted
<1>4. doc \subseteq Accepted(n, doc, discarded)
  BY DEF Accepted
<1> QED BY <1>2, <1>3, <1>4 DEF Eligible, HasBlobs

(* A worker that can apply: its control is the current one, or the         *)
(* baseline of the current control has come.                               *)
LEMMA BasisIs ==
  ASSUME IInv, NEW n \in Nodes, NEW w \in Workers, w.control = head[n] \/ Baselines(n) # {}
  PROVE  /\ Basis(n, w).doc \in SUBSET Nat /\ Basis(n, w).baseline \in Bases
         /\ w.doc \subseteq Basis(n, w).doc
         /\ Basis(n, w).doc \ w.doc \subseteq Basis(n, w).baseline.sources
         /\ w.control = head[n] => Basis(n, w).doc = w.doc /\ Basis(n, w).baseline = w.baseline
<1>1. CASE w.control = head[n]
  BY <1>1 DEF Basis, Workers
<1>2. CASE w.control # head[n]
  <2>1. LatestBaseline(n) \in Bases
    BY <1>2, LatestIsBase
  <2>2. LatestBaseline(n).sources \in SUBSET Nat
    BY <2>1 DEF Bases, Objects
  <2>3. Basis(n, w) = [doc |-> w.doc \cup LatestBaseline(n).sources, baseline |-> LatestBaseline(n)]
    BY <1>2 DEF Basis
  <2>4. w.doc \in SUBSET Nat
    BY DEF Workers
  <2> QED BY <1>2, <2>1, <2>2, <2>3, <2>4
<1> QED BY <1>1, <1>2

LEMMA AppliedIs ==
  ASSUME IInv, NEW n \in Nodes, NEW w \in Workers, w.control = head[n] \/ Baselines(n) # {}
  PROVE  /\ Applied(n, w) \in Workers
         /\ Applied(n, w).control = head[n]
         /\ Applied(n, w).doc = Accepted(n, Basis(n, w).doc, w.discarded)
         /\ Applied(n, w).baseline = Basis(n, w).baseline
         /\ Applied(n, w).discarded = w.discarded /\ Applied(n, w).accepted = w.accepted
<1>1. Basis(n, w).doc \in SUBSET Nat /\ Basis(n, w).baseline \in Bases
  BY BasisIs
<1>2. Accepted(n, Basis(n, w).doc, w.discarded) \in SUBSET Nat
  BY <1>1, AcceptedIs
<1>3. head[n] \in Nat
  BY ControlIsOne DEF IInv
<1> DEFINE doc == Accepted(n, Basis(n, w).doc, w.discarded)
           base == Basis(n, w).baseline
<1>4. Applied(n, w) = [w EXCEPT !.doc = doc, !.baseline = base, !.control = head[n]]
  BY DEF Applied
<1> HIDE DEF doc, base
<1>5. doc \in SUBSET Nat /\ base \in Bases
  BY <1>1, <1>2 DEF doc, base
<1>6. /\ Applied(n, w) \in Workers /\ Applied(n, w).control = head[n]
      /\ Applied(n, w).doc = doc /\ Applied(n, w).baseline = base
      /\ Applied(n, w).discarded = w.discarded /\ Applied(n, w).accepted = w.accepted
  BY <1>3, <1>4, <1>5 DEF Workers
<1> QED BY <1>6 DEF doc, base

(* Opening: the document, where it comes from, and what it decides.        *)
LEMMA OpenedIs ==
  ASSUME IInv, NEW n \in Nodes, CanOpen(n)
  PROVE  /\ Opened(n) \in Workers
         /\ Opened(n).control = head[n]
         /\ Opened(n).discarded \subseteq 1..Len(proof)
         /\ Opened(n).accepted = checkpoint[n] =>
              /\ checkpoint[n].by = n
              /\ Opened(n).doc = checkpoint[n].sources
              /\ Opened(n).discarded = checkpoint[n].discarded
         /\ checkpoint[n].by = n =>
              /\ Opened(n).discarded = checkpoint[n].discarded
              /\ \/ Opened(n).doc = checkpoint[n].sources
                 \/ Opened(n).doc = Opened(n).baseline.sources \cup checkpoint[n].sources
<1> DEFINE active == checkpoint[n]
           own == active.by = n
           direct == own /\ Current(n, active)
<1>1. active \in Seals /\ active \in Objects /\ baseline[n] \in Bases /\ active.kind = "checkpoint"
      /\ active.sources \in SUBSET Nat /\ active.discarded \in SUBSET Nat
  BY DEF IInv, WorkersOK, Seals, Objects
<1>2. active.discarded \subseteq 1..Len(proof)
  BY DEF IInv, Sound, Decided
<1>3. head[n] \in Nat
  BY ControlIsOne DEF IInv
<1>4. CASE direct
  <2>1. Opened(n) = [doc |-> active.sources \cup active.sources, discarded |-> active.discarded,
                     control |-> active.control, accepted |-> active,
                     baseline |-> baseline[n], queued |-> TRUE]
    BY <1>4 DEF Opened
  <2>2. active.control = head[n]
    BY <1>4 DEF Current
  <2> QED BY <1>1, <1>2, <1>3, <1>4, <2>1, <2>2 DEF Workers
<1>5. CASE ~direct
  <2>1. Baselines(n) # {}
    BY <1>5 DEF CanOpen
  <2> DEFINE base == LatestBaseline(n)
             doc == base.sources \cup (IF own THEN active.sources ELSE {})
             gone == IF own THEN active.discarded ELSE {}
  <2>2. base \in Bases /\ base.control = head[n]
    BY <2>1, LatestIsBase DEF Current
  <2>3. Opened(n) = [doc |-> doc, discarded |-> gone, control |-> base.control,
                     accepted |-> base, baseline |-> base, queued |-> TRUE]
    BY <1>5 DEF Opened
  <2>4. base \in Objects /\ base.kind = "baseline" /\ base.sources \in SUBSET Nat
    BY <2>2 DEF Bases, Objects
  <2>5. base # active
    BY <1>1, <2>4
  <2>6. doc \in SUBSET Nat /\ gone \in SUBSET Nat /\ gone \subseteq 1..Len(proof)
    BY <1>1, <1>2, <2>4
  <2>7. own => gone = active.discarded /\ doc = base.sources \cup active.sources
    OBVIOUS
  <2> HIDE DEF doc, gone, base, active
  <2>8. Opened(n) \in Workers
    BY <1>3, <2>2, <2>3, <2>4, <2>6 DEF Workers
  <2>9. /\ Opened(n).control = head[n] /\ Opened(n).discarded = gone /\ Opened(n).doc = doc
        /\ Opened(n).accepted = base /\ Opened(n).baseline = base
    BY <2>2, <2>3
  <2>10. checkpoint[n] = active
    BY DEF active
  <2> QED BY <2>5, <2>6, <2>7, <2>8, <2>9, <2>10
<1> QED BY <1>4, <1>5

LEMMA ApplicationKeeps ==
  ASSUME IInv, Distinct, NEW n \in Nodes, NEW w \in Workers, PublishApplied(n, w),
         w.control = head[n] \/ Baselines(n) # {},
         HasBlobs(n, Basis(n, w).doc),
         w.discarded \subseteq 1..Len(proof),
         Belongs(n),
         w.accepted = checkpoint[n] => /\ checkpoint[n].by = n
                                       /\ w.doc = checkpoint[n].sources
                                       /\ w.discarded = checkpoint[n].discarded,
         UNCHANGED <<controls, exchange, proof>>
  PROVE  IInv'
<1> DEFINE a == Applied(n, w)
<1>1. /\ a \in Workers /\ a.control = head[n]
      /\ a.doc = Accepted(n, Basis(n, w).doc, w.discarded)
      /\ a.discarded = w.discarded /\ a.accepted = w.accepted
  BY AppliedIs
<1>2. HasBlobs(n, a.doc)
  <2>1. Basis(n, w).doc \in SUBSET Nat
    BY BasisIs
  <2> QED BY <1>1, <2>1, AcceptedIs
<1> HIDE DEF a
<1>3. Grown /\ Proved
  BY DEF Grown, Proved
<1>4. head \in [Nodes -> 1..Len(controls)] /\ head[n] \in 1..Len(controls)
  BY ControlIsOne DEF IInv, SharedOK
<1>5. CASE Publish(n, a, {}, {}, announced[n]) /\ UNCHANGED head
  <2>1. objects'[n] = (objects[n] \ {}) \cup {} \cup {Seal(n, a)}
    BY <1>5 DEF Publish, Seal, IInv, SharedOK
  <2>2. \A s \in a.doc : HasBlob(n, s)'
    <3>1. objects[n] \subseteq objects'[n]
      BY <2>1
    <3> QED BY <3>1, <1>2, BlobsStay
  <2>3. Ready(n, a)
    BY <1>1, <1>4, <1>5, <2>2 DEF Ready, Belongs, Control
  <2> QED BY <1>1, <1>3, <1>5, <2>3, PublishKeeps
<1>6. CASE ~Changes(n, w) /\ session' = [session EXCEPT ![n] = a] /\ Unpublished(n)
  <2>1. /\ unseen' = [unseen EXCEPT ![n] = IF Open(n) THEN @ \ {"worker"} ELSE {}]
        /\ UNCHANGED <<objects, head, checkpoint, baseline, sealed>>
    BY <1>6 DEF Unpublished, copies
  <2>2. /\ objects \in [Nodes -> SUBSET Objects] /\ unseen \in [Nodes -> SUBSET Readers]
        /\ checkpoint \in [Nodes -> Seals] /\ baseline \in [Nodes -> Bases]
        /\ sealed \in [Nodes -> Nat] /\ session \in [Nodes -> Workers \cup {Nil}]
    BY DEF IInv, SharedOK, WorkersOK
  <2>3. session'[n] = a /\ unseen'[n] \in SUBSET Readers
    BY <1>6, <2>1, <2>2
  <2>4. Alone(n)
    BY <1>3, <1>4, <1>6, <2>1, <2>2 DEF Alone
  <2>5. Placed(n)
    BY <1>1, <1>4, <2>1, <2>2, <2>3 DEF Placed
  <2>6. a.doc = w.doc /\ w.accepted = checkpoint[n]
    BY <1>6 DEF Changes, a
  <2>7. Served(n)'
    BY <1>1, <1>4, <2>1, <2>3, <2>6 DEF Served
  <2>8. HasBlobs(n, checkpoint[n].sources)' /\ Decided(n)'
    BY <2>1 DEF IInv, Sound, HasBlobs, HasBlob, Decided
  <2>9. Watched(n)'
    BY <1>1, <2>1, <2>3 DEF Watched, Expired, EpochOf, Control, Belongs
  <2> QED BY <2>4, <2>5, <2>7, <2>8, <2>9, AloneKeeps DEF Sound
<1> QED BY <1>5, <1>6 DEF PublishApplied, a

LEMMA UnlockKeeps ==
  ASSUME IInv, Distinct, NEW n \in Nodes, Unlock(n)
  PROVE  IInv'
<1>1. CanOpen(n) /\ PublishApplied(n, Opened(n)) /\ UNCHANGED <<controls, exchange, proof>>
  BY DEF Unlock
<1>2. /\ Opened(n) \in Workers /\ Opened(n).control = head[n]
      /\ Opened(n).discarded \subseteq 1..Len(proof)
      /\ Opened(n).accepted = checkpoint[n] =>
           /\ checkpoint[n].by = n
           /\ Opened(n).doc = checkpoint[n].sources
           /\ Opened(n).discarded = checkpoint[n].discarded
  BY <1>1, OpenedIs
<1>3. HasBlobs(n, Basis(n, Opened(n)).doc)
  BY <1>1, <1>2, BasisIs DEF CanOpen
<1> QED BY <1>1, <1>2, <1>3, ApplicationKeeps DEF CanOpen

(* What an open session of the invariant is.                               *)
LEMMA SessionIs ==
  ASSUME IInv, NEW n \in Nodes, Open(n)
  PROVE  /\ session[n] \in Workers
         /\ session[n].doc = checkpoint[n].sources
         /\ session[n].discarded = checkpoint[n].discarded
         /\ session[n].accepted = checkpoint[n] /\ checkpoint[n].by = n
         /\ session[n].control \in 1..Len(controls)
         /\ HasBlobs(n, session[n].doc)
         /\ session[n].discarded \subseteq 1..Len(proof)
  BY DEF IInv, WorkersOK, Sound, Served, Decided, Open

LEMMA ApplyKeeps ==
  ASSUME IInv, Distinct, NEW n \in Nodes, Apply(n)
  PROVE  IInv'
<1> DEFINE w == [session[n] EXCEPT !.queued = FALSE]
<1>1. /\ Open(n) /\ ~Expired(n) /\ CanApply(n, session[n]) /\ PublishApplied(n, w)
      /\ UNCHANGED <<controls, exchange, proof>>
  BY DEF Apply
<1>2. /\ w \in Workers /\ w.doc = session[n].doc /\ w.discarded = session[n].discarded
      /\ w.accepted = session[n].accepted /\ w.control = session[n].control
      /\ w.baseline = session[n].baseline
  BY <1>1, SessionIs DEF Workers
<1> HIDE DEF w
<1>3. Basis(n, w) = Basis(n, session[n])
  BY <1>2 DEF Basis
<1>4. HasBlobs(n, Basis(n, w).doc)
  <2>1. CASE w.control = head[n]
    BY <2>1, <1>1, <1>2, BasisIs, SessionIs
  <2>2. CASE w.control # head[n]
    BY <2>2, <1>1, <1>2, <1>3 DEF CanApply
  <2> QED BY <2>1, <2>2
<1>5. Belongs(n) /\ (w.control = head[n] \/ Baselines(n) # {})
  BY <1>1, <1>2 DEF Expired, CanApply
<1>6. /\ w.doc = checkpoint[n].sources /\ w.discarded = checkpoint[n].discarded
      /\ checkpoint[n].by = n /\ w.discarded \subseteq 1..Len(proof)
  BY <1>1, <1>2, SessionIs
<1> QED BY <1>1, <1>2, <1>4, <1>5, <1>6, ApplicationKeeps

-----------------------------------------------------------------------------
(* Steps of a worker that commit nothing.                                  *)

Waits(n) ==
  /\ UNCHANGED <<controls, objects, head, exchange, checkpoint, baseline, proof, sealed>>
  /\ unseen' = [unseen EXCEPT ![n] = unseen'[n]] /\ unseen'[n] \in SUBSET Readers
  /\ session' = [session EXCEPT ![n] = session'[n]]
  /\ session'[n] = Nil \/ ( /\ Open(n) /\ ~Expired(n)
                            /\ \E q \in BOOLEAN : session'[n] = [session[n] EXCEPT !.queued = q] )

LEMMA WaitingKeeps ==
  ASSUME IInv, Distinct, NEW n \in Nodes, Waits(n)
  PROVE  IInv'
<1>1. /\ objects \in [Nodes -> SUBSET Objects] /\ unseen \in [Nodes -> SUBSET Readers]
      /\ checkpoint \in [Nodes -> Seals] /\ baseline \in [Nodes -> Bases]
      /\ sealed \in [Nodes -> Nat] /\ session \in [Nodes -> Workers \cup {Nil}]
      /\ head \in [Nodes -> 1..Len(controls)]
  BY DEF IInv, SharedOK, WorkersOK
<1>2. Alone(n)
  BY <1>1 DEF Alone, Waits, Grown, Proved
<1>3. HasBlobs(n, checkpoint[n].sources)' /\ Decided(n)'
  BY DEF IInv, Sound, HasBlobs, HasBlob, Decided, Waits
<1>4. CASE session'[n] = Nil
  <2>1. Placed(n)
    BY <1>1, <1>4 DEF Placed, Waits
  <2>2. Served(n)' /\ Watched(n)'
    BY <1>4 DEF Served, Watched, Open
  <2> QED BY <1>2, <1>3, <2>1, <2>2, AloneKeeps DEF Sound
<1>5. CASE session'[n] # Nil
  <2>1. PICK q \in BOOLEAN : session'[n] = [session[n] EXCEPT !.queued = q]
    BY <1>5 DEF Waits
  <2>2. /\ Open(n) /\ ~Expired(n) /\ session[n] \in Workers
    BY <1>5, SessionIs DEF Waits
  <2>3. /\ session'[n] \in Workers /\ session'[n].doc = session[n].doc
        /\ session'[n].discarded = session[n].discarded
        /\ session'[n].accepted = session[n].accepted
        /\ session'[n].control = session[n].control
    BY <2>1, <2>2 DEF Workers
  <2>4. Placed(n)
    BY <1>1, <2>3 DEF Placed, Waits
  <2>5. Served(n)'
    BY <2>2, <2>3 DEF IInv, Sound, Served, Waits
  <2>6. Watched(n)'
    BY <2>2, <2>3 DEF Watched, Expired, EpochOf, Control, Belongs, Waits
  <2> QED BY <1>2, <1>3, <2>4, <2>5, <2>6, AloneKeeps DEF Sound
<1> QED BY <1>4, <1>5

LEMMA CloseWaits ==
  ASSUME IInv, NEW n \in Nodes, Close(n),
         UNCHANGED <<controls, copies, exchange, checkpoint, baseline, proof, sealed>>
  PROVE  Waits(n)
  BY DEF IInv, SharedOK, WorkersOK, Close, Waits, copies

LEMMA WatchWaits ==
  ASSUME IInv, NEW n \in Nodes, Watch(n)
  PROVE  Waits(n)
<1>1. session \in [Nodes -> Workers \cup {Nil}] /\ unseen \in [Nodes -> SUBSET Readers]
  BY DEF IInv, SharedOK, WorkersOK
<1>2. session' = [session EXCEPT ![n] = [session[n] EXCEPT !.queued = TRUE]]
      /\ unseen' = [unseen EXCEPT ![n] = @ \ {"watch"}]
  BY DEF Watch
<1>3. session'[n] = [session[n] EXCEPT !.queued = TRUE] /\ unseen'[n] \in SUBSET Readers
  BY <1>1, <1>2
<1> QED BY <1>1, <1>2, <1>3 DEF Watch, Waits, copies

LEMMA ApplyWaitsWaits ==
  ASSUME IInv, NEW n \in Nodes, ApplyWaits(n)
  PROVE  Waits(n)
<1>1. session \in [Nodes -> Workers \cup {Nil}] /\ unseen \in [Nodes -> SUBSET Readers]
  BY DEF IInv, SharedOK, WorkersOK
<1>2. session' = [session EXCEPT ![n] = [session[n] EXCEPT !.queued = FALSE]]
      /\ unseen' = [unseen EXCEPT ![n] = IF Open(n) THEN @ \ {"worker"} ELSE {}]
  BY DEF ApplyWaits, Unpublished
<1>3. session'[n] = [session[n] EXCEPT !.queued = FALSE] /\ unseen'[n] \in SUBSET Readers
  BY <1>1, <1>2
<1> QED BY <1>1, <1>2, <1>3 DEF ApplyWaits, Unpublished, Waits, copies

-----------------------------------------------------------------------------
(* The commands of a user.                                                 *)

(* The objects of a copy after a commit.                                   *)
LEMMA PublishedObjects ==
  ASSUME IInv, NEW n \in Nodes, NEW w, NEW new, NEW remove, NEW kept,
         Publish(n, w, new, remove, kept)
  PROVE  objects'[n] = (objects[n] \ remove) \cup new \cup {Seal(n, w)}
  BY DEF IInv, SharedOK, Publish, Seal

LEMMA EditKeeps ==
  ASSUME IInv, Distinct, NEW n \in Nodes, Edit(n)
  PROVE  IInv'
<1>0. PICK s \in Nat : s = Len(proof) + 1
  BY LenProperties DEF IInv, SharedOK
<1> DEFINE e == [author |-> n, control |-> head[n], deps |-> session[n].doc]
           w == [session[n] EXCEPT !.doc = @ \cup {s}]
           new == {Change(s, n, head[n])}
                    \cup (IF s \in WithBlob THEN {Blob(s, n, head[n])} ELSE {})
<1>1. /\ Open(n) /\ session[n].control = head[n] /\ proof' = Append(proof, e)
      /\ UNCHANGED <<controls, head, exchange>>
  BY DEF Edit, Writes
<1>2. /\ session[n] \in Workers /\ HasBlobs(n, session[n].doc)
      /\ session[n].discarded \subseteq 1..Len(proof)
  BY <1>1, SessionIs
<1>3. head[n] \in 1..Len(controls) /\ head[n] \in Nat /\ head \in [Nodes -> 1..Len(controls)]
  BY ControlIsOne DEF IInv, SharedOK
<1>4. proof \in Seq(Proofs) /\ e \in Proofs
  BY <1>2, <1>3 DEF IInv, SharedOK, Proofs, Workers
<1>5. Len(proof') = s /\ s \in Nat /\ 1..Len(proof) \subseteq 1..Len(proof')
  BY <1>0, <1>1, <1>4, AppendProperties, LenProperties
<1>6. Publish(n, w, new, {}, announced[n])
  BY <1>5 DEF Edit
<1>7. Grown /\ Proved
  BY <1>1, <1>4 DEF Grown, Proved
<1>8. new \in SUBSET Objects
  BY <1>3, <1>5 DEF Change, Blob, Object, Objects, Kinds
<1>9. /\ w \in Workers /\ w.doc = session[n].doc \cup {s} /\ w.control = head[n]
      /\ w.discarded = session[n].discarded
  BY <1>1, <1>2, <1>5 DEF Workers
<1>10. \A x \in w.doc : HasBlob(n, x)'
  <2>1. objects'[n] = (objects[n] \ {}) \cup new \cup {Seal(n, w)}
    BY <1>6, PublishedObjects
  <2>2. \A x \in session[n].doc : HasBlob(n, x)'
    <3>1. objects[n] \subseteq objects'[n]
      BY <2>1
    <3> QED BY <1>2, <3>1, BlobsStay
  <2>3. s \in WithBlob => Blob(s, n, head[n]) \in objects'[n]
    BY <2>1
  <2>4. Blob(s, n, head[n]).kind = "blob" /\ Blob(s, n, head[n]).sources = {s}
    BY DEF Blob, Object
  <2>5. HasBlob(n, s)'
    BY <2>3, <2>4 DEF HasBlob
  <2> QED BY <1>9, <2>2, <2>5
<1> HIDE DEF w, new, e
<1>11. Ready(n, w)
  BY <1>1, <1>2, <1>3, <1>5, <1>9, <1>10 DEF Ready
<1> QED BY <1>1, <1>6, <1>7, <1>8, <1>9, <1>11, PublishKeeps

LEMMA DiscardKeeps ==
  ASSUME IInv, Distinct, NEW n \in Nodes, NEW s \in DOMAIN proof, Discard(n, s)
  PROVE  IInv'
<1> DEFINE w == [session[n] EXCEPT !.discarded = @ \cup {s}]
<1>1. /\ Open(n) /\ session[n].control = head[n] /\ Publish(n, w, {}, {}, announced[n])
      /\ UNCHANGED <<controls, head, exchange, proof>>
  BY DEF Discard
<1>2. /\ session[n] \in Workers /\ HasBlobs(n, session[n].doc)
      /\ session[n].discarded \subseteq 1..Len(proof)
  BY <1>1, SessionIs
<1>3. head[n] \in 1..Len(controls) /\ head \in [Nodes -> 1..Len(controls)]
  BY ControlIsOne DEF IInv, SharedOK
<1>4. s \in 1..Len(proof) /\ s \in Nat
  BY LenProperties DEF IInv, SharedOK
<1>5. /\ w \in Workers /\ w.doc = session[n].doc /\ w.control = head[n]
      /\ w.discarded = session[n].discarded \cup {s}
  BY <1>1, <1>2, <1>4 DEF Workers
<1>6. \A x \in session[n].doc : HasBlob(n, x)'
  <2>1. objects[n] \subseteq objects'[n]
    BY <1>1, PublishedObjects
  <2> QED BY <1>2, <2>1, BlobsStay
<1> HIDE DEF w
<1>7. Ready(n, w)
  BY <1>1, <1>2, <1>3, <1>4, <1>5, <1>6 DEF Ready
<1>8. Grown /\ Proved
  BY <1>1 DEF Grown, Proved
<1> QED BY <1>1, <1>5, <1>7, <1>8, PublishKeeps

LEMMA BaseIsBase ==
  ASSUME IInv, NEW n \in Nodes, NEW w \in Workers, NEW control \in Nat
  PROVE  NextCheckpoint("baseline", n, w, control) \in Bases
  BY DEF IInv, WorkersOK, Workers, NextCheckpoint, Object, Bases, Objects, Kinds

LEMMA AdministerKeeps ==
  ASSUME IInv, Distinct, NEW n \in Nodes, NEW control \in Controls, Administer(n, control)
  PROVE  IInv'
<1>0. PICK k \in Nat : k = Len(controls) + 1
  BY LenProperties DEF IInv, SharedOK
<1> DEFINE base == NextCheckpoint("baseline", n, session[n], k)
           w == [session[n] EXCEPT !.control = k, !.baseline = base]
<1>1. /\ Open(n) /\ Publish(n, w, {base}, {}, announced[n])
      /\ controls' = Append(controls, control) /\ head' = [head EXCEPT ![n] = k]
      /\ UNCHANGED <<exchange, proof>>
  BY <1>0 DEF Administer, Manages, Writes
<1>2. /\ session[n] \in Workers /\ HasBlobs(n, session[n].doc)
      /\ session[n].discarded \subseteq 1..Len(proof)
  BY <1>1, SessionIs
<1>3. base \in Bases /\ base \in Objects
  BY <1>2, BaseIsBase DEF Bases
<1>4. controls \in Seq(Controls)
  BY DEF IInv, SharedOK
<1>5. Grown /\ Proved /\ k \in 1..Len(controls')
  BY <1>0, <1>1, <1>4, AppendProperties DEF Grown, Proved
<1>6. \A x \in session[n].doc : HasBlob(n, x)'
  <2>1. objects[n] \subseteq objects'[n]
    BY <1>1, PublishedObjects
  <2> QED BY <1>2, <2>1, BlobsStay
<1> HIDE DEF base
<1>7. /\ w \in Workers /\ w.doc = session[n].doc /\ w.control = k
      /\ w.discarded = session[n].discarded
  BY <1>2, <1>3 DEF Workers
<1> HIDE DEF w
<1>8. Ready(n, w)
  BY <1>1, <1>2, <1>5, <1>6, <1>7 DEF Ready
<1> QED BY <1>1, <1>3, <1>5, <1>7, <1>8, PublishKeeps

LEMMA RevokeKeeps ==
  ASSUME IInv, Distinct, NEW n \in Nodes, SetPolicy(n) \/ \E m \in Nodes \cup Absent : Revoke(n, m)
  PROVE  IInv'
<1>1. Control(n) \in Controls
  BY ControlIsOne DEF IInv
<1>2. CASE SetPolicy(n)
  BY <1>1, <1>2, AdministerKeeps DEF SetPolicy
<1>3. CASE \E m \in Nodes \cup Absent : Revoke(n, m)
  <2>1. PICK m \in Nodes \cup Absent :
          Administer(n, [members |-> Control(n).members \ {m}, epoch |-> Control(n).epoch + 1])
    BY <1>3 DEF Revoke
  <2>2. [members |-> Control(n).members \ {m}, epoch |-> Control(n).epoch + 1] \in Controls
    BY <1>1 DEF Controls
  <2> QED BY <2>1, <2>2, AdministerKeeps
<1> QED BY <1>2, <1>3

LEMMA CollectKeeps ==
  ASSUME IInv, Distinct, NEW n \in Nodes, Collect(n)
  PROVE  IInv'
<1> DEFINE base == NextCheckpoint("baseline", n, session[n], head[n])
           managed == [session[n] EXCEPT !.baseline = base]
<1>1. /\ Open(n) /\ session[n].control = head[n]
      /\ IF n = Manager THEN Publish(n, managed, {base}, objects[n] \ Keep(n), {})
                        ELSE Publish(n, session[n], {}, objects[n] \ Keep(n), {})
      /\ UNCHANGED <<controls, head, exchange, proof>>
  BY DEF Collect
<1>2. /\ session[n] \in Workers /\ HasBlobs(n, session[n].doc)
      /\ session[n].discarded \subseteq 1..Len(proof)
  BY <1>1, SessionIs
<1>3. /\ head[n] \in 1..Len(controls) /\ head[n] \in Nat
      /\ head \in [Nodes -> 1..Len(controls)]
  BY ControlIsOne DEF IInv, SharedOK
<1>4. base \in Bases /\ base \in Objects
  BY <1>2, <1>3, BaseIsBase DEF Bases
<1>5. Grown /\ Proved
  BY <1>1 DEF Grown, Proved
<1>6. objects[n] \cap Keep(n) \subseteq objects'[n]
  BY <1>1, PublishedObjects
<1>7. \A x \in session[n].doc : HasBlob(n, x)'
  <2>1. SUFFICES ASSUME NEW x \in session[n].doc, x \in WithBlob
                 PROVE  \E o \in objects'[n] : o.kind = "blob" /\ o.sources = {x}
    BY DEF HasBlob
  <2>2. PICK o \in objects[n] : o.kind = "blob" /\ o.sources = {x}
    BY <1>2, <2>1 DEF HasBlobs, HasBlob
  <2>3. o \in Keep(n)
    BY <2>1, <2>2 DEF Keep, BlobsOf
  <2> QED BY <1>6, <2>2, <2>3
<1> HIDE DEF base
<1>8. /\ managed \in Workers /\ managed.doc = session[n].doc /\ managed.control = head[n]
      /\ managed.discarded = session[n].discarded
  BY <1>1, <1>2, <1>4 DEF Workers
<1> HIDE DEF managed
<1>9. Ready(n, managed) /\ Ready(n, session[n])
  BY <1>1, <1>2, <1>3, <1>7, <1>8 DEF Ready
<1>10. CASE n = Manager
  BY <1>1, <1>4, <1>5, <1>8, <1>9, <1>10, PublishKeeps
<1>11. CASE n # Manager
  BY <1>1, <1>2, <1>5, <1>9, <1>11, PublishKeeps
<1> QED BY <1>10, <1>11

-----------------------------------------------------------------------------
(* The invariant.                                                          *)

LEMMA InitSound ==
  ASSUME ReplicationInit, Distinct
  PROVE  IInv
<1>1. Manager \in Nodes /\ Fresh \subseteq Nodes
  BY ReplicationAssumption
<1>2. /\ controls = <<[members |-> Nodes \cup Absent, epoch |-> 0]>> /\ Len(controls) = 1
      /\ [members |-> Nodes \cup Absent, epoch |-> 0] \in Controls
  BY DEF ReplicationInit, Controls
<1>3. \A kind \in {"checkpoint", "baseline"}, m \in Nodes :
        /\ First(kind, m) \in Objects /\ First(kind, m).kind = kind
        /\ First(kind, m).sources = {} /\ First(kind, m).discarded = {}
  BY DEF First, Object, Objects, Kinds
<1>4. objects \in [Nodes -> SUBSET Objects]
  <2>1. {First("baseline", Manager)} \cup {First("checkpoint", m) : m \in Nodes \ Fresh}
          \in SUBSET Objects
    BY <1>1, <1>3
  <2> QED BY <2>1 DEF ReplicationInit
<1>5. SharedOK
  <2>1. controls \in Seq(Controls) /\ proof \in Seq(Proofs)
    BY <1>2 DEF ReplicationInit
  <2>2. head \in [Nodes -> 1..Len(controls)] /\ unseen \in [Nodes -> SUBSET Readers]
    BY <1>2 DEF ReplicationInit
  <2>3. exchange = [i \in Nodes |-> [j \in Nodes |-> Nil]]
    BY DEF ReplicationInit
  <2> QED BY <1>4, <2>1, <2>2, <2>3 DEF SharedOK, Talking
<1>6. WorkersOK
  <2>1. \A n \in Nodes : First("checkpoint", IF n \in Fresh THEN Manager ELSE n) \in Seals
    BY <1>1, <1>3 DEF Seals
  <2>2. First("baseline", Manager) \in Bases
    BY <1>1, <1>3 DEF Bases
  <2> QED BY <2>1, <2>2 DEF WorkersOK, ReplicationInit
<1>7. ASSUME NEW n \in Nodes
      PROVE  Sound(n)
  <2>1. ~Open(n)
    BY <1>7 DEF ReplicationInit, Open
  <2>2. checkpoint[n].sources = {} /\ checkpoint[n].discarded = {}
    BY <1>1, <1>3, <1>7 DEF ReplicationInit
  <2> QED BY <2>1, <2>2 DEF Sound, Served, HasBlobs, Watched, Decided
<1> QED BY <1>5, <1>6, <1>7 DEF IInv

LEMMA NextKeeps ==
  ASSUME IInv, Distinct, [ReplicationNext]_replicationVars
  PROVE  IInv'
<1>1. CASE UNCHANGED replicationVars
  <2>1. UNCHANGED <<controls, objects, head, unseen, exchange, proof, checkpoint, baseline,
                    sealed, session>>
    BY <1>1 DEF replicationVars, exchangeVars, copies, workerVars
  <2>2. SharedOK'
    BY <2>1 DEF IInv, SharedOK, Talking
  <2>3. WorkersOK'
    BY <2>1 DEF IInv, WorkersOK
  <2>4. \A n \in Nodes : Sound(n)'
    BY <2>1 DEF IInv, Sound, Served, HasBlobs, HasBlob, Watched, Expired, EpochOf, Control,
                Belongs, Decided, Open
  <2> QED BY <2>2, <2>3, <2>4 DEF IInv
<1>2. CASE \E i, j \in Nodes : Transport(i, j)
  BY <1>2, TransportKeeps
<1>3. ASSUME NEW n \in Nodes, Background(n) \/ User(n)
      PROVE  IInv'
  <2>1. CASE Lock(n) \/ Expire(n)
    <3>1. Waits(n)
      BY <2>1, CloseWaits DEF Lock, Expire
    <3> QED BY <3>1, WaitingKeeps
  <2>2. CASE Watch(n) \/ ApplyWaits(n)
    BY <2>2, WatchWaits, ApplyWaitsWaits, WaitingKeeps
  <2>3. CASE \E s \in DOMAIN proof : Discard(n, s)
    BY <2>3, DiscardKeeps
  <2> QED BY <1>3, <2>1, <2>2, <2>3, UnlockKeeps, ApplyKeeps, EditKeeps, RevokeKeeps, CollectKeeps
          DEF Background, User
<1> QED BY <1>1, <1>2, <1>3 DEF ReplicationNext

LEMMA Invariance ==
  ASSUME Distinct
  PROVE  ReplicationSpec => []IInv
<1>1. ReplicationInit => IInv
  BY InitSound
<1>2. IInv /\ [ReplicationNext]_replicationVars => IInv'
  BY NextKeeps
<1> QED BY <1>1, <1>2, PTL DEF ReplicationSpec

(* Every attachment that a saved document refers to is in the archive,     *)
(* however sources, blobs and baselines arrive and whatever is collected   *)
(* (managed apply, commit and collect_received).                           *)
THEOREM AttachmentsAreKept ==
  ASSUME Distinct
  PROVE  ReplicationSpec => []BlobsKept
<1>1. IInv => BlobsKept
  BY DEF IInv, Sound, BlobsKept
<1> QED BY <1>1, Invariance, PTL

-----------------------------------------------------------------------------
(* What an archive loses.                                                  *)

Grows == \A m \in Nodes : objects[m] \subseteq objects'[m]

LEMMA PublishGrows ==
  ASSUME IInv, NEW n \in Nodes, NEW w, NEW new, NEW kept, Publish(n, w, new, {}, kept)
  PROVE  Grows
<1>1. objects \in [Nodes -> SUBSET Objects]
      /\ objects' = [objects EXCEPT ![n] = (@ \ {}) \cup new \cup {Seal(n, w)}]
  BY DEF IInv, SharedOK, Publish, Seal
<1> QED BY <1>1 DEF Grows

LEMMA ApplicationGrows ==
  ASSUME IInv, NEW n \in Nodes, NEW w, PublishApplied(n, w)
  PROVE  Grows
<1>1. CASE Publish(n, Applied(n, w), {}, {}, announced[n])
  BY <1>1, PublishGrows
<1>2. CASE Unpublished(n)
  BY <1>2 DEF Unpublished, copies, Grows
<1> QED BY <1>1, <1>2 DEF PublishApplied

(* Only a collection takes objects away.                                   *)
LEMMA OthersGrow ==
  ASSUME IInv, Distinct, [ReplicationNext]_replicationVars, \A n \in Nodes : ~Collect(n)
  PROVE  Grows
<1>1. CASE UNCHANGED replicationVars
  BY <1>1 DEF replicationVars, exchangeVars, copies, Grows
<1>2. CASE \E i, j \in Nodes : Transport(i, j)
  <2>1. PICK n \in Nodes : Carries(n)
    BY <1>2, TransportIsCarried DEF Carried
  <2> QED BY <2>1 DEF Carries, Grows, IInv, SharedOK
<1>3. ASSUME NEW n \in Nodes, Background(n) \/ User(n)
      PROVE  Grows
  <2>1. CASE Lock(n) \/ Expire(n) \/ Watch(n) \/ ApplyWaits(n)
    <3>1. objects' = objects
      BY <2>1 DEF Lock, Expire, Watch, ApplyWaits, Unpublished, copies
    <3> QED BY <3>1 DEF Grows
  <2>2. CASE Unlock(n) \/ Apply(n)
    BY <2>2, ApplicationGrows DEF Unlock, Apply
  <2>3. CASE Edit(n)
    BY <2>3, PublishGrows DEF Edit
  <2>4. CASE \E s \in DOMAIN proof : Discard(n, s)
    BY <2>4, PublishGrows DEF Discard
  <2>5. CASE SetPolicy(n) \/ \E m \in Nodes \cup Absent : Revoke(n, m)
    <3>1. PICK c : Administer(n, c)
      BY <2>5 DEF SetPolicy, Revoke
    <3> QED BY <3>1, PublishGrows DEF Administer
  <2> QED BY <1>3, <2>1, <2>2, <2>3, <2>4, <2>5 DEF Background, User
<1> QED BY <1>1, <1>2, <1>3 DEF ReplicationNext

LEMMA CollectKeepsSources ==
  ASSUME IInv, Distinct, NEW n \in Nodes, Collect(n), NEW m \in Nodes
  PROVE  Available(m) \subseteq Available(m)' \cup checkpoint'[m].discarded
<1> DEFINE base == NextCheckpoint("baseline", n, session[n], head[n])
           managed == [session[n] EXCEPT !.baseline = base]
<1>1. /\ Open(n)
      /\ IF n = Manager THEN Publish(n, managed, {base}, objects[n] \ Keep(n), {})
                        ELSE Publish(n, session[n], {}, objects[n] \ Keep(n), {})
  BY DEF Collect
<1>2. session[n] \in Workers /\ head[n] \in Nat
  BY <1>1, SessionIs, ControlIsOne DEF IInv
<1>3. base \in Bases
  BY <1>2, BaseIsBase
<1> HIDE DEF base
<1>4. managed \in Workers /\ managed.doc = session[n].doc
      /\ managed.discarded = session[n].discarded
  BY <1>2, <1>3 DEF Workers
<1> HIDE DEF managed
<1>5. \E w \in Workers, new \in {{base}, {}} :
        /\ w.doc = session[n].doc /\ w.discarded = session[n].discarded
        /\ Publish(n, w, new, objects[n] \ Keep(n), {})
  BY <1>1, <1>2, <1>4
<1>6. PICK w \in Workers, new \in {{base}, {}} :
        /\ w.doc = session[n].doc /\ w.discarded = session[n].discarded
        /\ Publish(n, w, new, objects[n] \ Keep(n), {})
  BY <1>5
<1>7. /\ Seal(n, w) \in Seals
      /\ Seal(n, w).sources = session[n].doc /\ Seal(n, w).discarded = session[n].discarded
  BY <1>6, SealIsSeal
<1>8. objects \in [Nodes -> SUBSET Objects] /\ checkpoint \in [Nodes -> Seals]
  BY DEF IInv, SharedOK, WorkersOK
<1>9. /\ objects' = [objects EXCEPT ![n] = (@ \ (objects[n] \ Keep(n))) \cup new \cup {Seal(n, w)}]
      /\ checkpoint' = [checkpoint EXCEPT ![n] = Seal(n, w)]
  BY <1>6 DEF Publish, Seal
<1>10. CASE m # n
  <2>1. objects'[m] = objects[m]
    BY <1>8, <1>9, <1>10
  <2> QED BY <2>1 DEF Available, Packets
<1>11. CASE m = n
  <2>1. Seal(n, w) \in objects'[n] /\ checkpoint'[n] = Seal(n, w)
        /\ objects[n] \cap Keep(n) \subseteq objects'[n]
    BY <1>8, <1>9
  <2>2. SUFFICES ASSUME NEW s \in Available(n)
                 PROVE  s \in Available(n)' \/ s \in checkpoint'[n].discarded
    BY <1>11
  <2>3. PICK o \in Packets(n) : s \in o.sources
    BY <2>2 DEF Available
  <2>4. CASE Unaccepted(n, o) # {}
    <3>1. o \in Keep(n)
      BY <2>4 DEF Keep
    <3>2. o \in Packets(n)'
      BY <2>1, <3>1 DEF Packets
    <3> QED BY <2>3, <3>2 DEF Available
  <2>5. CASE Unaccepted(n, o) = {}
    <3>1. s \in session[n].doc \/ s \in session[n].discarded
      BY <2>3, <2>5 DEF Unaccepted
    <3>2. Seal(n, w).kind = "checkpoint"
      BY <1>7 DEF Seals
    <3>3. \E x \in Packets(n)' : x = checkpoint'[n]
      BY <2>1, <3>2 DEF Packets
    <3>4. checkpoint'[n].sources \subseteq Available(n)'
      BY <3>3 DEF Available
    <3> QED BY <1>7, <2>1, <3>1, <3>4
  <2> QED BY <2>4, <2>5
<1> QED BY <1>10, <1>11

(* An archive loses no source that its saved checkpoint does not discard:  *)
(* collect_received removes a packet only when all of its sources are      *)
(* accepted or discarded, and every other commit only adds.                *)
THEOREM SourcesAreKept ==
  ASSUME Distinct
  PROVE  ReplicationSpec => SourcesKept
<1>1. IInv /\ [ReplicationNext]_replicationVars =>
        [\A n \in Nodes : Available(n) \subseteq Available(n)' \cup checkpoint'[n].discarded]_replicationVars
  <2>1. SUFFICES ASSUME IInv, [ReplicationNext]_replicationVars, NEW n \in Nodes
                 PROVE  Available(n) \subseteq Available(n)' \cup checkpoint'[n].discarded
    OBVIOUS
  <2>2. CASE \E m \in Nodes : Collect(m)
    BY <2>1, <2>2, CollectKeepsSources
  <2>3. CASE \A m \in Nodes : ~Collect(m)
    <3>1. objects[n] \subseteq objects'[n]
      BY <2>1, <2>3, OthersGrow DEF Grows
    <3> QED BY <3>1 DEF Available, Packets
  <2> QED BY <2>2, <2>3
<1> QED BY <1>1, Invariance, PTL DEF ReplicationSpec, SourcesKept

-----------------------------------------------------------------------------
(* Level copies are quiet.                                                 *)

LEMMA LevelTransport ==
  ASSUME IInv, Distinct, Level, NEW i \in Nodes, NEW j \in Nodes, Transport(i, j)
  PROVE  unseen' = unseen
<1>1. Pointless(i, j) /\ objects[i] = objects[j] /\ head[i] = head[j]
  BY DEF Level
<1>2. head[i] \in Nat /\ head[j] \in Nat
  BY ControlIsOne DEF IInv
(* An inventory that brings nothing is not recorded.                       *)
<1>3. ASSUME NEW n \in {i, j}, Offer(n, Inventory(i))
      PROVE  unseen' = unseen
  <2>1. Need(n, Inventory(i)) = {} /\ ~Newer(n, Inventory(i))
    BY <1>1, <1>2 DEF Need, Newer, Inventory
  <2> QED BY <1>3, <2>1 DEF Offer, NoCommit
<1>4. ASSUME At(i, j, "offer") \/ At(i, j, "accept")
      PROVE  exchange[i][j].meta = Inventory(i)
  <2>1. exchange[i][j].meta # Nil
    BY <1>4, TalkHolds DEF At, Distinct
  <2> QED BY <1>1, <1>4, <2>1 DEF Pointless, At
<1>5. CASE OfferTo(i, j)
  BY <1>3, <1>4, <1>5 DEF OfferTo
<1>6. CASE TakeInventory(i, j)
  BY <1>3, <1>4, <1>6 DEF TakeInventory
<1>7. CASE Put(i, j) \/ Fetch(i, j)
  BY <1>1, <1>7 DEF Put, Fetch, At, Pointless
<1>8. CASE StartExchange(i, j) \/ Ask(i, j) \/ EndRefused(i, j) \/ Break(i, j)
  BY <1>8 DEF StartExchange, Ask, EndRefused, Break, NoCommit
<1> QED BY <1>5, <1>6, <1>7, <1>8 DEF Transport, ExchangeStep

(* Once all copies are level and every worker and watch has looked, only a *)
(* user's command writes: offer records no inventory that brings nothing,  *)
(* and nobody acknowledges an acknowledgement (Coordinator::offer,         *)
(* apply_received, the watch task).                                        *)
THEOREM LevelIsQuiet ==
  ASSUME Distinct
  PROVE  ReplicationSpec => QuietWhenLevel
<1>1. IInv /\ [ReplicationNext]_replicationVars =>
        [Level /\ unseen' # unseen => \E n \in Nodes : User(n)]_replicationVars
  <2>1. SUFFICES ASSUME IInv, ReplicationNext, Level, unseen' # unseen
                 PROVE  \E n \in Nodes : User(n)
    OBVIOUS
  <2>2. ~\E i, j \in Nodes : Transport(i, j)
    BY <2>1, LevelTransport
  <2>3. ASSUME NEW n \in Nodes, Background(n)
        PROVE  FALSE
    <3>1. Open(n) /\ "watch" \notin unseen[n] /\ ~session[n].queued /\ Watched(n)
      BY <2>1 DEF Level, IInv, Sound
    <3> QED BY <2>3, <3>1 DEF Background, Watched, Expire, Watch, Apply, ApplyWaits
  <2> QED BY <2>1, <2>2, <2>3 DEF ReplicationNext
<1> QED BY <1>1, Invariance, PTL DEF ReplicationSpec, QuietWhenLevel

-----------------------------------------------------------------------------
(* What was discarded.                                                     *)

Holds(n) ==
  checkpoint[n].by = n =>
    (checkpoint'[n].sources \ checkpoint[n].sources) \cap checkpoint[n].discarded
      \subseteq baseline'[n].sources

LEMMA PublishedCheckpoint ==
  ASSUME IInv, NEW n \in Nodes, NEW w \in Workers, NEW new, NEW remove, NEW kept,
         Publish(n, w, new, remove, kept)
  PROVE  /\ checkpoint'[n].sources = w.doc /\ baseline'[n] = w.baseline
         /\ \A m \in Nodes \ {n} : checkpoint'[m] = checkpoint[m]
<1>1. checkpoint \in [Nodes -> Seals] /\ baseline \in [Nodes -> Bases]
  BY DEF IInv, WorkersOK
<1>2. /\ checkpoint' = [checkpoint EXCEPT ![n] = Seal(n, w)]
      /\ baseline' = [baseline EXCEPT ![n] = w.baseline]
  BY DEF Publish, Seal
<1> QED BY <1>1, <1>2, SealIsSeal

(* An application takes a discarded source only from the new baseline.     *)
LEMMA ApplicationHolds ==
  ASSUME IInv, NEW n \in Nodes, NEW w \in Workers, PublishApplied(n, w),
         w.control = head[n] \/ Baselines(n) # {},
         checkpoint[n].by = n =>
           /\ w.discarded = checkpoint[n].discarded
           /\ \/ w.doc = checkpoint[n].sources
              \/ w.control = head[n] /\ w.doc = w.baseline.sources \cup checkpoint[n].sources
  PROVE  \A m \in Nodes : Holds(m)
<1>1. CASE Publish(n, Applied(n, w), {}, {}, announced[n])
  <2>1. /\ Applied(n, w) \in Workers
        /\ Applied(n, w).doc = Accepted(n, Basis(n, w).doc, w.discarded)
        /\ Applied(n, w).baseline = Basis(n, w).baseline
    BY AppliedIs
  <2>2. /\ checkpoint'[n].sources = Accepted(n, Basis(n, w).doc, w.discarded)
        /\ baseline'[n] = Basis(n, w).baseline
        /\ \A m \in Nodes \ {n} : checkpoint'[m] = checkpoint[m]
    BY <1>1, <2>1, PublishedCheckpoint
  <2>3. /\ Basis(n, w).doc \in SUBSET Nat
        /\ Basis(n, w).doc \ w.doc \subseteq Basis(n, w).baseline.sources
        /\ w.control = head[n] => Basis(n, w).doc = w.doc /\ Basis(n, w).baseline = w.baseline
    BY BasisIs
  <2>4. (Accepted(n, Basis(n, w).doc, w.discarded) \ Basis(n, w).doc) \cap w.discarded = {}
    BY <2>3, AcceptedIs
  <2>5. checkpoint[n].by = n =>
          Basis(n, w).doc \ checkpoint[n].sources \subseteq Basis(n, w).baseline.sources
    BY <2>3
  <2>6. Holds(n)
    BY <2>2, <2>4, <2>5 DEF Holds
  <2> QED BY <2>2, <2>6 DEF Holds
<1>2. CASE Unpublished(n)
  BY <1>2 DEF Unpublished, Holds
<1> QED BY <1>1, <1>2 DEF PublishApplied

(* The commands of a user add at most the source that they make.           *)
LEMMA CommandHolds ==
  ASSUME IInv, NEW n \in Nodes, NEW w \in Workers, NEW new, NEW remove, NEW kept,
         Publish(n, w, new, remove, kept),
         (w.doc \ checkpoint[n].sources) \cap checkpoint[n].discarded = {}
  PROVE  \A m \in Nodes : Holds(m)
<1>1. /\ checkpoint'[n].sources = w.doc
      /\ \A m \in Nodes \ {n} : checkpoint'[m] = checkpoint[m]
  BY PublishedCheckpoint
<1> QED BY <1>1 DEF Holds

LEMMA UnlockHolds ==
  ASSUME IInv, NEW n \in Nodes, Unlock(n)
  PROVE  \A m \in Nodes : Holds(m)
<1>1. CanOpen(n) /\ PublishApplied(n, Opened(n))
  BY DEF Unlock
<1>2. /\ Opened(n) \in Workers /\ Opened(n).control = head[n]
      /\ checkpoint[n].by = n =>
           /\ Opened(n).discarded = checkpoint[n].discarded
           /\ \/ Opened(n).doc = checkpoint[n].sources
              \/ Opened(n).doc = Opened(n).baseline.sources \cup checkpoint[n].sources
  BY <1>1, OpenedIs
<1> QED BY <1>1, <1>2, ApplicationHolds

LEMMA ApplyHolds ==
  ASSUME IInv, NEW n \in Nodes, Apply(n)
  PROVE  \A m \in Nodes : Holds(m)
<1> DEFINE w == [session[n] EXCEPT !.queued = FALSE]
<1>1. Open(n) /\ CanApply(n, session[n]) /\ PublishApplied(n, w)
  BY DEF Apply
<1>2. /\ w \in Workers /\ w.doc = session[n].doc /\ w.discarded = session[n].discarded
      /\ w.control = session[n].control
  BY <1>1, SessionIs DEF Workers
<1> HIDE DEF w
<1>3. w.control = head[n] \/ Baselines(n) # {}
  BY <1>1, <1>2 DEF CanApply
<1>4. w.doc = checkpoint[n].sources /\ w.discarded = checkpoint[n].discarded
  BY <1>1, <1>2, SessionIs
<1> QED BY <1>1, <1>2, <1>3, <1>4, ApplicationHolds

LEMMA EditHolds ==
  ASSUME IInv, NEW n \in Nodes, Edit(n)
  PROVE  \A m \in Nodes : Holds(m)
<1>0. PICK s \in Nat : s = Len(proof')
  <2>1. proof \in Seq(Proofs)
    BY DEF IInv, SharedOK
  <2>2. Len(proof') = Len(proof) + 1 /\ Len(proof) \in Nat
    BY <2>1, LenProperties, AppendProperties DEF Edit
  <2> QED BY <2>2
<1> DEFINE w == [session[n] EXCEPT !.doc = @ \cup {s}]
<1>1. Open(n) /\ \E new, kept : Publish(n, w, new, {}, kept)
  BY <1>0 DEF Edit, Writes
<1>2. session[n] \in Workers /\ session[n].doc = checkpoint[n].sources
      /\ checkpoint[n].discarded \subseteq 1..Len(proof)
  BY <1>1, SessionIs
<1>3. w \in Workers /\ w.doc = session[n].doc \cup {s}
  BY <1>2 DEF Workers
<1> HIDE DEF w
<1>4. s = Len(proof) + 1 /\ Len(proof) \in Nat
  <2>1. proof \in Seq(Proofs)
    BY DEF IInv, SharedOK
  <2>2. Len(proof') = Len(proof) + 1
    BY <2>1, AppendProperties DEF Edit
  <2> QED BY <1>0, <2>1, <2>2, LenProperties
<1>5. s \notin checkpoint[n].discarded
  BY <1>2, <1>4
<1>6. (w.doc \ checkpoint[n].sources) \cap checkpoint[n].discarded = {}
  BY <1>2, <1>3, <1>5
<1> QED BY <1>1, <1>3, <1>6, CommandHolds

LEMMA DiscardingHolds ==
  ASSUME IInv, NEW n \in Nodes, NEW s \in DOMAIN proof, Discard(n, s)
  PROVE  \A m \in Nodes : Holds(m)
<1> DEFINE w == [session[n] EXCEPT !.discarded = @ \cup {s}]
<1>1. Open(n) /\ Publish(n, w, {}, {}, announced[n])
  BY DEF Discard
<1>2. session[n] \in Workers /\ session[n].doc = checkpoint[n].sources
  BY <1>1, SessionIs
<1>3. w \in Workers /\ w.doc = session[n].doc
  <2>1. s \in Nat
    BY LenProperties DEF IInv, SharedOK
  <2> QED BY <1>2, <2>1 DEF Workers
<1> HIDE DEF w
<1> QED BY <1>1, <1>2, <1>3, CommandHolds

LEMMA AdministerHolds ==
  ASSUME IInv, NEW n \in Nodes, NEW c, Administer(n, c)
  PROVE  \A m \in Nodes : Holds(m)
<1>0. PICK k \in Nat : k = Len(controls) + 1
  BY LenProperties DEF IInv, SharedOK
<1> DEFINE base == NextCheckpoint("baseline", n, session[n], k)
           w == [session[n] EXCEPT !.control = k, !.baseline = base]
<1>1. Open(n) /\ Publish(n, w, {base}, {}, announced[n])
  BY <1>0 DEF Administer, Manages, Writes
<1>2. session[n] \in Workers /\ session[n].doc = checkpoint[n].sources
  BY <1>1, SessionIs
<1>3. base \in Bases
  BY <1>2, BaseIsBase
<1> HIDE DEF base
<1>4. w \in Workers /\ w.doc = session[n].doc
  BY <1>2, <1>3 DEF Workers
<1> HIDE DEF w
<1> QED BY <1>1, <1>2, <1>4, CommandHolds

LEMMA CollectHolds ==
  ASSUME IInv, NEW n \in Nodes, Collect(n)
  PROVE  \A m \in Nodes : Holds(m)
<1> DEFINE base == NextCheckpoint("baseline", n, session[n], head[n])
           managed == [session[n] EXCEPT !.baseline = base]
<1>1. /\ Open(n)
      /\ IF n = Manager THEN Publish(n, managed, {base}, objects[n] \ Keep(n), {})
                        ELSE Publish(n, session[n], {}, objects[n] \ Keep(n), {})
  BY DEF Collect
<1>2. session[n] \in Workers /\ session[n].doc = checkpoint[n].sources /\ head[n] \in Nat
  BY <1>1, SessionIs, ControlIsOne DEF IInv
<1>3. base \in Bases
  BY <1>2, BaseIsBase
<1> HIDE DEF base
<1>4. managed \in Workers /\ managed.doc = session[n].doc
  BY <1>2, <1>3 DEF Workers
<1> HIDE DEF managed
<1> QED BY <1>1, <1>2, <1>4, CommandHolds

(* A source that a user discarded comes back only with a baseline of the   *)
(* manager, however often the database is locked and opened                *)
(* (discard_received, open_with_authentication, apply_received).           *)
THEOREM DiscardsHold ==
  ASSUME Distinct
  PROVE  ReplicationSpec => DiscardHolds
<1>1. IInv /\ [ReplicationNext]_replicationVars =>
        [\A n \in Nodes : checkpoint[n].by = n =>
           (checkpoint'[n].sources \ checkpoint[n].sources) \cap checkpoint[n].discarded
             \subseteq baseline'[n].sources]_replicationVars
  <2>1. SUFFICES ASSUME IInv, ReplicationNext
                 PROVE  \A m \in Nodes : Holds(m)
    BY DEF Holds
  <2>2. CASE \E i, j \in Nodes : Transport(i, j)
    <3>1. checkpoint' = checkpoint
      BY <2>1, <2>2 DEF Transport, Moves, workerVars
    <3> QED BY <3>1 DEF Holds
  <2>3. ASSUME NEW n \in Nodes, Background(n) \/ User(n)
        PROVE  \A m \in Nodes : Holds(m)
    <3>1. CASE Lock(n) \/ Expire(n) \/ Watch(n) \/ ApplyWaits(n)
      <4>1. checkpoint' = checkpoint
        BY <3>1 DEF Lock, Expire, Watch, ApplyWaits, Unpublished
      <4> QED BY <4>1 DEF Holds
    <3>2. CASE SetPolicy(n) \/ \E m \in Nodes \cup Absent : Revoke(n, m)
      BY <2>1, <3>2, AdministerHolds DEF SetPolicy, Revoke
    <3>3. CASE \E s \in DOMAIN proof : Discard(n, s)
      BY <2>1, <3>3, DiscardingHolds
    <3> QED
      BY <2>1, <2>3, <3>1, <3>2, <3>3, UnlockHolds, ApplyHolds, EditHolds, CollectHolds
      DEF Background, User
  <2> QED BY <2>1, <2>2, <2>3 DEF ReplicationNext
<1> QED BY <1>1, Invariance, PTL DEF ReplicationSpec, DiscardHolds
=============================================================================
