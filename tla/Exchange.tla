------------------------------ MODULE Exchange ------------------------------
(***************************************************************************)
(* Exchange of ciphertext objects between the working copies of one        *)
(* database (taypeer-sync node.rs and coordinator.rs, the pump of          *)
(* taypeer-runtime network.rs).                                            *)
(*                                                                         *)
(* Every node runs a pump that starts an exchange with every admitted peer *)
(* on a timer; an exchange is a conversation of several requests, and each *)
(* request locks one coordinator for its own duration only.  Between two   *)
(* requests either side may receive other objects, learn a newer control   *)
(* or publish local changes.  The control chain is linear here (forks are  *)
(* the subject of Authority): a node knows a prefix of it.                 *)
(***************************************************************************)
EXTENDS Naturals, FiniteSets, Sequences

CONSTANTS
  Nodes,
  Nil,
  Dialers,      \* the nodes whose connections reach the others
  MaxTalks,     \* bound: conversations at one time
  MaxEvents     \* bound: broken conversations and disturbing commands

VARIABLES
  controls,     \* the signed chain: [members, epoch] per control
  objects,      \* manifest.body.objects of each copy
  head,         \* the length of the chain each copy knows
  announced,    \* journal.offers: the objects of the recorded inventories
  unseen,       \* which readers of a copy have not seen its fingerprint
  exchange,     \* the conversation of each initiator with each peer
  events

copies == <<objects, head, announced>>
exchangeVars == <<controls, copies, unseen, exchange, events>>

(* ControlChain::admit_transport and authorize on the chain a copy knows.  *)
Authorizes(n, peer) == peer \in controls[head[n]].members

Idle(i, j) == exchange[i][j] = Nil
At(i, j, step) == ~Idle(i, j) /\ exchange[i][j].step = step
Talks == {t \in Nodes \X Nodes : ~Idle(t[1], t[2])}

(* A conversation holds the inventory it read last, or the objects that    *)
(* the receiving side asked for.                                           *)
Talk(step, meta, need) == [step |-> step, meta |-> meta, need |-> need]

Say(i, j, talk) == exchange' = [exchange EXCEPT ![i][j] = talk]

(* A commit gives the file a new generation and with it a new fingerprint. *)
Readers == {"worker", "watch"}
Commits(n) == unseen' = [unseen EXCEPT ![n] = Readers]
NoCommit == UNCHANGED <<copies, unseen>>

(* The signed metadata of a copy: Command::Inventory.                      *)
Inventory(n) == [head |-> head[n], objects |-> objects[n]]

-----------------------------------------------------------------------------
(* Coordinator::offer                                                      *)

Need(n, meta) == meta.objects \ objects[n]
Newer(n, meta) == meta.head > head[n]

(* The announced inventory and the newer chain are committed before the    *)
(* needed objects are asked for.                                           *)
Record(n, meta) ==
  /\ announced' = [announced EXCEPT ![n] = @ \cup meta.objects]
  /\ head' = [head EXCEPT ![n] = IF Newer(n, meta) THEN meta.head ELSE @]
  /\ UNCHANGED objects
  /\ Commits(n)

(* Mutant of Offer: every inventory is recorded.                           *)
OfferEcho(n, meta) == Record(n, meta)

(* Transport manifests also describe receipt journals: an inventory that   *)
(* brings nothing is not recorded, or two copies would echo each other's   *)
(* manifests for ever.                                                     *)
Offer(n, meta) ==
  \/ (Need(n, meta) # {} \/ Newer(n, meta)) /\ Record(n, meta)
  \/ Need(n, meta) = {} /\ ~Newer(n, meta) /\ NoCommit

(* announced: the copy's own manifest or an inventory it has recorded.     *)
Announced(n, o) == o \in objects[n] \cup announced[n]

(* authorize_object and the checks of receive; the sealed object names the *)
(* control it was made under.                                              *)
Receives(n, peer, o) == Authorizes(n, peer) /\ Announced(n, o) /\ o.control <= head[n]

(* Backend::receive after receive_body staged the complete object: a known *)
(* object is acknowledged without a commit.                                *)
Receive(n, o) ==
  \/ /\ o \notin objects[n]
     /\ objects' = [objects EXCEPT ![n] = @ \cup {o}]
     /\ UNCHANGED <<head, announced>>
     /\ Commits(n)
  \/ o \in objects[n] /\ NoCommit

(* Backend::object                                                         *)
Serves(n, peer, o) == Authorizes(n, peer) /\ o \in objects[n]

-----------------------------------------------------------------------------
(* Node::exchange, started by the pump.  The pump wakes on its interval,   *)
(* on a request and on coordinator events; a lagged receiver has lost      *)
(* events, and the pass it makes does not depend on what they said.        *)

StartExchange(i, j) ==
  /\ i \in Dialers /\ i # j /\ Idle(i, j) /\ Cardinality(Talks) < MaxTalks
  /\ Authorizes(i, j)
  /\ Say(i, j, Talk("offer", Inventory(i), {}))
  /\ NoCommit /\ UNCHANGED <<controls, events>>

(* Mutant of AfterOffer: the initiator sends and does not ask.             *)
AfterOfferSends(need) == IF need # {} THEN Talk("put", Nil, need) ELSE Nil

(* The answer to an offer: the objects to send, or the turn to ask.        *)
AfterOffer(need) ==
  IF need # {} THEN Talk("put", Nil, need) ELSE Talk("ask", Nil, {})

(* rpc(Command::Offer(local)) at the peer.                                 *)
OfferTo(i, j) ==
  /\ At(i, j, "offer")
  /\ Authorizes(j, i)
  /\ Offer(j, exchange[i][j].meta)
  /\ Say(i, j, AfterOffer(Need(j, exchange[i][j].meta)))
  /\ UNCHANGED <<controls, events>>

(* One needed object is read here and put at the peer.  The objects go in  *)
(* the order of their digests, which says nothing about what they are.     *)
Put(i, j) ==
  /\ At(i, j, "put")
  /\ \E o \in exchange[i][j].need :
     /\ Serves(i, j, o) /\ Receives(j, i, o)
     /\ Receive(j, o)
     /\ Say(i, j, AfterOffer(exchange[i][j].need \ {o}))
  /\ UNCHANGED <<controls, events>>

(* rpc(Command::Inventory) at the peer.                                    *)
Ask(i, j) ==
  /\ At(i, j, "ask")
  /\ Authorizes(j, i)
  /\ Say(i, j, Talk("accept", Inventory(j), {}))
  /\ NoCommit /\ UNCHANGED <<controls, events>>

AfterInventory(need) ==
  IF need # {} THEN Talk("fetch", Nil, need) ELSE Nil

(* The peer's inventory is offered to the own coordinator.                 *)
TakeInventory(i, j) ==
  /\ At(i, j, "accept")
  /\ Authorizes(i, j)
  /\ Offer(i, exchange[i][j].meta)
  /\ Say(i, j, AfterInventory(Need(i, exchange[i][j].meta)))
  /\ UNCHANGED <<controls, events>>

(* One needed object is fetched and received.                              *)
Fetch(i, j) ==
  /\ At(i, j, "fetch")
  /\ \E o \in exchange[i][j].need :
     /\ Receives(i, j, o) /\ Serves(j, i, o)
     /\ Receive(i, o)
     /\ Say(i, j, AfterInventory(exchange[i][j].need \ {o}))
  /\ UNCHANGED <<controls, events>>

(* One of the two sides refuses the request that is next.                  *)
Refused(i, j) ==
  \/ (At(i, j, "offer") \/ At(i, j, "ask")) /\ ~Authorizes(j, i)
  \/ At(i, j, "accept") /\ ~Authorizes(i, j)
  \/ At(i, j, "put") /\ \E o \in exchange[i][j].need : ~(Serves(i, j, o) /\ Receives(j, i, o))
  \/ At(i, j, "fetch") /\ \E o \in exchange[i][j].need : ~(Receives(i, j, o) /\ Serves(j, i, o))

(* An error ends the conversation; what has been received stays.           *)
EndRefused(i, j) ==
  /\ Refused(i, j)
  /\ Say(i, j, Nil)
  /\ NoCommit /\ UNCHANGED <<controls, events>>

(* The connection fails, or the request times out, before or after its     *)
(* effect.                                                                 *)
Break(i, j) ==
  /\ ~Idle(i, j)
  /\ events < MaxEvents
  /\ events' = events + 1
  /\ Say(i, j, Nil)
  /\ NoCommit /\ UNCHANGED <<controls>>

ExchangeStep(i, j) ==
  \/ OfferTo(i, j) \/ Put(i, j) \/ Ask(i, j) \/ TakeInventory(i, j) \/ Fetch(i, j)
  \/ EndRefused(i, j)

=============================================================================
