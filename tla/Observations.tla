---------------------------- MODULE Observations ----------------------------
(***************************************************************************)
(* The live transport facts of an endpoint (taypeer-sync observation.rs):  *)
(* for every database, of one peer, whether a connection is authorized now *)
(* and how far the latest attempt is.  Tasks of Node (exchange, request    *)
(* and inbound connections) hold an Attempt and a guard of its connection; *)
(* each call takes the lock for itself, tasks are cancelled anywhere, and  *)
(* guards drop after the database was forgotten or the endpoint closed.    *)
(***************************************************************************)
EXTENDS Naturals, Sequences

CONSTANTS
  Databases,
  Inbound,       \* inbound connections
  Nil,
  MaxAttempts,   \* bound: attempts begun
  MaxForgets     \* bound: databases forgotten

VARIABLES
  closed,        \* State::closed
  peers,         \* State::peers: the entry of each database, or None
  tasks,         \* the attempt of each generation; State::next is the last one
  inbound,       \* InboundObservation of each inbound connection
  forgets        \* history: how often each database was forgotten

observationVars == <<closed, peers, tasks, inbound, forgets>>

ObservationsInit ==
  /\ closed = FALSE
  /\ peers = [d \in Databases |-> Nil]
  /\ tasks = <<>>
  /\ inbound = [c \in Inbound |-> [state |-> "open", failed |-> {}]]
  /\ forgets = [d \in Databases |-> 0]

-----------------------------------------------------------------------------
(* The locked operations, on the value p of peers.                         *)

(* Observations::begin: a missing entry starts to count from here.         *)
Entered(p, d, t) ==
  [p EXCEPT ![d] =
     IF @ = Nil
     THEN [since |-> t, generation |-> t, phase |-> "waiting", connections |-> {}]
     ELSE [@ EXCEPT !.generation = t, !.phase = "waiting"]]

(* Attempt::phase                                                          *)
Told(p, d, t, phase) ==
  IF p[d] # Nil /\ p[d].generation = t THEN [p EXCEPT ![d].phase = phase] ELSE p

(* Mutant of Joined: an attempt from before the database was forgotten     *)
(* counts in its new entry.                                                *)
JoinedLate(p, d, t) == IF p[d] = Nil THEN p ELSE [p EXCEPT ![d].connections = @ \cup {t}]

(* Attempt::authorized                                                     *)
Joined(p, d, t) ==
  IF p[d] # Nil /\ t >= p[d].since THEN [p EXCEPT ![d].connections = @ \cup {t}] ELSE p

(* Drop of ConnectionObservation                                           *)
Left(p, d, t) == IF p[d] # Nil THEN [p EXCEPT ![d].connections = @ \ {t}] ELSE p

-----------------------------------------------------------------------------
(* Tasks.  An attempt remembers what it reported last and, as history, in  *)
(* which life of its database it began.                                    *)

Task(d, via, at, guard, phase) ==
  [database |-> d, via |-> via, at |-> at, guard |-> guard, phase |-> phase, life |-> forgets[d]]

CanBegin == ~closed /\ Len(tasks) < MaxAttempts
Outbound(t) == tasks[t].via \in {"exchange", "request"}

(* Node::exchange waits for the gate of its database and peer.             *)
Gated(t) ==
  tasks[t].via = "exchange" =>
    \A u \in DOMAIN tasks :
      u # t /\ tasks[u].via = "exchange" /\ tasks[u].database = tasks[t].database =>
        tasks[u].at \in {"waiting", "ended"}

Begin(d, via) ==
  /\ CanBegin
  /\ tasks' = Append(tasks, Task(d, via, "waiting", FALSE, "waiting"))
  /\ peers' = Entered(peers, d, Len(tasks) + 1)
  /\ UNCHANGED <<closed, inbound, forgets>>

Moves(t, at, guard, phase) ==
  tasks' = [tasks EXCEPT ![t].at = at, ![t].guard = guard, ![t].phase = phase]

Connect(t) ==
  /\ Outbound(t) /\ tasks[t].at = "waiting" /\ Gated(t)
  /\ Moves(t, "connecting", FALSE, "connecting")
  /\ peers' = Told(peers, tasks[t].database, t, "connecting")
  /\ UNCHANGED <<closed, inbound, forgets>>

(* exchange_connected and request: the peer is authorized.                 *)
Authorize(t) ==
  /\ Outbound(t) /\ tasks[t].at = "connecting"
  /\ Moves(t, "connected", TRUE, "transferring")
  /\ LET d == tasks[t].database IN
     peers' = Told(Joined(peers, d, t), d, t, "transferring")
  /\ UNCHANGED <<closed, inbound, forgets>>

(* The end of an outbound task, in the order of its drops: the guard and   *)
(* then the attempt, finished or cancelled.                                *)
Outcomes == {"completed", "failed", "cancelled"}

EndOutbound(t, outcome) ==
  /\ Outbound(t)
  /\ \/ tasks[t].at = "connected"
     \/ tasks[t].at = "connecting" /\ outcome # "completed"
     \/ tasks[t].at = "waiting" /\ outcome = "cancelled"
  /\ Moves(t, outcome, FALSE, tasks[t].phase)
  /\ peers' = IF tasks[t].guard THEN Left(peers, tasks[t].database, t) ELSE peers
  /\ UNCHANGED <<closed, inbound, forgets>>

Settle(t) ==
  /\ tasks[t].at \in Outcomes
  /\ Moves(t, IF Outbound(t) THEN "ended" ELSE "settled", tasks[t].guard, tasks[t].at)
  /\ peers' = Told(peers, tasks[t].database, t, tasks[t].at)
  /\ UNCHANGED <<closed, inbound, forgets>>

-----------------------------------------------------------------------------
(* InboundObservation of connection c: one attempt per database it used.   *)

Of(c) == {t \in DOMAIN tasks : tasks[t].via = c}

(* authorized after a successful command, fetch or put; begin and          *)
(* authorized take the lock one after the other.                           *)
Receive(c, d) ==
  /\ inbound[c].state = "open" /\ CanBegin
  /\ \A t \in Of(c) : tasks[t].database # d
  /\ tasks' = Append(tasks, Task(d, c, "begun", FALSE, "waiting"))
  /\ peers' = Entered(peers, d, Len(tasks) + 1)
  /\ inbound' = [inbound EXCEPT ![c].state = "joining"]
  /\ UNCHANGED <<closed, forgets>>

ReceiveJoins(c, t) ==
  /\ t \in Of(c) /\ tasks[t].at = "begun"
  /\ Moves(t, "connected", TRUE, "transferring")
  /\ LET d == tasks[t].database IN
     peers' = Told(Joined(peers, d, t), d, t, "transferring")
  /\ inbound' = [inbound EXCEPT ![c].state = "open"]
  /\ UNCHANGED <<closed, forgets>>

ReceiveFails(c, d) ==
  /\ inbound[c].state = "open"
  /\ d \notin inbound[c].failed
  /\ \E t \in Of(c) : tasks[t].database = d
  /\ inbound' = [inbound EXCEPT ![c].failed = @ \cup {d}]
  /\ UNCHANGED <<closed, peers, tasks, forgets>>

(* serve ends the connection and settles its attempts one by one; an       *)
(* aborted handler drops them.                                             *)
InboundOutcome(c, t, outcome) ==
  IF outcome = "completed" /\ tasks[t].database \in inbound[c].failed THEN "failed" ELSE outcome

EndInbound(c, outcome) ==
  /\ inbound[c].state = "open"
  /\ inbound' = [inbound EXCEPT ![c].state = "ended"]
  /\ tasks' = [t \in DOMAIN tasks |->
       IF t \in Of(c) THEN [tasks[t] EXCEPT !.at = InboundOutcome(c, t, outcome)] ELSE tasks[t]]
  /\ UNCHANGED <<closed, peers, forgets>>

(* After finish or the drop of an attempt its connection guard drops.      *)
DropGuard(t) ==
  /\ tasks[t].at = "settled"
  /\ Moves(t, "ended", FALSE, tasks[t].phase)
  /\ peers' = Left(peers, tasks[t].database, t)
  /\ UNCHANGED <<closed, inbound, forgets>>

-----------------------------------------------------------------------------
(* Observations::forget                                                    *)
Forget(d) ==
  /\ forgets[d] < MaxForgets
  /\ peers' = [peers EXCEPT ![d] = Nil]
  /\ forgets' = [forgets EXCEPT ![d] = @ + 1]
  /\ UNCHANGED <<closed, tasks, inbound>>

(* Observations::close                                                     *)
CloseEndpoint ==
  /\ ~closed
  /\ closed' = TRUE
  /\ peers' = [d \in Databases |-> Nil]
  /\ UNCHANGED <<tasks, inbound, forgets>>

ObservationsNext ==
  \/ \E d \in Databases, via \in {"exchange", "request"} : Begin(d, via)
  \/ \E t \in DOMAIN tasks : Connect(t) \/ Authorize(t) \/ Settle(t) \/ DropGuard(t)
  \/ \E t \in DOMAIN tasks, outcome \in Outcomes : EndOutbound(t, outcome)
  \/ \E c \in Inbound, d \in Databases : Receive(c, d) \/ ReceiveFails(c, d)
  \/ \E c \in Inbound, t \in DOMAIN tasks : ReceiveJoins(c, t)
  \/ \E c \in Inbound, outcome \in Outcomes : EndInbound(c, outcome)
  \/ \E d \in Databases : Forget(d)
  \/ CloseEndpoint

ObservationsSpec == ObservationsInit /\ [][ObservationsNext]_observationVars

-----------------------------------------------------------------------------
(* Properties.                                                             *)

(* A database is shown as connected exactly while a guard of an attempt    *)
(* lives that began after the database was last forgotten: late guards     *)
(* neither invent a connection nor hide or end another one.                *)
Live(d) == {t \in DOMAIN tasks :
              tasks[t].guard /\ tasks[t].database = d /\ tasks[t].life = forgets[d]}
PresenceIsLive ==
  \A d \in Databases :
    (IF peers[d] = Nil THEN {} ELSE peers[d].connections) = (IF closed THEN {} ELSE Live(d))

(* The phase shown is what the latest attempt of this life reported last,  *)
(* however late older attempts finish or are cancelled.                    *)
Began(d) == {t \in DOMAIN tasks : tasks[t].database = d /\ tasks[t].life = forgets[d]}
PhaseIsLatest ==
  \A d \in Databases : peers[d] # Nil =>
    \E t \in Began(d) : (\A u \in Began(d) : u <= t) /\ peers[d].phase = tasks[t].phase

ObservationsSound == PresenceIsLive /\ PhaseIsLatest
=============================================================================
