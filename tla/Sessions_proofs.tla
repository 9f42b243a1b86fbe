--------------------------- MODULE Sessions_proofs ----------------------------
(***************************************************************************)
(* A session that reports its draft as preserved has every input on disk   *)
(* that a caller was told of, for any number of sessions, requests and     *)
(* inputs, and however the process, its pipe, the callers and the          *)
(* supervisor race.                                                        *)
(*                                                                         *)
(* Sound ties the pipe to what the child is doing (Pipe), the supervisor's *)
(* acknowledgment to the disk (Durable), and, while access is permitted,   *)
(* each answer to the request it belongs to (Counted).                     *)
(*                                                                         *)
(* At the end: FileSound for every number of edits, files and foreign      *)
(* copies of the standalone file store.                                    *)
(***************************************************************************)
EXTENDS Sessions, FileStore, TLAPS

Phases == {None, "Opening", "Open", "Closing", "Closed", "Dropped"}
Requests == {"boot", "input", "save", "read"}
Answers == {"ok", "service"}
Words == Requests \cup Answers \cup
  {"Opening", "Open", "Closing", "Closed", "Dropped", "error", "transport", "Lock", "done",
   "refused", "commit", "draft", "sending", "waiting", "user", "apply"}
Distinct == None \notin Words

Outcomes == [termination : {"Forced", "Graceful", "Exited"},
             draft : {"Preserved", "Failed", "Unconfirmed"}]
Controls == [phase : Phases, late : BOOLEAN, sent : BOOLEAN, killed : BOOLEAN,
             ack : Answers \cup {None, "transport"}, outcome : Outcomes \cup {None}]
Children == [alive : BOOLEAN, memory : Nat, doing : {None, "save", "Lock"}]
Actors == [at : {"idle", "request", "committing", "close", "drafting", "done"},
           for : Clients \cup {None}]
Jobs == {<<>>, <<"Close">>} \cup {<<c>> : c \in Clients}
Calls == {NoCall} \cup [kind : Requests, at : {"sending", "waiting"},
                        reply : Answers \cup {None, "error"}]

TypeOK ==
  /\ control \in [Sessions -> Controls]
  /\ jobs \in [Sessions -> Jobs]
  /\ actor \in [Sessions -> Actors]
  /\ child \in [Sessions -> Children]
  /\ input \in [Sessions -> Requests \cup {None, "Lock", "done", "refused"}]
  /\ output \in [Sessions -> Answers \cup {None, "commit", "draft"}]
  /\ callers \in [Sessions -> [Clients -> Calls]]
  /\ durable \in [Sessions -> Nat]
  /\ told \in [Sessions -> Nat]

Live(s) == control[s].phase \in {"Opening", "Open"}
Queued(s, j) == jobs[s] # <<>> /\ jobs[s][1] = j
Serves(s) == actor[s].at \in {"request", "committing"}

(* Before it is connected a session has nothing.                           *)
Fresh(s) ==
  control[s].phase = None =>
    /\ jobs[s] = <<>> /\ actor[s].at = "idle" /\ input[s] = None /\ child[s].doing = None
    /\ \A c \in Clients : callers[s][c] = NoCall

(* A process is asked to close only after access was revoked.              *)
Revokes(s) ==
  Queued(s, "Close") \/ actor[s].at \in {"close", "drafting"} \/ control[s].ack # None =>
    control[s].phase \notin {None, "Opening", "Open"}

(* Where a request, and the closing, stand between the actor and the       *)
(* child: one message at a time.                                           *)
Pipe(s) ==
  /\ IF Serves(s) THEN actor[s].for \in Clients ELSE actor[s].for = None
  /\ actor[s].at = "idle" =>
       output[s] = None /\ (child[s].alive => input[s] = None /\ child[s].doing = None)
  /\ actor[s].at = "request" =>
       \/ input[s] \in Requests /\ output[s] = None /\ child[s].doing = None
       \/ input[s] = None /\ output[s] = "commit" /\ child[s].doing = "save"
       \/ input[s] \in {"done", "refused"} /\ output[s] = None /\ child[s].doing = "save"
       \/ input[s] = None /\ output[s] \in Answers /\ child[s].doing = None
  /\ actor[s].at = "committing" =>
       input[s] = None /\ output[s] = None /\ child[s].doing = "save"
  /\ actor[s].at = "close" =>
       \/ input[s] = "Lock" /\ output[s] = None /\ child[s].doing = None
       \/ input[s] = None /\ output[s] = "draft" /\ child[s].doing = "Lock"
       \/ input[s] \in {"done", "refused"} /\ output[s] = None /\ child[s].doing = "Lock"
       \/ input[s] = None /\ output[s] \in Answers /\ child[s].doing = None
  /\ actor[s].at = "drafting" =>
       input[s] = None /\ output[s] = None /\ child[s].doing = "Lock"

(* A process that was asked to close answers "ok" when all it has is on    *)
(* disk, and nothing changes after its answer was read.                    *)
Durable(s) ==
  /\ actor[s].at = "close" /\ (input[s] = "done" \/ output[s] = "ok") =>
       durable[s] = child[s].memory
  /\ control[s].ack # None => actor[s].at = "done"
  /\ control[s].ack = "ok" => durable[s] >= told[s]
  /\ control[s].outcome # None /\ control[s].outcome.draft = "Preserved" =>
       control[s].ack = "ok"

(* While access is permitted an answer reaches the caller that asked, so   *)
(* an accepted input that a caller is still to be told of is in memory.    *)
Asked(s, c) == callers[s][c].at = "waiting" /\ callers[s][c].reply = None
Answering(s) ==
  LET c == actor[s].for IN
  Serves(s) =>
    /\ c \in Clients /\ Asked(s, c)
    /\ child[s].doing # None => callers[s][c].kind = "save"
    /\ input[s] \in Requests => callers[s][c].kind = input[s]
    /\ output[s] = "ok" /\ callers[s][c].kind = "input" => told[s] + 1 <= child[s].memory
Counted(s) ==
  /\ told[s] <= child[s].memory
  /\ callers[s]["apply"].kind \in {None, "read"}
  /\ Live(s) =>
       /\ \A c \in Clients :
            /\ control[s].phase = "Opening" /\ callers[s][c] # NoCall =>
                 callers[s][c].kind = "boot"
            /\ Queued(s, c) => Asked(s, c) /\ actor[s].for # c
            /\ callers[s][c].at = "sending" => callers[s][c].reply = None
            /\ callers[s][c].kind = "input" /\ callers[s][c].reply = "ok" =>
                 told[s] + 1 <= child[s].memory
       /\ Answering(s)

Sound(s) == Fresh(s) /\ Revokes(s) /\ Pipe(s) /\ Durable(s) /\ Counted(s)
Inv == TypeOK /\ \A s \in Sessions : Sound(s)

-----------------------------------------------------------------------------
(* A session that a step does not touch.                                   *)
Untouched(s) ==
  /\ control'[s] = control[s] /\ jobs'[s] = jobs[s] /\ actor'[s] = actor[s]
  /\ child'[s] = child[s] /\ input'[s] = input[s] /\ output'[s] = output[s]
  /\ callers'[s] = callers[s] /\ durable'[s] = durable[s] /\ told'[s] = told[s]

LEMMA Frame == ASSUME NEW s, Sound(s), Untouched(s) PROVE Sound(s)'
<1>1. Fresh(s)' /\ Revokes(s)'
  BY DEF Sound, Untouched, Fresh, Revokes, Queued
<1>2. Pipe(s)' /\ Durable(s)'
  BY DEF Sound, Untouched, Pipe, Serves, Durable
<1>3. Counted(s)'
  BY DEF Sound, Untouched, Counted, Live, Queued, Asked, Answering, Serves
<1>4. QED
  BY <1>1, <1>2, <1>3 DEF Sound

LEMMA OneSession ==
  ASSUME Inv, NEW s \in Sessions, TypeOK', Sound(s)',
         \A r \in Sessions : r # s => Untouched(r)
  PROVE  Inv'
<1>1. ASSUME NEW r \in Sessions, r # s PROVE Sound(r)'
  BY <1>1, Frame DEF Inv
<1>2. QED
  BY <1>1 DEF Inv

(* Revoking access takes nothing away from what holds.                     *)
LEMMA RevokeSound ==
  ASSUME Distinct, TypeOK, NEW s \in Sessions, Sound(s),
         jobs'[s] = jobs[s], actor'[s] = actor[s], child'[s] = child[s],
         input'[s] = input[s], output'[s] = output[s], callers'[s] = callers[s],
         durable'[s] = durable[s], told'[s] = told[s],
         \/ control'[s].phase = control[s].phase
         \/ /\ control[s].phase # None
            /\ control'[s].phase \in Phases \ {None, "Opening", "Open"},
         control'[s].ack = control[s].ack, control'[s].outcome = control[s].outcome
  PROVE  Sound(s)'
<1>1. Fresh(s)' /\ Revokes(s)'
  BY DEF Sound, Fresh, Revokes, Queued
<1>2. Pipe(s)' /\ Durable(s)'
  BY DEF Sound, Pipe, Serves, Durable
<1>3. Counted(s)'
  BY DEF Sound, Counted, Live, Queued, Asked, Answering, Serves
<1>4. QED
  BY <1>1, <1>2, <1>3 DEF Sound

Rest == <<jobs, actor, child, input, output, callers, durable, told>>

LEMMA RevokedControl ==
  ASSUME Distinct, NEW c \in Controls
  PROVE  /\ Revoked(c) \in Controls
         /\ \/ Revoked(c).phase = c.phase
            \/ c.phase # None /\ Revoked(c).phase \in Phases \ {None, "Opening", "Open"}
         /\ Revoked(c).ack = c.ack /\ Revoked(c).outcome = c.outcome
         /\ Revoked(c).phase \notin {"Opening", "Open"}
<1>1. CASE c.phase \in {"Opening", "Open"}
  BY <1>1 DEF Revoked, Controls, Phases, Distinct, Words, Requests, Answers
<1>2. CASE c.phase \notin {"Opening", "Open"}
  BY <1>2 DEF Revoked
<1>3. QED
  BY <1>1, <1>2

(* The steps that only revoke access, in one session or in all.            *)
LEMMA RevokingInv ==
  ASSUME Distinct, Inv, UNCHANGED Rest, control' \in [Sessions -> Controls],
         \A s \in Sessions : \/ control'[s] = control[s]
                             \/ control'[s] = Revoked(control[s])
                             \/ control'[s] = [control[s] EXCEPT !.late = TRUE]
  PROVE  Inv'
<1>1. TypeOK'
  BY DEF Inv, TypeOK, Rest
<1>2. ASSUME NEW s \in Sessions PROVE Sound(s)'
  <2>1. TypeOK /\ Sound(s) /\ control[s] \in Controls
    BY DEF Inv, TypeOK
  <2>2. /\ jobs'[s] = jobs[s] /\ actor'[s] = actor[s] /\ child'[s] = child[s]
        /\ input'[s] = input[s] /\ output'[s] = output[s] /\ callers'[s] = callers[s]
        /\ durable'[s] = durable[s] /\ told'[s] = told[s]
    BY DEF Rest
  <2>3. /\ \/ control'[s].phase = control[s].phase
           \/ /\ control[s].phase # None
              /\ control'[s].phase \in Phases \ {None, "Opening", "Open"}
        /\ control'[s].ack = control[s].ack /\ control'[s].outcome = control[s].outcome
    <3>1. CASE control'[s] = control[s]
      BY <3>1
    <3>2. CASE control'[s] = Revoked(control[s])
      BY <2>1, <3>2, RevokedControl
    <3>3. CASE control'[s] = [control[s] EXCEPT !.late = TRUE]
      BY <2>1, <3>3 DEF Controls
    <3>4. QED
      BY <3>1, <3>2, <3>3
  <2>4. QED
    BY <2>1, <2>2, <2>3, RevokeSound
<1>3. QED
  BY <1>1, <1>2 DEF Inv

LEMMA RevokeStep ==
  ASSUME Distinct, Inv,
         \/ Expire \/ Inactive \/ LockAll \/ Stop
         \/ \E s \in Sessions : Close(s) \/ DropWorker(s) \/ PollFails(s) \/ GraceEnds(s)
  PROVE  Inv'
<1>0. control \in [Sessions -> Controls]
  BY DEF Inv, TypeOK
<1>1. CASE Inactive
  BY <1>0, <1>1, RevokingInv DEF Inactive, Rest
<1>2. CASE Expire \/ LockAll \/ Stop
  <2>1. UNCHANGED Rest /\ control' = [s \in Sessions |-> Revoked(control[s])]
    BY <1>2 DEF Expire, LockAll, Stop, RevokeAll, Rest
  <2>2. control' \in [Sessions -> Controls]
    BY <1>0, <2>1, RevokedControl
  <2>3. \A s \in Sessions : control'[s] = Revoked(control[s])
    BY <2>1
  <2>4. QED
    BY <2>1, <2>2, <2>3, RevokingInv
<1>3. CASE \E s \in Sessions : Close(s) \/ DropWorker(s) \/ PollFails(s)
  <2>1. PICK s \in Sessions : UNCHANGED Rest /\ control' = [control EXCEPT ![s] = Revoked(@)]
    BY <1>3 DEF Close, DropWorker, PollFails, Rest
  <2>2. control' \in [Sessions -> Controls]
    BY <1>0, <2>1, RevokedControl
  <2>3. \A r \in Sessions : control'[r] = control[r] \/ control'[r] = Revoked(control[r])
    BY <1>0, <2>1
  <2>4. QED
    BY <2>1, <2>2, <2>3, RevokingInv
<1>4. CASE \E s \in Sessions : GraceEnds(s)
  <2>1. PICK s \in Sessions : UNCHANGED Rest /\ control' = [control EXCEPT ![s].late = TRUE]
    BY <1>4 DEF GraceEnds, Rest
  <2>2. control[s] \in Controls
    BY <1>0
  <2>3. [control[s] EXCEPT !.late = TRUE] \in Controls
    BY <2>2 DEF Controls
  <2>4. control' = [control EXCEPT ![s] = [control[s] EXCEPT !.late = TRUE]]
    BY <1>0, <2>1
  <2>5. control' \in [Sessions -> Controls]
    BY <1>0, <2>3, <2>4
  <2>6. \A r \in Sessions :
          control'[r] = control[r] \/ control'[r] = [control[r] EXCEPT !.late = TRUE]
    BY <1>0, <2>4
  <2>7. QED
    BY <2>1, <2>5, <2>6, RevokingInv
<1>5. QED
  BY <1>1, <1>2, <1>3, <1>4

-----------------------------------------------------------------------------
(* Connecting and the callers.                                             *)
LEMMA ConnectInv == ASSUME Distinct, Inv, NEW s \in Sessions, Connect(s) PROVE Inv'
<1> DEFINE boot == [kind |-> "boot", at |-> "sending", reply |-> None]
<1>1. TypeOK /\ Sound(s) /\ control[s].phase = None
  BY DEF Inv, Connect
<1>2. /\ jobs' = jobs /\ actor' = actor /\ input' = input /\ output' = output
      /\ durable' = durable /\ told' = told
  BY DEF Connect
<1>3. /\ control' = [control EXCEPT ![s] = [control[s] EXCEPT !.phase = "Opening"]]
      /\ child' = [child EXCEPT ![s] = [child[s] EXCEPT !.alive = TRUE]]
      /\ callers' = [callers EXCEPT ![s] = [callers[s] EXCEPT !["user"] = boot]]
  BY <1>1 DEF Connect, TypeOK
<1>4. /\ control[s] \in Controls /\ child[s] \in Children /\ callers[s] \in [Clients -> Calls]
  BY <1>1 DEF TypeOK
<1>5. /\ control'[s] \in Controls /\ control'[s].phase = "Opening"
      /\ control'[s].ack = control[s].ack /\ control'[s].outcome = control[s].outcome
  BY <1>1, <1>3, <1>4 DEF TypeOK, Controls, Phases
<1>6. /\ child'[s] \in Children /\ child'[s].memory = child[s].memory
      /\ child'[s].doing = child[s].doing
  BY <1>1, <1>3, <1>4 DEF TypeOK, Children
<1>7. /\ callers'[s] \in [Clients -> Calls] /\ callers'[s]["user"] = boot
      /\ callers'[s]["apply"] = callers[s]["apply"]
  BY <1>1, <1>3, <1>4 DEF TypeOK, Calls, Clients, Requests
<1>8. TypeOK'
  BY <1>1, <1>2, <1>3, <1>5, <1>6, <1>7 DEF TypeOK
<1>9. /\ jobs[s] = <<>> /\ actor[s].at = "idle" /\ input[s] = None /\ child[s].doing = None
      /\ callers[s]["apply"] = NoCall /\ callers[s]["user"] = NoCall
  BY <1>1 DEF Sound, Fresh, Clients
<1>10. Fresh(s)' /\ Revokes(s)' /\ Pipe(s)' /\ Durable(s)'
  <2>1. Fresh(s)'
    <3>1. None # "Opening"
      BY DEF Distinct, Words, Requests, Answers
    <3>2. QED
      BY <1>5, <3>1 DEF Fresh
  <2>2. Revokes(s)'
    BY <1>1, <1>2, <1>5, <1>9 DEF Sound, Revokes, Queued
  <2>3. Pipe(s)'
    BY <1>1, <1>2, <1>6, <1>9 DEF Sound, Pipe, Serves
  <2>4. Durable(s)'
    BY <1>1, <1>2, <1>5, <1>6 DEF Sound, Durable
  <2>5. QED
    BY <2>1, <2>2, <2>3, <2>4
<1>11. Counted(s)'
  <2>1. \A c \in Clients : ~Queued(s, c)'
    BY <1>2, <1>9 DEF Queued
  <2>2. ~Serves(s)'
    BY <1>2, <1>9 DEF Serves
  <2>3. \A c \in Clients : callers'[s][c] \in {NoCall, boot}
    BY <1>7, <1>9 DEF Clients
  <2>4. told'[s] <= child'[s].memory /\ callers'[s]["apply"].kind = None
    BY <1>1, <1>2, <1>6, <1>7, <1>9 DEF Sound, Counted, NoCall
  <2>5. QED
    BY <2>1, <2>2, <2>3, <2>4 DEF Counted, Answering, NoCall, Distinct, Words, Requests, Answers
<1>12. \A r \in Sessions : r # s => Untouched(r)
  BY <1>1, <1>2, <1>3 DEF Untouched, TypeOK
<1>13. QED
  BY <1>8, <1>10, <1>11, <1>12, OneSession DEF Sound

(* A step of the callers alone.                                            *)
LEMMA CallersStep ==
  ASSUME Inv, NEW s \in Sessions, NEW c \in Clients, NEW call \in Calls,
         control[s].phase # None,
         callers' = [callers EXCEPT ![s][c] = call],
         UNCHANGED <<control, jobs, actor, child, input, output, durable, told>>,
         Counted(s)'
  PROVE  Inv'
<1>1. TypeOK /\ Sound(s) /\ callers[s] \in [Clients -> Calls]
  BY DEF Inv, TypeOK
<1>2. callers' = [callers EXCEPT ![s] = [callers[s] EXCEPT ![c] = call]]
  BY <1>1 DEF TypeOK
<1>3. callers'[s] \in [Clients -> Calls]
  BY <1>1, <1>2 DEF TypeOK
<1>4. TypeOK'
  BY <1>1, <1>2, <1>3 DEF TypeOK
<1>5. Fresh(s)' /\ Revokes(s)' /\ Pipe(s)' /\ Durable(s)'
  BY <1>1 DEF Sound, Fresh, Revokes, Queued, Pipe, Serves, Durable
<1>6. \A r \in Sessions : r # s => Untouched(r)
  BY <1>1, <1>2 DEF Untouched, TypeOK
<1>7. QED
  BY <1>4, <1>5, <1>6, OneSession DEF Sound

LEMMA RequestInv ==
  ASSUME Distinct, Inv, NEW s \in Sessions, NEW c \in Clients, Request(s, c) PROVE Inv'
<1>1. TypeOK /\ Sound(s) /\ callers[s] \in [Clients -> Calls]
  BY DEF Inv, TypeOK
<1>2. /\ callers[s][c] = NoCall /\ control[s].phase = "Open"
      /\ UNCHANGED <<control, jobs, actor, child, input, output, durable, told>>
  BY DEF Request, Permits
<1>3. PICK k \in Kinds(c) :
        callers' = [callers EXCEPT ![s][c] = [kind |-> k, at |-> "sending", reply |-> None]]
  BY DEF Request
<1> DEFINE call == [kind |-> k, at |-> "sending", reply |-> None]
<1>4. call \in Calls /\ call.kind = k /\ call.at = "sending" /\ call.reply = None
  BY DEF Kinds, Calls, Requests
<1>5. callers' = [callers EXCEPT ![s][c] = call]
  BY <1>3
<1> HIDE DEF call
<1>6. /\ callers'[s][c] = call
      /\ \A x \in Clients : x # c => callers'[s][x] = callers[s][x]
  BY <1>1, <1>5 DEF TypeOK
<1>7. c = "apply" => k = "read"
  BY DEF Kinds
<1>8. Counted(s) /\ Live(s) /\ control[s].phase # "Opening" /\ control[s].phase # None
  BY <1>1, <1>2 DEF Sound, Live, Distinct, Words
<1>9. ~Asked(s, c)
  BY <1>2 DEF Asked, NoCall, Distinct, Words
<1>10. \A x \in Clients :
         /\ Queued(s, x)' => Asked(s, x)' /\ actor'[s].for # x
         /\ callers'[s][x].at = "sending" => callers'[s][x].reply = None
         /\ callers'[s][x].kind = "input" /\ callers'[s][x].reply = "ok" =>
              told'[s] + 1 <= child'[s].memory
  <2>1. \A x \in Clients : Queued(s, x)' => x # c /\ Queued(s, x)
    BY <1>2, <1>8, <1>9 DEF Counted, Queued
  <2>2. None # "ok"
    BY DEF Distinct, Words, Answers
  <2>3. QED
    BY <1>2, <1>4, <1>6, <1>8, <2>1, <2>2 DEF Counted, Asked
<1>11. Answering(s)'
  <2>1. Serves(s) => actor[s].for # c
    BY <1>8, <1>9 DEF Counted, Answering
  <2>2. QED
    BY <1>2, <1>6, <1>8, <2>1 DEF Counted, Answering, Serves, Asked
<1>12. Counted(s)'
  <2>1. callers'[s]["apply"].kind \in {None, "read"}
    BY <1>4, <1>6, <1>7, <1>8 DEF Counted, Clients
  <2>2. QED
    BY <1>2, <1>8, <1>10, <1>11, <2>1 DEF Counted
<1>13. QED
  BY <1>2, <1>4, <1>5, <1>8, <1>12, CallersStep

LEMMA InterruptedInv ==
  ASSUME Distinct, Inv, NEW s \in Sessions, NEW c \in Clients, Interrupted(s, c) PROVE Inv'
<1>1. TypeOK /\ Sound(s) /\ callers[s] \in [Clients -> Calls]
  BY DEF Inv, TypeOK
<1>2. /\ callers[s][c].at \in {"sending", "waiting"} /\ ~Permits(s, Opening(s, c)) /\ ~Due
      /\ callers' = [callers EXCEPT ![s][c] = NoCall]
      /\ UNCHANGED <<control, jobs, actor, child, input, output, durable, told>>
  BY DEF Interrupted
<1>3. callers[s][c] # NoCall
  BY <1>2 DEF NoCall, Distinct, Words
<1>4. ~Live(s)
  BY <1>1, <1>2, <1>3 DEF Live, Permits, Opening, Sound, Counted
<1>5. control[s].phase # None
  BY <1>1, <1>3 DEF Sound, Fresh
<1>6. Counted(s)'
  <2>1. callers'[s]["apply"].kind \in {None, "read"}
    BY <1>1, <1>2 DEF Sound, Counted, TypeOK, NoCall, Clients
  <2>2. ~Live(s)' /\ told'[s] <= child'[s].memory
    BY <1>1, <1>2, <1>4 DEF Live, Sound, Counted
  <2>3. QED
    BY <2>1, <2>2 DEF Counted
<1>7. NoCall \in Calls
  BY DEF Calls
<1>8. QED
  BY <1>2, <1>5, <1>6, <1>7, CallersStep

LEMMA SendInv ==
  ASSUME Distinct, Inv, NEW s \in Sessions, NEW c \in Clients, Send(s, c) PROVE Inv'
<1> DEFINE call == [callers[s][c] EXCEPT !.at = "waiting"]
<1>1. TypeOK /\ Sound(s) /\ callers[s] \in [Clients -> Calls]
  BY DEF Inv, TypeOK
<1>2. /\ callers[s][c].at = "sending" /\ jobs[s] = <<>> /\ Permits(s, Opening(s, c))
      /\ jobs' = [jobs EXCEPT ![s] = <<c>>] /\ callers' = [callers EXCEPT ![s][c] = call]
      /\ UNCHANGED <<control, actor, child, input, output, durable, told>>
  BY DEF Send
<1>3. Live(s) /\ control[s].phase # None
  BY <1>2 DEF Live, Permits, Distinct, Words
<1>4. callers[s][c].reply = None /\ callers[s][c] # NoCall
  BY <1>1, <1>2, <1>3 DEF Sound, Counted, NoCall, Distinct, Words
<1>5. /\ call \in Calls /\ call.at = "waiting" /\ call.reply = None
      /\ call.kind = callers[s][c].kind
  BY <1>1, <1>4 DEF Calls
<1> HIDE DEF call
<1>6. /\ callers'[s] = [callers[s] EXCEPT ![c] = call] /\ jobs'[s] = <<c>>
      /\ \A r \in Sessions : r # s => callers'[r] = callers[r] /\ jobs'[r] = jobs[r]
  BY <1>1, <1>2 DEF TypeOK
<1>7. /\ callers'[s] \in [Clients -> Calls] /\ callers'[s][c] = call
      /\ \A x \in Clients : x # c => callers'[s][x] = callers[s][x]
  BY <1>1, <1>5, <1>6
<1>8. TypeOK'
  <2>1. <<c>> \in Jobs
    BY DEF Jobs
  <2>2. QED
    BY <1>1, <1>2, <1>6, <1>7, <2>1 DEF TypeOK
<1>9. \A x : Queued(s, x)' => x = c
  BY <1>6 DEF Queued
<1>10. Fresh(s)' /\ Revokes(s)' /\ Pipe(s)' /\ Durable(s)'
  <2>1. c # "Close"
    BY DEF Clients
  <2>2. Fresh(s)'
    BY <1>2, <1>3 DEF Fresh
  <2>3. Revokes(s)'
    BY <1>1, <1>2, <1>9, <2>1 DEF Sound, Revokes
  <2>4. Pipe(s)' /\ Durable(s)'
    BY <1>1, <1>2 DEF Sound, Pipe, Serves, Durable
  <2>5. QED
    BY <2>2, <2>3, <2>4
<1>11. Counted(s)'
  <2>1. Counted(s) /\ Live(s)
    BY <1>1, <1>3 DEF Sound
  <2>2. Serves(s) => actor[s].for # c
    BY <1>2, <2>1 DEF Counted, Answering, Asked
  <2>3. actor[s].for # c
    <3>1. ~Serves(s) => actor[s].for = None
      BY <1>1 DEF Sound, Pipe
    <3>2. c # None
      BY DEF Clients, Distinct, Words
    <3>3. QED
      BY <2>2, <3>1, <3>2
  <2>4. Answering(s)'
    BY <1>2, <1>7, <2>1, <2>2 DEF Counted, Answering, Serves, Asked
  <2>5. callers'[s]["apply"].kind \in {None, "read"}
    BY <1>5, <1>7, <2>1 DEF Counted, Clients
  <2>6. \A x \in Clients :
          /\ control'[s].phase = "Opening" /\ callers'[s][x] # NoCall =>
               callers'[s][x].kind = "boot"
          /\ Queued(s, x)' => Asked(s, x)' /\ actor'[s].for # x
          /\ callers'[s][x].at = "sending" => callers'[s][x].reply = None
          /\ callers'[s][x].kind = "input" /\ callers'[s][x].reply = "ok" =>
               told'[s] + 1 <= child'[s].memory
    <3>1. \A x \in Clients : Queued(s, x)' => Asked(s, x)' /\ actor'[s].for # x
      BY <1>2, <1>5, <1>7, <1>9, <2>3 DEF Asked
    <3>2. ASSUME NEW x \in Clients
          PROVE  /\ control'[s].phase = "Opening" /\ callers'[s][x] # NoCall =>
                      callers'[s][x].kind = "boot"
                 /\ callers'[s][x].at = "sending" => callers'[s][x].reply = None
                 /\ callers'[s][x].kind = "input" /\ callers'[s][x].reply = "ok" =>
                      told'[s] + 1 <= child'[s].memory
      BY <1>2, <1>4, <1>5, <1>7, <2>1 DEF Counted, Distinct, Words, Answers
    <3>3. QED
      BY <3>1, <3>2
  <2>7. told'[s] <= child'[s].memory
    BY <1>2, <2>1 DEF Counted
  <2>8. QED
    BY <2>4, <2>5, <2>6, <2>7 DEF Counted
<1>12. \A r \in Sessions : r # s => Untouched(r)
  BY <1>2, <1>6 DEF Untouched
<1>13. QED
  BY <1>8, <1>10, <1>11, <1>12, OneSession DEF Sound

(* An answer is counted at most once: the caller was told of all that came *)
(* before it.                                                              *)
LEMMA AnsweredInv ==
  ASSUME Distinct, Inv, NEW s \in Sessions, NEW c \in Clients, Answered(s, c) PROVE Inv'
<1> DEFINE counts == callers[s][c].kind = "input" /\ callers[s][c].reply = "ok"
           opened == IF callers[s][c].reply = "ok" THEN [control[s] EXCEPT !.phase = "Open"]
                     ELSE Revoked(control[s])
<1>1. /\ TypeOK /\ Sound(s) /\ callers[s] \in [Clients -> Calls] /\ control[s] \in Controls
      /\ told[s] \in Nat /\ child[s].memory \in Nat
  BY DEF Inv, TypeOK, Children
<1>2. /\ callers[s][c].at = "waiting" /\ callers[s][c].reply # None /\ Permits(s, Opening(s, c))
      /\ callers' = [callers EXCEPT ![s][c] = NoCall]
      /\ told' = IF counts THEN [told EXCEPT ![s] = @ + 1] ELSE told
      /\ control' = IF Opening(s, c) THEN [control EXCEPT ![s] = opened] ELSE control
      /\ UNCHANGED <<jobs, actor, child, input, output, durable>>
  BY DEF Answered
<1>3. Live(s) /\ Counted(s)
  BY <1>1, <1>2 DEF Live, Permits, Sound
<1>4. /\ opened \in Controls /\ opened.ack = control[s].ack /\ opened.outcome = control[s].outcome
      /\ opened.phase # None /\ opened.phase # "Opening"
  <2>1. CASE callers[s][c].reply = "ok"
    BY <1>1, <2>1 DEF Controls, Phases, Distinct, Words
  <2>2. CASE callers[s][c].reply # "ok"
    <3>1. control[s].phase # None
      BY <1>3 DEF Live, Distinct, Words
    <3>2. QED
      BY <1>1, <2>2, <3>1, RevokedControl
  <2>3. QED
    BY <2>1, <2>2
<1>5. ~Opening(s, c) => control[s].phase = "Open"
  BY <1>2 DEF Permits
<1> HIDE DEF opened, counts
<1>6. /\ control'[s] \in Controls /\ control'[s].phase # None /\ control'[s].phase # "Opening"
      /\ control'[s].ack = control[s].ack /\ control'[s].outcome = control[s].outcome
  <2>1. CASE Opening(s, c)
    BY <1>1, <1>2, <1>4, <2>1 DEF TypeOK
  <2>2. CASE ~Opening(s, c)
    BY <1>1, <1>2, <1>5, <2>2 DEF Distinct, Words
  <2>3. QED
    BY <2>1, <2>2
<1>7. told'[s] = IF counts THEN told[s] + 1 ELSE told[s]
  BY <1>1, <1>2 DEF TypeOK
<1>8. /\ callers'[s] \in [Clients -> Calls] /\ callers'[s][c] = NoCall
      /\ \A x \in Clients : x # c => callers'[s][x] = callers[s][x]
  BY <1>1, <1>2 DEF TypeOK, Calls
<1>9. TypeOK'
  <2>1. control' \in [Sessions -> Controls]
    BY <1>1, <1>2, <1>4 DEF TypeOK
  <2>2. callers' \in [Sessions -> [Clients -> Calls]]
    BY <1>1, <1>2, <1>8 DEF TypeOK
  <2>3. told' \in [Sessions -> Nat]
    BY <1>1, <1>2 DEF TypeOK
  <2>4. QED
    BY <1>1, <1>2, <2>1, <2>2, <2>3 DEF TypeOK
<1>10. counts => c = "user" /\ told[s] + 1 <= child[s].memory
  <2>1. counts => callers[s][c].kind = "input" /\ callers[s][c].reply = "ok"
    BY DEF counts
  <2>2. callers[s]["apply"].kind # "input"
    BY <1>3 DEF Counted, Distinct, Words, Requests
  <2>3. QED
    BY <1>3, <2>1, <2>2 DEF Counted, Clients
<1>11. Fresh(s)' /\ Revokes(s)' /\ Pipe(s)' /\ Durable(s)'
  <2>1. Fresh(s)'
    BY <1>6 DEF Fresh
  <2>2. ~Queued(s, "Close") /\ actor[s].at \notin {"close", "drafting"} /\ control[s].ack = None
    BY <1>1, <1>3 DEF Sound, Revokes, Live
  <2>3. Revokes(s)'
    BY <1>2, <1>6, <2>2 DEF Revokes, Queued
  <2>4. Pipe(s)'
    BY <1>1, <1>2 DEF Sound, Pipe, Serves
  <2>5. Durable(s)'
    BY <1>1, <1>2, <1>6, <2>2 DEF Sound, Durable, Distinct, Words, Answers
  <2>6. QED
    BY <2>1, <2>3, <2>4, <2>5
<1>12. ~Asked(s, c)
  BY <1>2 DEF Asked
<1>13. Answering(s)'
  <2>1. Answering(s)
    BY <1>3 DEF Counted
  <2>2. Serves(s) => actor[s].for # c
    BY <1>12, <2>1 DEF Answering
  <2>3. Serves(s) /\ counts => callers[s][actor[s].for].kind # "input"
    BY <1>3, <1>10, <2>1, <2>2 DEF Answering, Counted, Clients, Distinct, Words, Requests
  <2>4. counts => told'[s] = told[s] + 1
    BY <1>7
  <2>5. ~counts => told'[s] = told[s]
    BY <1>7
  <2>6. QED
    BY <1>2, <1>8, <2>1, <2>2, <2>3, <2>5 DEF Answering, Serves, Asked
<1>14. Counted(s)'
  <2>1. told'[s] <= child'[s].memory
    BY <1>2, <1>3, <1>7, <1>10 DEF Counted
  <2>2. callers'[s]["apply"].kind \in {None, "read"}
    BY <1>3, <1>8 DEF Counted, NoCall, Clients
  <2>3. ASSUME NEW x \in Clients
        PROVE  /\ Queued(s, x)' => Asked(s, x)' /\ actor'[s].for # x
               /\ callers'[s][x].at = "sending" => callers'[s][x].reply = None
               /\ callers'[s][x].kind = "input" /\ callers'[s][x].reply = "ok" =>
                    told'[s] + 1 <= child'[s].memory
    <3>1. CASE x = c
      BY <1>2, <1>3, <1>8, <1>12, <3>1
      DEF Counted, Queued, NoCall, Distinct, Words, Requests, Answers
    <3>2. CASE x # c
      <4>1. callers'[s][x] = callers[s][x]
        BY <1>8, <3>2
      <4>2. callers[s][x].kind = "input" => ~counts
        <5>1. callers[s]["apply"].kind # "input"
          BY <1>3 DEF Counted, Distinct, Words, Requests
        <5>2. QED
          BY <1>10, <3>2, <5>1 DEF Clients
      <4>3. callers[s][x].kind = "input" => told'[s] = told[s]
        BY <1>7, <4>2
      <4>4. QED
        BY <1>2, <1>3, <4>1, <4>3 DEF Counted, Queued, Asked
    <3>3. QED
      BY <3>1, <3>2
  <2>4. QED
    BY <1>6, <1>13, <2>1, <2>2, <2>3 DEF Counted
<1>15. \A r \in Sessions : r # s => Untouched(r)
  BY <1>1, <1>2 DEF Untouched, TypeOK
<1>16. QED
  BY <1>9, <1>11, <1>14, <1>15, OneSession DEF Sound

-----------------------------------------------------------------------------
(* Steps of the actor and the child: what each part of one session becomes. *)
Becomes(s, c, j, a, k, i, o, calls, d) ==
  /\ control' = [control EXCEPT ![s] = c] /\ jobs' = [jobs EXCEPT ![s] = j]
  /\ actor' = [actor EXCEPT ![s] = a] /\ child' = [child EXCEPT ![s] = k]
  /\ input' = [input EXCEPT ![s] = i] /\ output' = [output EXCEPT ![s] = o]
  /\ callers' = [callers EXCEPT ![s] = calls] /\ durable' = [durable EXCEPT ![s] = d]
  /\ told' = told

Typed(c, j, a, k, i, o, calls, d) ==
  /\ c \in Controls /\ j \in Jobs /\ a \in Actors /\ k \in Children
  /\ i \in Requests \cup {None, "Lock", "done", "refused"}
  /\ o \in Answers \cup {None, "commit", "draft"}
  /\ calls \in [Clients -> Calls] /\ d \in Nat

LEMMA Effect ==
  ASSUME TypeOK, NEW s \in Sessions, NEW c, NEW j, NEW a, NEW k, NEW i, NEW o, NEW calls, NEW d,
         Typed(c, j, a, k, i, o, calls, d), Becomes(s, c, j, a, k, i, o, calls, d)
  PROVE  /\ TypeOK'
         /\ control'[s] = c /\ jobs'[s] = j /\ actor'[s] = a /\ child'[s] = k
         /\ input'[s] = i /\ output'[s] = o /\ callers'[s] = calls /\ durable'[s] = d
         /\ told'[s] = told[s]
         /\ \A r \in Sessions : r # s => Untouched(r)
<1>1. TypeOK'
  BY DEF TypeOK, Becomes, Typed
<1>2. /\ control'[s] = c /\ jobs'[s] = j /\ actor'[s] = a /\ child'[s] = k
      /\ input'[s] = i /\ output'[s] = o /\ callers'[s] = calls /\ durable'[s] = d
      /\ told'[s] = told[s]
  BY DEF TypeOK, Becomes
<1>3. \A r \in Sessions : r # s => Untouched(r)
  BY DEF TypeOK, Becomes, Untouched
<1>4. QED
  BY <1>1, <1>2, <1>3

LEMMA Parts ==
  ASSUME TypeOK, NEW s \in Sessions
  PROVE  /\ control[s] \in Controls /\ jobs[s] \in Jobs /\ actor[s] \in Actors
         /\ child[s] \in Children /\ callers[s] \in [Clients -> Calls]
         /\ input[s] \in Requests \cup {None, "Lock", "done", "refused"}
         /\ output[s] \in Answers \cup {None, "commit", "draft"}
         /\ durable[s] \in Nat /\ told[s] \in Nat /\ child[s].memory \in Nat
         /\ control = [control EXCEPT ![s] = control[s]] /\ jobs = [jobs EXCEPT ![s] = jobs[s]]
         /\ actor = [actor EXCEPT ![s] = actor[s]] /\ child = [child EXCEPT ![s] = child[s]]
         /\ input = [input EXCEPT ![s] = input[s]] /\ output = [output EXCEPT ![s] = output[s]]
         /\ callers = [callers EXCEPT ![s] = callers[s]] /\ durable = [durable EXCEPT ![s] = durable[s]]
<1>1. /\ control[s] \in Controls /\ jobs[s] \in Jobs /\ actor[s] \in Actors
      /\ child[s] \in Children /\ callers[s] \in [Clients -> Calls]
      /\ input[s] \in Requests \cup {None, "Lock", "done", "refused"}
      /\ output[s] \in Answers \cup {None, "commit", "draft"}
      /\ durable[s] \in Nat /\ told[s] \in Nat
  BY DEF TypeOK
<1>2. child[s].memory \in Nat
  BY <1>1 DEF Children
<1>3. /\ control = [control EXCEPT ![s] = control[s]] /\ jobs = [jobs EXCEPT ![s] = jobs[s]]
      /\ actor = [actor EXCEPT ![s] = actor[s]] /\ child = [child EXCEPT ![s] = child[s]]
  BY DEF TypeOK
<1>4. /\ input = [input EXCEPT ![s] = input[s]] /\ output = [output EXCEPT ![s] = output[s]]
      /\ callers = [callers EXCEPT ![s] = callers[s]] /\ durable = [durable EXCEPT ![s] = durable[s]]
  BY DEF TypeOK
<1>5. QED
  BY <1>1, <1>2, <1>3, <1>4

Replied(s, c, r) ==
  IF callers[s][c].at = "waiting"
  THEN [callers[s] EXCEPT ![c] = [callers[s][c] EXCEPT !.reply = r]] ELSE callers[s]

LEMMA RepliedCalls ==
  ASSUME Distinct, TypeOK, NEW s \in Sessions, NEW c \in Clients,
         NEW r \in Answers \cup {"error"}
  PROVE  /\ Replied(s, c, r) \in [Clients -> Calls]
         /\ Reply(s, c, r) => callers' = [callers EXCEPT ![s] = Replied(s, c, r)]
         /\ \A x \in Clients : x # c => Replied(s, c, r)[x] = callers[s][x]
         /\ Replied(s, c, r)[c].kind = callers[s][c].kind
         /\ Replied(s, c, r)[c].at = callers[s][c].at
         /\ callers[s][c].at = "waiting" => Replied(s, c, r)[c].reply = r
         /\ Replied(s, c, r)[c] = NoCall <=> callers[s][c] = NoCall
<1>1. callers[s] \in [Clients -> Calls] /\ callers[s][c] \in Calls
  BY DEF TypeOK
<1>2. CASE callers[s][c].at = "waiting"
  <2> DEFINE call == [callers[s][c] EXCEPT !.reply = r]
  <2>1. callers[s][c] # NoCall
    BY <1>2 DEF NoCall, Distinct, Words
  <2>2. /\ call \in Calls /\ call.kind = callers[s][c].kind /\ call.at = "waiting"
        /\ call.reply = r
    BY <1>1, <1>2, <2>1 DEF Calls
  <2>3. call # NoCall
    BY <2>2 DEF NoCall, Distinct, Words
  <2> HIDE DEF call
  <2>4. Replied(s, c, r) = [callers[s] EXCEPT ![c] = call]
    BY <1>2 DEF Replied, call
  <2>5. Reply(s, c, r) => callers' = [callers EXCEPT ![s] = [callers[s] EXCEPT ![c] = call]]
    BY <1>2 DEF Reply, call, TypeOK
  <2>6. QED
    BY <1>1, <1>2, <2>1, <2>2, <2>3, <2>4, <2>5
<1>3. CASE callers[s][c].at # "waiting"
  <2>1. Replied(s, c, r) = callers[s]
    BY <1>3 DEF Replied
  <2>2. Reply(s, c, r) => callers' = callers
    BY <1>3 DEF Reply
  <2>3. QED
    BY <1>1, <1>3, <2>1, <2>2, Parts
<1>4. QED
  BY <1>2, <1>3

-----------------------------------------------------------------------------
(* PipeActor.                                                              *)
LEMMA TakeRequestInv ==
  ASSUME Distinct, Inv, NEW s \in Sessions, TakeRequest(s) PROVE Inv'
<1> DEFINE c == jobs[s][1]
<1>1. TypeOK /\ Sound(s)
  BY DEF Inv
<1>0. /\ control[s] \in Controls /\ jobs[s] \in Jobs /\ actor[s] \in Actors
      /\ child[s] \in Children /\ callers[s] \in [Clients -> Calls] /\ durable[s] \in Nat
      /\ input[s] \in Requests \cup {None, "Lock", "done", "refused"}
      /\ output[s] \in Answers \cup {None, "commit", "draft"}
  BY <1>1, Parts
<1>2. /\ actor[s].at = "idle" /\ jobs[s] # <<>> /\ c \in Clients /\ ~Due
      /\ jobs' = [jobs EXCEPT ![s] = <<>>]
      /\ UNCHANGED <<child, output, durable, told>>
  BY DEF TakeRequest
<1>3. Queued(s, c) /\ control[s].phase # None
  BY <1>1, <1>2 DEF Queued, Sound, Fresh
<1>4. <<>> \in Jobs
  BY DEF Jobs
<1>5. CASE callers[s][c].at = "waiting" /\ Permits(s, Opening(s, c)) /\ child[s].alive
  <2> DEFINE a == [at |-> "request", for |-> c]
             k == callers[s][c].kind
  <2>1. /\ input' = [input EXCEPT ![s] = k] /\ actor' = [actor EXCEPT ![s] = a]
        /\ UNCHANGED <<callers, control>>
    BY <1>5 DEF TakeRequest
  <2>2. a \in Actors /\ a.at = "request" /\ a.for = c
    BY <1>2 DEF Actors
  <2>3. callers[s][c] # NoCall
    BY <1>5 DEF NoCall, Distinct, Words
  <2>4. k \in Requests
    BY <1>1, <1>2, <2>3, Parts DEF Calls
  <2>5. Becomes(s, control[s], <<>>, a, child[s], k, output[s], callers[s], durable[s])
    BY <1>1, <1>2, <2>1, Parts DEF Becomes
  <2> HIDE DEF a, k
  <2>6. /\ TypeOK' /\ \A r \in Sessions : r # s => Untouched(r)
        /\ control'[s] = control[s] /\ jobs'[s] = <<>> /\ actor'[s] = a /\ child'[s] = child[s]
        /\ input'[s] = k /\ output'[s] = output[s] /\ callers'[s] = callers[s]
        /\ durable'[s] = durable[s] /\ told'[s] = told[s]
    <3>1. Typed(control[s], <<>>, a, child[s], k, output[s], callers[s], durable[s])
      BY <1>0, <1>4, <2>2, <2>4 DEF Typed
    <3>2. QED
      BY <1>1, <2>5, <3>1, Effect
  <2>7. Live(s)
    BY <1>5 DEF Permits, Live
  <2>8. output[s] = None /\ child[s].doing = None
    BY <1>1, <1>2, <1>5 DEF Sound, Pipe
  <2>9. ~Queued(s, "Close") /\ control[s].ack = None
    BY <1>1, <2>7 DEF Sound, Revokes, Live
  <2>10. Fresh(s)' /\ Revokes(s)' /\ Pipe(s)' /\ Durable(s)'
    <3>1. Fresh(s)'
      BY <1>3, <2>6 DEF Fresh
    <3>2. Revokes(s)'
      BY <2>2, <2>6, <2>9 DEF Revokes, Queued
    <3>3. Pipe(s)'
      BY <1>2, <2>2, <2>4, <2>6, <2>8 DEF Pipe, Serves
    <3>4. Durable(s)'
      BY <1>1, <2>2, <2>6, <2>9 DEF Sound, Durable, Distinct, Words, Answers
    <3>5. QED
      BY <3>1, <3>2, <3>3, <3>4
  <2>11. Counted(s)'
    <3>1. Asked(s, c) /\ Counted(s)
      BY <1>1, <1>2, <1>3, <2>7 DEF Sound, Counted
    <3>2. Answering(s)'
      BY <1>2, <2>2, <2>6, <2>8, <3>1 DEF Answering, Serves, Asked, k, Distinct, Words, Answers
    <3>3. \A x \in Clients : ~Queued(s, x)'
      BY <2>6 DEF Queued
    <3>4. QED
      BY <2>6, <2>7, <3>1, <3>2, <3>3 DEF Counted, Live
  <2>12. QED
    BY <2>6, <2>10, <2>11, OneSession DEF Sound
<1>6. CASE ~(callers[s][c].at = "waiting" /\ Permits(s, Opening(s, c)) /\ child[s].alive)
  <2>1. /\ Reply(s, c, "error") /\ control' = [control EXCEPT ![s] = Revoked(control[s])]
        /\ UNCHANGED <<input, actor>>
    BY <1>1, <1>6 DEF TakeRequest, TypeOK
  <2>2. Becomes(s, Revoked(control[s]), <<>>, actor[s], child[s], input[s], output[s],
                Replied(s, c, "error"), durable[s])
    BY <1>1, <1>2, <2>1, Parts, RepliedCalls DEF Becomes
  <2> HIDE DEF c
  <2>3. Replied(s, c, "error") \in [Clients -> Calls] /\ Revoked(control[s]) \in Controls
    BY <1>1, <1>2, Parts, RepliedCalls, RevokedControl
  <2>4. /\ TypeOK' /\ \A r \in Sessions : r # s => Untouched(r)
        /\ control'[s] = Revoked(control[s]) /\ jobs'[s] = <<>> /\ actor'[s] = actor[s]
        /\ child'[s] = child[s] /\ input'[s] = input[s] /\ output'[s] = output[s]
        /\ callers'[s] = Replied(s, c, "error") /\ durable'[s] = durable[s] /\ told'[s] = told[s]
    <3>1. Typed(Revoked(control[s]), <<>>, actor[s], child[s], input[s], output[s],
                Replied(s, c, "error"), durable[s])
      BY <1>0, <1>4, <2>3 DEF Typed
    <3>2. QED
      BY <1>1, <2>2, <3>1, Effect
  <2>5. /\ control'[s].phase \notin {None, "Opening", "Open"}
        /\ control'[s].ack = control[s].ack /\ control'[s].outcome = control[s].outcome
    BY <1>1, <1>3, <2>4, Parts, RevokedControl
  <2>6. Fresh(s)' /\ Revokes(s)'
    BY <2>5 DEF Fresh, Revokes
  <2>7. Pipe(s)' /\ Durable(s)'
    BY <1>1, <2>4, <2>5 DEF Sound, Pipe, Serves, Durable
  <2>8. Counted(s)'
    <3>1. callers'[s]["apply"].kind = callers[s]["apply"].kind
      BY <1>1, <1>2, <2>4, RepliedCalls DEF Clients
    <3>2. QED
      BY <1>1, <2>4, <2>5, <3>1 DEF Sound, Counted, Live
  <2>9. QED
    BY <2>4, <2>6, <2>7, <2>8, OneSession DEF Sound
<1>7. QED
  BY <1>5, <1>6

LEMMA TakeCloseInv ==
  ASSUME Distinct, Inv, NEW s \in Sessions, TakeClose(s) PROVE Inv'
<1>1. TypeOK /\ Sound(s) /\ control[s] \in Controls /\ <<>> \in Jobs
  BY Parts DEF Inv, Jobs
<1>0. /\ control[s] \in Controls /\ jobs[s] \in Jobs /\ actor[s] \in Actors
      /\ child[s] \in Children /\ callers[s] \in [Clients -> Calls] /\ durable[s] \in Nat
      /\ input[s] \in Requests \cup {None, "Lock", "done", "refused"}
      /\ output[s] \in Answers \cup {None, "commit", "draft"}
  BY <1>1, Parts
<1>2. /\ actor[s].at = "idle" /\ jobs[s] = <<"Close">>
      /\ jobs' = [jobs EXCEPT ![s] = <<>>]
      /\ UNCHANGED <<child, output, callers, durable, told>>
  BY DEF TakeClose
<1>3. control[s].phase \notin {None, "Opening", "Open"} /\ control[s].ack = None
  BY <1>1, <1>2 DEF Queued, Sound, Revokes, Durable
<1>4. CASE child[s].alive
  <2> DEFINE a == [at |-> "close", for |-> None]
  <2>1. /\ input' = [input EXCEPT ![s] = "Lock"] /\ actor' = [actor EXCEPT ![s] = a]
        /\ UNCHANGED control
    BY <1>4 DEF TakeClose
  <2>2. a \in Actors /\ a.at = "close" /\ a.for = None
    BY DEF Actors
  <2>3. Becomes(s, control[s], <<>>, a, child[s], "Lock", output[s], callers[s], durable[s])
    BY <1>1, <1>2, <2>1, Parts DEF Becomes
  <2> HIDE DEF a
  <2>4. /\ TypeOK' /\ \A r \in Sessions : r # s => Untouched(r)
        /\ control'[s] = control[s] /\ jobs'[s] = <<>> /\ actor'[s] = a /\ child'[s] = child[s]
        /\ input'[s] = "Lock" /\ output'[s] = output[s] /\ callers'[s] = callers[s]
        /\ durable'[s] = durable[s] /\ told'[s] = told[s]
    <3>1. Typed(control[s], <<>>, a, child[s], "Lock", output[s], callers[s], durable[s])
      BY <1>0, <1>1, <2>2 DEF Typed
    <3>2. QED
      BY <1>1, <2>3, <3>1, Effect
  <2>5. output[s] = None /\ child[s].doing = None
    BY <1>1, <1>2, <1>4 DEF Sound, Pipe
  <2>6. Fresh(s)' /\ Revokes(s)'
    BY <1>3, <2>4 DEF Fresh, Revokes
  <2>7. Pipe(s)'
    BY <2>2, <2>4, <2>5 DEF Pipe, Serves
  <2>8. Durable(s)'
    BY <1>1, <1>3, <2>2, <2>4, <2>5 DEF Sound, Durable, Distinct, Words, Answers
  <2>9. Counted(s)'
    BY <1>1, <1>3, <2>4 DEF Sound, Counted, Live
  <2>10. QED
    BY <2>4, <2>6, <2>7, <2>8, <2>9, OneSession DEF Sound
<1>5. CASE ~child[s].alive
  <2> DEFINE a == [at |-> "done", for |-> None]
             c == [control[s] EXCEPT !.ack = "transport"]
  <2>1. /\ control' = [control EXCEPT ![s] = c] /\ actor' = [actor EXCEPT ![s] = a]
        /\ UNCHANGED input
    BY <1>1, <1>5 DEF TakeClose, TypeOK
  <2>2. /\ a \in Actors /\ a.at = "done" /\ a.for = None
        /\ c \in Controls /\ c.phase = control[s].phase /\ c.ack = "transport"
        /\ c.outcome = control[s].outcome
    BY <1>1 DEF Actors, Controls
  <2>3. Becomes(s, c, <<>>, a, child[s], input[s], output[s], callers[s], durable[s])
    BY <1>1, <1>2, <2>1, Parts DEF Becomes
  <2> HIDE DEF a, c
  <2>4. /\ TypeOK' /\ \A r \in Sessions : r # s => Untouched(r)
        /\ control'[s] = c /\ jobs'[s] = <<>> /\ actor'[s] = a /\ child'[s] = child[s]
        /\ input'[s] = input[s] /\ output'[s] = output[s] /\ callers'[s] = callers[s]
        /\ durable'[s] = durable[s] /\ told'[s] = told[s]
    <3>1. Typed(c, <<>>, a, child[s], input[s], output[s], callers[s], durable[s])
      BY <1>0, <1>1, <2>2 DEF Typed
    <3>2. QED
      BY <1>1, <2>3, <3>1, Effect
  <2>5. Fresh(s)' /\ Revokes(s)'
    BY <1>3, <2>2, <2>4 DEF Fresh, Revokes
  <2>6. Pipe(s)'
    BY <2>2, <2>4 DEF Pipe, Serves
  <2>7. Durable(s)'
    BY <1>1, <1>3, <2>2, <2>4 DEF Sound, Durable, Distinct, Words, Answers
  <2>8. Counted(s)'
    BY <1>1, <1>3, <2>2, <2>4 DEF Sound, Counted, Live
  <2>9. QED
    BY <2>4, <2>5, <2>6, <2>7, <2>8, OneSession DEF Sound
<1>6. QED
  BY <1>4, <1>5

-----------------------------------------------------------------------------
(* A step of the pipe or of the child, which the callers and the           *)
(* supervisor do not see.                                                  *)
LEMMA PipeStep ==
  ASSUME Distinct, Inv, NEW s \in Sessions, NEW a, NEW k, NEW i, NEW o, NEW d,
         Typed(control[s], jobs[s], a, k, i, o, callers[s], d),
         Becomes(s, control[s], jobs[s], a, k, i, o, callers[s], d),
         Fresh(s)', Pipe(s)', Live(s) => Answering(s)',
         a.for = actor[s].for, child[s].memory <= k.memory,
         a.at \in {"close", "drafting"} => actor[s].at \in {"close", "drafting"},
         actor[s].at = "done" => a.at = "done" /\ d = durable[s],
         a.at = "close" /\ (i = "done" \/ o = "ok") => d = k.memory
  PROVE  Inv'
<1>1. TypeOK /\ Sound(s)
  BY DEF Inv
<1>2. /\ TypeOK' /\ \A r \in Sessions : r # s => Untouched(r)
      /\ control'[s] = control[s] /\ jobs'[s] = jobs[s] /\ actor'[s] = a /\ child'[s] = k
      /\ input'[s] = i /\ output'[s] = o /\ callers'[s] = callers[s]
      /\ durable'[s] = d /\ told'[s] = told[s]
  BY <1>1, Effect
<1>3. Revokes(s)'
  BY <1>1, <1>2 DEF Sound, Revokes, Queued
<1>4. Durable(s)'
  BY <1>1, <1>2 DEF Sound, Durable, Distinct, Words, Answers
<1>5. Counted(s)'
  <2>1. told[s] \in Nat /\ child[s].memory \in Nat /\ k.memory \in Nat
    BY <1>1, Parts DEF Typed, Children
  <2>2. told[s] <= k.memory
    BY <1>1, <2>1 DEF Sound, Counted
  <2>3. Live(s) => \A c \in Clients :
          callers[s][c].kind = "input" /\ callers[s][c].reply = "ok" => told[s] + 1 <= k.memory
    BY <1>1, <2>1 DEF Sound, Counted
  <2>4. Live(s)' => Live(s)
    BY <1>2 DEF Live
  <2>5. QED
    BY <1>1, <1>2, <2>2, <2>3, <2>4 DEF Sound, Counted, Queued, Asked
<1>6. QED
  BY <1>2, <1>3, <1>4, <1>5, OneSession DEF Sound

LEMMA ReadCallbackInv ==
  ASSUME Distinct, Inv, NEW s \in Sessions, ReadCallback(s) PROVE Inv'
<1>1. TypeOK /\ Sound(s)
  BY DEF Inv
<1>2. /\ actor[s].at \in {"request", "close"} /\ output[s] \in {"commit", "draft"}
      /\ output' = [output EXCEPT ![s] = None]
      /\ UNCHANGED <<control, jobs, child, callers, durable, told>>
  BY DEF ReadCallback
<1>3. control[s].phase # None
  BY <1>1, <1>2 DEF Sound, Fresh
<1>4. /\ control[s] \in Controls /\ jobs[s] \in Jobs /\ actor[s] \in Actors
      /\ child[s] \in Children /\ callers[s] \in [Clients -> Calls] /\ durable[s] \in Nat
      /\ input[s] \in Requests \cup {None, "Lock", "done", "refused"}
      /\ child[s].memory \in Nat
  BY <1>1, Parts
<1>5. input[s] = None /\ child[s].doing = IF actor[s].at = "close" THEN "Lock" ELSE "save"
  BY <1>1, <1>2 DEF Sound, Pipe, Answers, Distinct, Words
<1>6. CASE Admits(s, output[s])
  <2> DEFINE a == [actor[s] EXCEPT !.at = IF @ = "close" THEN "drafting" ELSE "committing"]
  <2>1. actor' = [actor EXCEPT ![s] = a] /\ UNCHANGED input
    BY <1>1, <1>6 DEF ReadCallback, TypeOK
  <2>2. /\ a \in Actors /\ a.for = actor[s].for
        /\ a.at = IF actor[s].at = "close" THEN "drafting" ELSE "committing"
    BY <1>4 DEF Actors
  <2>3. Becomes(s, control[s], jobs[s], a, child[s], input[s], None, callers[s], durable[s])
    BY <1>1, <1>2, <2>1, Parts DEF Becomes
  <2> HIDE DEF a
  <2>4. Typed(control[s], jobs[s], a, child[s], input[s], None, callers[s], durable[s])
    BY <1>4, <2>2 DEF Typed
  <2>5. /\ control'[s] = control[s] /\ actor'[s] = a /\ child'[s] = child[s]
        /\ input'[s] = input[s] /\ output'[s] = None /\ callers'[s] = callers[s]
        /\ told'[s] = told[s]
    BY <1>1, <2>3, <2>4, Effect
  <2>6. Fresh(s)'
    BY <1>3, <2>5 DEF Fresh
  <2>7. Pipe(s)'
    BY <1>1, <1>2, <1>5, <2>2, <2>5 DEF Sound, Pipe, Serves
  <2>8. Live(s) => Answering(s)'
    BY <1>1, <1>2, <1>5, <2>2, <2>5
    DEF Sound, Counted, Answering, Serves, Asked, Distinct, Words, Requests, Answers
  <2>9. child[s].memory <= child[s].memory
    BY <1>4
  <2>10. /\ a.at \in {"close", "drafting"} => actor[s].at \in {"close", "drafting"}
         /\ actor[s].at # "done" /\ a.at # "close"
    BY <1>2, <2>2
  <2>11. QED
    BY <2>2, <2>3, <2>4, <2>6, <2>7, <2>8, <2>9, <2>10, PipeStep
<1>7. CASE ~Admits(s, output[s])
  <2>1. input' = [input EXCEPT ![s] = "refused"] /\ UNCHANGED actor
    BY <1>7 DEF ReadCallback
  <2>2. Becomes(s, control[s], jobs[s], actor[s], child[s], "refused", None, callers[s], durable[s])
    BY <1>1, <1>2, <2>1, Parts DEF Becomes
  <2>3. Typed(control[s], jobs[s], actor[s], child[s], "refused", None, callers[s], durable[s])
    BY <1>4 DEF Typed
  <2>4. /\ control'[s] = control[s] /\ actor'[s] = actor[s] /\ child'[s] = child[s]
        /\ input'[s] = "refused" /\ output'[s] = None /\ callers'[s] = callers[s]
        /\ told'[s] = told[s]
    BY <1>1, <2>2, <2>3, Effect
  <2>5. Fresh(s)'
    BY <1>3, <2>4 DEF Fresh
  <2>6. Pipe(s)'
    BY <1>1, <1>2, <1>5, <2>4 DEF Sound, Pipe, Serves
  <2>7. Live(s) => Answering(s)'
    BY <1>1, <1>2, <1>5, <2>4
    DEF Sound, Counted, Answering, Serves, Asked, Distinct, Words, Requests, Answers
  <2>8. child[s].memory <= child[s].memory /\ None # "ok"
    BY <1>4 DEF Distinct, Words, Answers
  <2>9. QED
    BY <1>2, <2>2, <2>3, <2>5, <2>6, <2>7, <2>8, PipeStep
<1>8. QED
  BY <1>6, <1>7

LEMMA PerformedInv ==
  ASSUME Distinct, Inv, NEW s \in Sessions, Performed(s) PROVE Inv'
<1> DEFINE a == [actor[s] EXCEPT !.at = IF @ = "drafting" THEN "close" ELSE "request"]
<1>1. TypeOK /\ Sound(s)
  BY DEF Inv
<1>2. /\ actor[s].at \in {"committing", "drafting"}
      /\ actor' = [actor EXCEPT ![s] = a]
      /\ UNCHANGED <<control, jobs, child, output, callers, told>>
  BY <1>1 DEF Performed, TypeOK
<1>3. PICK i \in {"done", "refused"}, d \in Nat :
        /\ input' = [input EXCEPT ![s] = i] /\ durable' = [durable EXCEPT ![s] = d]
        /\ i = "done" => d = child[s].memory
  <2>1. durable[s] \in Nat /\ child[s].memory \in Nat /\ durable = [durable EXCEPT ![s] = durable[s]]
    BY <1>1, Parts
  <2>2. QED
    BY <2>1 DEF Performed
<1>4. control[s].phase # None
  BY <1>1, <1>2 DEF Sound, Fresh
<1>5. /\ control[s] \in Controls /\ jobs[s] \in Jobs /\ actor[s] \in Actors
      /\ child[s] \in Children /\ callers[s] \in [Clients -> Calls]
      /\ child[s].memory \in Nat
  BY <1>1, Parts
<1>6. output[s] = None /\ child[s].doing = IF actor[s].at = "drafting" THEN "Lock" ELSE "save"
  BY <1>1, <1>2 DEF Sound, Pipe
<1>7. /\ a \in Actors /\ a.for = actor[s].for
      /\ a.at = IF actor[s].at = "drafting" THEN "close" ELSE "request"
  BY <1>5 DEF Actors
<1>8. Becomes(s, control[s], jobs[s], a, child[s], i, output[s], callers[s], d)
  BY <1>1, <1>2, <1>3, Parts DEF Becomes
<1> HIDE DEF a
<1>9. Typed(control[s], jobs[s], a, child[s], i, output[s], callers[s], d)
  BY <1>5, <1>6, <1>7 DEF Typed
<1>10. /\ control'[s] = control[s] /\ actor'[s] = a /\ child'[s] = child[s]
       /\ input'[s] = i /\ output'[s] = output[s] /\ callers'[s] = callers[s]
       /\ told'[s] = told[s]
  BY <1>1, <1>8, <1>9, Effect
<1>11. Fresh(s)'
  BY <1>4, <1>10 DEF Fresh
<1>12. Pipe(s)'
  BY <1>1, <1>2, <1>6, <1>7, <1>10 DEF Sound, Pipe, Serves
<1>13. Live(s) => Answering(s)'
  BY <1>1, <1>2, <1>6, <1>7, <1>10
  DEF Sound, Counted, Answering, Serves, Asked, Distinct, Words, Requests, Answers
<1>14. child[s].memory <= child[s].memory /\ None # "ok"
  BY <1>5 DEF Distinct, Words, Answers
<1>15. /\ a.at \in {"close", "drafting"} => actor[s].at \in {"close", "drafting"}
       /\ actor[s].at # "done"
  BY <1>2, <1>7
<1>16. a.at = "close" /\ (i = "done" \/ output[s] = "ok") => d = child[s].memory
  BY <1>3, <1>6, <1>14
<1>17. QED
  BY <1>7, <1>8, <1>9, <1>11, <1>12, <1>13, <1>14, <1>15, <1>16, PipeStep

-----------------------------------------------------------------------------
(* The child.  One that runs and has something to read is being served, or *)
(* asked to close, or nobody waits for it any more.                        *)
LEMMA ChildStep ==
  ASSUME Distinct, Inv, NEW s \in Sessions, NEW k \in Children, NEW o \in Answers \cup {"commit", "draft"},
         Runs(s), input[s] # None,
         child' = [child EXCEPT ![s] = k], input' = [input EXCEPT ![s] = None],
         output' = [output EXCEPT ![s] = o],
         UNCHANGED <<control, jobs, actor, callers, durable, told>>,
         child[s].memory <= k.memory,
         actor[s].at = "request" =>
           (o = "commit" /\ k.doing = "save") \/ (o \in Answers /\ k.doing = None),
         actor[s].at = "close" =>
           (o = "draft" /\ k.doing = "Lock") \/ (o \in Answers /\ k.doing = None),
         actor[s].at = "request" /\ Live(s) =>
           /\ k.doing # None => callers[s][actor[s].for].kind = "save"
           /\ o = "ok" /\ callers[s][actor[s].for].kind = "input" => told[s] + 1 <= k.memory,
         actor[s].at = "close" /\ o = "ok" => durable[s] = k.memory
  PROVE  Inv'
<1>1. TypeOK /\ Sound(s)
  BY DEF Inv
<1>2. /\ control[s] \in Controls /\ jobs[s] \in Jobs /\ actor[s] \in Actors
      /\ child[s] \in Children /\ callers[s] \in [Clients -> Calls] /\ durable[s] \in Nat
  BY <1>1, Parts
<1>3. Becomes(s, control[s], jobs[s], actor[s], k, None, o, callers[s], durable[s])
  BY <1>1, Parts DEF Becomes
<1>4. Typed(control[s], jobs[s], actor[s], k, None, o, callers[s], durable[s])
  BY <1>2 DEF Typed
<1>5. /\ control'[s] = control[s] /\ actor'[s] = actor[s] /\ child'[s] = k
      /\ input'[s] = None /\ output'[s] = o /\ callers'[s] = callers[s] /\ told'[s] = told[s]
  BY <1>1, <1>3, <1>4, Effect
<1>6. /\ child[s].alive /\ output[s] = None /\ control[s].phase # None
      /\ actor[s].at \notin {"idle", "committing", "drafting"}
  BY <1>1 DEF Runs, Sound, Fresh, Pipe
<1>7. Fresh(s)'
  BY <1>5, <1>6 DEF Fresh
<1>8. Pipe(s)'
  BY <1>1, <1>5, <1>6 DEF Sound, Pipe, Serves
<1>9. Live(s) => Answering(s)'
  BY <1>1, <1>5, <1>6
  DEF Sound, Counted, Answering, Serves, Asked, Distinct, Words, Requests, Answers
<1>10. None # "done"
  BY DEF Distinct, Words
<1>11. QED
  BY <1>3, <1>4, <1>7, <1>8, <1>9, <1>10, PipeStep

LEMMA ChildBootsInv ==
  ASSUME Distinct, Inv, NEW s \in Sessions, ChildBoots(s) PROVE Inv'
<1>1. /\ TypeOK /\ Sound(s) /\ child[s] \in Children /\ child[s].memory \in Nat
      /\ child = [child EXCEPT ![s] = child[s]]
  BY Parts DEF Inv
<1>2. /\ Runs(s) /\ input[s] = "boot" /\ input' = [input EXCEPT ![s] = None]
      /\ UNCHANGED <<control, jobs, actor, callers, durable, told>>
  BY DEF ChildBoots
<1>3. PICK k \in Children, o \in Answers :
        /\ child' = [child EXCEPT ![s] = k] /\ output' = [output EXCEPT ![s] = o]
        /\ k.memory = child[s].memory /\ k.doing = child[s].doing
  <2>1. CASE Says(s, "ok") /\ UNCHANGED child
    BY <1>1, <2>1 DEF Says, Answers
  <2>2. CASE Says(s, "service") /\ child' = [child EXCEPT ![s].alive = FALSE]
    <3> DEFINE k == [child[s] EXCEPT !.alive = FALSE]
    <3>1. k \in Children /\ k.memory = child[s].memory /\ k.doing = child[s].doing
      BY <1>1 DEF Children
    <3>2. child' = [child EXCEPT ![s] = k]
      BY <1>1, <2>2 DEF TypeOK
    <3> HIDE DEF k
    <3>3. QED
      BY <2>2, <3>1, <3>2 DEF Says, Answers
  <2>3. QED
    BY <2>1, <2>2 DEF ChildBoots
<1>4. actor[s].at # "close" /\ (actor[s].at = "request" => child[s].doing = None)
  BY <1>1, <1>2 DEF Sound, Pipe, Distinct, Words, Requests
<1>5. actor[s].at = "request" /\ Live(s) => callers[s][actor[s].for].kind = "boot"
  BY <1>1, <1>2 DEF Sound, Counted, Answering, Serves, Requests
<1>6. input[s] # None /\ child[s].memory <= k.memory
  BY <1>1, <1>2, <1>3 DEF Distinct, Words, Requests
<1>7. QED
  BY <1>2, <1>3, <1>4, <1>5, <1>6, ChildStep

LEMMA ChildEditsInv ==
  ASSUME Distinct, Inv, NEW s \in Sessions, ChildEdits(s) PROVE Inv'
<1> DEFINE accepted == input[s] = "read" \/ child[s].memory < MaxInputs
           k == [child[s] EXCEPT !.memory =
                   IF input[s] = "input" /\ accepted THEN @ + 1 ELSE @]
           o == IF accepted THEN "ok" ELSE "service"
<1>1. /\ TypeOK /\ Sound(s) /\ child[s] \in Children /\ child[s].memory \in Nat
      /\ told[s] \in Nat
  BY Parts DEF Inv
<1>2. /\ Runs(s) /\ input[s] \in {"input", "read"} /\ input' = [input EXCEPT ![s] = None]
      /\ output' = [output EXCEPT ![s] = o]
      /\ UNCHANGED <<control, jobs, actor, callers, durable, told>>
  BY DEF ChildEdits, Says
<1>3. child' = [child EXCEPT ![s] = k]
  BY <1>1 DEF ChildEdits, TypeOK
<1>4. /\ k \in Children /\ k.doing = child[s].doing
      /\ k.memory = IF input[s] = "input" /\ accepted THEN child[s].memory + 1 ELSE child[s].memory
  BY <1>1 DEF Children
<1>5. o \in Answers /\ (o = "ok" => accepted)
  BY DEF Answers
<1> HIDE DEF k, o
<1>6. actor[s].at # "close" /\ (actor[s].at = "request" => child[s].doing = None)
  BY <1>1, <1>2 DEF Sound, Pipe, Distinct, Words, Requests
<1>7. actor[s].at = "request" /\ Live(s) => callers[s][actor[s].for].kind = input[s]
  BY <1>1, <1>2 DEF Sound, Counted, Answering, Serves, Requests
<1>8. input[s] # None /\ child[s].memory <= k.memory
  BY <1>1, <1>2, <1>4 DEF Distinct, Words, Requests
<1>9. input[s] = "input" /\ o = "ok" => told[s] + 1 <= k.memory
  <2>1. told[s] <= child[s].memory
    BY <1>1 DEF Sound, Counted
  <2>2. QED
    BY <1>1, <1>4, <1>5, <2>1
<1>10. QED
  BY <1>2, <1>3, <1>4, <1>5, <1>6, <1>7, <1>8, <1>9, ChildStep

LEMMA ChildWritesInv ==
  ASSUME Distinct, Inv, NEW s \in Sessions, ChildWrites(s) PROVE Inv'
<1>1. /\ TypeOK /\ Sound(s) /\ child[s] \in Children /\ child[s].memory \in Nat
  BY Parts DEF Inv
<1>2. /\ Runs(s) /\ input[s] \in {"save", "Lock"} /\ input' = [input EXCEPT ![s] = None]
      /\ UNCHANGED <<control, jobs, actor, callers, durable, told>>
  BY DEF ChildWrites
<1>3. /\ actor[s].at = "request" => input[s] = "save" /\ child[s].doing = None
      /\ actor[s].at = "close" => input[s] = "Lock" /\ child[s].doing = None
  BY <1>1, <1>2 DEF Sound, Pipe, Distinct, Words, Requests
<1>4. actor[s].at = "request" /\ Live(s) => callers[s][actor[s].for].kind = "save"
  BY <1>1, <1>2, <1>3 DEF Sound, Counted, Answering, Serves, Requests
<1>5. input[s] # None
  BY <1>2 DEF Distinct, Words, Requests
<1>6. CASE input[s] = "Lock" /\ child[s].memory = durable[s]
  <2> DEFINE k == [child[s] EXCEPT !.alive = FALSE]
  <2>1. output' = [output EXCEPT ![s] = "ok"] /\ child' = [child EXCEPT ![s] = k]
    BY <1>1, <1>6 DEF ChildWrites, Says, TypeOK
  <2>2. k \in Children /\ k.memory = child[s].memory /\ k.doing = child[s].doing
    BY <1>1 DEF Children
  <2> HIDE DEF k
  <2>3. child[s].memory <= k.memory /\ "ok" \in Answers
    BY <1>1, <2>2 DEF Answers
  <2>4. actor[s].at # "request"
    BY <1>3, <1>6
  <2>5. QED
    BY <1>2, <1>3, <1>5, <1>6, <2>1, <2>2, <2>3, <2>4, ChildStep
<1>7. CASE ~(input[s] = "Lock" /\ child[s].memory = durable[s])
  <2> DEFINE k == [child[s] EXCEPT !.doing = input[s]]
             o == IF input[s] = "Lock" THEN "draft" ELSE "commit"
  <2>1. output' = [output EXCEPT ![s] = o] /\ child' = [child EXCEPT ![s] = k]
    BY <1>1, <1>7 DEF ChildWrites, Says, TypeOK
  <2>2. k \in Children /\ k.memory = child[s].memory /\ k.doing = input[s]
    BY <1>1, <1>2 DEF Children
  <2>3. /\ o \in {"commit", "draft"} /\ o # "ok"
        /\ o = IF input[s] = "Lock" THEN "draft" ELSE "commit"
    OBVIOUS
  <2> HIDE DEF k, o
  <2>4. child[s].memory <= k.memory
    BY <1>1, <2>2
  <2>5. QED
    BY <1>2, <1>3, <1>4, <1>5, <2>1, <2>2, <2>3, <2>4, ChildStep
<1>8. QED
  BY <1>6, <1>7

LEMMA ChildWroteInv ==
  ASSUME Distinct, Inv, NEW s \in Sessions, ChildWrote(s) PROVE Inv'
<1> DEFINE k == [child[s] EXCEPT !.doing = None, !.alive = child[s].doing # "Lock"]
           o == IF input[s] = "done" THEN "ok" ELSE "service"
<1>1. /\ TypeOK /\ Sound(s) /\ child[s] \in Children /\ child[s].memory \in Nat
  BY Parts DEF Inv
<1>2. /\ Runs(s) /\ child[s].doing # None /\ input[s] \in {"done", "refused"}
      /\ input' = [input EXCEPT ![s] = None] /\ output' = [output EXCEPT ![s] = o]
      /\ UNCHANGED <<control, jobs, actor, callers, durable, told>>
  BY DEF ChildWrote, Says
<1>3. child' = [child EXCEPT ![s] = k]
  BY <1>1 DEF ChildWrote, TypeOK
<1>4. k \in Children /\ k.memory = child[s].memory /\ k.doing = None
  BY <1>1 DEF Children
<1>5. o \in Answers /\ (o = "ok" => input[s] = "done")
  BY DEF Answers
<1> HIDE DEF k, o
<1>6. input[s] # None /\ child[s].memory <= k.memory
  BY <1>1, <1>2, <1>4 DEF Distinct, Words
<1>7. actor[s].at = "request" /\ Live(s) => callers[s][actor[s].for].kind = "save"
  BY <1>1, <1>2 DEF Sound, Counted, Answering, Serves
<1>8. actor[s].at = "close" /\ o = "ok" => durable[s] = k.memory
  BY <1>1, <1>4, <1>5 DEF Sound, Durable
<1>9. QED
  BY <1>2, <1>3, <1>4, <1>5, <1>6, <1>7, <1>8, ChildStep

LEMMA ChildCrashesInv ==
  ASSUME Distinct, Inv, NEW s \in Sessions, ChildCrashes(s) PROVE Inv'
<1> DEFINE k == [child[s] EXCEPT !.alive = FALSE]
<1>1. TypeOK /\ Sound(s)
  BY DEF Inv
<1>2. /\ control[s] \in Controls /\ jobs[s] \in Jobs /\ actor[s] \in Actors
      /\ child[s] \in Children /\ callers[s] \in [Clients -> Calls] /\ durable[s] \in Nat
      /\ input[s] \in Requests \cup {None, "Lock", "done", "refused"}
      /\ output[s] \in Answers \cup {None, "commit", "draft"}
      /\ child[s].memory \in Nat
  BY <1>1, Parts
<1>3. /\ child' = [child EXCEPT ![s] = k]
      /\ UNCHANGED <<control, jobs, actor, input, output, callers, durable, told>>
  BY <1>1 DEF ChildCrashes, TypeOK
<1>4. k \in Children /\ k.memory = child[s].memory /\ k.doing = child[s].doing /\ ~k.alive
  BY <1>2 DEF Children
<1> HIDE DEF k
<1>5. Becomes(s, control[s], jobs[s], actor[s], k, input[s], output[s], callers[s], durable[s])
  BY <1>1, <1>3, Parts DEF Becomes
<1>6. Typed(control[s], jobs[s], actor[s], k, input[s], output[s], callers[s], durable[s])
  BY <1>2, <1>4 DEF Typed
<1>7. child'[s] = k
  BY <1>1, <1>5, <1>6, Effect
<1>8. Fresh(s)'
  BY <1>1, <1>3, <1>4, <1>7 DEF Sound, Fresh
<1>9. Pipe(s)'
  BY <1>1, <1>3, <1>4, <1>7 DEF Sound, Pipe, Serves
<1>10. Live(s) => Answering(s)'
  BY <1>1, <1>3, <1>4, <1>7 DEF Sound, Counted, Answering, Serves, Asked
<1>11. child[s].memory <= k.memory
  BY <1>2, <1>4
<1>12. actor[s].at = "close" /\ (input[s] = "done" \/ output[s] = "ok") => durable[s] = k.memory
  BY <1>1, <1>4 DEF Sound, Durable
<1>13. QED
  BY <1>4, <1>5, <1>6, <1>8, <1>9, <1>10, <1>11, <1>12, PipeStep

-----------------------------------------------------------------------------
(* Steps after which access is revoked: no answer counts any more.         *)
LEMMA RevokedStep ==
  ASSUME Inv, NEW s \in Sessions, NEW c, NEW j, NEW a, NEW k, NEW i, NEW o, NEW calls, NEW d,
         Typed(c, j, a, k, i, o, calls, d), Becomes(s, c, j, a, k, i, o, calls, d),
         c.phase \notin {None, "Opening", "Open"},
         child[s].memory = k.memory, calls["apply"].kind = callers[s]["apply"].kind,
         Pipe(s)', Durable(s)'
  PROVE  Inv'
<1>1. TypeOK /\ Sound(s)
  BY DEF Inv
<1>2. /\ TypeOK' /\ \A r \in Sessions : r # s => Untouched(r)
      /\ control'[s] = c /\ child'[s] = k /\ callers'[s] = calls /\ told'[s] = told[s]
  BY <1>1, Effect
<1>3. Fresh(s)' /\ Revokes(s)'
  BY <1>2 DEF Fresh, Revokes
<1>4. Counted(s)'
  BY <1>1, <1>2 DEF Sound, Counted, Live
<1>5. QED
  BY <1>2, <1>3, <1>4, OneSession DEF Sound

LEMMA ReadResponseInv ==
  ASSUME Distinct, Inv, NEW s \in Sessions, ReadResponse(s) PROVE Inv'
<1>1. TypeOK /\ Sound(s)
  BY DEF Inv
<1>2. /\ actor[s].at \in {"request", "close"} /\ output[s] \in Answers
      /\ output' = [output EXCEPT ![s] = None]
      /\ UNCHANGED <<jobs, child, input, durable, told>>
  BY DEF ReadResponse, Answers
<1>3. /\ control[s] \in Controls /\ jobs[s] \in Jobs /\ child[s] \in Children
      /\ callers[s] \in [Clients -> Calls] /\ durable[s] \in Nat
      /\ input[s] \in Requests \cup {None, "Lock", "done", "refused"}
  BY <1>1, Parts
<1>4. input[s] = None /\ child[s].doing = None /\ control[s].phase # None /\ output[s] # None
  BY <1>1, <1>2 DEF Sound, Fresh, Pipe, Answers, Distinct, Words
<1>5. CASE actor[s].at = "request"
  <2> DEFINE a == [at |-> "idle", for |-> None]
             c == actor[s].for
             calls == Replied(s, c, output[s])
  <2>1. c \in Clients
    BY <1>1, <1>5 DEF Sound, Pipe, Serves
  <2>2. /\ Reply(s, c, output[s]) /\ actor' = [actor EXCEPT ![s] = a] /\ UNCHANGED control
    BY <1>5 DEF ReadResponse
  <2>3. calls \in [Clients -> Calls] /\ callers' = [callers EXCEPT ![s] = calls]
    BY <1>1, <1>2, <2>1, <2>2, RepliedCalls
  <2>4. a \in Actors /\ a.at = "idle" /\ a.for = None
    BY DEF Actors
  <2>5. /\ \A x \in Clients : x # c => calls[x] = callers[s][x]
        /\ calls[c].kind = callers[s][c].kind /\ calls[c].at = callers[s][c].at
        /\ callers[s][c].at = "waiting" => calls[c].reply = output[s]
        /\ calls[c] = NoCall <=> callers[s][c] = NoCall
    BY <1>1, <1>2, <2>1, RepliedCalls
  <2> HIDE DEF a, c, calls
  <2>6. Becomes(s, control[s], jobs[s], a, child[s], input[s], None, calls, durable[s])
    BY <1>1, <1>2, <2>2, <2>3, Parts DEF Becomes
  <2>7. Typed(control[s], jobs[s], a, child[s], input[s], None, calls, durable[s])
    BY <1>3, <2>3, <2>4 DEF Typed
  <2>8. /\ TypeOK' /\ \A r \in Sessions : r # s => Untouched(r)
        /\ control'[s] = control[s] /\ jobs'[s] = jobs[s] /\ actor'[s] = a /\ child'[s] = child[s]
        /\ input'[s] = input[s] /\ output'[s] = None /\ callers'[s] = calls
        /\ durable'[s] = durable[s] /\ told'[s] = told[s]
    BY <1>1, <2>6, <2>7, Effect
  <2>9. Fresh(s)'
    BY <1>4, <2>8 DEF Fresh
  <2>10. Revokes(s)'
    BY <1>1, <2>4, <2>8 DEF Sound, Revokes, Queued
  <2>11. Pipe(s)'
    BY <1>4, <2>4, <2>8 DEF Pipe, Serves
  <2>12. Durable(s)'
    BY <1>1, <1>5, <2>4, <2>8 DEF Sound, Durable, Distinct, Words, Answers
  <2>13. Counted(s)'
    <3>1. told[s] <= child[s].memory /\ calls["apply"].kind \in {None, "read"}
      BY <1>1, <2>5 DEF Sound, Counted, Clients
    <3>2. CASE ~Live(s)
      BY <2>8, <3>1, <3>2 DEF Counted, Live
    <3>3. CASE Live(s)
      <4>1. Counted(s)
        BY <1>1 DEF Sound
      <4>2. /\ Asked(s, c)
            /\ output[s] = "ok" /\ callers[s][c].kind = "input" =>
                 told[s] + 1 <= child[s].memory
        BY <1>5, <3>3, <4>1 DEF Counted, Answering, Serves, c
      <4>3. ~Serves(s)'
        BY <2>4, <2>8 DEF Serves
      <4>4. ASSUME NEW x \in Clients
            PROVE  /\ control'[s].phase = "Opening" /\ callers'[s][x] # NoCall =>
                        callers'[s][x].kind = "boot"
                   /\ Queued(s, x)' => Asked(s, x)' /\ actor'[s].for # x
                   /\ callers'[s][x].at = "sending" => callers'[s][x].reply = None
                   /\ callers'[s][x].kind = "input" /\ callers'[s][x].reply = "ok" =>
                        told'[s] + 1 <= child'[s].memory
        <5>1. x # None
          BY DEF Clients, Distinct, Words
        <5>2. CASE x = c
          <6>1. ~Queued(s, x)'
            BY <2>8, <3>3, <4>1, <5>2 DEF Counted, Queued, c
          <6>2. QED
            BY <2>5, <2>8, <3>3, <4>1, <4>2, <5>2, <6>1 DEF Counted, Asked
        <5>3. CASE x # c
          BY <2>4, <2>5, <2>8, <3>3, <4>1, <5>1, <5>3 DEF Counted, Asked, Queued
        <5>4. QED
          BY <5>2, <5>3
      <4>5. QED
        BY <2>8, <3>1, <4>3, <4>4 DEF Counted, Answering
    <3>4. QED
      BY <3>2, <3>3
  <2>14. QED
    BY <2>8, <2>9, <2>10, <2>11, <2>12, <2>13, OneSession DEF Sound
<1>6. CASE actor[s].at = "close"
  <2> DEFINE a == [at |-> "done", for |-> None]
             c == [control[s] EXCEPT !.ack = output[s]]
  <2>1. /\ control' = [control EXCEPT ![s] = c] /\ actor' = [actor EXCEPT ![s] = a]
        /\ UNCHANGED callers
    BY <1>1, <1>6 DEF ReadResponse, TypeOK
  <2>2. /\ a \in Actors /\ a.at = "done" /\ a.for = None
        /\ c \in Controls /\ c.phase = control[s].phase /\ c.ack = output[s]
        /\ c.outcome = control[s].outcome
    BY <1>2, <1>3 DEF Actors, Controls
  <2> HIDE DEF a, c
  <2>3. Becomes(s, c, jobs[s], a, child[s], input[s], None, callers[s], durable[s])
    BY <1>1, <1>2, <2>1, Parts DEF Becomes
  <2>4. Typed(c, jobs[s], a, child[s], input[s], None, callers[s], durable[s])
    BY <1>3, <2>2 DEF Typed
  <2>5. /\ control'[s] = c /\ actor'[s] = a /\ child'[s] = child[s] /\ input'[s] = input[s]
        /\ output'[s] = None /\ durable'[s] = durable[s] /\ told'[s] = told[s]
    BY <1>1, <2>3, <2>4, Effect
  <2>6. c.phase \notin {None, "Opening", "Open"}
    BY <1>1, <1>6, <2>2 DEF Sound, Revokes
  <2>7. Pipe(s)'
    BY <2>2, <2>5 DEF Pipe, Serves
  <2>8. output[s] = "ok" => durable[s] = child[s].memory
    BY <1>1, <1>6 DEF Sound, Durable
  <2>9. told[s] <= child[s].memory
    BY <1>1 DEF Sound, Counted
  <2>10. control[s].ack = None
    BY <1>1, <1>6 DEF Sound, Durable
  <2>11. Durable(s)'
    BY <1>1, <2>2, <2>5, <2>8, <2>9, <2>10 DEF Sound, Durable, Distinct, Words, Answers
  <2>12. QED
    BY <2>3, <2>4, <2>6, <2>7, <2>11, RevokedStep
<1>7. QED
  BY <1>2, <1>5, <1>6

LEMMA ReadEndInv ==
  ASSUME Distinct, Inv, NEW s \in Sessions, ReadEnd(s) PROVE Inv'
<1>1. TypeOK /\ Sound(s)
  BY DEF Inv
<1>2. /\ actor[s].at \in {"request", "close"} /\ output[s] = None /\ ~child[s].alive
      /\ UNCHANGED <<jobs, child, input, output, durable, told>>
  BY DEF ReadEnd
<1>3. /\ control[s] \in Controls /\ jobs[s] \in Jobs /\ child[s] \in Children
      /\ callers[s] \in [Clients -> Calls] /\ durable[s] \in Nat
      /\ input[s] \in Requests \cup {None, "Lock", "done", "refused"}
      /\ output[s] \in Answers \cup {None, "commit", "draft"}
  BY <1>1, Parts
<1>4. control[s].phase # None
  BY <1>1, <1>2 DEF Sound, Fresh
<1>5. CASE actor[s].at = "request"
  <2> DEFINE a == [at |-> "idle", for |-> None]
             f == actor[s].for
             c == Revoked(control[s])
             calls == Replied(s, f, "error")
  <2>1. f \in Clients
    BY <1>1, <1>5 DEF Sound, Pipe, Serves
  <2>2. /\ Reply(s, f, "error") /\ actor' = [actor EXCEPT ![s] = a]
        /\ control' = [control EXCEPT ![s] = c]
    BY <1>1, <1>5 DEF ReadEnd, TypeOK
  <2>3. /\ calls \in [Clients -> Calls] /\ callers' = [callers EXCEPT ![s] = calls]
        /\ calls["apply"].kind = callers[s]["apply"].kind
    BY <1>1, <2>1, <2>2, RepliedCalls DEF Clients
  <2>4. a \in Actors /\ a.at = "idle" /\ a.for = None
    BY DEF Actors
  <2>5. /\ c \in Controls /\ c.phase \notin {None, "Opening", "Open"}
        /\ c.ack = control[s].ack /\ c.outcome = control[s].outcome
    BY <1>3, <1>4, RevokedControl
  <2> HIDE DEF a, c, calls, f
  <2>6. Becomes(s, c, jobs[s], a, child[s], input[s], output[s], calls, durable[s])
    BY <1>1, <1>2, <2>2, <2>3, Parts DEF Becomes
  <2>7. Typed(c, jobs[s], a, child[s], input[s], output[s], calls, durable[s])
    BY <1>3, <2>3, <2>4, <2>5 DEF Typed
  <2>8. /\ control'[s] = c /\ actor'[s] = a /\ child'[s] = child[s] /\ input'[s] = input[s]
        /\ output'[s] = output[s] /\ durable'[s] = durable[s] /\ told'[s] = told[s]
    BY <1>1, <2>6, <2>7, Effect
  <2>9. Pipe(s)'
    BY <1>2, <2>4, <2>8 DEF Pipe, Serves
  <2>10. Durable(s)'
    BY <1>1, <1>5, <2>4, <2>5, <2>8 DEF Sound, Durable, Distinct, Words, Answers
  <2>11. child[s].memory = child[s].memory
    OBVIOUS
  <2>12. QED
    BY <2>3, <2>5, <2>6, <2>7, <2>9, <2>10, <2>11, RevokedStep
<1>6. CASE actor[s].at = "close"
  <2> DEFINE a == [at |-> "done", for |-> None]
             c == [control[s] EXCEPT !.ack = "transport"]
  <2>1. /\ control' = [control EXCEPT ![s] = c] /\ actor' = [actor EXCEPT ![s] = a]
        /\ UNCHANGED callers
    BY <1>1, <1>6 DEF ReadEnd, TypeOK
  <2>2. /\ a \in Actors /\ a.at = "done" /\ a.for = None
        /\ c \in Controls /\ c.phase = control[s].phase /\ c.ack = "transport"
        /\ c.outcome = control[s].outcome
    BY <1>2, <1>3 DEF Actors, Controls
  <2> HIDE DEF a, c
  <2>3. Becomes(s, c, jobs[s], a, child[s], input[s], output[s], callers[s], durable[s])
    BY <1>1, <1>2, <2>1, Parts DEF Becomes
  <2>4. Typed(c, jobs[s], a, child[s], input[s], output[s], callers[s], durable[s])
    BY <1>3, <2>2 DEF Typed
  <2>5. /\ control'[s] = c /\ actor'[s] = a /\ child'[s] = child[s] /\ input'[s] = input[s]
        /\ output'[s] = output[s] /\ durable'[s] = durable[s] /\ told'[s] = told[s]
    BY <1>1, <2>3, <2>4, Effect
  <2>6. c.phase \notin {None, "Opening", "Open"}
    BY <1>1, <1>6, <2>2 DEF Sound, Revokes
  <2>7. Pipe(s)'
    BY <2>2, <2>5 DEF Pipe, Serves
  <2>8. control[s].ack = None
    BY <1>1, <1>6 DEF Sound, Durable
  <2>9. Durable(s)'
    BY <1>1, <2>2, <2>5, <2>8 DEF Sound, Durable, Distinct, Words, Answers
  <2>10. QED
    BY <2>3, <2>4, <2>6, <2>7, <2>9, RevokedStep
<1>7. QED
  BY <1>2, <1>5, <1>6

LEMMA ActorEndsInv ==
  ASSUME Distinct, Inv, NEW s \in Sessions, ActorEnds(s) PROVE Inv'
<1> DEFINE a == [at |-> "done", for |-> None]
<1>1. TypeOK /\ Sound(s)
  BY DEF Inv
<1>2. /\ actor[s].at = "idle" /\ control[s].phase = "Closed" /\ actor' = [actor EXCEPT ![s] = a]
      /\ UNCHANGED <<control, jobs, child, input, output, callers, durable, told>>
  BY DEF ActorEnds
<1>3. /\ control[s] \in Controls /\ jobs[s] \in Jobs /\ child[s] \in Children
      /\ callers[s] \in [Clients -> Calls] /\ durable[s] \in Nat
      /\ input[s] \in Requests \cup {None, "Lock", "done", "refused"}
      /\ output[s] \in Answers \cup {None, "commit", "draft"}
  BY <1>1, Parts
<1>4. a \in Actors /\ a.at = "done" /\ a.for = None
  BY DEF Actors
<1> HIDE DEF a
<1>5. Becomes(s, control[s], jobs[s], a, child[s], input[s], output[s], callers[s], durable[s])
  BY <1>1, <1>2, Parts DEF Becomes
<1>6. Typed(control[s], jobs[s], a, child[s], input[s], output[s], callers[s], durable[s])
  BY <1>3, <1>4 DEF Typed
<1>7. actor'[s] = a
  BY <1>1, <1>5, <1>6, Effect
<1>8. Pipe(s)'
  BY <1>4, <1>7 DEF Pipe, Serves
<1>9. Durable(s)'
  BY <1>1, <1>2, <1>4, <1>7 DEF Sound, Durable
<1>10. control[s].phase \notin {None, "Opening", "Open"}
  BY <1>2 DEF Distinct, Words
<1>11. QED
  BY <1>5, <1>6, <1>8, <1>9, <1>10, RevokedStep

LEMMA DropControlInv ==
  ASSUME Distinct, Inv, NEW s \in Sessions, DropControl(s) PROVE Inv'
<1> DEFINE c == [control[s] EXCEPT !.phase = "Dropped"]
           k == [child[s] EXCEPT !.alive = FALSE]
<1>1. TypeOK /\ Sound(s)
  BY DEF Inv
<1>2. /\ actor[s].at = "done" /\ control' = [control EXCEPT ![s] = c]
      /\ child' = [child EXCEPT ![s] = k]
      /\ UNCHANGED <<jobs, actor, input, output, callers, durable, told>>
  BY <1>1 DEF DropControl, TypeOK
<1>3. /\ control[s] \in Controls /\ jobs[s] \in Jobs /\ actor[s] \in Actors
      /\ child[s] \in Children /\ callers[s] \in [Clients -> Calls] /\ durable[s] \in Nat
      /\ input[s] \in Requests \cup {None, "Lock", "done", "refused"}
      /\ output[s] \in Answers \cup {None, "commit", "draft"}
  BY <1>1, Parts
<1>4. /\ c \in Controls /\ c.phase = "Dropped" /\ c.ack = control[s].ack
      /\ c.outcome = control[s].outcome
      /\ k \in Children /\ k.memory = child[s].memory
  BY <1>3 DEF Controls, Phases, Children
<1> HIDE DEF c, k
<1>5. Becomes(s, c, jobs[s], actor[s], k, input[s], output[s], callers[s], durable[s])
  BY <1>1, <1>2, Parts DEF Becomes
<1>6. Typed(c, jobs[s], actor[s], k, input[s], output[s], callers[s], durable[s])
  BY <1>3, <1>4 DEF Typed
<1>7. control'[s] = c /\ child'[s] = k
  BY <1>1, <1>5, <1>6, Effect
<1>8. Pipe(s)'
  BY <1>1, <1>2 DEF Sound, Pipe, Serves
<1>9. Durable(s)'
  BY <1>1, <1>2, <1>4, <1>7 DEF Sound, Durable
<1>10. c.phase \notin {None, "Opening", "Open"}
  BY <1>4 DEF Distinct, Words
<1>11. QED
  BY <1>4, <1>5, <1>6, <1>8, <1>9, <1>10, RevokedStep

LEMMA SendCloseParts ==
  ASSUME TypeOK, NEW s \in Sessions
  PROVE  SendClose(s).sent \in BOOLEAN /\ SendClose(s).jobs \in Jobs
<1>1. control[s].sent \in BOOLEAN /\ jobs[s] \in Jobs
  BY Parts DEF Controls
<1>2. QED
  BY <1>1 DEF SendClose, Jobs

LEMMA PollEndedInv ==
  ASSUME Distinct, Inv, NEW s \in Sessions, PollEnded(s) PROVE Inv'
<1>1. TypeOK /\ Sound(s)
  BY DEF Inv
<1>2. /\ ~child[s].alive
      /\ UNCHANGED <<actor, child, input, output, callers, durable, told>>
  BY DEF PollEnded
<1>3. /\ control[s] \in Controls /\ jobs[s] \in Jobs /\ actor[s] \in Actors
      /\ child[s] \in Children /\ callers[s] \in [Clients -> Calls] /\ durable[s] \in Nat
      /\ input[s] \in Requests \cup {None, "Lock", "done", "refused"}
      /\ output[s] \in Answers \cup {None, "commit", "draft"}
      /\ jobs = [jobs EXCEPT ![s] = jobs[s]]
  BY <1>1, Parts
<1>4. PICK c \in Controls, j \in Jobs :
        /\ control' = [control EXCEPT ![s] = c] /\ jobs' = [jobs EXCEPT ![s] = j]
        /\ c.phase \in {"Closing", "Closed"} /\ c.ack = control[s].ack
        /\ c.outcome # None /\ c.outcome.draft = "Preserved" => c.ack = "ok"
  <2>1. CASE control[s].ack = None /\ ~control[s].late
    <3> DEFINE c == [control[s] EXCEPT !.phase = "Closing", !.sent = SendClose(s).sent]
    <3>1. /\ control' = [control EXCEPT ![s] = c]
          /\ jobs' = [jobs EXCEPT ![s] = SendClose(s).jobs]
      BY <1>1, <2>1 DEF PollEnded, TypeOK
    <3>2. SendClose(s).sent \in BOOLEAN /\ SendClose(s).jobs \in Jobs
      BY <1>1, SendCloseParts
    <3>3. /\ c \in Controls /\ c.phase = "Closing" /\ c.ack = control[s].ack
          /\ c.outcome = control[s].outcome
      BY <1>3, <3>2 DEF Controls, Phases
    <3> HIDE DEF c
    <3>4. c.outcome # None /\ c.outcome.draft = "Preserved" => c.ack = "ok"
      BY <1>1, <3>3 DEF Sound, Durable
    <3>5. QED
      BY <3>1, <3>2, <3>3, <3>4
  <2>2. CASE ~(control[s].ack = None /\ ~control[s].late)
    <3> DEFINE u == Outcome(control[s])
               c == [control[s] EXCEPT !.phase = "Closed", !.outcome = u]
    <3>1. control' = [control EXCEPT ![s] = c] /\ UNCHANGED jobs
      BY <1>1, <2>2 DEF PollEnded, TypeOK
    <3>2. u \in Outcomes /\ (u.draft = "Preserved" => control[s].ack = "ok")
      BY DEF Outcome, Outcomes
    <3> HIDE DEF u
    <3>3. c \in Controls /\ c.phase = "Closed" /\ c.ack = control[s].ack /\ c.outcome = u
      BY <1>3, <3>2 DEF Controls, Phases
    <3> HIDE DEF c
    <3>4. QED
      BY <1>3, <3>1, <3>2, <3>3
  <2>3. QED
    BY <2>1, <2>2
<1>5. Becomes(s, c, j, actor[s], child[s], input[s], output[s], callers[s], durable[s])
  BY <1>1, <1>2, <1>4, Parts DEF Becomes
<1>6. Typed(c, j, actor[s], child[s], input[s], output[s], callers[s], durable[s])
  BY <1>3, <1>4 DEF Typed
<1>7. control'[s] = c
  BY <1>1, <1>5, <1>6, Effect
<1>8. Pipe(s)'
  BY <1>1, <1>2 DEF Sound, Pipe, Serves
<1>9. Durable(s)'
  BY <1>1, <1>2, <1>4, <1>7 DEF Sound, Durable
<1>10. c.phase \notin {None, "Opening", "Open"}
  BY <1>4 DEF Distinct, Words
<1>11. child[s].memory = child[s].memory
  OBVIOUS
<1>12. QED
  BY <1>5, <1>6, <1>8, <1>9, <1>10, <1>11, RevokedStep

LEMMA PollRunningInv ==
  ASSUME Distinct, Inv, NEW s \in Sessions, NEW kills \in BOOLEAN, PollRunning(s, kills)
  PROVE  Inv'
<1> DEFINE killed == control[s].killed \/ (control[s].late /\ kills)
           ends == ~control[s].killed /\ control[s].late /\ kills
           c == [control[s] EXCEPT !.sent = SendClose(s).sent, !.killed = killed]
           k == IF ends THEN [child[s] EXCEPT !.alive = FALSE] ELSE child[s]
           j == SendClose(s).jobs
<1>1. TypeOK /\ Sound(s)
  BY DEF Inv
<1>2. /\ control[s].phase = "Closing" /\ jobs' = [jobs EXCEPT ![s] = j]
      /\ control' = [control EXCEPT ![s] = c]
      /\ UNCHANGED <<actor, input, output, callers, durable, told>>
  BY <1>1 DEF PollRunning, TypeOK
<1>3. /\ control[s] \in Controls /\ actor[s] \in Actors /\ child[s] \in Children
      /\ callers[s] \in [Clients -> Calls] /\ durable[s] \in Nat
      /\ input[s] \in Requests \cup {None, "Lock", "done", "refused"}
      /\ output[s] \in Answers \cup {None, "commit", "draft"}
      /\ child = [child EXCEPT ![s] = child[s]]
      /\ SendClose(s).sent \in BOOLEAN /\ j \in Jobs
  BY <1>1, Parts, SendCloseParts
<1>4. child' = [child EXCEPT ![s] = k]
  <2>1. CASE ends
    BY <1>1, <2>1 DEF PollRunning, TypeOK
  <2>2. CASE ~ends
    BY <1>3, <2>2 DEF PollRunning
  <2>3. QED
    BY <2>1, <2>2
<1>5. killed \in BOOLEAN
  BY <1>3 DEF Controls
<1> HIDE DEF killed, j
<1>6. /\ c \in Controls /\ c.phase = control[s].phase /\ c.ack = control[s].ack
      /\ c.outcome = control[s].outcome
  BY <1>3, <1>5 DEF Controls
<1>7. /\ k \in Children /\ k.memory = child[s].memory /\ k.doing = child[s].doing
      /\ k.alive => child[s].alive
  BY <1>3 DEF Children
<1> HIDE DEF c, k, ends
<1>8. Becomes(s, c, j, actor[s], k, input[s], output[s], callers[s], durable[s])
  BY <1>1, <1>2, <1>4, Parts DEF Becomes
<1>9. Typed(c, j, actor[s], k, input[s], output[s], callers[s], durable[s])
  BY <1>3, <1>6, <1>7 DEF Typed
<1>10. control'[s] = c /\ child'[s] = k
  BY <1>1, <1>8, <1>9, Effect
<1>11. Pipe(s)'
  BY <1>1, <1>2, <1>7, <1>10 DEF Sound, Pipe, Serves
<1>12. Durable(s)'
  BY <1>1, <1>2, <1>6, <1>7, <1>10 DEF Sound, Durable
<1>13. c.phase \notin {None, "Opening", "Open"}
  BY <1>2, <1>6 DEF Distinct, Words
<1>14. QED
  BY <1>7, <1>8, <1>9, <1>11, <1>12, <1>13, RevokedStep

-----------------------------------------------------------------------------
LEMMA InitInv == ASSUME Distinct, Init PROVE Inv
<1>1. NotStarted \in Controls
  BY DEF NotStarted, Controls, Phases, Answers
<1>2. NoChild \in Children /\ <<>> \in Jobs /\ [at |-> "idle", for |-> None] \in Actors
  BY DEF NoChild, Children, Jobs, Actors
<1>3. [c \in Clients |-> NoCall] \in [Clients -> Calls]
  BY DEF Calls
<1>4. TypeOK
  BY <1>1, <1>2, <1>3 DEF Init, TypeOK
<1>5. ASSUME NEW s \in Sessions PROVE Sound(s)
  <2>1. /\ control[s] = NotStarted /\ jobs[s] = <<>> /\ actor[s].at = "idle"
        /\ actor[s].for = None /\ child[s] = NoChild /\ input[s] = None /\ output[s] = None
        /\ durable[s] = 0 /\ told[s] = 0
        /\ \A c \in Clients : callers[s][c] = NoCall
    BY <1>5 DEF Init
  <2>2. Fresh(s) /\ Revokes(s)
    BY <2>1 DEF Fresh, Revokes, Queued, NoChild, NotStarted
  <2>3. Pipe(s)
    BY <2>1 DEF Pipe, Serves, NoChild
  <2>4. Durable(s)
    BY <2>1 DEF Durable, NotStarted, Distinct, Words, Answers
  <2>5. Counted(s)
    BY <2>1 DEF Counted, Live, NoChild, NotStarted, NoCall, Distinct, Words, Clients
  <2>6. QED
    BY <2>2, <2>3, <2>4, <2>5 DEF Sound
<1>6. QED
  BY <1>4, <1>5 DEF Inv

LEMMA StepInv == ASSUME Distinct, Inv, [Next]_vars PROVE Inv'
<1>1. CASE UNCHANGED vars
  <2>1. TypeOK'
    BY <1>1 DEF Inv, TypeOK, vars
  <2>2. \A s \in Sessions : Untouched(s)
    BY <1>1 DEF vars, Untouched
  <2>3. QED
    BY <2>1, <2>2, Frame DEF Inv
<1>2. CASE Expire \/ Inactive \/ LockAll \/ Stop
  BY <1>2, RevokeStep
<1>3. ASSUME NEW s \in Sessions, Connect(s) \/ Close(s) \/ DropWorker(s) PROVE Inv'
  BY <1>3, ConnectInv, RevokeStep
<1>4. ASSUME NEW s \in Sessions, NEW c \in Clients,
             Request(s, c) \/ Send(s, c) \/ Answered(s, c) \/ Interrupted(s, c)
      PROVE  Inv'
  BY <1>4, RequestInv, SendInv, AnsweredInv, InterruptedInv
<1>5. ASSUME NEW s \in Sessions,
             \/ TakeRequest(s) \/ TakeClose(s) \/ ReadCallback(s) \/ Performed(s)
             \/ ReadResponse(s) \/ ReadEnd(s) \/ ActorEnds(s) \/ DropControl(s)
      PROVE  Inv'
  BY <1>5, TakeRequestInv, TakeCloseInv, ReadCallbackInv, PerformedInv, ReadResponseInv,
     ReadEndInv, ActorEndsInv, DropControlInv
<1>6. ASSUME NEW s \in Sessions,
             \/ PollEnded(s) \/ PollFails(s) \/ GraceEnds(s)
             \/ \E kills \in BOOLEAN : PollRunning(s, kills)
      PROVE  Inv'
  BY <1>6, PollEndedInv, PollRunningInv, RevokeStep
<1>7. ASSUME NEW s \in Sessions,
             \/ ChildBoots(s) \/ ChildEdits(s) \/ ChildWrites(s) \/ ChildWrote(s)
             \/ ChildCrashes(s)
      PROVE  Inv'
  BY <1>7, ChildBootsInv, ChildEditsInv, ChildWritesInv, ChildWroteInv, ChildCrashesInv
<1>8. QED
  BY <1>1, <1>2, <1>3, <1>4, <1>5, <1>6, <1>7 DEF Next

(* ProcessControl's outcome, which Session::close hands to the user, says  *)
(* that the draft is preserved only when every input that a caller was     *)
(* told of is on disk, whenever the process crashed, was killed or hung.   *)
THEOREM DraftPreserved == ASSUME Distinct PROVE Spec => []PreservedIsDurable
<1>1. Init => Inv
  BY InitInv
<1>2. Inv /\ [Next]_vars => Inv'
  BY StepInv
<1>3. Inv => PreservedIsDurable
  BY DEF Inv, Sound, Durable, PreservedIsDurable
<1>4. QED
  BY <1>1, <1>2, <1>3, PTL DEF Spec

-----------------------------------------------------------------------------
(* The standalone file store: what its variables hold.                     *)

FileTypes ==
  /\ file \in Bundles \cup {Absent} /\ files \subseteq Bundles \cup {Absent} /\ file \in files
  /\ sidecar \in Drafts \cup {Absent} /\ sidecars \subseteq Drafts \cup {Absent}
  /\ sidecar \in sidecars
  /\ written \subseteq Bundles
  /\ files \subseteq written \cup {Absent}
  /\ store \in Stores \cup {Absent} /\ session \in SessionStates \cup {Absent}
  /\ session # Absent => store # Absent /\ file # Absent
  /\ step \in Steps /\ (step # Resting => session # Absent)

New(form) == form # Absent /\ ~form.bound

(* An edit that is bound to no attempt is in no document.                  *)
UnboundIsNew ==
  /\ kept # {} => Absent \notin files
  /\ \A b \in written : b.doc \subseteq typed
  /\ \A d \in sidecars : d # Absent =>
       /\ d.edit \in typed
       /\ d.bound \/ \A b \in written : d.edit \notin b.doc

(* The form is as good as what is beside the file.                         *)
SessionSound ==
  /\ session.doc \subseteq typed
  /\ acknowledged \subseteq session.doc
  /\ kept \subseteq session.doc \cup Held(session.form)
  /\ \A b \in files : kept \subseteq Doc(b) \cup Held(session.form)
  /\ Confirmed(session.form, session.doc) /\ session.form.edit \in kept =>
       \A b \in files : session.form.edit \in Doc(b)
  /\ session.form # Absent => session.form.edit \in typed
  /\ New(session.form) =>
       /\ session.form.edit \notin session.doc
       /\ \A b \in written : session.form.edit \notin b.doc

StepSound ==
  /\ step.at \in {"encrypting", "publishing"} =>
       /\ session.form # Absent /\ session.form.bound /\ session.form.edit \notin session.doc
       /\ step.next.doc = session.doc \cup {session.form.edit}
       /\ \A d \in sidecars : d # Absent /\ d.bound
  /\ step.at = "publishing" => late \/ AsRead
  /\ step.at = "clearing" => Confirmed(session.form, session.doc)

FileInv ==
  /\ FileTypes /\ FileSound /\ UnboundIsNew
  /\ session # Absent => SessionSound /\ StepSound

-----------------------------------------------------------------------------
(* What is built is of its type, and none of it is Absent.                 *)

LEMMA NextNumberIsNumber == ASSUME MayWrite PROVE NextNumber \in Numbers
  BY DEF MayWrite, NextNumber

LEMMA BundleIs ==
  ASSUME NEW n \in Numbers \cup {0}, NEW doc \in SUBSET Edits, NEW key \in Databases
  PROVE  /\ Bundle(n, doc, key) \in Bundles /\ Bundle(n, doc, key) # Absent
         /\ Bundle(n, doc, key).doc = doc /\ Bundle(n, doc, key).key = key
  BY AbsentAssumption DEF Bundle, Bundles

LEMMA StoreIs ==
  ASSUME NEW b \in Bundles, NEW database \in Databases, NEW u \in BOOLEAN
  PROVE  [base |-> b, database |-> database, uncertain |-> u] \in Stores \ {Absent}
  BY AbsentAssumption DEF Stores

LEMMA SessionIs ==
  ASSUME NEW doc \in SUBSET Edits, NEW form \in Forms \cup {Absent}, NEW u \in BOOLEAN
  PROVE  [doc |-> doc, form |-> form, uncertain |-> u] \in SessionStates \ {Absent}
  BY AbsentAssumption DEF SessionStates

LEMMA FormIs ==
  ASSUME NEW e \in Edits, NEW bound \in BOOLEAN
  PROVE  Form(e, bound) \in Forms /\ Form(e, bound) # Absent /\ Form(e, bound).edit = e /\ Form(e, bound).bound = bound
  BY AbsentAssumption DEF Form, Forms

LEMMA RestingIs == Resting \in Steps /\ [Resting EXCEPT !.at = "clearing"] \in Steps
  BY DEF Resting, Steps

LEMMA StepIs ==
  ASSUME NEW at \in {"encrypting", "publishing", "reloading"}, NEW b \in Bundles
  PROVE  [at |-> at, next |-> b] \in Steps
  BY DEF Steps

LEMMA SessionForm ==
  ASSUME session \in SessionStates, NEW form \in Forms \cup {Absent}
  PROVE  LET next == [session EXCEPT !.form = form] IN
         next \in SessionStates \ {Absent} /\ next.doc = session.doc /\ next.form = form
  BY AbsentAssumption DEF SessionStates

LEMMA SealedIs ==
  ASSUME store \in Stores, NEW form \in Forms \cup {Absent}
  PROVE  /\ Sealed(form) \in Drafts \cup {Absent} /\ Held(Sealed(form)) = Held(form)
         /\ form = Absent => Sealed(form) = Absent
         /\ form # Absent =>
              Sealed(form) # Absent /\ Sealed(form).edit = form.edit /\ Sealed(form).bound = form.bound
<1>1. CASE form = Absent
  BY <1>1 DEF Sealed, Held
<1>2. CASE form # Absent
  <2>1. store.base.key \in Databases /\ form.edit \in Edits /\ form.bound \in BOOLEAN
    BY <1>2 DEF Stores, Bundles, Forms
  <2>2. Sealed(form) = [edit |-> form.edit, bound |-> form.bound, key |-> store.base.key]
    BY <1>2 DEF Sealed
  <2>3. Sealed(form) \in Drafts
    BY <2>1, <2>2 DEF Drafts
  <2>4. QED
    BY <1>2, <2>2, <2>3, AbsentAssumption DEF Held
<1>3. QED
  BY <1>1, <1>2

LEMMA PublishedFile ==
  ASSUME FileTypes, NEW b \in Bundles, NEW outcome \in Barriers, PublishesFile(b, outcome)
  PROVE  /\ file' \in Bundles \cup {Absent} /\ files' \subseteq Bundles \cup {Absent} /\ file' \in files'
         /\ files' \subseteq files \cup {b} /\ files' \subseteq written' \cup {Absent}
         /\ sidecar' = sidecar /\ sidecars' \subseteq sidecars /\ sidecar' \in sidecars'
         /\ written' \subseteq written \cup {b} /\ written' \subseteq Bundles
         /\ outcome = "done" => file' = b /\ files' = {b}
         /\ outcome = "uncertain" => file' = b
         /\ outcome = "failed" => file' = file
  BY DEF FileTypes, PublishesFile, Barriers

LEMMA PublishedSidecar ==
  ASSUME FileTypes, NEW d \in Drafts \cup {Absent}, NEW outcome \in Barriers, PublishesSidecar(d, outcome)
  PROVE  /\ sidecar' \in Drafts \cup {Absent} /\ sidecars' \subseteq Drafts \cup {Absent} /\ sidecar' \in sidecars'
         /\ sidecars' \subseteq sidecars \cup {d}
         /\ file' = file /\ files' \subseteq files /\ file' \in files' /\ written' = written
         /\ outcome = "done" => sidecars' = {d} /\ files' = {file}
         /\ outcome = "failed" => sidecars' = sidecars
  BY DEF FileTypes, PublishesSidecar, Barriers

-----------------------------------------------------------------------------
LEMMA InitFileInv == FileInit => FileInv
<1>1. FileInit => FileTypes
  BY RestingIs DEF FileInit, FileTypes
<1>2. FileInit => FileSound /\ UnboundIsNew
  BY SMT DEF FileInit, FileSound, SavedSurvives, StoredSurvives, ReplacesWhatItRead, UnboundIsNew
<1>3. QED
  BY <1>1, <1>2 DEF FileInv, FileInit

LEMMA CreateFileKeeps == ASSUME FileInv, CreateFile PROVE FileInv'
<1>1. PICK outcome \in Barriers :
        /\ PublishesFile(Bundle(NextNumber, {}, "own"), outcome)
        /\ IF outcome # "done" THEN UNCHANGED <<store, session>>
           ELSE /\ store' = Created(file')
                /\ session' = [doc |-> {}, form |-> Absent, uncertain |-> FALSE]
  BY DEF CreateFile
<1>2. PICK b \in Bundles : b = Bundle(NextNumber, {}, "own") /\ b.doc = {} /\ b # Absent
  BY NextNumberIsNumber, BundleIs DEF CreateFile, Databases
<1>3. FileTypes /\ session = Absent
  BY DEF FileInv, CreateFile, FileTypes
<1>4. /\ file' \in Bundles \cup {Absent} /\ files' \subseteq Bundles \cup {Absent} /\ file' \in files'
      /\ files' \subseteq files \cup {b} /\ files' \subseteq written' \cup {Absent}
      /\ sidecar' = sidecar /\ sidecars' \subseteq sidecars /\ sidecar' \in sidecars'
      /\ written' \subseteq written \cup {b} /\ written' \subseteq Bundles
      /\ outcome = "done" => file' = b /\ files' = {b}
  BY <1>1, <1>2, <1>3, PublishedFile
<1>5. outcome = "done" =>
        /\ store' \in Stores \ {Absent} /\ session' \in SessionStates \ {Absent}
        /\ session'.doc = {} /\ session'.form = Absent
  <2>1. [base |-> b, database |-> "own", uncertain |-> FALSE] \in Stores \ {Absent}
    BY StoreIs DEF Databases
  <2>2. [doc |-> {}, form |-> Absent, uncertain |-> FALSE] \in SessionStates \ {Absent}
    BY SessionIs
  <2>3. [doc |-> {}, form |-> Absent, uncertain |-> FALSE].doc = {}
        /\ [doc |-> {}, form |-> Absent, uncertain |-> FALSE].form = Absent
    OBVIOUS
  <2>4. SUFFICES ASSUME outcome = "done"
        PROVE store' = [base |-> b, database |-> "own", uncertain |-> FALSE]
              /\ session' = [doc |-> {}, form |-> Absent, uncertain |-> FALSE]
    BY <2>1, <2>2, <2>3
  <2>5. QED
    BY <1>1, <1>4, <2>4 DEF Created
<1>6. FileTypes'
  BY <1>1, <1>2, <1>3, <1>4, <1>5 DEF CreateFile, FileTypes
<1>7. acknowledged = {} /\ kept = {}
  BY DEF FileInv, CreateFile, FileTypes, FileSound, SavedSurvives, UnboundIsNew, Doc
<1>8. FileSound'
  BY <1>2, <1>4, <1>7
  DEF FileInv, FileSound, SavedSurvives, StoredSurvives, ReplacesWhatItRead, CreateFile, Doc
<1>9. UnboundIsNew'
  BY <1>2, <1>4 DEF FileInv, UnboundIsNew, CreateFile
<1>10. session' # Absent => SessionSound' /\ StepSound'
  <2>1. SUFFICES ASSUME session' # Absent PROVE SessionSound' /\ StepSound'
    OBVIOUS
  <2>2. outcome = "done" /\ session'.doc = {} /\ session'.form = Absent /\ files' = {b} /\ step' = Resting
    BY <1>1, <1>3, <1>4, <1>5, <2>1, <1>6 DEF CreateFile, FileTypes
  <2>3. kept' = {}
    BY <1>7 DEF CreateFile
  <2>4. QED
    BY <2>2, <1>7 DEF CreateFile, SessionSound, StepSound, Resting, New, Confirmed
<1>11. QED
  BY <1>6, <1>8, <1>9, <1>10 DEF FileInv

(* The invariant does not look at these.                                   *)
LEMMA SameFileInv ==
  ASSUME FileInv, UNCHANGED <<file, files, sidecar, sidecars, written, typed, acknowledged, kept, blind, session>>,
         store' \in Stores \cup {Absent}, session # Absent => store' # Absent /\ step' = Resting,
         session = Absent => step' = step
  PROVE  FileInv'
<1>1. FileTypes'
  BY RestingIs DEF FileInv, FileTypes
<1>2. FileSound' /\ UnboundIsNew'
  BY DEF FileInv, FileSound, SavedSurvives, StoredSurvives, ReplacesWhatItRead, UnboundIsNew
<1>3. session' # Absent => SessionSound' /\ StepSound'
  BY DEF FileInv, SessionSound, StepSound, Resting
<1>4. QED
  BY <1>1, <1>2, <1>3 DEF FileInv

LEMMA LoadsKeeps ==
  ASSUME FileInv, session = Absent, file # Absent, NEW next \in Stores, Loads(next),
         UNCHANGED <<step, typed, acknowledged, blind>>
  PROVE  FileInv'
<1>1. FileTypes /\ step = Resting /\ next # Absent /\ file \in written /\ file \in Bundles
  BY AbsentAssumption DEF FileInv, FileTypes
<1>2. file.doc \in SUBSET Edits /\ file.doc = Doc(file)
  BY <1>1 DEF Bundles, Doc
<1>3. CASE Confirmed(sidecar, file.doc)
  <2>1. PICK outcome \in Barriers :
          /\ PublishesSidecar(Absent, outcome)
          /\ kept' = IF outcome = "uncertain" THEN kept \ {sidecar.edit} ELSE kept
          /\ IF outcome = "done"
             THEN /\ session' = [doc |-> file.doc, form |-> Absent, uncertain |-> FALSE]
                  /\ store' = next
             ELSE /\ UNCHANGED session
                  /\ store' = IF store = Absent THEN Absent ELSE next
    BY <1>3 DEF Loads
  <2>2. /\ sidecar' \in Drafts \cup {Absent} /\ sidecars' \subseteq Drafts \cup {Absent} /\ sidecar' \in sidecars'
        /\ sidecars' \subseteq sidecars \cup {Absent}
        /\ file' = file /\ files' \subseteq files /\ file' \in files' /\ written' = written
        /\ outcome = "done" => sidecars' = {Absent} /\ files' = {file}
        /\ outcome = "failed" => sidecars' = sidecars
    BY <1>1, <2>1, PublishedSidecar
  <2>3. sidecar # Absent /\ sidecar.edit \in file.doc /\ Held(sidecar) = {sidecar.edit}
    BY <1>3 DEF Confirmed, Held
  <2>4. outcome = "done" =>
          session' \in SessionStates \ {Absent} /\ session'.doc = file.doc /\ session'.form = Absent
    <3>1. [doc |-> file.doc, form |-> Absent, uncertain |-> FALSE] \in SessionStates \ {Absent}
      BY <1>2, SessionIs
    <3>2. [doc |-> file.doc, form |-> Absent, uncertain |-> FALSE].doc = file.doc
          /\ [doc |-> file.doc, form |-> Absent, uncertain |-> FALSE].form = Absent
      OBVIOUS
    <3>3. outcome = "done" => session' = [doc |-> file.doc, form |-> Absent, uncertain |-> FALSE]
      BY <2>1
    <3>4. QED
      BY <3>1, <3>2, <3>3
  <2>5. FileTypes'
    BY <1>1, <2>1, <2>2, <2>4 DEF FileTypes
  <2>6. \A b \in files : acknowledged \subseteq Doc(b) /\ kept \subseteq Doc(b) \cup {sidecar.edit}
    BY <1>1, <2>3 DEF FileInv, FileTypes, FileSound, SavedSurvives, StoredSurvives
  <2>7. FileSound'
    <3>1. \A b \in files', d \in sidecars' : kept' \subseteq Doc(b) \cup Held(d)
      <4>1. CASE outcome = "done"
        BY <1>2, <2>1, <2>2, <2>3, <2>6, <4>1
      <4>2. CASE outcome = "uncertain"
        BY <2>1, <2>2, <2>6, <4>2
      <4>3. CASE outcome = "failed"
        BY <2>1, <2>2, <4>3 DEF FileInv, FileSound, StoredSurvives
      <4>4. QED
        BY <4>1, <4>2, <4>3 DEF Barriers
    <3>2. QED
      BY <2>2, <2>6, <3>1
      DEF FileInv, FileSound, SavedSurvives, StoredSurvives, ReplacesWhatItRead, Doc, Held
  <2>8. UnboundIsNew'
    BY <2>1, <2>2 DEF FileInv, UnboundIsNew
  <2>9. session' # Absent => SessionSound' /\ StepSound'
    <3>1. SUFFICES ASSUME session' # Absent PROVE SessionSound' /\ StepSound'
      OBVIOUS
    <3>2. outcome = "done" /\ files' = {file} /\ kept' = kept
      BY <2>1, <2>2, <3>1
    <3>3. session'.doc = file.doc /\ session'.form = Absent /\ step' = Resting
      BY <1>1, <2>4, <3>2
    <3>4. file.doc \subseteq typed /\ acknowledged \subseteq file.doc /\ kept \subseteq file.doc
      BY <1>1, <1>2, <2>3, <2>6 DEF FileInv, UnboundIsNew, FileTypes
    <3>5. QED
      BY <1>2, <3>2, <3>3, <3>4 DEF SessionSound, StepSound, Confirmed, New, Resting, Doc, Held
  <2>10. QED
    BY <2>5, <2>7, <2>8, <2>9 DEF FileInv
<1>4. CASE ~Confirmed(sidecar, file.doc)
  <2> DEFINE form == IF sidecar = Absent THEN Absent ELSE Form(sidecar.edit, sidecar.bound)
  <2>1. UnchangedFiles /\ UNCHANGED kept /\ store' = next
        /\ session' = [doc |-> file.doc, uncertain |-> FALSE, form |-> form]
    BY <1>4 DEF Loads
  <2>2. form \in Forms \cup {Absent} /\ (form = Absent <=> sidecar = Absent)
        /\ (form # Absent => form.edit = sidecar.edit /\ form.bound = sidecar.bound)
    BY <1>1, FormIs DEF FileTypes, Drafts
  <2>3. Held(form) = Held(sidecar)
    BY <2>2 DEF Held
  <2> HIDE DEF form
  <2>4. session' \in SessionStates \ {Absent} /\ session'.doc = file.doc /\ session'.form = form
    BY <1>2, <2>1, <2>2, SessionIs
  <2>5. FileTypes'
    BY <1>1, <2>1, <2>4 DEF FileTypes, UnchangedFiles
  <2>6. FileSound' /\ UnboundIsNew'
    BY <2>1 DEF FileInv, FileSound, SavedSurvives, StoredSurvives, ReplacesWhatItRead, UnboundIsNew, UnchangedFiles
  <2>7. /\ file.doc \subseteq typed
        /\ \A b \in files : acknowledged \subseteq Doc(b) /\ kept \subseteq Doc(b) \cup Held(form)
    BY <1>1, <2>3 DEF FileInv, FileTypes, FileSound, SavedSurvives, StoredSurvives, UnboundIsNew
  <2>8. form # Absent => form.edit \in typed /\ (form.bound \/ \A b \in written : form.edit \notin b.doc)
    BY <1>1, <2>2 DEF FileInv, FileTypes, UnboundIsNew
  <2>9. ~Confirmed(form, file.doc)
    BY <1>4, <2>2 DEF Confirmed
  <2>10. SessionSound'
    <3>1. acknowledged \subseteq file.doc /\ kept \subseteq file.doc \cup Held(form)
      BY <1>1, <1>2, <2>7 DEF FileTypes
    <3>2. New(form) => form.edit \notin file.doc /\ \A b \in written : form.edit \notin b.doc
      BY <1>1, <2>8 DEF New
    <3>3. /\ session'.doc = file.doc /\ session'.form = form /\ files' = files /\ written' = written
          /\ acknowledged' = acknowledged /\ kept' = kept /\ typed' = typed
      BY <2>1, <2>4 DEF UnchangedFiles
    <3>4. QED
      BY <2>7, <2>8, <2>9, <3>1, <3>2, <3>3 DEF SessionSound
  <2>11. StepSound'
    BY <1>1 DEF StepSound, Resting
  <2>12. QED
    BY <2>5, <2>6, <2>10, <2>11 DEF FileInv
<1>5. QED
  BY <1>3, <1>4

LEMMA OpenFileKeeps == ASSUME FileInv, OpenFile PROVE FileInv'
<1>1. file \in Bundles /\ file # Absent /\ session = Absent
  BY DEF FileInv, FileTypes, OpenFile
<1>2. Unlocked(file.key) \in Stores
  BY <1>1, StoreIs DEF Bundles, Unlocked
<1>3. QED
  BY <1>1, <1>2, LoadsKeeps DEF OpenFile

LEMMA UnlockFileKeeps == ASSUME FileInv, UnlockFile PROVE FileInv'
<1> DEFINE next == Unlocked(store.database)
<1>1. file \in Bundles /\ file # Absent /\ session = Absent /\ store \in Stores
  BY DEF FileInv, FileTypes, UnlockFile
<1>2. next \in Stores \ {Absent}
  BY <1>1, StoreIs DEF Stores, Unlocked
<1>3. CASE file.key = store.database /\ (sidecar # Absent => sidecar.key = file.key)
  <2>1. Loads(next)
    BY <1>3 DEF UnlockFile
  <2>2. QED
    BY <1>1, <1>2, <2>1, LoadsKeeps DEF UnlockFile
<1>4. CASE ~(file.key = store.database /\ (sidecar # Absent => sidecar.key = file.key))
  <2>1. UnchangedFiles /\ UNCHANGED <<session, kept>> /\ store' = next
    BY <1>4 DEF UnlockFile
  <2>2. QED
    BY <1>1, <1>2, <2>1, SameFileInv DEF UnlockFile, UnchangedFiles
<1>5. QED
  BY <1>3, <1>4

LEMMA EnterKeeps == ASSUME FileInv, NEW e \in Edits, Enter(e) PROVE FileInv'
<1>1. /\ FileTypes /\ session \in SessionStates /\ session # Absent /\ session.form = Absent /\ step = Resting
      /\ SessionSound /\ e \notin typed
  BY DEF FileInv, FileTypes, Enter, Editable, Awaits
<1>2. /\ Form(e, FALSE) \in Forms /\ Form(e, FALSE).edit = e /\ Form(e, FALSE) # Absent
      /\ Form(e, FALSE).bound = FALSE
  BY FormIs
<1>3. PICK form \in Forms : form = Form(e, FALSE) /\ form.edit = e /\ form # Absent /\ ~form.bound
  BY <1>2
<1>4. session' \in SessionStates \ {Absent} /\ session'.doc = session.doc /\ session'.form = form
  BY <1>1, <1>3, SessionForm DEF Enter
<1>5. FileTypes'
  BY <1>1, <1>4 DEF FileTypes, Enter, UnchangedFiles
<1>6. FileSound' /\ UnboundIsNew'
  BY DEF FileInv, FileSound, SavedSurvives, StoredSurvives, ReplacesWhatItRead, UnboundIsNew, UnchangedFiles, Enter
<1>7. SessionSound'
  <2>1. kept \subseteq session.doc /\ \A b \in files : kept \subseteq Doc(b)
    BY <1>1 DEF SessionSound, Held
  <2>2. e \notin session.doc /\ \A b \in written : e \notin b.doc
    BY <1>1 DEF FileInv, SessionSound, UnboundIsNew
  <2>3. /\ files' = files /\ written' = written /\ typed' = typed \cup {e}
        /\ acknowledged' = acknowledged /\ kept' = kept
    BY DEF Enter, UnchangedFiles
  <2>4. QED
    BY <1>1, <1>3, <1>4, <2>1, <2>2, <2>3 DEF SessionSound, Confirmed
<1>8. StepSound'
  BY <1>1 DEF StepSound, Resting, Enter
<1>9. QED
  BY <1>5, <1>6, <1>7, <1>8 DEF FileInv

LEMMA LockFileKeeps == ASSUME FileInv, LockFile PROVE FileInv'
<1>1. PICK outcome \in Barriers :
        /\ PublishesSidecar(Sealed(session.form), outcome)
        /\ kept' = IF outcome = "done" THEN kept \cup Held(session.form) ELSE kept
  BY DEF LockFile
<1>2. /\ FileTypes /\ session \in SessionStates /\ session # Absent /\ session.form \in Forms \cup {Absent}
      /\ step = Resting /\ SessionSound /\ store \in Stores
  BY DEF FileInv, FileTypes, LockFile, Awaits, SessionStates
<1>3. PICK d \in Drafts \cup {Absent} :
        /\ d = Sealed(session.form) /\ Held(d) = Held(session.form)
        /\ d # Absent => /\ session.form # Absent
                         /\ d.edit = session.form.edit /\ d.bound = session.form.bound
  BY <1>2, SealedIs
<1>4. /\ sidecar' \in Drafts \cup {Absent} /\ sidecars' \subseteq Drafts \cup {Absent} /\ sidecar' \in sidecars'
      /\ sidecars' \subseteq sidecars \cup {d}
      /\ file' = file /\ files' \subseteq files /\ file' \in files' /\ written' = written
      /\ outcome = "done" => sidecars' = {d} /\ files' = {file}
  BY <1>1, <1>2, <1>3, PublishedSidecar
<1>5. FileTypes'
  BY <1>2, <1>4 DEF FileTypes, LockFile
<1>6. FileSound'
  <2>1. \A b \in files', e \in sidecars' : kept' \subseteq Doc(b) \cup Held(e)
    <3>1. CASE outcome = "done"
      BY <1>1, <1>2, <1>3, <1>4, <3>1 DEF SessionSound
    <3>2. CASE outcome # "done"
      BY <1>1, <1>2, <1>3, <1>4, <3>2 DEF SessionSound, FileInv, FileSound, StoredSurvives
    <3>3. QED
      BY <3>1, <3>2
  <2>2. QED
    BY <1>4, <2>1 DEF FileInv, FileSound, SavedSurvives, StoredSurvives, ReplacesWhatItRead, LockFile
<1>7. UnboundIsNew'
  <2>1. d # Absent => d.edit \in typed /\ (d.bound \/ \A b \in written : d.edit \notin b.doc)
    BY <1>2, <1>3 DEF SessionSound, New
  <2>2. kept' # {} => Absent \notin files'
    BY <1>1, <1>2, <1>4 DEF FileInv, UnboundIsNew, FileTypes
  <2>3. QED
    BY <1>4, <2>1, <2>2 DEF FileInv, UnboundIsNew, LockFile
<1>8. QED
  BY <1>5, <1>6, <1>7 DEF FileInv, LockFile

LEMMA CancelDraftKeeps == ASSUME FileInv, CancelDraft PROVE FileInv'
<1>1. PICK outcome \in Barriers :
        /\ PublishesSidecar(Absent, outcome)
        /\ session' = IF outcome = "done" THEN [session EXCEPT !.form = Absent] ELSE session
  BY DEF CancelDraft
<1>2. /\ FileTypes /\ session \in SessionStates /\ session # Absent /\ session.form # Absent
      /\ step = Resting /\ SessionSound
  BY DEF FileInv, FileTypes, CancelDraft, Editable, Awaits
<1>3. /\ sidecar' \in Drafts \cup {Absent} /\ sidecars' \subseteq Drafts \cup {Absent} /\ sidecar' \in sidecars'
      /\ sidecars' \subseteq sidecars \cup {Absent}
      /\ file' = file /\ files' \subseteq files /\ file' \in files' /\ written' = written
      /\ outcome = "done" => sidecars' = {Absent} /\ files' = {file}
  BY <1>1, <1>2, PublishedSidecar
<1>4. /\ session' \in SessionStates \ {Absent} /\ session'.doc = session.doc
      /\ session'.form = Absent \/ session' = session
  BY <1>1, <1>2, SessionForm
<1>5. FileTypes'
  BY <1>2, <1>3, <1>4 DEF FileTypes, CancelDraft
<1>6. kept' \subseteq session.doc /\ kept' \subseteq kept /\ \A b \in files : kept' \subseteq Doc(b)
  BY DEF CancelDraft, Editable, Awaits, FileInv, SessionSound, FileSound, SavedSurvives
<1>7. FileSound'
  BY <1>3, <1>6 DEF FileInv, FileSound, SavedSurvives, StoredSurvives, ReplacesWhatItRead, CancelDraft
<1>8. UnboundIsNew'
  BY <1>3, <1>6 DEF FileInv, UnboundIsNew, CancelDraft
<1>9. SessionSound'
  <2>1. acknowledged' = acknowledged /\ typed' = typed
    BY DEF CancelDraft
  <2>2. CASE session'.form = Absent
    BY <1>2, <1>3, <1>4, <1>6, <2>1, <2>2 DEF SessionSound, Confirmed, New
  <2>3. CASE session' = session
    BY <1>2, <1>3, <1>6, <2>1, <2>3 DEF SessionSound
  <2>4. QED
    BY <1>4, <2>2, <2>3
<1>10. StepSound'
  BY <1>2 DEF StepSound, Resting, CancelDraft
<1>11. QED
  BY <1>5, <1>7, <1>8, <1>9, <1>10 DEF FileInv

LEMMA SaveDraftKeeps == ASSUME FileInv, SaveDraft PROVE FileInv'
<1> DEFINE bound == [session.form EXCEPT !.bound = TRUE]
<1>1. PICK outcome \in Barriers :
        /\ PublishesSidecar(Sealed(bound), outcome)
        /\ IF outcome # "done" THEN UNCHANGED <<session, step, kept>>
           ELSE /\ kept' = kept \cup {bound.edit}
                /\ session' = [session EXCEPT !.form = bound, !.uncertain = store.uncertain]
                /\ IF store.uncertain \/ ~AsRead \/ ~MayWrite THEN UNCHANGED step
                   ELSE step' = [at |-> "encrypting",
                                 next |-> Bundle(NextNumber, session.doc \cup {bound.edit}, store.base.key)]
  BY DEF SaveDraft
<1>2. /\ FileTypes /\ session \in SessionStates /\ session # Absent
      /\ step = Resting /\ SessionSound /\ store \in Stores /\ store # Absent
      /\ session.form # Absent /\ session.form \in Forms /\ session.doc \in SUBSET Edits
      /\ store.base.key \in Databases /\ store.uncertain \in BOOLEAN
  BY DEF FileInv, FileTypes, SaveDraft, Editable, Awaits, SessionStates, Stores, Bundles
<1>3. /\ bound \in Forms /\ bound # Absent /\ bound.edit = session.form.edit /\ bound.bound = TRUE
  BY <1>2, AbsentAssumption DEF Forms
<1>4. PICK d \in Drafts : d = Sealed(bound) /\ Held(d) = {bound.edit} /\ d.edit = bound.edit /\ d # Absent /\ d.bound
  BY <1>2, <1>3, SealedIs DEF Held
<1>5. /\ sidecar' \in Drafts \cup {Absent} /\ sidecars' \subseteq Drafts \cup {Absent} /\ sidecar' \in sidecars'
      /\ sidecars' \subseteq sidecars \cup {d}
      /\ file' = file /\ files' \subseteq files /\ file' \in files' /\ written' = written
      /\ outcome = "done" => sidecars' = {d} /\ files' = {file}
  BY <1>1, <1>2, <1>4, PublishedSidecar
<1>6. session.form.edit \notin session.doc
  BY <1>2 DEF SaveDraft, SessionSound, Confirmed, New
<1>7. outcome = "done" =>
        /\ session' \in SessionStates \ {Absent} /\ session'.doc = session.doc /\ session'.form = bound
        /\ step' \in Steps
        /\ step' = Resting \/
           (step'.at = "encrypting" /\ step'.next.doc = session.doc \cup {bound.edit})
  <2>1. SUFFICES ASSUME outcome = "done"
        PROVE  /\ session' \in SessionStates \ {Absent} /\ session'.doc = session.doc /\ session'.form = bound
               /\ step' \in Steps
               /\ step' = Resting \/
                  (step'.at = "encrypting" /\ step'.next.doc = session.doc \cup {bound.edit})
    OBVIOUS
  <2>2. session' = [session EXCEPT !.form = bound, !.uncertain = store.uncertain]
    BY <1>1, <2>1
  <2>3. session' \in SessionStates \ {Absent} /\ session'.doc = session.doc /\ session'.form = bound
    BY <1>2, <1>3, <2>2, AbsentAssumption DEF SessionStates
  <2>4. CASE store.uncertain \/ ~AsRead \/ ~MayWrite
    <3>1. step' = step
      BY <1>1, <2>1, <2>4
    <3>2. step' = Resting /\ step' \in Steps
      BY <1>2, <3>1, RestingIs
    <3>3. QED
      BY <2>3, <3>2
  <2>5. CASE ~(store.uncertain \/ ~AsRead \/ ~MayWrite)
    <3>1. bound.edit \in Edits
      BY <1>3 DEF Forms
    <3>2. PICK b \in Bundles :
            /\ b = Bundle(NextNumber, session.doc \cup {bound.edit}, store.base.key)
            /\ b.doc = session.doc \cup {bound.edit}
      BY <1>2, <2>5, <3>1, NextNumberIsNumber, BundleIs
    <3>3. step' = [at |-> "encrypting", next |-> b]
      BY <1>1, <2>1, <2>5, <3>2
    <3>4. [at |-> "encrypting", next |-> b] \in Steps
      BY StepIs
    <3>5. [at |-> "encrypting", next |-> b].at = "encrypting" /\ [at |-> "encrypting", next |-> b].next = b
      OBVIOUS
    <3>6. QED
      BY <2>3, <3>2, <3>3, <3>4, <3>5
  <2>6. QED
    BY <2>4, <2>5
<1>8. outcome # "done" => session' = session /\ step' = step /\ kept' = kept
  BY <1>1
<1>9. outcome = "done" => kept' = kept \cup {bound.edit}
  BY <1>1
<1> HIDE DEF bound
<1>10. FileTypes'
  BY <1>2, <1>5, <1>7, <1>8 DEF FileTypes, SaveDraft
<1>11. \A b \in files : kept' \subseteq Doc(b) \cup {bound.edit}
  BY <1>2, <1>3, <1>8, <1>9 DEF SessionSound, Held
<1>12. FileSound'
  <2>1. \A b \in files', e \in sidecars' : kept' \subseteq Doc(b) \cup Held(e)
    <3>1. CASE outcome = "done"
      BY <1>4, <1>5, <1>11, <3>1
    <3>2. CASE outcome # "done"
      BY <1>4, <1>5, <1>8, <1>11, <3>2 DEF FileInv, FileSound, StoredSurvives
    <3>3. QED
      BY <3>1, <3>2
  <2>2. QED
    BY <1>5, <2>1 DEF FileInv, FileSound, SavedSurvives, StoredSurvives, ReplacesWhatItRead, SaveDraft
<1>13. UnboundIsNew'
  <2>1. bound.edit \in typed
    BY <1>2, <1>3 DEF SessionSound
  <2>2. kept' # {} => Absent \notin files'
    BY <1>2, <1>5, <1>8, <1>9 DEF FileInv, UnboundIsNew, FileTypes
  <2>3. QED
    BY <1>4, <1>5, <2>1, <2>2 DEF FileInv, UnboundIsNew, SaveDraft
<1>14. SessionSound'
  <2>1. acknowledged' = acknowledged /\ typed' = typed
    BY DEF SaveDraft
  <2>2. CASE outcome = "done"
    <3>1. Held(bound) = {bound.edit} /\ Held(session.form) = {bound.edit}
      BY <1>2, <1>3 DEF Held
    <3>2. QED
      BY <1>2, <1>3, <1>5, <1>6, <1>7, <1>9, <2>1, <2>2, <3>1 DEF SessionSound, New, Confirmed
  <2>3. CASE outcome # "done"
    BY <1>2, <1>5, <1>8, <2>1, <2>3 DEF SessionSound
  <2>4. QED
    BY <2>2, <2>3
<1>15. StepSound'
  <2>1. CASE outcome = "done" /\ step' # Resting
    BY <1>2, <1>3, <1>4, <1>5, <1>6, <1>7, <2>1 DEF StepSound
  <2>2. CASE step' = Resting
    BY <2>2 DEF StepSound, Resting
  <2>3. QED
    BY <1>2, <1>8, <2>1, <2>2
<1>16. QED
  BY <1>10, <1>12, <1>13, <1>14, <1>15 DEF FileInv

LEMMA RecheckKeeps == ASSUME FileInv, Recheck PROVE FileInv'
<1>1. /\ FileTypes /\ session # Absent /\ SessionSound /\ StepSound /\ step \in Steps /\ step.at = "encrypting"
  BY DEF FileInv, FileTypes, Recheck, Resting
<1>2. step.next \in Bundles
  BY <1>1 DEF Steps
<1>3. PICK next \in Steps :
        next = [step EXCEPT !.at = "publishing"] /\ next.at = "publishing" /\ next.next = step.next
  <2>1. step = [at |-> "encrypting", next |-> step.next]
    BY <1>1 DEF Steps
  <2>2. [step EXCEPT !.at = "publishing"] = [at |-> "publishing", next |-> step.next]
    BY <2>1
  <2>3. [at |-> "publishing", next |-> step.next] \in Steps
    BY <1>2, StepIs
  <2>4. QED
    BY <2>2, <2>3
<1>4. /\ (step' = next /\ AsRead) \/ step' = Resting
      /\ UNCHANGED <<file, files, sidecar, sidecars, written, store, session, typed, acknowledged, kept, blind>>
  BY <1>3 DEF Recheck, UnchangedFiles
<1>5. FileTypes'
  BY <1>1, <1>4, RestingIs DEF FileTypes
<1>6. FileSound' /\ UnboundIsNew' /\ SessionSound'
  BY <1>1, <1>4
  DEF FileInv, FileSound, SavedSurvives, StoredSurvives, ReplacesWhatItRead, UnboundIsNew, SessionSound
<1>7. StepSound'
  <2>1. CASE step' = next /\ AsRead
    <3>1. step'.at = "publishing" /\ step'.next = step.next /\ AsRead'
      BY <1>3, <1>4, <2>1 DEF AsRead
    <3>2. QED
      BY <1>1, <1>4, <3>1 DEF StepSound
  <2>2. CASE step' = Resting
    BY <2>2 DEF StepSound, Resting
  <2>3. QED
    BY <1>4, <2>1, <2>2
<1>8. QED
  BY <1>5, <1>6, <1>7 DEF FileInv

LEMMA PublishFileKeeps == ASSUME FileInv, PublishFile PROVE FileInv'
<1>1. /\ FileTypes /\ session # Absent /\ SessionSound /\ StepSound /\ step \in Steps /\ step.at = "publishing"
      /\ session \in SessionStates /\ store \in Stores
  BY DEF FileInv, FileTypes, PublishFile, Resting
<1>2. /\ session.form # Absent /\ session.form.bound /\ session.form.edit \notin session.doc
      /\ step.next.doc = session.doc \cup {session.form.edit} /\ step.next \in Bundles
      /\ step.next # Absent /\ session.form.edit \in typed
      /\ \A d \in sidecars : d # Absent /\ d.bound
      /\ late \/ AsRead
  BY <1>1, AbsentAssumption DEF StepSound, SessionSound, Steps
<1>3. PICK outcome \in Barriers :
        /\ PublishesFile(step.next, outcome)
        /\ blind' = (blind \/ (outcome # "failed" /\ ~AsRead /\ ~late))
        /\ CASE outcome = "done" ->
                  /\ store' = [store EXCEPT !.base = step.next]
                  /\ session' = [session EXCEPT !.doc = step.next.doc]
                  /\ acknowledged' = acknowledged \cup {session.form.edit}
                  /\ step' = [Resting EXCEPT !.at = "clearing"]
             [] outcome = "uncertain" ->
                  /\ store' = [store EXCEPT !.uncertain = TRUE]
                  /\ session' = [session EXCEPT !.uncertain = TRUE]
                  /\ step' = Resting /\ UNCHANGED acknowledged
             [] OTHER -> step' = Resting /\ UNCHANGED <<store, session, acknowledged>>
  BY DEF PublishFile
<1>4. PICK b \in Bundles : b = step.next /\ b # Absent /\ b.doc = session.doc \cup {session.form.edit}
  BY <1>2
<1>5. /\ file' \in Bundles \cup {Absent} /\ files' \subseteq Bundles \cup {Absent} /\ file' \in files'
      /\ files' \subseteq files \cup {b} /\ files' \subseteq written' \cup {Absent}
      /\ sidecar' = sidecar /\ sidecars' \subseteq sidecars /\ sidecar' \in sidecars'
      /\ written' \subseteq written \cup {b} /\ written' \subseteq Bundles
      /\ outcome = "done" => file' = b /\ files' = {b}
      /\ outcome = "uncertain" => file' = b
      /\ outcome = "failed" => file' = file
  BY <1>1, <1>3, <1>4, PublishedFile
<1>6. UNCHANGED <<typed, kept>> /\ ~blind'
  BY <1>2, <1>3 DEF PublishFile, FileInv, FileSound, ReplacesWhatItRead
<1>7. acknowledged \subseteq b.doc /\ kept \subseteq b.doc
  BY <1>1, <1>2, <1>4 DEF SessionSound, Held
<1>8. UnboundIsNew'
  <2>1. b.doc \subseteq typed
    BY <1>1, <1>2, <1>4 DEF SessionSound
  <2>2. kept' # {} => Absent \notin files'
    BY <1>4, <1>5, <1>6 DEF FileInv, UnboundIsNew
  <2>3. \A d \in sidecars' : d # Absent => d.edit \in typed' /\ d.bound
    BY <1>2, <1>5, <1>6 DEF FileInv, UnboundIsNew
  <2>4. \A c \in written' : c.doc \subseteq typed'
    BY <1>5, <1>6, <2>1 DEF FileInv, UnboundIsNew
  <2>5. QED
    BY <2>2, <2>3, <2>4 DEF UnboundIsNew
<1>9. StoredSurvives'
  BY <1>4, <1>5, <1>6, <1>7 DEF FileInv, FileSound, StoredSurvives, Doc
<1>10. CASE outcome = "done"
  <2>1. /\ store' = [store EXCEPT !.base = b]
        /\ session' = [session EXCEPT !.doc = b.doc]
        /\ acknowledged' = acknowledged \cup {session.form.edit}
        /\ step' = [Resting EXCEPT !.at = "clearing"]
    BY <1>3, <1>4, <1>10
  <2>2. store' \in Stores \ {Absent}
    BY <1>1, <2>1, AbsentAssumption DEF Stores
  <2>3. session' \in SessionStates \ {Absent} /\ session'.doc = b.doc /\ session'.form = session.form
    <3>1. b.doc \in SUBSET Edits
      BY DEF Bundles
    <3>2. QED
      BY <1>1, <2>1, <3>1, AbsentAssumption DEF SessionStates
  <2>4. step' \in Steps /\ step'.at = "clearing"
    BY <2>1, RestingIs DEF Resting
  <2>5. FileTypes'
    BY <1>1, <1>4, <1>5, <1>10, <2>2, <2>3, <2>4 DEF FileTypes
  <2>6. FileSound'
    BY <1>4, <1>5, <1>6, <1>7, <1>9, <1>10, <2>1 DEF FileSound, SavedSurvives, ReplacesWhatItRead, Doc
  <2>7. SessionSound'
    <3>1. /\ files' = {b} /\ acknowledged' \subseteq b.doc /\ kept' \subseteq b.doc
          /\ session.form.edit \in b.doc /\ b.doc = Doc(b) /\ b.doc \subseteq typed'
      BY <1>1, <1>2, <1>4, <1>5, <1>6, <1>7, <1>10, <2>1 DEF SessionSound, Doc
    <3>2. QED
      BY <1>2, <1>6, <2>3, <3>1 DEF SessionSound, New
  <2>8. StepSound'
    BY <1>2, <1>4, <2>3, <2>4 DEF StepSound, Confirmed
  <2>9. QED
    BY <1>8, <2>5, <2>6, <2>7, <2>8 DEF FileInv
<1>11. CASE outcome # "done"
  <2>1. /\ store' = [store EXCEPT !.uncertain = TRUE] \/ store' = store
        /\ session' = [session EXCEPT !.uncertain = TRUE] \/ session' = session
        /\ step' = Resting /\ acknowledged' = acknowledged
    BY <1>3, <1>11
  <2>2. store' \in Stores \ {Absent}
    BY <1>1, <2>1, AbsentAssumption DEF Stores
  <2>3. session' \in SessionStates \ {Absent} /\ session'.doc = session.doc /\ session'.form = session.form
    BY <1>1, <2>1, AbsentAssumption DEF SessionStates
  <2>4. file' # Absent
    BY <1>1, <1>4, <1>5, <1>11 DEF FileTypes, Barriers
  <2>5. FileTypes'
    BY <1>1, <1>5, <2>1, <2>2, <2>3, <2>4, RestingIs DEF FileTypes
  <2>6. FileSound'
    BY <1>4, <1>5, <1>6, <1>7, <1>9, <2>1 DEF FileInv, FileSound, SavedSurvives, ReplacesWhatItRead, Doc
  <2>7. SessionSound'
    <3>1. \A c \in files' : kept' \subseteq Doc(c) \cup Held(session.form)
      BY <1>1, <1>4, <1>5, <1>6, <1>7 DEF SessionSound, Doc
    <3>2. QED
      BY <1>1, <1>2, <1>6, <2>1, <2>3, <3>1 DEF SessionSound, New, Confirmed
  <2>8. StepSound'
    BY <2>1 DEF StepSound, Resting
  <2>9. QED
    BY <1>8, <2>5, <2>6, <2>7, <2>8 DEF FileInv
<1>12. QED
  BY <1>10, <1>11

LEMMA SaveAgainKeeps == ASSUME FileInv, SaveAgain PROVE FileInv'
<1>1. UNCHANGED <<file, files, sidecar, sidecars, written, store, session, typed, acknowledged, kept, blind>>
  BY DEF SaveAgain, UnchangedFiles
<1>2. step' \in Steps /\ step'.at = "clearing" /\ session # Absent /\ Confirmed(session.form, session.doc)
  BY RestingIs DEF SaveAgain, Editable, Awaits, Resting
<1>3. FileTypes'
  BY <1>1, <1>2 DEF FileInv, FileTypes
<1>4. FileSound' /\ UnboundIsNew' /\ SessionSound'
  BY <1>1, <1>2
  DEF FileInv, FileSound, SavedSurvives, StoredSurvives, ReplacesWhatItRead, UnboundIsNew, SessionSound
<1>5. StepSound'
  BY <1>1, <1>2 DEF StepSound
<1>6. QED
  BY <1>3, <1>4, <1>5 DEF FileInv

LEMMA ClearDraftKeeps == ASSUME FileInv, ClearDraft PROVE FileInv'
<1>1. PICK outcome \in Barriers :
        /\ PublishesSidecar(Absent, outcome)
        /\ session' = IF outcome = "done" THEN [session EXCEPT !.form = Absent] ELSE session
  BY DEF ClearDraft
<1>2. /\ FileTypes /\ session \in SessionStates /\ session # Absent
      /\ SessionSound /\ StepSound /\ step.at = "clearing" /\ Confirmed(session.form, session.doc)
  BY DEF FileInv, FileTypes, ClearDraft, StepSound, Resting
<1>3. /\ sidecar' \in Drafts \cup {Absent} /\ sidecars' \subseteq Drafts \cup {Absent} /\ sidecar' \in sidecars'
      /\ sidecars' \subseteq sidecars \cup {Absent}
      /\ file' = file /\ files' \subseteq files /\ file' \in files' /\ written' = written
  BY <1>1, <1>2, PublishedSidecar
<1>4. /\ session' \in SessionStates \ {Absent} /\ session'.doc = session.doc
      /\ session'.form = Absent \/ session' = session
  BY <1>1, <1>2, SessionForm
<1>5. FileTypes'
  BY <1>2, <1>3, <1>4, RestingIs DEF FileTypes, ClearDraft
<1>6. kept \subseteq session.doc /\ \A b \in files : kept \subseteq Doc(b)
  BY <1>2 DEF SessionSound, Confirmed, Held
<1>7. UNCHANGED <<kept, typed, acknowledged, blind>> /\ step' = Resting
  BY DEF ClearDraft
<1>8. FileSound'
  BY <1>3, <1>6, <1>7 DEF FileInv, FileSound, SavedSurvives, StoredSurvives, ReplacesWhatItRead
<1>9. UnboundIsNew'
  BY <1>3, <1>7 DEF FileInv, UnboundIsNew
<1>10. SessionSound'
  <2>1. CASE session'.form = Absent
    BY <1>2, <1>3, <1>4, <1>6, <1>7, <2>1 DEF SessionSound, Confirmed, New
  <2>2. CASE session' = session
    BY <1>2, <1>3, <1>7, <2>2 DEF SessionSound
  <2>3. QED
    BY <1>4, <2>1, <2>2
<1>11. StepSound'
  BY <1>7 DEF StepSound, Resting
<1>12. QED
  BY <1>5, <1>8, <1>9, <1>10, <1>11 DEF FileInv

LEMMA ReloadKeeps == ASSUME FileInv, Reload PROVE FileInv'
<1>1. UNCHANGED <<file, files, sidecar, sidecars, written, store, session, typed, acknowledged, kept, blind>>
  BY DEF Reload, UnchangedFiles
<1>2. session # Absent /\ file \in Bundles /\ step' = [at |-> "reloading", next |-> file]
  BY DEF FileInv, FileTypes, Reload, Awaits
<1>3. step' \in Steps /\ step'.at = "reloading"
  BY <1>2, StepIs
<1>4. FileTypes'
  BY <1>1, <1>2, <1>3 DEF FileInv, FileTypes
<1>5. FileSound' /\ UnboundIsNew' /\ SessionSound'
  BY <1>1, <1>2
  DEF FileInv, FileSound, SavedSurvives, StoredSurvives, ReplacesWhatItRead, UnboundIsNew, SessionSound
<1>6. StepSound'
  BY <1>3 DEF StepSound
<1>7. QED
  BY <1>4, <1>5, <1>6 DEF FileInv

LEMMA ReloadedKeeps == ASSUME FileInv, Reloaded PROVE FileInv'
<1>1. /\ FileTypes /\ session # Absent /\ SessionSound /\ store \in Stores /\ file \in Bundles
      /\ session \in SessionStates /\ step' = Resting /\ file \in written
  BY AbsentAssumption DEF FileInv, FileTypes, Reloaded, Resting
<1>2. UNCHANGED <<typed, kept, blind>>
  BY DEF Reloaded
<1>3. CASE UnchangedFiles /\ UNCHANGED <<store, session, acknowledged>>
  BY <1>1, <1>2, <1>3, SameFileInv DEF UnchangedFiles, FileTypes
<1>4. CASE /\ files' = {file} /\ sidecars' = {sidecar}
           /\ UNCHANGED <<file, sidecar, written>>
  <2>1. UnboundIsNew'
    BY <1>1, <1>2, <1>4 DEF FileInv, UnboundIsNew, FileTypes
  <2>2. StepSound'
    BY <1>1 DEF StepSound, Resting
  <2>3. StoredSurvives'
    BY <1>1, <1>2, <1>4 DEF FileInv, FileTypes, FileSound, StoredSurvives
  <2>4. CASE UNCHANGED <<store, session, acknowledged>>
    <3>1. FileTypes'
      BY <1>1, <1>4, <2>4, RestingIs DEF FileTypes
    <3>2. FileSound'
      BY <1>1, <1>2, <1>4, <2>3, <2>4 DEF FileInv, FileTypes, FileSound, SavedSurvives, ReplacesWhatItRead
    <3>3. SessionSound'
      BY <1>1, <1>2, <1>4, <2>4 DEF SessionSound, FileTypes
    <3>4. QED
      BY <2>1, <2>2, <3>1, <3>2, <3>3 DEF FileInv
  <2>5. CASE /\ store' = [store EXCEPT !.base = file, !.uncertain = FALSE]
             /\ session' = [doc |-> file.doc, uncertain |-> FALSE,
                            form |-> IF Confirmed(session.form, file.doc) THEN Absent ELSE session.form]
             /\ acknowledged' = acknowledged \cup file.doc
    <3> DEFINE form == IF Confirmed(session.form, file.doc) THEN Absent ELSE session.form
    <3>1. form \in Forms \cup {Absent} /\ (form = Absent \/ form = session.form) /\ ~Confirmed(form, file.doc)
      BY <1>1 DEF SessionStates, Confirmed
    <3>2. file.doc \subseteq Edits /\ Doc(file) = file.doc
      BY <1>1, AbsentAssumption DEF Bundles, Doc
    <3>3. acknowledged' = file.doc /\ file.doc \subseteq typed
      BY <1>1, <2>5, <3>2 DEF FileInv, FileSound, SavedSurvives, UnboundIsNew, FileTypes
    <3>4. kept \subseteq file.doc \cup Held(form)
      <4>1. kept \subseteq file.doc \cup Held(session.form)
        BY <1>1, <3>2 DEF SessionSound, FileTypes
      <4>2. CASE Confirmed(session.form, file.doc)
        BY <4>1, <4>2 DEF Confirmed, Held
      <4>3. QED
        BY <4>1, <4>2
    <3>5. session' = [doc |-> file.doc, uncertain |-> FALSE, form |-> form]
      BY <2>5
    <3> HIDE DEF form
    <3>6. session' \in SessionStates \ {Absent} /\ session'.doc = file.doc /\ session'.form = form
      BY <3>1, <3>2, <3>5, SessionIs
    <3>7. store' \in Stores \ {Absent}
      BY <1>1, <2>5, AbsentAssumption DEF Stores
    <3>8. FileTypes'
      BY <1>1, <1>4, <3>6, <3>7, RestingIs DEF FileTypes
    <3>9. FileSound'
      BY <1>2, <1>4, <2>3, <3>2, <3>3 DEF FileInv, FileSound, SavedSurvives, ReplacesWhatItRead
    <3>10. form # Absent => form.edit \in typed
      BY <1>1, <3>1 DEF SessionSound
    <3>11. New(form) => form.edit \notin file.doc /\ \A b \in written : form.edit \notin b.doc
      BY <1>1, <3>1 DEF SessionSound, New
    <3>12. SessionSound'
      BY <1>2, <1>4, <3>1, <3>2, <3>3, <3>4, <3>6, <3>10, <3>11 DEF SessionSound
    <3>13. QED
      BY <2>1, <2>2, <3>8, <3>9, <3>12 DEF FileInv
  <2>6. QED
    BY <1>4, <2>4, <2>5 DEF Reloaded
<1>5. QED
  BY <1>3, <1>4 DEF Reloaded

LEMMA FileKilledKeeps == ASSUME FileInv, FileKilled PROVE FileInv'
  BY RestingIs
  DEF FileInv, FileTypes, FileSound, SavedSurvives, StoredSurvives, ReplacesWhatItRead, UnboundIsNew,
    FileKilled, UnchangedFiles

LEMMA FileLostKeeps == ASSUME FileInv, FileLost PROVE FileInv'
<1>1. PICK b \in files, d \in sidecars : file' = b /\ files' = {b} /\ sidecar' = d /\ sidecars' = {d}
  BY DEF FileLost
<1>2. FileTypes /\ session' = Absent /\ store' = Absent /\ step' = Resting
      /\ UNCHANGED <<written, typed, acknowledged, kept, blind>>
  BY DEF FileInv, FileLost
<1>3. FileTypes'
  BY <1>1, <1>2, RestingIs DEF FileTypes
<1>4. FileSound' /\ UnboundIsNew'
  BY <1>1, <1>2 DEF FileInv, FileSound, SavedSurvives, StoredSurvives, ReplacesWhatItRead, UnboundIsNew
<1>5. QED
  BY <1>2, <1>3, <1>4 DEF FileInv

LEMMA ReplacedKeeps ==
  ASSUME FileInv, NEW b \in OwnBundles \cup {OtherDatabase}, Replaced(b) PROVE FileInv'
<1>1. /\ FileTypes /\ file # Absent /\ file' = b /\ files' = files \cup {b} /\ written' = written \cup {b}
      /\ acknowledged' = acknowledged \cap b.doc
      /\ kept' = {e \in kept : e \in b.doc \/ \A c \in files : e \notin Doc(c)}
      /\ UNCHANGED <<sidecar, sidecars, store, session, step, typed, blind>>
  BY DEF FileInv, Replaced
<1>2. b \in Bundles /\ b # Absent /\ b.doc = Doc(b) /\ b.doc \subseteq typed
      /\ \A e : (\A c \in written : e \notin c.doc) => e \notin b.doc
  <2>1. CASE b \in written
    BY <1>1, <2>1, AbsentAssumption DEF FileInv, FileTypes, UnboundIsNew, Doc
  <2>2. CASE b = OtherDatabase
    <3>1. OtherDatabase \in Bundles /\ OtherDatabase.doc = {} /\ OtherDatabase # Absent
      BY BundleIs DEF OtherDatabase, Databases
    <3>2. QED
      BY <2>2, <3>1 DEF Doc
  <2>3. QED
    BY <2>1, <2>2 DEF OwnBundles
<1>3. FileTypes'
  BY <1>1, <1>2 DEF FileTypes
<1>4. \A d \in sidecars : kept' \subseteq b.doc \cup Held(d)
  BY <1>1 DEF FileInv, FileSound, StoredSurvives, FileTypes
<1>5. FileSound'
  BY <1>1, <1>2, <1>4 DEF FileInv, FileSound, SavedSurvives, StoredSurvives, ReplacesWhatItRead
<1>6. UnboundIsNew'
  BY <1>1, <1>2 DEF FileInv, UnboundIsNew
<1>7. session' # Absent => SessionSound' /\ StepSound'
  <2>1. SUFFICES ASSUME session # Absent PROVE SessionSound' /\ StepSound'
    BY <1>1
  <2>2. SessionSound /\ StepSound
    BY <2>1 DEF FileInv
  <2>3. kept' \subseteq b.doc \cup Held(session.form) /\ kept' \subseteq kept
    BY <1>1, <2>2 DEF SessionSound, FileTypes
  <2>4. Confirmed(session.form, session.doc) /\ session.form.edit \in kept' => session.form.edit \in b.doc
    BY <1>1, <2>2 DEF SessionSound, FileTypes
  <2>5. SessionSound'
    BY <1>1, <1>2, <2>2, <2>3, <2>4 DEF SessionSound
  <2>6. step.at = "publishing" => late'
    BY DEF Replaced
  <2>7. StepSound'
    BY <1>1, <2>2, <2>6 DEF StepSound
  <2>8. QED
    BY <2>5, <2>7
<1>8. QED
  BY <1>3, <1>5, <1>6, <1>7 DEF FileInv

-----------------------------------------------------------------------------
LEMMA NextFileInv == FileInv /\ [FileNext]_fileVars => FileInv'
<1> SUFFICES ASSUME FileInv, [FileNext]_fileVars PROVE FileInv'
  OBVIOUS
<1>1. CASE UNCHANGED fileVars
  BY <1>1
  DEF FileInv, FileTypes, FileSound, SavedSurvives, StoredSurvives, ReplacesWhatItRead, UnboundIsNew,
    SessionSound, StepSound, AsRead, fileVars
<1>2. CASE \E e \in Edits : Enter(e)
  BY <1>2, EnterKeeps
<1>3. CASE \E b \in OwnBundles \cup {OtherDatabase} : Replaced(b)
  BY <1>3, ReplacedKeeps
<1>4. QED
  BY <1>1, <1>2, <1>3, CreateFileKeeps, OpenFileKeeps, UnlockFileKeeps, LockFileKeeps, CancelDraftKeeps,
    SaveDraftKeeps, RecheckKeeps, PublishFileKeeps, SaveAgainKeeps, ClearDraftKeeps, ReloadKeeps,
    ReloadedKeeps, FileKilledKeeps, FileLostKeeps
  DEF FileNext

(* Whatever barriers fail, wherever the program ends and whatever is put   *)
(* in place of the file: an edit that a session took for saved is in the   *)
(* file, one that was stored is in the file or beside it, and no save      *)
(* replaces what it has not read (save_draft, save_stream, unlock_bundle,  *)
(* reload_bundle).                                                         *)
THEOREM FilesAreSound == FileSpec => []FileSound
<1>1. FileInv => FileSound
  BY DEF FileInv
<1>2. QED
  BY <1>1, InitFileInv, NextFileInv, PTL DEF FileSpec
=============================================================================
