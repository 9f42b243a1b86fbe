------------------------------ MODULE Sessions ------------------------------
(***************************************************************************)
(* The host's side of an unlocked database: a plaintext child process, the *)
(* pipe actor that talks to it, the callers that wait for its answers, and *)
(* the supervisor that revokes access and ends the process                 *)
(* (taypeer-runtime/src/session/{mod,process}.rs, process.rs).             *)
(*                                                                         *)
(* The jobs channel holds one job, so a caller's request can stand in the  *)
(* way of the supervisor's Close.  The child may hang or crash in every    *)
(* step; a message it wrote before it ended can still be read.             *)
(***************************************************************************)
EXTENDS Naturals, Sequences

CONSTANTS
  None,
  Sessions,       \* processes one controller starts
  MaxRequests,    \* requests each caller makes in one session
  MaxInputs       \* inputs a user makes in one session

Clients == {"user", "apply"}      \* the owner's commands, the background queue

VARIABLES
  idle,      \* the controller's inactivity deadline has passed
  stopped,   \* the controller was dropped
  control,   \* ProcessControl's state
  owned,     \* a Worker still holds the client
  jobs,      \* the jobs channel
  actor,     \* what the pipe actor is doing
  child,     \* the process
  input,     \* the pipe to the child
  output,    \* the pipe from the child
  callers,   \* the threads inside Client::request
  asked,     \* requests made
  durable,      \* the inputs that are durable, in the document or the draft
  told       \* history: the inputs a caller was told of

vars == <<idle, stopped, control, owned, jobs, actor, child, input, output, callers, asked, durable, told>>

NotStarted ==
  [phase |-> None, late |-> FALSE, sent |-> FALSE, killed |-> FALSE,
   ack |-> None, outcome |-> None]
NoChild == [alive |-> FALSE, memory |-> 0, doing |-> None]
NoCall == [kind |-> None, at |-> None, reply |-> None]

Init ==
  /\ idle = FALSE /\ stopped = FALSE
  /\ control = [s \in Sessions |-> NotStarted]
  /\ owned = [s \in Sessions |-> FALSE]
  /\ jobs = [s \in Sessions |-> <<>>]
  /\ actor = [s \in Sessions |-> [at |-> "idle", for |-> None]]
  /\ child = [s \in Sessions |-> NoChild]
  /\ input = [s \in Sessions |-> None]
  /\ output = [s \in Sessions |-> None]
  /\ callers = [s \in Sessions |-> [c \in Clients |-> NoCall]]
  /\ asked = [s \in Sessions |-> [c \in Clients |-> 0]]
  /\ durable = [s \in Sessions |-> 0]
  /\ told = [s \in Sessions |-> 0]

-----------------------------------------------------------------------------
(* Access is revoked once, for whatever reason.                            *)

Revoked(c) == IF c.phase \in {"Opening", "Open"} THEN [c EXCEPT !.phase = "Closing"] ELSE c

(* check: an inactivity deadline that has passed is acted on first.        *)
Due == idle /\ ~stopped
Permits(s, opening) ==
  /\ ~Due
  /\ \/ control[s].phase = "Open"
     \/ opening /\ control[s].phase = "Opening"

RevokeAll == control' = [s \in Sessions |-> Revoked(control[s])]

(* expire: by the supervisor's timer, or by whoever looks first.           *)
Expire ==
  /\ Due
  /\ idle' = FALSE
  /\ RevokeAll
  /\ UNCHANGED <<stopped, owned, jobs, actor, child, input, output, callers, asked, durable, told>>

Inactive ==
  /\ ~idle /\ ~stopped /\ \E s \in Sessions : control[s].phase \in {"Opening", "Open"}
  /\ idle' = TRUE
  /\ UNCHANGED <<stopped, control, owned, jobs, actor, child, input, output, callers, asked, durable, told>>

LockAll ==
  /\ \E s \in Sessions : control[s].phase \in {"Opening", "Open"}
  /\ RevokeAll
  /\ UNCHANGED <<idle, stopped, owned, jobs, actor, child, input, output, callers, asked, durable, told>>

(* The controller is dropped with the application.                         *)
Stop ==
  /\ ~stopped
  /\ stopped' = TRUE
  /\ RevokeAll
  /\ UNCHANGED <<idle, owned, jobs, actor, child, input, output, callers, asked, durable, told>>

(* Client::connect: the process is registered before anything is asked.    *)
Connect(s) ==
  /\ control[s].phase = None /\ ~stopped /\ ~Due
  /\ control' = [control EXCEPT ![s].phase = "Opening"]
  /\ owned' = [owned EXCEPT ![s] = TRUE]
  /\ child' = [child EXCEPT ![s].alive = TRUE]
  /\ callers' = [callers EXCEPT ![s]["user"] = [kind |-> "boot", at |-> "sending", reply |-> None]]
  /\ UNCHANGED <<idle, stopped, jobs, actor, input, output, asked, durable, told>>

(* close_report revokes, dropping the Worker also gives up the client.     *)
Close(s) ==
  /\ control[s].phase \in {"Opening", "Open"} /\ callers[s]["user"] = NoCall
  /\ control' = [control EXCEPT ![s] = Revoked(@)]
  /\ UNCHANGED <<idle, stopped, owned, jobs, actor, child, input, output, callers, asked, durable, told>>
DropWorker(s) ==
  /\ owned[s] /\ callers[s] = [c \in Clients |-> NoCall]
  /\ owned' = [owned EXCEPT ![s] = FALSE]
  /\ control' = [control EXCEPT ![s] = Revoked(@)]
  /\ UNCHANGED <<idle, stopped, jobs, actor, child, input, output, callers, asked, durable, told>>

-----------------------------------------------------------------------------
(* Client::request                                                         *)

Kinds(c) == IF c = "user" THEN {"input", "save"} ELSE {"read"}

Opening(s, c) == callers[s][c].kind = "boot"

Request(s, c) ==
  /\ owned[s] /\ callers[s][c] = NoCall /\ Permits(s, FALSE)
  /\ asked[s][c] < MaxRequests[c]
  /\ asked' = [asked EXCEPT ![s][c] = @ + 1]
  /\ \E k \in Kinds(c) :
       callers' = [callers EXCEPT ![s][c] = [kind |-> k, at |-> "sending", reply |-> None]]
  /\ UNCHANGED <<idle, stopped, control, owned, jobs, actor, child, input, output, durable, told>>

Send(s, c) ==
  /\ callers[s][c].at = "sending" /\ Permits(s, Opening(s, c))
  /\ jobs[s] = <<>> /\ actor[s].at # "done"
  /\ jobs' = [jobs EXCEPT ![s] = <<c>>]
  /\ callers' = [callers EXCEPT ![s][c].at = "waiting"]
  /\ UNCHANGED <<idle, stopped, control, owned, actor, child, input, output, asked, durable, told>>

(* An answer counts only while access is permitted.                        *)
Answered(s, c) ==
  /\ callers[s][c].at = "waiting" /\ callers[s][c].reply # None /\ Permits(s, Opening(s, c))
  /\ callers' = [callers EXCEPT ![s][c] = NoCall]
  /\ told' = IF callers[s][c].kind = "input" /\ callers[s][c].reply = "ok"
             THEN [told EXCEPT ![s] = @ + 1] ELSE told
  /\ control' = IF Opening(s, c)
                THEN [control EXCEPT ![s] =
                        IF callers[s][c].reply = "ok" THEN [@ EXCEPT !.phase = "Open"]
                        ELSE Revoked(@)]
                ELSE control
  /\ UNCHANGED <<idle, stopped, owned, jobs, actor, child, input, output, asked, durable>>
Interrupted(s, c) ==
  /\ callers[s][c].at \in {"sending", "waiting"}
  /\ ~Permits(s, Opening(s, c)) /\ ~Due
  /\ callers' = [callers EXCEPT ![s][c] = NoCall]
  /\ UNCHANGED <<idle, stopped, control, owned, jobs, actor, child, input, output, asked, durable, told>>

-----------------------------------------------------------------------------
(* PipeActor                                                               *)

Reply(s, c, r) ==
  callers' = IF callers[s][c].at = "waiting" THEN [callers EXCEPT ![s][c].reply = r] ELSE callers

(* A request is written only while access is permitted and the process     *)
(* reads; every job leaves the actor ready for the next one.               *)
TakeRequest(s) ==
  /\ actor[s].at = "idle" /\ jobs[s] # <<>> /\ jobs[s][1] \in Clients /\ ~Due
  /\ LET c == jobs[s][1] IN
     /\ jobs' = [jobs EXCEPT ![s] = <<>>]
     /\ IF callers[s][c].at = "waiting" /\ Permits(s, Opening(s, c)) /\ child[s].alive
        THEN /\ input' = [input EXCEPT ![s] = callers[s][c].kind]
             /\ actor' = [actor EXCEPT ![s] = [at |-> "request", for |-> c]]
             /\ UNCHANGED <<callers, control>>
        ELSE /\ Reply(s, c, "error")
             /\ control' = [control EXCEPT ![s] = Revoked(@)]
             /\ UNCHANGED <<input, actor>>
  /\ UNCHANGED <<idle, stopped, owned, child, output, asked, durable, told>>

TakeClose(s) ==
  /\ actor[s].at = "idle" /\ jobs[s] = <<"Close">>
  /\ jobs' = [jobs EXCEPT ![s] = <<>>]
  /\ IF child[s].alive
     THEN /\ input' = [input EXCEPT ![s] = "Lock"]
          /\ actor' = [actor EXCEPT ![s] = [at |-> "close", for |-> None]]
          /\ UNCHANGED control
     ELSE /\ control' = [control EXCEPT ![s].ack = "transport"]
          /\ actor' = [actor EXCEPT ![s] = [at |-> "done", for |-> None]]
          /\ UNCHANGED input
  /\ UNCHANGED <<idle, stopped, owned, child, output, callers, asked, durable, told>>

(* Callbacks: while closing only what a draft needs, otherwise only while  *)
(* access is permitted.                                                    *)
Admits(s, message) ==
  IF actor[s].at = "close" THEN message = "draft" ELSE Permits(s, TRUE)

ReadCallback(s) ==
  /\ actor[s].at \in {"request", "close"} /\ output[s] \in {"commit", "draft"} /\ ~Due
  /\ output' = [output EXCEPT ![s] = None]
  /\ IF Admits(s, output[s])
     THEN /\ actor' = [actor EXCEPT ![s].at = IF @ = "close" THEN "drafting" ELSE "committing"]
          /\ UNCHANGED input
     ELSE /\ input' = [input EXCEPT ![s] = "refused"]
          /\ UNCHANGED actor
  /\ UNCHANGED <<idle, stopped, control, owned, jobs, child, callers, asked, durable, told>>

(* The write itself takes its time, and may fail.                          *)
Performed(s) ==
  /\ actor[s].at \in {"committing", "drafting"}
  /\ actor' = [actor EXCEPT ![s].at = IF @ = "drafting" THEN "close" ELSE "request"]
  /\ \/ /\ durable' = [durable EXCEPT ![s] = child[s].memory]
        /\ input' = [input EXCEPT ![s] = "done"]
     \/ /\ input' = [input EXCEPT ![s] = "refused"]
        /\ UNCHANGED durable
  /\ UNCHANGED <<idle, stopped, control, owned, jobs, child, output, callers, asked, told>>

ReadResponse(s) ==
  /\ actor[s].at \in {"request", "close"} /\ output[s] \in {"ok", "service"}
  /\ output' = [output EXCEPT ![s] = None]
  /\ IF actor[s].at = "request"
     THEN /\ Reply(s, actor[s].for, output[s])
          /\ actor' = [actor EXCEPT ![s] = [at |-> "idle", for |-> None]]
          /\ UNCHANGED control
     ELSE /\ control' = [control EXCEPT ![s].ack = output[s]]
          /\ actor' = [actor EXCEPT ![s] = [at |-> "done", for |-> None]]
          /\ UNCHANGED callers
  /\ UNCHANGED <<idle, stopped, owned, jobs, child, input, asked, durable, told>>

(* The pipe of a process that ended: an error, and access is revoked.      *)
ReadEnd(s) ==
  /\ actor[s].at \in {"request", "close"} /\ output[s] = None /\ ~child[s].alive
  /\ IF actor[s].at = "request"
     THEN /\ Reply(s, actor[s].for, "error")
          /\ control' = [control EXCEPT ![s] = Revoked(@)]
          /\ actor' = [actor EXCEPT ![s] = [at |-> "idle", for |-> None]]
     ELSE /\ control' = [control EXCEPT ![s].ack = "transport"]
          /\ actor' = [actor EXCEPT ![s] = [at |-> "done", for |-> None]]
          /\ UNCHANGED callers
  /\ UNCHANGED <<idle, stopped, owned, jobs, child, input, output, asked, durable, told>>

(* Without a job the actor ends once the process is known to have ended.   *)
ActorEnds(s) ==
  /\ actor[s].at = "idle" /\ jobs[s] = <<>> /\ control[s].phase = "Closed"
  /\ actor' = [actor EXCEPT ![s] = [at |-> "done", for |-> None]]
  /\ UNCHANGED <<idle, stopped, control, owned, jobs, child, input, output, callers, asked, durable, told>>

(* The last owner of the control is gone: the process is terminated.       *)
DropControl(s) ==
  /\ actor[s].at = "done" /\ ~owned[s] /\ control[s].phase \notin {"Closed", "Dropped"}
  /\ control' = [control EXCEPT ![s].phase = "Dropped"]
  /\ child' = [child EXCEPT ![s].alive = FALSE]
  /\ UNCHANGED <<idle, stopped, owned, jobs, actor, input, output, callers, asked, durable, told>>

-----------------------------------------------------------------------------
(* ProcessControl::poll, by the supervisor's thread and by invalidate.     *)

SendClose(s) ==
  IF ~control[s].sent /\ jobs[s] = <<>> /\ actor[s].at # "done"
  THEN [sent |-> TRUE, jobs |-> <<"Close">>]
  ELSE [sent |-> control[s].sent, jobs |-> jobs[s]]

(* Mutant: a process that ended by itself passes for one that has saved.   *)
OutcomeExited(c) ==
  [termination |-> IF c.killed THEN "Forced" ELSE "Graceful",
   draft |-> IF c.killed THEN "Unconfirmed"
             ELSE IF c.ack = "service" THEN "Failed" ELSE "Preserved"]
Outcome(c) ==
  [termination |-> IF c.killed THEN "Forced"
                   ELSE IF c.ack \in {"ok", "service"} THEN "Graceful" ELSE "Exited",
   draft |-> IF c.ack = "ok" THEN "Preserved"
             ELSE IF c.ack = "service" THEN "Failed" ELSE "Unconfirmed"]

Supervised(s) == control[s].phase \in {"Opening", "Open", "Closing"}

(* The process has ended: its last answer is awaited for the grace period. *)
PollEnded(s) ==
  /\ Supervised(s) /\ ~child[s].alive
  /\ IF control[s].ack = None /\ ~control[s].late
     THEN /\ control' = [control EXCEPT ![s].phase = "Closing", ![s].sent = SendClose(s).sent]
          /\ jobs' = [jobs EXCEPT ![s] = SendClose(s).jobs]
     ELSE /\ control' = [control EXCEPT ![s].phase = "Closed", ![s].outcome = Outcome(control[s])]
          /\ UNCHANGED jobs
  /\ UNCHANGED <<idle, stopped, owned, actor, child, input, output, callers, asked, durable, told>>

(* Mutant: only a process that was asked to close is killed.               *)
PollRunningAsked(s, kills) ==
  /\ control[s].phase = "Closing" /\ child[s].alive
  /\ control' = [control EXCEPT ![s].sent = SendClose(s).sent,
                                ![s].killed = @ \/ (control[s].late /\ control[s].sent /\ kills)]
  /\ jobs' = [jobs EXCEPT ![s] = SendClose(s).jobs]
  /\ child' = IF ~control[s].killed /\ control[s].late /\ control[s].sent /\ kills
              THEN [child EXCEPT ![s].alive = FALSE] ELSE child
  /\ UNCHANGED <<idle, stopped, owned, actor, input, output, callers, asked, durable, told>>
(* It runs although access is revoked: ask it to close, then kill it.      *)
PollRunning(s, kills) ==
  /\ control[s].phase = "Closing" /\ child[s].alive
  /\ control' = [control EXCEPT ![s].sent = SendClose(s).sent,
                                ![s].killed = @ \/ (control[s].late /\ kills)]
  /\ jobs' = [jobs EXCEPT ![s] = SendClose(s).jobs]
  /\ child' = IF ~control[s].killed /\ control[s].late /\ kills
              THEN [child EXCEPT ![s].alive = FALSE] ELSE child
  /\ UNCHANGED <<idle, stopped, owned, actor, input, output, callers, asked, durable, told>>

(* The system does not say whether it runs.                                *)
PollFails(s) ==
  /\ control[s].phase \in {"Opening", "Open"}
  /\ control' = [control EXCEPT ![s] = Revoked(@)]
  /\ UNCHANGED <<idle, stopped, owned, jobs, actor, child, input, output, callers, asked, durable, told>>

(* CLOSE_GRACE has passed since access was revoked.                        *)
GraceEnds(s) ==
  /\ control[s].phase = "Closing" /\ ~control[s].late
  /\ control' = [control EXCEPT ![s].late = TRUE]
  /\ UNCHANGED <<idle, stopped, owned, jobs, actor, child, input, output, callers, asked, durable, told>>

-----------------------------------------------------------------------------
(* The child: one command at a time, callbacks while it works on it.       *)

Runs(s) == child[s].alive /\ output[s] = None

Says(s, message) == output' = [output EXCEPT ![s] = message]

(* Opening reports a wrong password and ends.                              *)
ChildBoots(s) ==
  /\ Runs(s) /\ input[s] = "boot"
  /\ input' = [input EXCEPT ![s] = None]
  /\ \/ Says(s, "ok") /\ UNCHANGED child
     \/ Says(s, "service") /\ child' = [child EXCEPT ![s].alive = FALSE]
  /\ UNCHANGED <<idle, stopped, control, owned, jobs, actor, callers, asked, durable, told>>

ChildEdits(s) ==
  /\ Runs(s) /\ input[s] \in {"input", "read"}
  /\ input' = [input EXCEPT ![s] = None]
  /\ LET accepted == input[s] = "read" \/ child[s].memory < MaxInputs IN
     /\ child' = [child EXCEPT ![s].memory = IF input[s] = "input" /\ accepted THEN @ + 1 ELSE @]
     /\ Says(s, IF accepted THEN "ok" ELSE "service")
  /\ UNCHANGED <<idle, stopped, control, owned, jobs, actor, callers, asked, durable, told>>

(* Saving commits through the host; Lock saves the draft and ends.         *)
ChildWrites(s) ==
  /\ Runs(s) /\ input[s] \in {"save", "Lock"}
  /\ input' = [input EXCEPT ![s] = None]
  /\ IF input[s] = "Lock" /\ child[s].memory = durable[s]
     THEN /\ Says(s, "ok")
          /\ child' = [child EXCEPT ![s].alive = FALSE]
     ELSE /\ Says(s, IF input[s] = "Lock" THEN "draft" ELSE "commit")
          /\ child' = [child EXCEPT ![s].doing = input[s]]
  /\ UNCHANGED <<idle, stopped, control, owned, jobs, actor, callers, asked, durable, told>>
ChildWrote(s) ==
  /\ Runs(s) /\ child[s].doing # None /\ input[s] \in {"done", "refused"}
  /\ input' = [input EXCEPT ![s] = None]
  /\ Says(s, IF input[s] = "done" THEN "ok" ELSE "service")
  /\ child' = [child EXCEPT ![s].doing = None, ![s].alive = child[s].doing # "Lock"]
  /\ UNCHANGED <<idle, stopped, control, owned, jobs, actor, callers, asked, durable, told>>

ChildCrashes(s) ==
  /\ child[s].alive
  /\ child' = [child EXCEPT ![s].alive = FALSE]
  /\ UNCHANGED <<idle, stopped, control, owned, jobs, actor, input, output, callers, asked, durable, told>>

-----------------------------------------------------------------------------
Next ==
  \/ Expire \/ Inactive \/ LockAll \/ Stop
  \/ \E s \in Sessions :
       \/ Connect(s) \/ Close(s) \/ DropWorker(s)
       \/ \E c \in Clients : Request(s, c) \/ Send(s, c) \/ Answered(s, c) \/ Interrupted(s, c)
       \/ TakeRequest(s) \/ TakeClose(s) \/ ReadCallback(s) \/ Performed(s)
       \/ ReadResponse(s) \/ ReadEnd(s) \/ ActorEnds(s) \/ DropControl(s)
       \/ PollEnded(s) \/ PollFails(s) \/ GraceEnds(s)
       \/ \E kills \in BOOLEAN : PollRunning(s, kills)
       \/ ChildBoots(s) \/ ChildEdits(s) \/ ChildWrites(s) \/ ChildWrote(s) \/ ChildCrashes(s)

Spec == Init /\ [][Next]_vars

(* The threads of the host run on, whatever the child does, and a kill     *)
(* that is repeated works.                                                 *)
Fairness ==
  /\ WF_vars(Expire)
  /\ \A s \in Sessions :
       /\ WF_vars(TakeRequest(s) \/ TakeClose(s) \/ ReadCallback(s) \/ Performed(s)
                  \/ ReadResponse(s) \/ ReadEnd(s))
       /\ WF_vars(PollEnded(s)) /\ WF_vars(PollRunning(s, TRUE)) /\ WF_vars(GraceEnds(s))
       /\ \A c \in Clients : WF_vars(Answered(s, c) \/ Interrupted(s, c))

FairSpec == Spec /\ Fairness

-----------------------------------------------------------------------------
(* An outcome that says the draft is preserved is true: every input a      *)
(* caller was told of is on disk.                                          *)
PreservedIsDurable ==
  \A s \in Sessions :
    control[s].outcome # None /\ control[s].outcome.draft = "Preserved" => durable[s] >= told[s]

(* Access once revoked ends the process, also one that hangs or whose      *)
(* queue is full, and no caller waits for ever on one that was revoked.    *)
RevokedEnds ==
  \A s \in Sessions :
    /\ control[s].phase = "Closing" ~> ~child[s].alive
    /\ \A c \in Clients :
         control[s].phase = "Closing" /\ callers[s][c] # NoCall ~> callers[s][c] = NoCall
=============================================================================
