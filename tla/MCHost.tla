------------------------------- MODULE MCHost -------------------------------
(***************************************************************************)
(* Parts of the host, in one run, each in behaviours of its own: the       *)
(* variable part says which of them a behaviour is about, and the others   *)
(* rest in their initial states.                                           *)
(***************************************************************************)
EXTENDS ArchiveStore, Sessions, FileStore

CONSTANTS d1, d2, p1, i1, i2

VARIABLES
  part,
  clock, saved, doubt, prepared, codes, answers, pending, download, copy, catalog \* Enrollment

RequestsOf == [user |-> 2, apply |-> 1]

Identity(d) == [device |-> d, transport |-> d]
N == INSTANCE Enrollment WITH
  Identities <- {Identity(d1), Identity(d2)}, Issuer <- Identity(d1), Policies <- {p1},
  FirstPolicy <- p1, Invitations <- {i1, i2}, Operations <- {i1, i2}, Window <- 1,
  MaxTime <- 1, MaxControls <- 3, MaxMembers <- 2, told <- answers, file <- copy

joining == <<clock, saved, doubt, prepared, codes, answers, pending, download, copy, catalog>>

MCInit == part \in {"archive", "sessions", "joining", "file"} /\ StoreInit /\ Init /\ N!Init /\ FileInit

MCNext ==
  /\ UNCHANGED part
  /\ \/ part = "archive" /\ HostNext /\ UNCHANGED <<vars, joining, fileVars>>
     \/ part = "sessions" /\ Next /\ UNCHANGED <<storeVars, joining, fileVars>>
     \/ part = "joining" /\ N!Next /\ UNCHANGED <<storeVars, vars, fileVars>>
     \/ part = "file" /\ FileNext /\ UNCHANGED <<storeVars, vars, joining>>

MCSpec ==
  /\ MCInit /\ [][MCNext]_<<part, storeVars, vars, joining, fileVars>>
  /\ StoreFairness /\ Fairness /\ N!Fairness

-----------------------------------------------------------------------------
(* Enrollment: a recipient whose admission is committed gets its working   *)
(* copy, also after the invitation expired and after interruptions.        *)
AdmittedReceives == N!AdmittedReceives
=============================================================================
