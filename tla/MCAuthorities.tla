--------------------------- MODULE MCAuthorities ---------------------------
(* What devices hold against each other, in one run, each in behaviours of *)
(* its own: three devices with profiles of their own, two devices of which *)
(* one profile was copied, the connections of two databases, the           *)
(* credentials of one device, and the Android screen of one (Presenter).   *)
EXTENDS MCAuthority, Observations, Credentials

CONSTANTS o1, o2

VARIABLES
  part,   \* what a behaviour is about; the rest stays in an initial state
  ui, commands, command, service, document, entered, released, late, used  \* Presenter

presenting == <<ui, commands, command, service, document, entered, released, late, used>>

Copies == INSTANCE Authority WITH
  Profiles <- CopiedProfile, Identities <- TwoIdentities, Operations <- {o1, o2},
  MaxControls <- 3, MaxMembers <- 2, MaxConsents <- 0, DirectOffers <- TRUE

P == INSTANCE Presenter WITH
  MaxInputs <- 2, MaxForms <- 2, MaxCommands <- 1, MaxOpens <- 2, MaxLocks <- 1, MaxFaults <- 1

NoPresenter ==
  /\ ui = Nil /\ commands = Nil /\ command = Nil /\ service = Nil /\ document = Nil
  /\ entered = Nil /\ released = Nil /\ late = Nil /\ used = Nil

MCInit ==
  /\ part \in {"own", "copied", "connections", "credentials", "screen"}
  /\ ObservationsInit /\ CredentialsInit
  /\ part # "credentials" => flavor = "portable" /\ files.active # Missing
  /\ IF part = "copied" THEN Copies!Init ELSE Init
  /\ IF part = "screen" THEN P!Init ELSE NoPresenter

MCNext ==
  /\ UNCHANGED part
  /\ \/ part = "connections" /\ ObservationsNext /\ UNCHANGED <<vars, credentialsVars, presenting>>
     \/ part = "copied" /\ Copies!Next /\ UNCHANGED <<observationVars, credentialsVars, presenting>>
     \/ part = "own" /\ Next /\ UNCHANGED <<observationVars, credentialsVars, presenting>>
     \/ part = "credentials" /\ CredentialsNext /\ UNCHANGED <<vars, observationVars, presenting>>
     \/ part = "screen" /\ P!Next /\ UNCHANGED <<vars, observationVars, credentialsVars>>

MCSpec == MCInit /\ [][MCNext]_<<part, vars, observationVars, credentialsVars, presenting>>

-----------------------------------------------------------------------------
(* Presenter: typed input is kept until it is saved or given up, SAVED is  *)
(* shown over saved input, and a lock wins over a late opening.            *)
ScreenSound == part = "screen" => P!ScreenSound
=============================================================================
