------------------------------ MODULE MCLocal ------------------------------
(***************************************************************************)
(* Components that do not interact, in one run: the variable part says     *)
(* which of them a behaviour is about, and the others rest.                *)
(***************************************************************************)
EXTENDS Coordinator, Enrollment, Binaries, TLC

CONSTANTS aPolicy, anEntry, aGroup, aContent, d1, d2, d3, i1, i2, rotation

VARIABLES
  part,
  log, docs, review, start, left,                             \* Document
  portable, attempts, source, workers, started, refused, results,    \* Recovery
  origin, disks, host, roots, commits, drafts, turnedAway,           \* Catalog
  document, beside, visit, documents, requested, kept         \* Editing

merging == <<log, docs, review, start, left>>
recovering == <<attempts, source, workers, started, refused, results>>
cataloguing == <<origin, disks, host, roots, commits, drafts, turnedAway>>
editing == <<document, beside, visit, documents, requested, kept>>
database == <<all, merging>>

(* Creation and moves after a plain history; what may be done once a group *)
(* was moved to trash; edits and recovery around its purge; and the        *)
(* commands on an entry with two lifetimes.                                *)
D == INSTANCE Document WITH
  Starts <- {"plain", "trashed", "late", "lifetimes"},
  Commands <- [plain |-> {"create", "move", "Trash"},
               trashed |-> {"Trash", "Restore", "Purge"},
               late |-> {"edit", "Trash", "Purge", "recover", "revision", "update"},
               lifetimes |-> {"edit", "resolve", "fields", "clone", "extract"}],
  MaxChanges <- [plain |-> 2, trashed |-> 2, late |-> 2, lifetimes |-> 2]

(* Two workers at once, and three of which each starts after the last.     *)
R2 == INSTANCE Recovery WITH
  host <- attempts, generation <- source, told <- results,
  Operations <- {1, 2}, Inputs <- {1, 2}, MaxWorkers <- 2, MaxAlive <- 2, MaxGeneration <- 1
R3 == INSTANCE Recovery WITH
  host <- attempts, generation <- source, told <- results,
  Operations <- {1, 2}, Inputs <- {1, 2}, MaxWorkers <- 3, MaxAlive <- 1, MaxGeneration <- 2

C == INSTANCE Catalog WITH
  disk <- disks, acked <- commits, drafted <- drafts, refused <- turnedAway,
  Flavors <- {"portable", "native"}, Origins <- {"created", "imported"},
  Destinations <- {"d1"}, Operations <- {1, 2}, MaxGen <- 1, MaxRoots <- 2

(* Two recipients, two invitations, and one other operation.               *)
Identity(d) == [device |-> d, transport |-> d]
ThreeIdentities == {Identity(d) : d \in {d1, d2, d3}}
Founder == Identity(d1)

\* the recipients, and the invitations, are alike
Symmetry == Permutations({d2, d3}) \cup Permutations({i1, i2})

(* One form with two inputs, and two forms of which one is parked.         *)
E1 == INSTANCE Editing WITH
  archive <- document, sidecar <- beside, session <- visit, made <- documents, asked <- requested,
  Entries <- {anEntry}, Groups <- {}, Values <- {1}, Unfinished <- {2},
  Operations <- {1}, Imports <- {1}, MaxDrafts <- 1, MaxRevision <- 2
E2 == INSTANCE Editing WITH
  archive <- document, sidecar <- beside, session <- visit, made <- documents, asked <- requested,
  Entries <- {}, Groups <- {aGroup}, Values <- {1}, Unfinished <- {2},
  Operations <- {}, Imports <- {}, MaxDrafts <- 2, MaxRevision <- 1

NoEditing ==
  /\ document = Nil /\ beside = Nil /\ visit = Nil /\ documents = Nil
  /\ requested = Nil /\ kept = Nil
NoRecovery ==
  /\ attempts = Nil /\ source = Nil /\ workers = Nil /\ started = Nil
  /\ refused = Nil /\ results = Nil
NoCatalog ==
  /\ origin = Nil /\ disks = Nil /\ host = Nil /\ roots = Nil
  /\ commits = Nil /\ drafts = Nil /\ turnedAway = Nil
NoStore ==
  /\ made = {} /\ base = Nil /\ generation = Nil /\ visible = Nil /\ survivors = {}
  /\ anchor = Nil /\ pc = Nil /\ cand = Nil /\ snapshot = Nil /\ uncertain = Nil
  /\ last_commit = Nil /\ acked = Nil
NoRequests ==
  /\ payload = Nil /\ content = Nil /\ receipt = Nil /\ caller = Nil /\ draft = Nil
  /\ held = Nil /\ acks = {}
NoDocument ==
  log = Nil /\ docs = Nil /\ review = Nil /\ start = Nil /\ left = Nil

DatabaseInit ==
  \/ part = "outside" /\ StoreInit /\ NoRequests /\ NoDocument
  \/ part = "coordinator" /\ CoordinatorInit /\ NoDocument
  \/ part = "document" /\ D!Init /\ NoStore /\ NoRequests

WorkerInit ==
  \/ part = "two workers" /\ R2!Init /\ NoCatalog
  \/ part = "three workers" /\ R3!Init /\ NoCatalog
  \/ part = "catalog" /\ C!Init /\ NoRecovery

SessionInit ==
  \/ part = "one form" /\ E1!Init
  \/ part = "two forms" /\ E2!Init

NoDatabase == NoStore /\ NoRequests /\ NoDocument
NoWorkers == portable = Nil /\ NoRecovery /\ NoCatalog

(* Enrollment and Binaries rest in their initial states.                   *)
MCInit ==
  /\ Init /\ BinaryInit
  /\ \/ DatabaseInit /\ NoWorkers /\ NoEditing
     \/ WorkerInit /\ NoDatabase /\ NoEditing
     \/ SessionInit /\ NoDatabase /\ NoWorkers
     \/ part \in {"joining", "contents"} /\ NoDatabase /\ NoWorkers /\ NoEditing

(* Versions are interchangeable: a new one is the least that is not made.  *)
InOrder == \A v \in made' \ made : \A w \in Versions \ made : v <= w

(* Contents are interchangeable: the first that gets a name is aContent.   *)
ContentsInOrder == meaning' # <<>> => meaning'[1] = aContent

DatabaseNext ==
  \/ part = "outside" /\ StoreNext /\ InOrder /\ UNCHANGED <<requests, merging>>
  \/ part = "coordinator" /\ CoordinatorNext /\ InOrder /\ UNCHANGED merging
  \/ part = "document" /\ D!Next /\ UNCHANGED all

WorkerNext ==
  \/ part = "two workers" /\ R2!Next /\ UNCHANGED cataloguing
  \/ part = "three workers" /\ R3!Next /\ UNCHANGED cataloguing
  \/ part = "catalog" /\ C!Next /\ UNCHANGED recovering

sitting == <<editing, binaryVars>>
working == <<portable, recovering, cataloguing>>
MCNext ==
  /\ UNCHANGED part
  /\ \/ DatabaseNext /\ UNCHANGED <<working, sitting, vars>>
     \/ WorkerNext /\ UNCHANGED <<database, sitting, vars>>
     \/ part = "one form" /\ E1!Next /\ UNCHANGED <<database, working, binaryVars, vars>>
     \/ part = "two forms" /\ E2!Next /\ UNCHANGED <<database, working, binaryVars, vars>>
     \/ part = "joining" /\ Next /\ UNCHANGED <<database, working, sitting>>
     \/ part = "contents" /\ BinaryNext /\ ContentsInOrder /\ UNCHANGED <<database, working, editing, vars>>

MCSpec == MCInit /\ [][MCNext]_<<part, database, working, sitting, vars>>

-----------------------------------------------------------------------------
(* The components' properties, each in its own behaviours.                 *)

(* Document: moves made at once leave a tree; deletion wins over what was  *)
(* done at the same time; and a change that no purge had seen stays to be  *)
(* recovered.                                                              *)
DocumentSound == part = "document" => D!TreeSound /\ D!DeletionWins /\ D!LateKept
(* Document: no device makes a document that merging refuses.              *)
MergeAccepted == part = "document" => D!MergeAccepted
(* Document: what is confirmed on the current document takes effect.       *)
ConfirmedTakesEffect ==
  [][part = "document" => \A r \in D!Replicas :
       docs'[r] # docs[r] /\ log' # log /\ review[r] = docs[r] => D!LastTookEffect(r)']_merging

(* Recovery: nothing refused is published, a result is what the user asked *)
(* for, and a recovery can always be taken up again.                       *)
RecoverySound ==
  /\ part = "two workers" => R2!RefusedNeverPublished /\ R2!ToldAsAsked /\ R2!Resumable
  /\ part = "three workers" => R3!RefusedNeverPublished /\ R3!ToldAsAsked /\ R3!Resumable

(* Catalog: what it names is registered, and not an old file that the      *)
(* path's anchor accepts; it leaves its trust root only with a protected   *)
(* proof.                                                                  *)
CatalogSound == part = "catalog" => C!CatalogSound

(* Editing: acknowledged input is found again after any crash; an          *)
(* operation saves once, and what the user asked for; and a form never     *)
(* passes for saved before its input is.                                   *)
EditingSound ==
  /\ part = "one form" => E1!InputKept /\ E1!SavedAsAsked /\ E1!CleanIsSaved
  /\ part = "two forms" => E2!InputKept /\ E2!CleanIsSaved
============================================================================
