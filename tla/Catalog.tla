------------------------------ MODULE Catalog ------------------------------
(***************************************************************************)
(* The catalog of working copies and what it refers to: the archives on    *)
(* disk, the profile's protected registrations, anchors and recovery       *)
(* proofs, and the host contexts of the roots opened since the host        *)
(* started (taypeer-runtime/src/host/catalog.rs, host.rs, profile.rs).     *)
(*                                                                         *)
(* One database.  Its catalog item is created, or imported from a file of  *)
(* the user; it is relocated; and it is recovered under another trust root *)
(* and later replaced by the recovered copy.  Each call is a sequence of   *)
(* durable writes: it makes all of them, or it stops after some, with an   *)
(* error or with the end of the host; the last write before an error may   *)
(* be one whose success was not learnt.                                    *)
(***************************************************************************)
EXTENDS Naturals, Sequences, FiniteSets

CONSTANTS
  None,
  Flavors,        \* "portable": a scope of protected state for each root; "native": one
  Origins,        \* "created" or "imported"
  Destinations,   \* paths a user chooses
  Operations,     \* identities of recoveries
  MaxGen,         \* generations of an archive
  MaxRoots        \* trust roots: the first one and recovered ones

Internal == "internal"    \* the path the host chooses for a creation or an import
Outside == "outside"      \* the user's file
Paths == {Internal, Outside} \cup Destinations
Roots == 0..MaxRoots

VARIABLES
  portable, origin,
  disk,      \* files, drafts, the catalog file, and the protected scopes
  host,      \* what the host has in memory; None while it is down
  roots,     \* roots made so far
  acked,     \* history: the last generation acknowledged under each root
  drafted,   \* history: the last draft acknowledged under each root
  refused    \* history: a proven recovery that an undisturbed open did not adopt

vars == <<portable, origin, disk, host, roots, acked, drafted, refused>>

Copy(root, path) == [root |-> root, path |-> path]
Scope(root) == IF portable THEN root ELSE 0

NoScope == [regs |-> {}, anchors |-> [r \in Roots |-> None], proofs |-> {}]
NoCatalog == [copy |-> None, receipts |-> {}]

Init ==
  /\ portable \in {f = "portable" : f \in Flavors} /\ origin \in Origins
  /\ disk = [files |-> [p \in Paths |->
                          IF p = Outside /\ origin = "imported"
                          THEN [root |-> 0, gen |-> 0, from |-> None] ELSE None],
             drafts |-> [p \in Paths |-> 0],
             catalog |-> NoCatalog,
             scopes |-> [r \in Roots |-> NoScope]]
  /\ host = None /\ roots = 0
  /\ acked = [r \in Roots |-> 0] /\ drafted = [r \in Roots |-> 0] /\ refused = FALSE

-----------------------------------------------------------------------------
(* What a call writes, in order: each write is an operator on the disk.    *)

PutFile(d, p, f) == [d EXCEPT !.files[p] = f]
PutDraft(d, p, n) == [d EXCEPT !.drafts[p] = n]
PutAnchor(d, s, root, gen) == [d EXCEPT !.scopes[s].anchors[root] = gen]
PutReg(d, s, p, root) == [d EXCEPT !.scopes[s].regs = @ \cup {<<p, root>>}]
PutProof(d, s, r) == [d EXCEPT !.scopes[s].proofs = @ \cup {r}]
PutCatalog(d, c) == [d EXCEPT !.catalog = c]

Registered(d, s, p) == {reg[2] : reg \in {g \in d.scopes[s].regs : g[1] = p}}

(* verify: the file of a copy is the archive of its root.                  *)
Verify(d, copy) == d.files[copy.path] # None /\ d.files[copy.path].root = copy.root

(* A receipt's destination is still the archive that was proven.           *)
VerifyDestination(d, r) == Verify(d, r.to) /\ d.files[r.to.path].gen = r.gen

(* record: the pinned root of a copy never changes this way.               *)
CanRecord(d, copy) ==
  Verify(d, copy) /\ (host.catalog.copy # None => host.catalog.copy.root = copy.root)
Recorded(copy) == [host.catalog EXCEPT !.copy = copy]

(* The receipt that leads from the current copy to a file.                 *)
Receipts(p, root) ==
  {r \in host.catalog.receipts :
     /\ host.catalog.copy # None /\ r.from.root = host.catalog.copy.root
     /\ r.to = Copy(root, p)}

-----------------------------------------------------------------------------
(* Host contexts                                                           *)

Idle == [catalog |-> disk.catalog, active |-> None, retired |-> {}, attached |-> None, worker |-> FALSE]

Start ==
  /\ host = None
  /\ host' = Idle
  /\ UNCHANGED <<portable, origin, disk, roots, acked, drafted, refused>>
Exit ==
  /\ host # None
  /\ host' = None
  /\ UNCHANGED <<portable, origin, disk, roots, acked, drafted, refused>>

(* activate: a context of another root is retired when nothing is attached.*)
CanActivate(root) == host.active \in {None, root} \/ host.attached = None
Activated(root) ==
  [host EXCEPT !.active = root,
               !.retired = (@ \cup {host.active}) \ {root, None}]

(* known_context: the scope of a root that this host has unlocked.         *)
Known(h, root) == ~portable \/ h.active = root \/ root \in h.retired

(* attach: an unregistered file is registered with what it holds now; a    *)
(* registered one must be what its anchor accepts.                         *)
CanAttach(d, p) ==
  LET f == d.files[p]
      s == Scope(f.root) IN
  /\ host.attached \in {None, p}
  /\ \/ Registered(d, s, p) = {}
     \/ f.root \in Registered(d, s, p) /\ d.scopes[s].anchors[f.root] = f.gen
Attach(d, p) ==
  LET f == d.files[p]
      s == Scope(f.root) IN
  IF Registered(d, s, p) # {} THEN <<>>
  ELSE LET anchored == PutAnchor(d, s, f.root, f.gen) IN
       <<anchored, PutReg(anchored, s, p, f.root)>>

Opens(p, root) == [Activated(root) EXCEPT !.attached = p, !.worker = TRUE]

(* The end of a call's writes, or the disk as it is.                       *)
After(d, writes) == IF writes = <<>> THEN d ELSE writes[Len(writes)]

(* A call that stops early: with an error the host goes on, with its copy  *)
(* of the catalog as it was.                                               *)
Stops(writes, kept) ==
  /\ \E k \in 0..Len(writes) : disk' = IF k = 0 THEN disk ELSE writes[k]
  /\ host' \in {None, kept}

-----------------------------------------------------------------------------
(* Creating, importing and opening                                         *)

(* create_internal: repeating it opens the file that is already there.     *)
(* prepare_registration refuses a path whose anchor accepted a file; where *)
(* it would not, the creation is of another database.  A caller repeats    *)
(* the operation until it succeeds, and not afterwards.                    *)
CreateWrites ==
  IF disk.files[Internal] # None THEN Attach(disk, Internal)
  ELSE LET prepared == PutReg(disk, 0, Internal, 0)
           file == PutFile(prepared, Internal, [root |-> 0, gen |-> 0, from |-> None]) IN
       <<prepared, PutAnchor(file, 0, 0, 0)>>

CreateInternal ==
  /\ origin = "created" /\ host # None /\ ~host.worker /\ host.catalog.copy = None
  /\ CanActivate(0)
  /\ IF disk.files[Internal] # None THEN CanAttach(disk, Internal)
     ELSE disk.scopes[0].anchors[0] = None
  /\ LET writes == CreateWrites
         opened == After(disk, writes)
         copy == Copy(0, Internal) IN
     /\ CanRecord(opened, copy)
     /\ LET all == Append(writes, PutCatalog(opened, Recorded(copy))) IN
        \/ /\ disk' = After(disk, all)
           /\ host' = [Opens(Internal, 0) EXCEPT !.catalog = Recorded(copy)]
        \/ Stops(all, [Activated(0) EXCEPT !.attached = host.attached])
  /\ UNCHANGED <<portable, origin, roots, acked, drafted, refused>>

(* stage_external: the catalog's own copy, a recovered one that a receipt  *)
(* leads to, or a copy of the file under the host's path for the database. *)
Staged(p) ==
  LET f == disk.files[p] IN
  IF host.catalog.copy # None
  THEN IF host.catalog.copy.root = f.root
       THEN {host.catalog.copy : c \in {c \in {host.catalog.copy} : Verify(disk, c)}}
       ELSE {r.to : r \in {r \in Receipts(p, f.root) : VerifyDestination(disk, r)}}
  ELSE LET copy == Copy(f.root, Internal) IN
       {c \in {copy} : disk.files[Internal] # None => Verify(disk, c)}
StageWrites(p) ==
  IF host.catalog.copy = None /\ disk.files[Internal] = None
  THEN <<PutFile(disk, Internal, disk.files[p])>> ELSE <<>>

(* verify_recovery_proof: in the scope of the destination if it is known,  *)
(* otherwise in the source's.                                              *)
Proven(h, d, r) ==
  /\ Known(h, r.to.root) \/ Known(h, r.from.root)
  /\ LET s == IF Known(h, r.to.root) THEN Scope(r.to.root) ELSE Scope(r.from.root) IN
     r \in d.scopes[s].proofs /\ r.to.root \in Registered(d, s, r.to.path)
  /\ VerifyDestination(d, r)

(* open_external of a file that is not a recovery: stage, open, record.    *)
OpenExternal(p) ==
  /\ host # None /\ ~host.worker /\ disk.files[p] # None
  /\ \E copy \in Staged(p) :
       /\ Receipts(copy.path, copy.root) = {}
       /\ CanActivate(copy.root)
       /\ LET staged == After(disk, StageWrites(p)) IN
          /\ CanAttach(staged, copy.path)
          /\ LET writes == StageWrites(p) \o Attach(staged, copy.path)
                 opened == After(disk, writes) IN
             /\ CanRecord(opened, copy)
             /\ LET all == Append(writes, PutCatalog(opened, Recorded(copy))) IN
                \/ /\ disk' = After(disk, all)
                   /\ host' = [Opens(copy.path, copy.root) EXCEPT !.catalog = Recorded(copy)]
                \/ Stops(all, [Activated(copy.root) EXCEPT !.attached = None])
  /\ UNCHANGED <<portable, origin, roots, acked, drafted, refused>>

(* open_external of a recovery: the source is closed, its proof verified,  *)
(* the file opened, the proof verified once more, and the copy replaced.   *)
OpenRecovered(p) ==
  /\ host # None /\ ~host.worker /\ host.attached = None /\ disk.files[p] # None
  /\ \E r \in Receipts(p, disk.files[p].root) :
       /\ Proven(host, disk, r) /\ CanAttach(disk, p)
       /\ LET opened == After(disk, Attach(disk, p))
              adopted == [host.catalog EXCEPT !.copy = r.to]
              all == Append(Attach(disk, p), PutCatalog(opened, adopted)) IN
          IF Proven(Opens(p, r.to.root), opened, r)
          THEN /\ \/ /\ disk' = After(disk, all)
                     /\ host' = [Opens(p, r.to.root) EXCEPT !.catalog = adopted]
                  \/ Stops(all, Activated(r.to.root))
               /\ UNCHANGED refused
          ELSE /\ disk' = opened
               /\ host' = Activated(r.to.root)
               /\ refused' = TRUE
  /\ UNCHANGED <<portable, origin, roots, acked, drafted>>

(* The catalog's copy, by its path.                                        *)
Open ==
  /\ host # None /\ ~host.worker /\ host.catalog.copy # None
  /\ LET copy == host.catalog.copy IN
     /\ disk.files[copy.path] # None /\ CanActivate(disk.files[copy.path].root)
     /\ CanAttach(disk, copy.path)
     /\ \/ /\ disk' = After(disk, Attach(disk, copy.path))
           /\ host' = Opens(copy.path, disk.files[copy.path].root)
        \/ Stops(Attach(disk, copy.path), [Activated(disk.files[copy.path].root) EXCEPT !.attached = host.attached])
  /\ UNCHANGED <<portable, origin, roots, acked, drafted, refused>>

(* The worker ends; host.close also gives up the ciphertext writer.        *)
CloseWorker ==
  /\ host # None /\ host.worker
  /\ host' = [host EXCEPT !.worker = FALSE]
  /\ UNCHANGED <<portable, origin, disk, roots, acked, drafted, refused>>
Close ==
  /\ host # None /\ ~host.worker /\ host.attached # None
  /\ host' = [host EXCEPT !.attached = None]
  /\ UNCHANGED <<portable, origin, disk, roots, acked, drafted, refused>>

-----------------------------------------------------------------------------
(* Work in an open copy                                                    *)

At == disk.files[host.attached]

Commit ==
  /\ host # None /\ host.worker /\ At.gen < MaxGen
  /\ disk' = PutAnchor(PutFile(disk, host.attached, [At EXCEPT !.gen = @ + 1]),
                       Scope(At.root), At.root, At.gen + 1)
  /\ acked' = [acked EXCEPT ![At.root] = At.gen + 1]
  /\ UNCHANGED <<portable, origin, host, roots, drafted, refused>>

SaveDraft ==
  /\ host # None /\ host.worker /\ drafted[At.root] < MaxGen
  /\ disk' = PutDraft(disk, host.attached, drafted[At.root] + 1)
  /\ drafted' = [drafted EXCEPT ![At.root] = @ + 1]
  /\ UNCHANGED <<portable, origin, host, roots, acked, refused>>

(* RecoverTrust.  require_recovery_destination: an operation keeps its     *)
(* destination.  A destination that exists is confirmed when it came from  *)
(* this operation on this state of the source.                             *)
CanRecover(op, p) ==
  /\ p # host.attached
  /\ \A r \in disk.scopes[Scope(At.root)].proofs :
       r.op = op => /\ r.from = Copy(At.root, host.attached) /\ r.to.path = p
                    /\ disk.files[p] # None /\ r.to.root = disk.files[p].root
  /\ disk.files[p] # None => disk.files[p].from = [op |-> op, root |-> At.root, gen |-> At.gen]

Seed(op) == [root |-> roots + 1, gen |-> 0, from |-> [op |-> op, root |-> At.root, gen |-> At.gen]]

(* The new archive in its own scope, then known to the source's scope too. *)
PublishWrites(op, p) ==
  IF disk.files[p] # None THEN <<>>
  ELSE LET new == Seed(op)
           prepared == PutReg(disk, Scope(new.root), p, new.root) IN
       <<prepared, PutAnchor(PutFile(prepared, p, new), Scope(new.root), new.root, 0)>>
LinkWrites(d, root, p) ==
  LET s == Scope(At.root) IN
  IF Registered(d, s, p) # {} THEN <<>>
  ELSE <<PutReg(PutAnchor(d, s, root, d.files[p].gen), s, p, root)>>

(* confirm_recovery: the proof before the public receipt.                  *)
ConfirmWrites(d, op, p) ==
  LET r == [from |-> Copy(At.root, host.attached), to |-> Copy(d.files[p].root, p),
            op |-> op, gen |-> d.files[p].gen]
      proof == PutProof(d, Scope(At.root), r) IN
  IF {q \in host.catalog.receipts : q.op = op} \subseteq {r}
  THEN <<proof, PutCatalog(proof, [host.catalog EXCEPT !.receipts = @ \cup {r}])>>
  ELSE <<proof>>

Recover(op, p) ==
  /\ host # None /\ host.worker
  /\ CanRecover(op, p)
  /\ disk.files[p] = None => roots < MaxRoots
  /\ roots' = IF disk.files[p] = None THEN roots + 1 ELSE roots
  /\ LET root == IF disk.files[p] = None THEN roots + 1 ELSE disk.files[p].root
         published == PublishWrites(op, p)
         linked == published \o LinkWrites(After(disk, published), root, p)
         all == linked \o ConfirmWrites(After(disk, linked), op, p) IN
     \/ disk' = After(disk, all) /\ host' = [host EXCEPT !.catalog = After(disk, all).catalog]
     \/ Stops(all, host)
  /\ UNCHANGED <<portable, origin, acked, drafted, refused>>

(* relocate_working_copy: file, registration, draft, catalog, then the     *)
(* old file and its draft go.                                              *)
MovedWritesNamed(p) ==
  LET c == host.catalog.copy
      file == PutFile(disk, p, disk.files[c.path])
      named == PutCatalog(file, Recorded(Copy(c.root, p)))
      reg == PutReg(named, Scope(c.root), p, c.root) IN
  <<file, named, reg, PutDraft(reg, p, disk.drafts[c.path])>>
MovedWrites(p) ==
  LET c == host.catalog.copy
      file == PutFile(disk, p, disk.files[c.path])
      reg == PutReg(file, Scope(c.root), p, c.root)
      draft == PutDraft(reg, p, disk.drafts[c.path]) IN
  <<file, reg, draft, PutCatalog(draft, Recorded(Copy(c.root, p)))>>
RemovedWrites(p) ==
  LET c == host.catalog.copy
      moved == After(disk, MovedWrites(p)) IN
  <<PutFile(moved, c.path, None), PutDraft(PutFile(moved, c.path, None), c.path, 0)>>

Relocate(p) ==
  /\ host # None /\ host.attached = None /\ host.catalog.copy # None
  /\ LET c == host.catalog.copy IN
     /\ p # c.path /\ disk.files[p] = None
     /\ ~portable \/ host.active = c.root
     /\ Verify(disk, c) /\ CanAttach(disk, c.path) /\ Registered(disk, Scope(c.root), c.path) # {}
     /\ \/ \E k \in 0..2 :
             /\ disk' = After(disk, MovedWrites(p) \o SubSeq(RemovedWrites(p), 1, k))
             /\ host' = [host EXCEPT !.catalog = Recorded(Copy(c.root, p))]
        \/ Stops(MovedWrites(p) \o RemovedWrites(p), host)
             /\ (host' = host => disk' \notin {RemovedWrites(p)[1], RemovedWrites(p)[2]})
  /\ UNCHANGED <<portable, origin, roots, acked, drafted, refused>>

-----------------------------------------------------------------------------
Next ==
  \/ Start \/ Exit \/ CreateInternal \/ Open \/ CloseWorker \/ Close \/ Commit \/ SaveDraft
  \/ \E p \in {Outside} \cup Destinations : OpenExternal(p)
  \/ \E p \in Destinations :
       OpenRecovered(p) \/ Relocate(p) \/ \E op \in Operations : Recover(op, p)

Spec == Init /\ [][Next]_vars

-----------------------------------------------------------------------------
(* Whatever the catalog names is there and registered; a copy that the     *)
(* anchor accepts is never an old one; and the last archive and draft      *)
(* acknowledged under its root are in some file.                           *)
CopyStands ==
  LET copy == disk.catalog.copy
      scope == disk.scopes[Scope(copy.root)] IN
  copy # None =>
    /\ Verify(disk, copy) /\ <<copy.path, copy.root>> \in scope.regs
    /\ scope.anchors[copy.root] = disk.files[copy.path].gen =>
         disk.files[copy.path].gen = acked[copy.root]
    /\ \E p \in Paths : /\ disk.files[p] # None /\ disk.files[p].root = copy.root
                         /\ disk.files[p].gen = acked[copy.root]
    /\ \E p \in Paths : disk.drafts[p] = drafted[copy.root]

(* The catalog leaves a root only for one recovered from it, with a proof  *)
(* in protected state and not only the public receipt.                     *)
RootPinned ==
  disk.catalog.copy # None =>
    \/ disk.catalog.copy.root = 0
    \/ \E r \in disk.catalog.receipts :
         /\ r.to.root = disk.catalog.copy.root /\ r.from.root < r.to.root
         /\ \E s \in Roots : r \in disk.scopes[s].proofs

(* The catalog of working copies (host/catalog.rs) through creation,       *)
(* import, relocation and the replacement of a copy by a recovered one,    *)
(* with calls that fail or end between two of their durable writes.        *)
CatalogSound == CopyStands /\ RootPinned

(* An explicit opening of a recovered copy, after its source was closed,   *)
(* adopts it (docs/architecture.md 228-231, open_external).                *)
RecoveredAdopted == ~refused
=============================================================================
