------------------------------ MODULE Document ------------------------------
(***************************************************************************)
(* The user document (taypeer-document): groups and entries in an          *)
(* Automerge document that every device edits for itself and merges.       *)
(*                                                                         *)
(* A document is a causally closed set of changes.  A change remembers the *)
(* changes it was made after (transaction_at), and reading a key gives     *)
(* every write that no later write has replaced; the write of the highest  *)
(* rank is the selected one.  An address is an object and one of its       *)
(* generations (lifetimes); a parent is a set of at most one address, the  *)
(* empty set standing for the top level.                                   *)
(*                                                                         *)
(* Texts and other scalar fields, sibling order, times and purged history  *)
(* are left out: a change of an entry's scalar fields is an event.         *)
(***************************************************************************)
EXTENDS Naturals, Sequences, FiniteSets, TLC

CONSTANTS
  Starts,      \* the histories a behaviour may start from (Past below)
  Commands,    \* the commands that users give in each of them
  MaxChanges   \* bound: changes made after the start, in each of them

Replicas == 1..2

VARIABLES
  log,      \* every change made so far, by number
  docs,     \* Document.doc of each replica: the changes it contains
  review,   \* the heads of the form or selection a user is looking at
  start,    \* the start of this behaviour
  left      \* the changes that may still be made

vars == <<log, docs, review, start, left>>

(* Automerge: the past of a change, its rank, and what it writes.          *)
NoWrites == [place |-> <<>>, current |-> <<>>, life |-> <<>>, purge |-> <<>>,
            attrs |-> <<>>, present |-> <<>>, recovered |-> {}, events |-> {}]

Change(past, time, actor, writes) ==
  [past |-> past, rank |-> <<time, actor>>, writes |-> writes]

Below(c, d) ==
  \/ log[c].rank[1] < log[d].rank[1]
  \/ log[c].rank[1] = log[d].rank[1] /\ log[c].rank[2] < log[d].rank[2]
Highest(cs) == CHOOSE c \in cs : \A d \in cs \ {c} : Below(d, c)

Written(d, key) == UNION {DOMAIN log[c].writes[key] : c \in d}

(* get_all: the changes whose write of key[x] is visible.                  *)
Visible(d, key, x) ==
  LET all == {c \in d : x \in DOMAIN log[c].writes[key]}
  IN {c \in all : \A later \in all : c \notin log[later].past}

Values(d, key, x) == {log[c].writes[key][x] : c \in Visible(d, key, x)}
Selected(d, key, x) == log[Highest(Visible(d, key, x))].writes[key][x]

-----------------------------------------------------------------------------
(* Objects (objects.rs)                                                    *)

Address(object, generation) == [object |-> object, generation |-> generation]
Group(id) == [kind |-> "group", id |-> id]
Entry(id) == [kind |-> "entry", id |-> id]
FirstOf(object) == Address(object, object.id)

All(d) == Written(d, "life")
ObjectsOf(d, kind) == {o \in Written(d, "current") : o.kind = kind}
CurrentOf(d, o) == {Address(o, g) : g \in Values(d, "current", o)}
Single(d, o) == Address(o, Selected(d, "current", o))

Event(c, a) == [change |-> c, address |-> a]
Events(d) == UNION {{Event(c, a) : a \in log[c].writes.events} : c \in d}
EventsOf(d, a) == {v \in Events(d) : v.address = a}
Covered(d, a) == UNION Values(d, "purge", a)
Purged(d, a) == a \in Written(d, "purge")

-----------------------------------------------------------------------------
(* The tree (groups.rs)                                                    *)

(* Mutant of OwnStatus: the selected mark alone decides.                   *)
OwnStatusSelected(d, a) ==
  IF Purged(d, a) THEN "Purged"
  ELSE IF Selected(d, "life", a) THEN "Trashed" ELSE "Active"

OwnStatus(d, a) ==
  IF Purged(d, a) THEN "Purged"
  ELSE IF TRUE \in Values(d, "life", a) THEN "Trashed" ELSE "Active"

(* The first components that lead into nodes along the edges.              *)
Above(edges, nodes) ==
  LET onto(b) == {b} \cup {e[1] : e \in {e \in edges : e[2] = b}}
      up[n \in 0..Cardinality(edges)] ==
        IF n = 0 THEN nodes ELSE UNION {onto(b) : b \in up[n - 1]}
  IN up[Cardinality(edges)]

Cyclic(edges, a) == a \in Above(edges, {e[1] : e \in {e \in edges : e[2] = a}})

(* Mutant of Parents: no cycle is broken.                                  *)
ParentsAsWritten(d, groups) == UNION {{<<a, p>> : p \in Selected(d, "place", a) \cap groups} : a \in groups}

(* The lowest placement of each cycle of current groups is not followed.   *)
Parents(d, groups) ==
  LET written == UNION {{<<a, p>> : p \in Selected(d, "place", a) \cap groups} : a \in groups}
      current == {e \in written : e[1] = Single(d, e[1].object)}
      cyclic == {e[1] : e \in {e \in current : Cyclic(current, e[1])}}
      cycle(a) == {b \in cyclic : a \in Above(current, {b}) /\ b \in Above(current, {a})}
      place(a) == Highest(Visible(d, "place", a))
      roots == {a \in cyclic : \A b \in cycle(a) : ~Below(place(b), place(a))}
  IN {e \in written : e[1] \notin roots}

(* tree: the groups with their selected parents, all their placements and  *)
(* their status.  Trash spreads along every placement, a closed or         *)
(* unplaced parent along the selected one.                                 *)
Tree(d) ==
  LET groups == {a \in All(d) : a.object.kind = "group"}
      parent == Parents(d, groups)
      places == UNION {{<<a, p>> : p \in UNION Values(d, "place", a) \cap groups} : a \in groups}
      past == {a \in groups : a # Single(d, a.object)}
      closed == {a \in groups : OwnStatus(d, a) = "Purged"}
      trashed == Above({e \in places : e[1] \notin closed},
                       {a \in groups : OwnStatus(d, a) = "Trashed"})
      unplaced == Above(parent, closed \cup past) \ (closed \cup trashed)
  IN [parent |-> parent, places |-> places, closed |-> closed, trashed |-> trashed,
      unplaced |-> unplaced, active |-> groups \ (closed \cup trashed \cup unplaced)]

(* object_status of an entry (lifecycle/mod.rs).                           *)
EntryStatus(d, tree, a) ==
  LET own == OwnStatus(d, a) IN
  IF own \in {"Purged", "Trashed"} THEN own
  ELSE IF UNION Values(d, "place", a) \cap tree.trashed # {} THEN "Trashed"
  ELSE IF a = Single(d, a.object) /\ Selected(d, "place", a) \subseteq tree.active THEN "Active"
  ELSE "Unplaced"

Status(d, tree, a) ==
  IF a.object.kind = "entry" THEN EntryStatus(d, tree, a)
  ELSE IF a \in tree.closed THEN "Purged"
  ELSE IF a \in tree.trashed THEN "Trashed"
  ELSE IF a \in tree.active THEN "Active" ELSE "Unplaced"

(* destination: none, or the current generation of an active group.        *)
Places(tree) == {{}} \cup {{a} : a \in tree.active}

(* selected_subtree: what any placement puts below the group.              *)
Subtree(d, tree, a) ==
  LET inside == Above({e \in tree.places : e[1] \notin tree.closed}, {a})
  IN IF a.object.kind = "entry" THEN {a}
     ELSE inside \cup {e \in All(d) : /\ e.object.kind = "entry" /\ ~Purged(d, e)
                                      /\ UNION Values(d, "place", e) \cap inside # {}}

-----------------------------------------------------------------------------
(* Entries (fields.rs, projection.rs): a deletion has priority over a      *)
(* concurrent edit of an attribute.                                        *)
Attributes(d, a) == UNION {log[c].writes.attrs[a] : c \in {c \in d : a \in DOMAIN log[c].writes.attrs}}
Present(d, a) == {x \in Attributes(d, a) : FALSE \notin Values(d, "present", <<a, x>>)}

Owners(d, x) == {a.object : a \in {a \in All(d) : x \in Attributes(d, a)}}

(* object(): two visible creations of one map are refused.                 *)
Creators(d, a, x) ==
  LET all == {c \in d : a \in DOMAIN log[c].writes.attrs /\ x \in log[c].writes.attrs[a]}
  IN {c \in all : \A later \in all : c \notin log[later].past}

Valid(d) ==
  \A a \in Written(d, "attrs") : \A x \in Attributes(d, a) :
    Cardinality(Owners(d, x)) = 1 /\ Cardinality(Creators(d, a, x)) = 1

-----------------------------------------------------------------------------
(* Commands                                                                *)

New == Len(log) + 1
Fresh(id) == <<New>> \o id

(* A transaction at the heads of basis, merged into the whole document and *)
(* checked; a form continues from its own change.                          *)
Commit(r, basis, writes) ==
  LET times == {log[c].rank[1] : c \in basis}
      time == CHOOSE t \in times : \A u \in times : u <= t
  IN /\ left > 0 /\ left' = left - 1 /\ UNCHANGED start
     /\ log' = Append(log, Change(basis, time + 1, r, writes))
     /\ docs' = [docs EXCEPT ![r] = @ \cup {New}]
     /\ review' = [review EXCEPT ![r] = basis \cup {New}]
     /\ Valid(docs[r])'

Created(a, place, attrs) ==
  [NoWrites EXCEPT !.place = a :> place, !.life = a :> FALSE,
                  !.current = a.object :> a.generation, !.events = {a},
                  !.attrs = IF a.object.kind = "entry" THEN a :> attrs ELSE <<>>,
                  !.present = [k \in {a} \X attrs |-> TRUE]]

(* create_group_metadata_with_id_command                                   *)
CreateGroup(r) ==
  \E place \in Places(Tree(docs[r])) :
    Commit(r, docs[r], Created(FirstOf(Group(<<New>>)), place, {}))

(* confirm_entry_command for a new entry: the group of the form is active  *)
(* and still of the generation the form was opened with.                   *)
CreateEntry(r) ==
  \E g \in Tree(docs[r]).active \cap Tree(review[r]).active :
    Commit(r, review[r], Created(FirstOf(Entry(<<New>>)), {g}, {}))

(* begin_edit_entry: the entries a form can be opened for.                 *)
Editable(basis) ==
  LET tree == Tree(basis)
  IN {a \in {Single(basis, e) : e \in ObjectsOf(basis, "entry")} : Status(basis, tree, a) = "Active"}

(* apply_form: added attributes, and the presence of changed ones.         *)
Form(a, attrs, present) ==
  [NoWrites EXCEPT !.events = {a}, !.attrs = a :> attrs, !.present = present]

(* confirm_entry_command for an edited entry: a scalar, an added or a      *)
(* removed attribute, relative to the heads of the form.                   *)
EditEntry(r) ==
  LET d == docs[r]  tree == Tree(d)  basis == review[r] IN
  \E a \in Editable(basis) :
    /\ \E g \in tree.active : {g.object} = {p.object : p \in Selected(basis, "place", a)}
    /\ Single(d, a.object) = a /\ Status(d, tree, a) = "Active"
    /\ \/ Commit(r, basis, Form(a, {}, <<>>))
       \/ Commit(r, basis, Form(a, {<<New>>}, <<a, <<New>>>> :> TRUE))
       \/ \E x \in Present(basis, a) : Commit(r, basis, Form(a, {}, <<a, x>> :> FALSE))

(* reviewed_group_destination: not inside the group as it was reviewed.    *)
GroupDestinations(d, basis, a) ==
  LET tree == Tree(d)  before == Tree(basis) IN
  IF Status(d, tree, a) \in {"Purged", "Trashed"} \/ Single(d, a.object) # a THEN {}
  ELSE {p \in Places(tree) \cap Places(before) : p \cap Subtree(basis, before, a) = {}}

Move(r, a, place) ==
  /\ place # Selected(review[r], "place", a)
  /\ Commit(r, review[r], [NoWrites EXCEPT !.place = a :> place, !.events = {a}])

MoveGroup(r) ==
  \E o \in ObjectsOf(review[r], "group") :
    LET a == Single(review[r], o) IN
    \E place \in GroupDestinations(docs[r], review[r], a) : Move(r, a, place)

(* confirm_group_metadata: other fields of a group, or its parent.         *)
UpdateGroup(r) ==
  \E o \in ObjectsOf(review[r], "group") :
    LET a == Single(review[r], o) IN
    /\ a \in Tree(docs[r]).active
    /\ \/ Commit(r, review[r], [NoWrites EXCEPT !.events = {a}])
       \/ \E place \in GroupDestinations(docs[r], review[r], a) : Move(r, a, place)

(* move_entry                                                              *)
MoveEntry(r) ==
  LET d == docs[r]  tree == Tree(d)
      basis == review[r]  before == Tree(basis)
  IN \E o \in ObjectsOf(basis, "entry") :
       LET a == Single(basis, o) IN
       /\ Status(d, tree, a) \notin {"Purged", "Trashed"}
       /\ Single(d, o) = a
       /\ \E place \in (Places(tree) \cap Places(before)) \ {{}} : Move(r, a, place)

(* prepare_lifecycle at the reviewed heads: what the action affects.       *)
Prepare(action, basis, tree, a) ==
  LET affected == Subtree(basis, tree, a)
      of(b) == Status(basis, tree, b)
      fit(b) == IF action = "Trash" THEN of(b) # "Purged" ELSE of(b) = "Trashed"
  IN IF \A b \in affected : fit(b) THEN affected ELSE {}

(* Mutant of Marks: the marks do not move the target.                      *)
MarksInPlace(action, a, affected, place, events) ==
  CASE action = "Trash" -> [NoWrites EXCEPT !.life = [b \in affected |-> TRUE]]
    [] action = "Restore" -> [NoWrites EXCEPT !.life = [b \in affected |-> FALSE], !.events = affected]
    [] action = "Purge" -> [NoWrites EXCEPT !.purge = events]

(* What confirm_lifecycle writes for each action.                          *)
Marks(action, a, affected, place, events) ==
  CASE action = "Trash" -> [NoWrites EXCEPT !.life = [b \in affected |-> TRUE]]
    [] action = "Restore" -> [NoWrites EXCEPT !.life = [b \in affected |-> FALSE],
                                             !.place = a :> place, !.events = affected]
    [] action = "Purge" -> [NoWrites EXCEPT !.purge = events]

Observed(r, basis, affected) == [b \in affected |-> EventsOf(basis, b)]

(* confirm_lifecycle: exactly the reviewed selection.                      *)
Lifecycle(r, action) ==
  LET d == docs[r]  tree == Tree(d)
      basis == review[r]  before == Tree(basis)
  IN \E o \in ObjectsOf(basis, "group") \cup ObjectsOf(basis, "entry") :
     \E place \in IF action = "Restore" THEN Places(tree) \cap Places(before) ELSE {{}} :
       LET a == Single(basis, o)
           affected == Prepare(action, basis, before, a)
       IN /\ affected # {} /\ place \cap affected = {}
          /\ action = "Restore" /\ o.kind = "entry" => place # {}
          /\ \A b \in affected :
               IF action = "Purge" THEN Status(d, tree, b) = "Trashed" ELSE ~Purged(d, b)
          /\ Commit(r, basis, Marks(action, a, affected, place, Observed(r, basis, affected)))

Renewed(attrs) == {Fresh(x) : x \in attrs}

(* clone_entry                                                             *)
CloneEntry(r) ==
  LET d == docs[r]  tree == Tree(d) IN
  \E o \in ObjectsOf(d, "entry"), g \in tree.active :
    LET a == Single(d, o) IN
    /\ Status(d, tree, a) = "Active"
    /\ Commit(r, d, Created(FirstOf(Entry(<<New>>)), {g}, Renewed(Present(d, a))))

(* extract_entry: an entry as it was at one change of an isolated source,  *)
(* another copy of the database.                                           *)
ExtractEntry(r) ==
  \E s \in Replicas \ {r} : \E c \in docs[s] : \E g \in Tree(docs[r]).active :
    LET at == log[c].past \cup {c} IN
    \E o \in ObjectsOf(at, "entry") :
      LET a == Single(at, o) IN
      /\ Status(at, Tree(at), a) = "Active"
      /\ Commit(r, docs[r], Created(FirstOf(Entry(<<New>>)), {g}, Renewed(Present(at, a))))

(* clone_group: a complete active subtree with new identities.             *)
CloneGroup(r) ==
  LET d == docs[r]  tree == Tree(d) IN
  \E g \in tree.active, place \in Places(tree) :
    LET subtree == Subtree(d, tree, g)
        copy(a) == FirstOf([kind |-> a.object.kind, id |-> Fresh(a.object.id)])
        copies == {copy(a) : a \in subtree}
        source(b) == CHOOSE a \in subtree : copy(a) = b
        placed(b) == IF source(b) = g THEN place ELSE {copy(p) : p \in Selected(d, "place", source(b))}
        entries == {b \in copies : b.object.kind = "entry"}
        attrs(b) == Renewed(Present(d, source(b)))
    IN /\ \A a \in subtree : Status(d, tree, a) = "Active"
       /\ \A a \in subtree \ {g} : Selected(d, "place", a) \subseteq subtree
       /\ Commit(r, d,
            [NoWrites EXCEPT !.place = [b \in copies |-> placed(b)],
                            !.life = [b \in copies |-> FALSE],
                            !.current = [o \in {b.object : b \in copies} |-> o.id],
                            !.attrs = [b \in entries |-> attrs(b)],
                            !.present = [k \in UNION {{b} \X attrs(b) : b \in entries} |-> TRUE],
                            !.events = copies])

-----------------------------------------------------------------------------
(* Late changes of closed generations (lifecycle/recovery.rs)              *)

Pending(d) ==
  {v \in Events(d) : /\ Purged(d, v.address) /\ v \notin Covered(d, v.address)
                     /\ v \notin UNION {log[c].writes.recovered : c \in d}}

(* Mutant of Lifetime: the generation is derived from the source.          *)
LifetimeOfSource(o, v) == Address(o, <<0, v.change>>)

(* Every recovery makes a lifetime of its own (a random generation).       *)
Lifetime(o, v) == Address(o, <<New>>)

(* recover_source: the content at the change of the source, or the form    *)
(* the user made of it, becomes a new lifetime or a copy.                  *)
RecoverSource(r) ==
  LET d == docs[r]  tree == Tree(d) IN
  \E v \in Pending(d), place \in Places(tree), mode \in {"Restore", "Clone"} :
    LET o == v.address.object
        at == log[v.change].past \cup {v.change}
        target == IF mode = "Restore" THEN Lifetime(o, v)
                  ELSE FirstOf([kind |-> o.kind, id |-> <<New>>])
    IN /\ o.kind = "entry" => place # {}
       /\ mode = "Restore" => \A a \in CurrentOf(d, o) : Purged(d, a)
       /\ \E form \in IF o.kind = "entry" THEN {Present(at, v.address), {}} ELSE {{}} :
            LET attrs == IF mode = "Restore" THEN form ELSE Renewed(form)
            IN Commit(r, d, [Created(target, place, attrs) EXCEPT !.recovered = {v}])

(* resolve_generation: one of the lifetimes that were current at the       *)
(* reviewed heads.                                                         *)
ResolveGeneration(r) ==
  LET basis == review[r] IN
  \E o \in ObjectsOf(basis, "group") \cup ObjectsOf(basis, "entry") : \E a \in CurrentOf(basis, o) :
    /\ ~Purged(docs[r], a)
    /\ Cardinality(CurrentOf(basis, o)) > 1
    /\ Commit(r, basis, [NoWrites EXCEPT !.current = o :> a.generation, !.events = {a}])

(* restore_revision: the attributes of a saved version of any open         *)
(* lifetime are written to the current one; no other entry may own them.   *)
RestoreRevision(r) ==
  LET d == docs[r]  tree == Tree(d) IN
  \E v \in Events(d), g \in tree.active :
    LET o == v.address.object
        a == Single(d, o)
        saved == Present(log[v.change].past \cup {v.change}, v.address)
        new == saved \ Attributes(d, a)
    IN /\ o.kind = "entry" /\ ~Purged(d, v.address)
       /\ Status(d, tree, a) = "Active"
       /\ \A x \in new : Owners(d, x) \subseteq {o}
       /\ Commit(r, d, [NoWrites EXCEPT !.events = {a}, !.place = a :> {g}, !.attrs = a :> new,
            !.present = [k \in {a} \X (Attributes(d, a) \cup new) |-> k[2] \in saved]])

(* resolve_fields: one variant of an observed field is written again.      *)
ResolveFields(r) ==
  LET d == docs[r]  basis == review[r] IN
  \E o \in ObjectsOf(basis, "entry") :
    LET a == Single(basis, o) IN
    /\ Single(d, o) = a /\ Status(d, Tree(d), a) = "Active"
    /\ \E x \in Attributes(basis, a) : \E kept \in BOOLEAN :
         Commit(r, basis, [NoWrites EXCEPT !.events = {a}, !.present = <<a, x>> :> kept])

(* merge and apply_sources: the changes of another replica.                *)
Merge(r, s) ==
  /\ ~(docs[s] \subseteq docs[r])
  /\ Valid(docs[r] \cup docs[s])
  /\ docs' = [docs EXCEPT ![r] = @ \cup docs[s]]
  /\ UNCHANGED <<log, review, start, left>>

(* review_heads: a form or a selection is opened on the document as it is. *)
Review(r) ==
  /\ review[r] # docs[r]
  /\ review' = [review EXCEPT ![r] = docs[r]]
  /\ UNCHANGED <<log, docs, start, left>>

-----------------------------------------------------------------------------
(* The histories to start from: a group with an entry beside an empty      *)
(* group; the first one moved to trash by one device; purged while the     *)
(* other device edited the entry; and recovered on both devices at once.   *)
GroupA == FirstOf(Group(<<0, 1>>))
GroupB == FirstOf(Group(<<0, 2>>))
TheEntry == FirstOf(Entry(<<0, 3>>))
Attribute == <<0, 4>>

Base == [place |-> GroupA :> {} @@ GroupB :> {} @@ TheEntry :> {GroupA},
         life |-> [a \in {GroupA, GroupB, TheEntry} |-> FALSE],
         current |-> [o \in {GroupA.object, GroupB.object, TheEntry.object} |-> o.id],
         purge |-> <<>>, attrs |-> TheEntry :> {Attribute},
         present |-> <<TheEntry, Attribute>> :> TRUE,
         recovered |-> {}, events |-> {GroupA, GroupB, TheEntry}]

TrashIt == [NoWrites EXCEPT !.life = [a \in {GroupA, TheEntry} |-> TRUE]]
PurgeIt == [NoWrites EXCEPT !.purge = [a \in {GroupA, TheEntry} |-> {Event(1, a)}]]
EditIt == [NoWrites EXCEPT !.events = {TheEntry}]
Again(n, attrs) ==
  LET a == Address(TheEntry.object, <<n>>)
  IN [Created(a, {GroupB}, attrs) EXCEPT !.recovered = {Event(4, TheEntry)}]

History == <<Change({}, 1, 1, Base), Change({1}, 2, 1, TrashIt),
             Change({1, 2}, 3, 1, PurgeIt), Change({1}, 2, 2, EditIt),
             Change(1..4, 4, 1, Again(5, {Attribute})), Change(1..4, 4, 2, Again(6, {}))>>

Past(r) ==
  CASE start = "plain" -> {1}
    [] start = "trashed" -> IF r = 1 THEN {1, 2} ELSE {1}
    [] start = "late" -> 1..4
    [] start = "lifetimes" -> 1..6

Init ==
  /\ start \in Starts
  /\ left = MaxChanges[start]
  /\ docs = [r \in Replicas |-> Past(r)]
  /\ review = [r \in Replicas |-> Past(r)]
  /\ log = SubSeq(History, 1, Cardinality(Past(1)))

May(command) == command \in Commands[start]

Command(r) ==
  \/ May("create") /\ (CreateGroup(r) \/ CreateEntry(r))
  \/ May("edit") /\ EditEntry(r)
  \/ May("move") /\ (MoveGroup(r) \/ MoveEntry(r))
  \/ May("update") /\ UpdateGroup(r)
  \/ \E action \in {"Trash", "Restore", "Purge"} : May(action) /\ Lifecycle(r, action)
  \/ May("clone") /\ (CloneEntry(r) \/ CloneGroup(r))
  \/ May("extract") /\ ExtractEntry(r)
  \/ May("recover") /\ RecoverSource(r)
  \/ May("resolve") /\ ResolveGeneration(r)
  \/ May("revision") /\ RestoreRevision(r)
  \/ May("fields") /\ ResolveFields(r)

Next == \E r \in Replicas : Command(r) \/ Review(r) \/ \E s \in Replicas : Merge(r, s)

Spec == Init /\ [][Next]_vars

-----------------------------------------------------------------------------
(* Properties.                                                             *)

TypeOK ==
  /\ start \in Starts /\ left \in 0..MaxChanges[start]
  /\ \A r \in Replicas : docs[r] \cup review[r] \subseteq DOMAIN log
  /\ \A c \in DOMAIN log : log[c].past \subseteq 1..(c - 1)

Views == {docs[r] : r \in Replicas}

(* Whatever moves were made at once, every active group is found from the  *)
(* top level through active groups, and every active entry is in one.      *)
TreeSound ==
  \A d \in Views :
    LET tree == Tree(d) IN
    /\ \A e \in tree.parent : e[1] \in tree.active => e[2] \in tree.active
    /\ \A g \in tree.active : ~Cyclic(tree.parent, g)
    /\ \A e \in ObjectsOf(d, "entry") :
         Status(d, tree, Single(d, e)) = "Active" => Selected(d, "place", Single(d, e)) \subseteq tree.active

(* Deletion wins over what was done at the same time: an object moved to   *)
(* trash is not active until somebody who knew of it restores it.          *)
DeletionWins ==
  \A d \in Views :
    LET tree == Tree(d) IN
    \A c \in d :
    LET undone(a) == \E k \in d : /\ c \in log[k].past /\ a \in DOMAIN log[k].writes.life
                                  /\ ~log[k].writes.life[a]
    IN \A a \in DOMAIN log[c].writes.life :
         log[c].writes.life[a] /\ Status(d, tree, a) = "Active" => undone(a)

LastTookEffect(r) ==
  LET life == log[Len(log)].writes.life
      of(a) == Status(docs[r], Tree(docs[r]), a)
  IN /\ \A a \in DOMAIN life : life[a] => of(a) = "Trashed"
     /\ (\E a \in DOMAIN life : ~life[a]) => \E a \in DOMAIN life : of(a) = "Active"

(* What a user confirms on the document as it is takes effect there: what  *)
(* was put into trash is out of the tree with all that was below it, and   *)
(* what was restored is back.                                              *)
ConfirmedTakesEffect ==
  [][\A r \in Replicas :
       docs'[r] # docs[r] /\ log' # log /\ review[r] = docs[r] => LastTookEffect(r)']_vars

(* A purge closes what its user had reviewed: a change that user had not   *)
(* seen stays to be recovered, until it has been, and is recovered once.   *)
LateKept ==
  \A d \in Views : \A a \in Written(d, "purge") : \A v \in EventsOf(d, a) :
    \/ \E c \in d : a \in DOMAIN log[c].writes.purge /\ v.change \in log[c].past
    \/ v \in Pending(d)
    \/ \E c \in d : v \in log[c].writes.recovered

(* What the replicas did on their own never makes a document that merging  *)
(* refuses.                                                                *)
MergeAccepted == Valid(UNION {docs[r] : r \in Replicas})

=============================================================================
