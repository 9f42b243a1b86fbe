-------------------------- MODULE Binaries_proofs --------------------------
(***************************************************************************)
(* BinariesSound for any number of names, forms, devices and faults.       *)
(*                                                                         *)
(* The invariant says of every place that keeps contents (the session, the *)
(* form that is kept beside the copy) that each of its names which is      *)
(* bound to an object has it, unless a collection overlooked it: a later   *)
(* commit adds objects only for names that are not bound.  The host serves *)
(* the copy itself while its store is sure; in doubt, a document whose     *)
(* contents the copy still has.                                            *)
(***************************************************************************)
EXTENDS Binaries, Credentials, FiniteSetTheorems, TLAPS

Docs(B) == [now : SUBSET B, past : SUBSET B, waiting : SUBSET B, receipts : SUBSET Nat]
FormsOf(B) ==
  {f \in [base : SUBSET B, shows : SUBSET B, changed : SUBSET B, operation : Nat] :
     f.changed \subseteq f.shows}
Copies(B) == [doc : Docs(B), bound : SUBSET B, objects : SUBSET B]
Sides(B) ==
  {s \in [form : FormsOf(B) \cup {Nothing}, attempt : FormsOf(B) \cup {Nothing}, blobs : SUBSET B] :
     s.blobs = FormRefs(s.form) \cup FormRefs(s.attempt)}

TypeOK ==
  /\ session \in {"closed", "open", "attempted", "published"}
  /\ meaning \in Seq(Contents) /\ saves \in Nat
  /\ doc \in Docs(Blobs)
  /\ form \in FormsOf(Blobs) \cup {Nothing} /\ attempt \in FormsOf(Blobs) \cup {Nothing}
  /\ session \in {"attempted", "published"} => form # Nothing /\ attempt # Nothing
  /\ store \subseteq Blobs /\ bound \subseteq Blobs
  /\ copy \in Copies(Blobs) /\ served \in Copies(Blobs) /\ unsure \in BOOLEAN
  /\ sidecar \in Sides(Blobs) \cup {Nothing}
  /\ offers \subseteq Blobs /\ foreign \subseteq Blobs /\ arrived \subseteq Blobs

(* How much these names count for.                                         *)
Count(names, c) == Cardinality({c[n] : n \in names})
(* Those of these names that are bound have their objects.                 *)
Backed(names, c, lost) == names \cap c.bound \subseteq c.objects \cup lost

(* The working copy: what its document needs is here, within the limit.    *)
CopySound ==
  /\ Required(copy.doc) \subseteq copy.bound
  /\ Required(copy.doc) \cup (copy.doc.waiting \cap arrived) \subseteq copy.objects \cup overlooked
  /\ Count(Required(copy.doc) \ uncounted, meaning) <= Limit
  /\ Required(copy.doc) \cap foreign \subseteq applied
  /\ (foreign \ applied) \cap arrived \subseteq copy.objects

(* What the host serves: what it may load is in the copy, within the limit.*)
ServedSound ==
  /\ Count(Required(served.doc) \ uncounted, meaning) <= Limit
  /\ Required(served.doc) \cap foreign \subseteq applied
  /\ Backed(Required(served.doc), copy, overlooked)
  /\ ~unsure => served = copy

(* What the session has; while it is sure of what is served, it knows it.  *)
Known == doc = served.doc /\ bound = served.bound /\ Backed(store, copy, overlooked)
SessionSound ==
  /\ Required(doc) \cup DraftRefs \subseteq store
  /\ store \cap foreign \subseteq applied
  /\ Backed(store \cap DraftRefs, copy, overlooked)
  /\ Count(Required(doc) \ uncounted, meaning) <= Limit
  /\ session \in {"attempted", "published"} => ~doubtful
  /\ ~doubtful => Known

(* What is kept beside the copy.                                           *)
SideSound(s) ==
  s # Nothing => Backed(s.blobs, copy, overlooked) /\ s.blobs \cap foreign \subseteq applied

IInv ==
  /\ TypeOK /\ CopySound /\ ServedSound /\ SideSound(sidecar)
  /\ session # "closed" => SessionSound

-----------------------------------------------------------------------------
(* Types.                                                                  *)

LEMMA BlobsAre == ASSUME TypeOK PROVE Blobs = 1 .. Len(meaning) /\ Len(meaning) \in Nat /\ Blobs \subseteq Nat
  BY DEF TypeOK, Blobs

LEMMA Grows ==
  ASSUME NEW B, NEW D, B \subseteq D
  PROVE  /\ Docs(B) \subseteq Docs(D) /\ FormsOf(B) \subseteq FormsOf(D)
         /\ Copies(B) \subseteq Copies(D) /\ Sides(B) \subseteq Sides(D)
<1>1. Docs(B) \subseteq Docs(D)  BY DEF Docs
<1>2. FormsOf(B) \subseteq FormsOf(D)  BY DEF FormsOf
<1>3. Copies(B) \subseteq Copies(D)  BY <1>1 DEF Copies
<1>4. Sides(B) \subseteq Sides(D)  BY <1>2 DEF Sides
<1> QED BY <1>1, <1>2, <1>3, <1>4

(* A form is not Nothing.                                                  *)
LEMMA FormIs ==
  ASSUME NEW B \in SUBSET Nat, NEW f \in FormsOf(B)
  PROVE  /\ f # Nothing /\ FormRefs(f) = f.base \cup f.shows
         /\ f.base \subseteq B /\ f.shows \subseteq B /\ f.changed \subseteq f.shows /\ f.operation \in Nat
<1>1. f \in Forms  BY DEF Forms, FormsOf
<1> QED BY <1>1, NothingAssumption DEF FormsOf, FormRefs

(* A new name belongs to nothing yet.                                      *)
LEMMA Named ==
  ASSUME TypeOK, NEW c \in Contents, Names(c)
  PROVE  /\ meaning' \in Seq(Contents) /\ Blobs' = Blobs \cup {NextName} /\ NextName \notin Blobs
         /\ \A n \in Blobs : meaning'[n] = meaning[n]
  BY DEF TypeOK, Names, NextName, Blobs

-----------------------------------------------------------------------------
(* The limit.                                                              *)

LEMMA CountMonotonic ==
  ASSUME NEW c \in Seq(Contents), NEW S, NEW T, S \subseteq T, T \subseteq DOMAIN c, Count(T, c) <= Limit
  PROVE  Count(S, c) <= Limit
<1> DEFINE A == {c[n] : n \in S}
           B == {c[n] : n \in T}
           f == [n \in T |-> c[n]]
<1>1. IsFiniteSet(1 .. Len(c)) /\ DOMAIN c = 1 .. Len(c)
  BY FS_Interval
<1>2. IsFiniteSet(T)  BY <1>1, FS_Subset
<1>3. f \in Surjection(T, B)  BY DEF Surjection
<1>4. IsFiniteSet(B)  BY <1>2, <1>3, FS_Surjection DEF ExistsSurjection
<1>5. A \in SUBSET B  OBVIOUS
<1>6. IsFiniteSet(A) /\ Cardinality(A) <= Cardinality(B)  BY <1>4, <1>5, FS_Subset
<1>7. Cardinality(A) \in Nat /\ Cardinality(B) \in Nat  BY <1>4, <1>6, FS_CardinalityType
<1>8. Cardinality(B) <= Limit  BY DEF Count
<1> HIDE DEF A, B
<1>9. Cardinality(A) <= Limit  BY <1>6, <1>7, <1>8, LimitAssumption
<1> QED BY <1>9 DEF A, Count

(* Other names leave the count of these alone.                             *)
LEMMA CountSame ==
  ASSUME NEW c, NEW e, NEW S, \A n \in S : e[n] = c[n]
  PROVE  Count(S, e) = Count(S, c)
<1>1. {e[n] : n \in S} = {c[n] : n \in S}  OBVIOUS
<1> QED BY <1>1 DEF Count

LEMMA CountLess ==
  ASSUME NEW c \in Seq(Contents), NEW e, NEW S, NEW T,
         \A n \in DOMAIN c : e[n] = c[n],
         S \subseteq T, T \subseteq DOMAIN c, Count(T, c) <= Limit
  PROVE  Count(S, e) <= Limit
<1>1. Count(S, c) <= Limit  BY CountMonotonic
<1>2. Count(S, e) = Count(S, c)  BY CountSame
<1> QED BY <1>1, <1>2

-----------------------------------------------------------------------------
(* What is kept beside the copy.                                           *)

LEMMA SidecarIs ==
  ASSUME NEW B \in SUBSET Nat, NEW f \in FormsOf(B) \cup {Nothing}, NEW a \in FormsOf(B) \cup {Nothing},
         NEW blobs \in SUBSET B, FormRefs(f) \cup FormRefs(a) \subseteq blobs
  PROVE  /\ Sidecar(f, a, blobs) \in Sides(B) \cup {Nothing}
         /\ Sidecar(f, a, blobs) # Nothing => Sidecar(f, a, blobs).blobs \subseteq blobs
  BY DEF Sidecar, Sides

(* The form changes, and new names enter the session.                      *)
Grown ==
  /\ meaning' \in Seq(Contents) /\ Blobs \subseteq Blobs'
  /\ \A n \in Blobs : meaning'[n] = meaning[n]
Extends(blobs) == store \subseteq blobs /\ blobs \subseteq Blobs' /\ blobs \cap Blobs \subseteq store

LEMMA FormStep ==
  ASSUME IInv, session # "closed", ~doubtful, Grown,
         UNCHANGED <<doc, bound, doubtful, hosted, offers, foreign, applied, past>>,
         session' \in {"open", "attempted", "published"}, saves' \in Nat,
         form' \in FormsOf(Blobs') \cup {Nothing}, attempt' \in FormsOf(Blobs') \cup {Nothing},
         session' \in {"attempted", "published"} => form' # Nothing /\ attempt' # Nothing,
         Extends(store'), DraftRefs' \subseteq store',
         NEW f \in FormsOf(Blobs') \cup {Nothing}, NEW a \in FormsOf(Blobs') \cup {Nothing},
         NEW blobs, Extends(blobs), FormRefs(f) \cup FormRefs(a) \subseteq blobs,
         sidecar' \in {sidecar, Sidecar(f, a, blobs)}
  PROVE  IInv'
<1> USE DEF IInv
<1>1. Blobs' \subseteq Nat /\ Blobs \subseteq Nat
  BY DEF Grown, Blobs, TypeOK
<1>2. /\ Docs(Blobs) \subseteq Docs(Blobs') /\ FormsOf(Blobs) \subseteq FormsOf(Blobs')
      /\ Copies(Blobs) \subseteq Copies(Blobs') /\ Sides(Blobs) \subseteq Sides(Blobs')
  BY Grows DEF Grown
<1>3. /\ Sidecar(f, a, blobs) \in Sides(Blobs') \cup {Nothing}
      /\ Sidecar(f, a, blobs) # Nothing => Sidecar(f, a, blobs).blobs \subseteq blobs
  BY <1>1, SidecarIs DEF Extends
<1>4. TypeOK'
  BY <1>2, <1>3 DEF TypeOK, Grown, Extends, past, hosted
<1>5. SessionSound /\ Known
  BY DEF SessionSound
<1>6. CopySound'
  <2>1. copy.doc \in Docs(Blobs) /\ Required(copy.doc) \subseteq Blobs
    BY DEF TypeOK, Copies, Docs, Required
  <2>2. Count(Required(copy.doc) \ uncounted, meaning') <= Limit
    BY <2>1, CountLess DEF CopySound, TypeOK, Grown, Blobs
  <2> QED BY <2>2 DEF CopySound, past, hosted
<1>11. ServedSound'
  <2>1. served.doc \in Docs(Blobs) /\ Required(served.doc) \subseteq Blobs
    BY DEF TypeOK, Copies, Docs, Required
  <2>2. Count(Required(served.doc) \ uncounted, meaning') <= Limit
    BY <2>1, CountLess DEF ServedSound, TypeOK, Grown, Blobs
  <2> QED BY <2>2 DEF ServedSound, past, hosted
<1>7. copy.bound \subseteq Blobs /\ foreign \subseteq Blobs
  BY DEF TypeOK, Copies
<1>8. ASSUME NEW names, Extends(names) PROVE Backed(names, copy, overlooked) /\ names \cap foreign \subseteq applied
  BY <1>5, <1>7, <1>8 DEF Extends, Backed, Known, SessionSound
<1>9. SideSound(sidecar)'
  <2>1. CASE sidecar' = sidecar
    BY <2>1 DEF SideSound, past, hosted
  <2>2. CASE sidecar' = Sidecar(f, a, blobs)
    BY <2>2, <1>3, <1>8 DEF SideSound, past, hosted, Backed
  <2> QED BY <2>1, <2>2
<1>10. SessionSound'
  <2>1. doc \in Docs(Blobs) /\ Required(doc) \subseteq Blobs
    BY DEF TypeOK, Docs, Required
  <2>2. Count(Required(doc) \ uncounted, meaning') <= Limit
    BY <2>1, <1>5, CountLess DEF SessionSound, TypeOK, Grown, Blobs
  <2>3. Known'
    BY <1>5, <1>8 DEF Known, past, hosted
  <2>4. Backed(store' \cap DraftRefs', copy', overlooked')
    BY <1>8 DEF past, hosted, Backed
  <2>5. store' \cap foreign' \subseteq applied'
    BY <1>8
  <2>6. (Required(doc) \cup DraftRefs)' \subseteq store'
    BY <1>5 DEF SessionSound, Extends, Required
  <2>7. Count(Required(doc') \ uncounted', meaning') <= Limit
    BY <2>2 DEF past
  <2> HIDE DEF IInv
  <2> QED BY <2>3, <2>4, <2>5, <2>6, <2>7 DEF SessionSound
<1> QED BY <1>4, <1>6, <1>9, <1>10, <1>11

-----------------------------------------------------------------------------
(* Commits.                                                                *)

LEMMA PublishedIs ==
  ASSUME NEW B \in SUBSET Nat, NEW d \in Docs(B), NEW blobs, bound \subseteq B, served \in Copies(B)
  PROVE  /\ Published(d, blobs) \in Copies(B) /\ Published(d, blobs).doc = d
         /\ Published(d, blobs).bound = bound \cup (blobs \cap Retains(d))
         /\ Published(d, blobs).objects = served.objects \cup New(d, blobs)
<1>1. Retains(d) \subseteq B  BY DEF Docs, Retains, Required
<1> QED BY <1>1 DEF Published, Copies, New

(* Nothing is written or taken over: what a host in doubt does.            *)
LEMMA StaysStep ==
  ASSUME IInv, session # "closed", ~doubtful, Grown,
         UNCHANGED <<copy, served, unsure, doc, bound, store, form, attempt, sidecar, offers, foreign, applied, overlooked>>,
         uncounted \subseteq uncounted', arrived' \subseteq arrived \cup copy.objects,
         session' \in {"open", "attempted", "published"}, saves' \in Nat,
         session' \in {"attempted", "published"} =>
           form # Nothing /\ attempt # Nothing /\ ~doubtful'
  PROVE  IInv'
<1>1. /\ TypeOK /\ CopySound /\ ServedSound /\ SideSound(sidecar) /\ SessionSound
      /\ copy \in Copies(Blobs) /\ served \in Copies(Blobs) /\ doc \in Docs(Blobs)
  BY DEF IInv, TypeOK
<1>2. /\ Docs(Blobs) \subseteq Docs(Blobs') /\ FormsOf(Blobs) \subseteq FormsOf(Blobs')
      /\ Copies(Blobs) \subseteq Copies(Blobs') /\ Sides(Blobs) \subseteq Sides(Blobs')
  BY Grows DEF Grown
<1>3. TypeOK'
  BY <1>1, <1>2 DEF TypeOK, Grown, Copies
<1>4. ASSUME NEW e \in Docs(Blobs), Count(Required(e) \ uncounted, meaning) <= Limit
      PROVE  Count(Required(e) \ uncounted', meaning') <= Limit
  <2>1. Required(e) \subseteq Blobs  BY DEF Docs, Required
  <2> QED BY <2>1, <1>1, <1>4, CountLess DEF TypeOK, Grown, Blobs
<1>5. copy.doc \in Docs(Blobs) /\ served.doc \in Docs(Blobs)
  BY <1>1 DEF Copies
<1>6. CopySound'
  <2>1. Count(Required(copy.doc) \ uncounted', meaning') <= Limit
    BY <1>1, <1>4, <1>5 DEF CopySound
  <2> QED BY <2>1, <1>1 DEF CopySound
<1>7. ServedSound'
  <2>1. Count(Required(served.doc) \ uncounted', meaning') <= Limit
    BY <1>1, <1>4, <1>5 DEF ServedSound
  <2> QED BY <2>1, <1>1 DEF ServedSound
<1>8. SideSound(sidecar)'
  BY <1>1 DEF SideSound
<1>9. SessionSound'
  <2>1. Count(Required(doc) \ uncounted', meaning') <= Limit
    BY <1>1, <1>4 DEF SessionSound
  <2>2. Known'
    BY <1>1 DEF SessionSound, Known
  <2>3. DraftRefs' = DraftRefs
    BY DEF DraftRefs
  <2> QED BY <2>1, <2>2, <2>3, <1>1 DEF SessionSound
<1> QED BY <1>3, <1>6, <1>7, <1>8, <1>9 DEF IInv

(* What a commit leaves, accepted or not.                                  *)
LEMMA SureCommitStep ==
  ASSUME IInv, ~unsure, session # "closed", ~doubtful, Grown,
         NEW d \in Docs(Blobs'), NEW blobs, Extends(blobs), Commits(d, blobs),
         d.waiting = doc.waiting, uncounted \subseteq uncounted',
         Count(Required(d) \ uncounted', meaning') <= Limit,
         UNCHANGED <<form, attempt, sidecar, offers, foreign, applied, overlooked>>,
         session' \in {"open", "attempted", "published"}, saves' \in Nat,
         session' \in {"attempted", "published"} =>
           form # Nothing /\ attempt # Nothing /\ ~doubtful'
  PROVE  IInv'
<1> DEFINE q == Published(d, blobs)
<1>1. /\ TypeOK /\ CopySound /\ SideSound(sidecar) /\ SessionSound /\ Known /\ served = copy
      /\ Blobs' \subseteq Nat /\ bound \subseteq Blobs /\ foreign \subseteq Blobs
      /\ copy \in Copies(Blobs) /\ doc \in Docs(Blobs)
  BY DEF IInv, ServedSound, SessionSound, Grown, Blobs, TypeOK
<1>2. /\ Docs(Blobs) \subseteq Docs(Blobs') /\ FormsOf(Blobs) \subseteq FormsOf(Blobs')
      /\ Copies(Blobs) \subseteq Copies(Blobs') /\ Sides(Blobs) \subseteq Sides(Blobs')
  BY Grows DEF Grown
<1>3. /\ q \in Copies(Blobs') /\ q.doc = d /\ q.bound = bound \cup (blobs \cap Retains(d))
      /\ q.objects = copy.objects \cup New(d, blobs)
  BY <1>1, <1>2, PublishedIs DEF Grown
<1>4. Required(d) \subseteq blobs /\ Required(d) \subseteq Blobs'
  BY DEF Commits, Docs, Required
<1>5. Backed(blobs, copy, overlooked) /\ blobs \cap foreign \subseteq applied /\ store \subseteq blobs
  BY <1>1 DEF Extends, Backed, Known, SessionSound, Copies
<1>6. \/ /\ copy' = q /\ served' = q /\ unsure' = unsure /\ doubtful' = doubtful
         /\ doc' = d /\ bound' = q.bound /\ store' = KeepsForms(d, blobs)
      \/ /\ copy' \in {copy, q} /\ served' \in {copy, copy'} /\ unsure' = TRUE
         /\ doubtful' = TRUE /\ UNCHANGED <<doc, bound, store>>
      \/ UNCHANGED <<copy, served, unsure, doc, bound, store, doubtful>>
  BY <1>1 DEF Commits, Accepts, Doubts, Refuses, hosted
<1>7. arrived' = arrived \cup copy'.objects
  BY DEF Commits
<1> HIDE DEF q
<1>8. /\ copy' \in {copy, q} /\ copy' \in Copies(Blobs')
      /\ served' \in {copy, copy'} /\ served' \in Copies(Blobs') /\ unsure' \in BOOLEAN
      /\ ~unsure' => served' = copy'
  <2>1. copy \in Copies(Blobs') /\ q \in Copies(Blobs')
    BY <1>1, <1>2, <1>3
  <2>2. unsure \in BOOLEAN
    BY <1>1 DEF TypeOK
  <2>3. copy' \in {copy, q} /\ served' \in {copy, copy'} /\ unsure' \in BOOLEAN
    BY <2>2, <1>1, <1>6
  <2>4. ~unsure' => served' = copy'
    BY <1>1, <1>6
  <2> QED BY <2>1, <2>3, <2>4
<1>9. KeepsForms(d, blobs) \subseteq blobs
  BY DEF KeepsForms
<1>10. store' \subseteq blobs /\ bound' \subseteq Blobs' /\ doc' \in Docs(Blobs') /\ arrived' \subseteq Blobs'
  <2>1. store' \subseteq blobs  BY <1>5, <1>6, <1>9
  <2>2. bound' \subseteq Blobs'  BY <1>1, <1>3, <1>6 DEF Grown, Copies
  <2>3. doc' \in Docs(Blobs')  BY <1>1, <1>2, <1>6
  <2>4. arrived' \subseteq Blobs'  BY <1>1, <1>7, <1>8 DEF TypeOK, Grown, Copies
  <2> QED BY <2>1, <2>2, <2>3, <2>4
<1>11. TypeOK'
  BY <1>1, <1>2, <1>8, <1>10 DEF TypeOK, Grown, Extends
<1>12. ASSUME NEW names \in SUBSET blobs PROVE Backed(names, copy', overlooked')
  <2>1. CASE copy' = copy
    BY <2>1, <1>5 DEF Backed
  <2>2. CASE copy' = q
    BY <2>2, <1>1, <1>3, <1>5 DEF Backed, New, Known
  <2> QED BY <2>1, <2>2, <1>8
<1>13. ServedSound'
  <2>1. CASE served' = copy
    <3>1. Required(copy.doc) \subseteq Blobs  BY <1>1 DEF Copies, Docs, Required
    <3>2. Count(Required(copy.doc) \ uncounted', meaning') <= Limit
      BY <3>1, <1>1, CountLess DEF CopySound, TypeOK, Grown, Blobs
    <3>3. Required(copy.doc) \cap foreign' \subseteq applied'
      BY <1>1 DEF CopySound
    <3>4. Required(copy.doc) \subseteq blobs
      BY <1>1, <1>5 DEF Known, SessionSound
    <3>5. Backed(Required(copy.doc), copy', overlooked')
      BY <3>4, <1>12
    <3> QED BY <2>1, <3>2, <3>3, <3>5, <1>8 DEF ServedSound
  <2>2. CASE served' = q /\ copy' = q
    <3>1. Required(d) \cap foreign' \subseteq applied'
      BY <1>4, <1>5
    <3>2. Backed(Required(d), copy', overlooked')
      BY <1>4, <1>12
    <3> QED BY <2>2, <3>1, <3>2, <1>3 DEF ServedSound
  <2> QED BY <2>1, <2>2, <1>8
<1>14. SideSound(sidecar)'
  <2>1. CASE copy' = copy
    BY <2>1, <1>1 DEF SideSound
  <2>2. CASE copy' = q
    BY <2>2, <1>1, <1>3, <1>5 DEF SideSound, Backed, New, Known
  <2> QED BY <2>1, <2>2, <1>8
<1>15. CopySound'
  <2>1. CASE copy' = copy
    <3>1. Required(copy.doc) \subseteq Blobs  BY <1>1 DEF Copies, Docs, Required
    <3>2. Count(Required(copy.doc) \ uncounted', meaning') <= Limit
      BY <3>1, <1>1, CountLess DEF CopySound, TypeOK, Grown, Blobs
    <3> QED BY <2>1, <3>2, <1>1, <1>7 DEF CopySound
  <2>2. CASE copy' = q
    <3>1. Required(d) \subseteq q.bound
      BY <1>3, <1>4 DEF Retains
    <3>2. Required(d) \subseteq q.objects \cup overlooked
      <4>1. Backed(Required(d), q, overlooked)  BY <1>4, <1>12, <2>2
      <4> QED BY <4>1, <3>1 DEF Backed
    <3>3. d.waiting \cap arrived' \subseteq q.objects \cup overlooked
      BY <1>1, <1>3, <1>7, <2>2 DEF CopySound, Known
    <3>4. Required(d) \cap foreign \subseteq applied
      BY <1>4, <1>5
    <3>5. (foreign \ applied) \cap arrived' \subseteq q.objects
      BY <1>1, <1>3, <1>7, <2>2 DEF CopySound
    <3> QED BY <2>2, <1>3, <3>1, <3>2, <3>3, <3>4, <3>5 DEF CopySound
  <2> QED BY <2>1, <2>2, <1>8
<1>16. SessionSound'
  <2>1. (Required(doc) \cup DraftRefs)' \subseteq store'
    <3>1. DraftRefs' = DraftRefs /\ DraftRefs \subseteq store  BY <1>1 DEF DraftRefs, SessionSound
    <3>2. CASE doc' = d /\ store' = KeepsForms(d, blobs)
      BY <3>1, <3>2, <1>4, <1>5 DEF KeepsForms, Retains, Required
    <3>3. CASE UNCHANGED <<doc, store>>
      BY <3>1, <3>3, <1>1 DEF SessionSound, Required
    <3> QED BY <3>2, <3>3, <1>6
  <2>2. store' \cap foreign' \subseteq applied'
    BY <1>5, <1>10
  <2>3. Backed(store' \cap DraftRefs', copy', overlooked') /\ Backed(store', copy', overlooked')
    BY <1>10, <1>12
  <2>4. Count(Required(doc') \ uncounted', meaning') <= Limit
    <3>1. Required(doc) \subseteq Blobs  BY <1>1 DEF Docs, Required
    <3>2. Count(Required(doc) \ uncounted', meaning') <= Limit
      BY <3>1, <1>1, CountLess DEF SessionSound, TypeOK, Grown, Blobs
    <3>3. doc' = d \/ doc' = doc  BY <1>6
    <3> QED BY <3>2, <3>3
  <2>5. ~doubtful' => Known'
    BY <1>1, <1>3, <1>6, <2>3 DEF Known
  <2>6. session' \in {"attempted", "published"} => ~doubtful'
    OBVIOUS
  <2> QED BY <2>1, <2>2, <2>3, <2>4, <2>5, <2>6 DEF SessionSound
<1> QED BY <1>11, <1>13, <1>14, <1>15, <1>16 DEF IInv

LEMMA CommitStep ==
  ASSUME IInv, session # "closed", ~doubtful, Grown,
         NEW d \in Docs(Blobs'), NEW blobs, Extends(blobs), Commits(d, blobs),
         d.waiting = doc.waiting, uncounted \subseteq uncounted',
         Count(Required(d) \ uncounted', meaning') <= Limit,
         UNCHANGED <<form, attempt, sidecar, offers, foreign, applied, overlooked>>,
         session' \in {"open", "attempted", "published"}, saves' \in Nat,
         session' \in {"attempted", "published"} =>
           form # Nothing /\ attempt # Nothing /\ ~doubtful'
  PROVE  IInv'
<1>1. CASE unsure
  <2>1. UNCHANGED <<copy, served, unsure, doc, bound, store>> /\ arrived' \subseteq arrived \cup copy.objects
    BY <1>1 DEF Commits, Accepts, Doubts, Refuses, hosted
  <2> QED BY <2>1, StaysStep
<1>2. CASE ~unsure
  BY <1>2, SureCommitStep
<1> QED BY <1>1, <1>2

-----------------------------------------------------------------------------
(* Received sources and collections.                                       *)

(* A source is taken with its content, or waits without it.                *)
LEMMA SureTakeStep ==
  ASSUME IInv, ~unsure, NEW n \in Blobs, NEW d \in Docs(Blobs), NEW blobs \in SUBSET Blobs, Takes(n, d, blobs),
         store \subseteq blobs, blobs \subseteq store \cup ({n} \cap copy.objects),
         Required(doc) \subseteq Required(d),
         Required(d) \subseteq Required(doc) \cup ({n} \cap copy.objects), Required(d) \subseteq blobs,
         d.waiting \subseteq doc.waiting \cup {n}
  PROVE  IInv'
<1> DEFINE q == [served EXCEPT !.doc = d, !.bound = bound \cup {n}]
<1>1. /\ TypeOK /\ CopySound /\ SideSound(sidecar) /\ SessionSound /\ Known /\ ~doubtful /\ served = copy
      /\ Blobs \subseteq Nat /\ bound \subseteq Blobs /\ foreign \subseteq Blobs /\ n \in foreign \ applied
      /\ copy \in Copies(Blobs) /\ doc \in Docs(Blobs) /\ session = "open"
  BY DEF IInv, ServedSound, SessionSound, Blobs, TypeOK, Takes, Ready
<1>2. q \in Copies(Blobs) /\ q.doc = d /\ q.bound = bound \cup {n} /\ q.objects = copy.objects
  BY <1>1 DEF Copies
<1>3. UNCHANGED <<session, form, attempt, sidecar, offers, saves, meaning, foreign, arrived, overlooked, Blobs, DraftRefs>>
  BY DEF Takes, Direct, Blobs, DraftRefs
<1>4. uncounted' = uncounted \cup {n}
  BY DEF Takes
<1>5. \/ /\ copy' = q /\ served' = q /\ unsure' = unsure /\ doubtful' = doubtful
         /\ doc' = d /\ bound' = q.bound /\ store' = blobs /\ applied' = applied \cup {n}
      \/ /\ copy' = q /\ served' \in {copy, q} /\ unsure' = TRUE /\ doubtful' = TRUE
         /\ applied' = applied \cup {n} /\ UNCHANGED <<doc, bound, store>>
      \/ copy' = copy /\ served' = copy /\ (unsure' = unsure \/ unsure' = TRUE) /\ UNCHANGED <<doc, bound, store, applied>>
  BY <1>1 DEF Takes, Accepts, Doubts, Refuses, Written, hosted
<1> HIDE DEF q
<1>6. TypeOK'
  <2>1. unsure' \in BOOLEAN
    BY <1>1, <1>5 DEF TypeOK
  <2>2. copy' \in Copies(Blobs) /\ served' \in Copies(Blobs)
    BY <1>1, <1>2, <1>5
  <2>3. doc' \in Docs(Blobs) /\ bound' \subseteq Blobs /\ store' \subseteq Blobs
    BY <1>1, <1>2, <1>5 DEF TypeOK, Copies
  <2> QED BY <2>1, <2>2, <2>3, <1>1, <1>3 DEF TypeOK
<1>7. Count(Required(d) \ uncounted', meaning) <= Limit
  <2>1. Required(d) \ uncounted' \subseteq Required(doc) \ uncounted  BY <1>4
  <2>2. Required(doc) \ uncounted \subseteq DOMAIN meaning  BY <1>1 DEF Docs, Required, Blobs
  <2> QED BY <2>1, <2>2, <1>1, CountMonotonic DEF SessionSound, TypeOK
<1>8. Count(Required(doc) \ uncounted', meaning) <= Limit
  <2>1. Required(doc) \ uncounted' \subseteq Required(doc) \ uncounted  BY <1>4
  <2>2. Required(doc) \ uncounted \subseteq DOMAIN meaning  BY <1>1 DEF Docs, Required, Blobs
  <2> QED BY <2>1, <2>2, <1>1, CountMonotonic DEF SessionSound, TypeOK
<1>9. copy' \in {copy, q} /\ copy'.objects = copy.objects
  BY <1>2, <1>5
<1>10. ASSUME NEW names, Backed(names, copy, overlooked), n \in names => n \in copy.objects
       PROVE  Backed(names, copy', overlooked)
  BY <1>1, <1>2, <1>9, <1>10 DEF Backed, Known
<1>11. n \notin store /\ (sidecar # Nothing => n \notin sidecar.blobs)
  BY <1>1 DEF SessionSound, SideSound
<1>12. SideSound(sidecar)'
  BY <1>1, <1>3, <1>5, <1>10, <1>11 DEF SideSound
<1>13. CopySound'
  <2>1. CASE copy' = copy /\ UNCHANGED doc /\ UNCHANGED applied
    BY <2>1, <1>1, <1>3, <1>8 DEF CopySound, Known
  <2>2. CASE copy' = q /\ applied' = applied \cup {n}
    <3>1. Required(d) \subseteq q.bound /\ Required(d) \subseteq q.objects \cup overlooked
      BY <1>1, <1>2 DEF CopySound, Known
    <3>2. d.waiting \cap arrived \subseteq q.objects \cup overlooked
      BY <1>1, <1>2 DEF CopySound, Known
    <3>3. Required(d) \cap foreign \subseteq applied'
      BY <2>2, <1>1 DEF CopySound, Known
    <3>4. (foreign \ applied') \cap arrived \subseteq q.objects
      BY <2>2, <1>1, <1>2 DEF CopySound
    <3> QED BY <2>2, <3>1, <3>2, <3>3, <3>4, <1>2, <1>3, <1>7 DEF CopySound
  <2> QED BY <2>1, <2>2, <1>5
<1>14. SessionSound'
  <2>1. Backed(store', copy', overlooked')
    <3>1. Backed(store, copy', overlooked)  BY <1>1, <1>10, <1>11 DEF Known
    <3>2. Backed(blobs, copy', overlooked)  BY <1>9, <3>1 DEF Backed
    <3> QED BY <3>1, <3>2, <1>3, <1>5
  <2>2. Backed(store' \cap DraftRefs', copy', overlooked')
    BY <2>1 DEF Backed
  <2>3. (Required(doc) \cup DraftRefs)' \subseteq store'
    <3>1. CASE doc' = d /\ store' = blobs
      BY <3>1, <1>1, <1>3 DEF SessionSound, Required
    <3>2. CASE UNCHANGED <<doc, store>>
      BY <3>2, <1>1, <1>3 DEF SessionSound, Required
    <3> QED BY <3>1, <3>2, <1>5
  <2>4. store' \cap foreign' \subseteq applied'
    BY <1>1, <1>3, <1>5 DEF SessionSound
  <2>5. Count(Required(doc') \ uncounted', meaning') <= Limit
    BY <1>3, <1>5, <1>7, <1>8
  <2>6. ~doubtful' => Known'
    BY <1>1, <1>2, <1>5, <2>1 DEF Known
  <2>7. session' \notin {"attempted", "published"}
    BY <1>1, <1>3
  <2> QED BY <2>2, <2>3, <2>4, <2>5, <2>6, <2>7 DEF SessionSound
<1>15. ServedSound'
  <2>1. ~unsure' => served' = copy'
    BY <1>5
  <2>2. CASE served' = copy /\ applied \subseteq applied'
    <3>1. Backed(store, copy', overlooked)  BY <1>1, <1>10, <1>11 DEF Known
    <3>2. Required(doc) \subseteq store  BY <1>1 DEF SessionSound
    <3>3. Backed(Required(doc), copy', overlooked')  BY <3>1, <3>2, <1>3 DEF Backed
    <3>4. Required(doc) \cap foreign \subseteq applied  BY <1>1 DEF CopySound, Known
    <3> QED BY <2>1, <2>2, <3>3, <3>4, <1>1, <1>3, <1>8 DEF ServedSound, Known
  <2>3. CASE served' = q /\ copy' = q /\ applied' = applied \cup {n}
    <3>1. Required(d) \cap foreign \subseteq applied'
      BY <2>3, <1>1 DEF CopySound, Known
    <3>2. Required(d) \subseteq q.objects \cup overlooked
      BY <1>1, <1>2 DEF CopySound, Known
    <3> QED BY <2>1, <2>3, <3>1, <3>2, <1>2, <1>3, <1>7 DEF ServedSound, Backed
  <2> QED BY <2>2, <2>3, <1>5
<1> QED BY <1>6, <1>12, <1>13, <1>14, <1>15 DEF IInv

LEMMA TakeStep ==
  ASSUME IInv, NEW n \in Blobs, NEW d \in Docs(Blobs), NEW blobs \in SUBSET Blobs, Takes(n, d, blobs),
         store \subseteq blobs, blobs \subseteq store \cup ({n} \cap served.objects),
         Required(doc) \subseteq Required(d),
         Required(d) \subseteq Required(doc) \cup ({n} \cap served.objects), Required(d) \subseteq blobs,
         d.waiting \subseteq doc.waiting \cup {n}
  PROVE  IInv'
<1>1. CASE unsure
  <2>1. /\ UNCHANGED <<copy, served, unsure, doc, bound, store, applied, form, attempt, sidecar, offers, foreign, overlooked>>
        /\ UNCHANGED <<session, saves, meaning, arrived>> /\ uncounted \subseteq uncounted'
    BY <1>1 DEF Takes, Direct, Accepts, Doubts, Refuses, Written, hosted
  <2>2. session = "open" /\ ~doubtful
    BY DEF Takes, Ready
  <2>3. Grown /\ saves \in Nat
    BY <2>1 DEF IInv, TypeOK, Grown, Blobs
  <2> QED BY <2>1, <2>2, <2>3, StaysStep
<1>2. CASE ~unsure
  <2>1. served = copy
    BY <1>2 DEF IInv, ServedSound
  <2> QED BY <1>2, <2>1, SureTakeStep
<1> QED BY <1>1, <1>2


LEMMA ApplyStep ==
  ASSUME IInv, NEW n \in Blobs, Apply(n) \/ ApplyLate(n)
  PROVE  IInv'
<1>1. doc \in Docs(Blobs) /\ Required(doc) \subseteq store /\ store \subseteq Blobs
  BY DEF IInv, TypeOK, SessionSound, Apply, ApplyLate, Takes, Ready
<1>2. CASE Apply(n)
  <2> DEFINE d == Shows(doc, doc.now \cup {n})
  <2>1. d \in Docs(Blobs) /\ Required(d) = Required(doc) \cup {n} /\ d.waiting = doc.waiting
    BY <1>1 DEF Shows, Docs, Required
  <2>2. Takes(n, d, store \cup {n}) /\ n \in served.objects  BY <1>2 DEF Apply
  <2> HIDE DEF d
  <2> QED BY <1>1, <2>1, <2>2, TakeStep
<1>3. CASE ApplyLate(n)
  <2> DEFINE d == [doc EXCEPT !.waiting = @ \cup {n}]
  <2>1. d \in Docs(Blobs) /\ Required(d) = Required(doc) /\ d.waiting = doc.waiting \cup {n}
    BY <1>1 DEF Docs, Required
  <2>2. Takes(n, d, store)  BY <1>3 DEF ApplyLate
  <2> HIDE DEF d
  <2> QED BY <1>1, <2>1, <2>2, TakeStep
<1> QED BY <1>2, <1>3

LEMMA SureCollectStep ==
  ASSUME IInv, ~unsure, Collect
  PROVE  IInv'
<1> DEFINE q == [served EXCEPT !.objects = @ \cap Keep]
<1>1. /\ TypeOK /\ CopySound /\ SideSound(sidecar) /\ SessionSound /\ Known /\ ~doubtful /\ served = copy
      /\ Blobs \subseteq Nat /\ bound \subseteq Blobs /\ foreign \subseteq Blobs /\ Keep \subseteq Blobs
      /\ copy \in Copies(Blobs) /\ doc \in Docs(Blobs) /\ session = "open"
  BY DEF IInv, ServedSound, SessionSound, Blobs, TypeOK, Collect, Ready, Keep, Docs, Retains, Required
<1>2. q \in Copies(Blobs) /\ q.doc = copy.doc /\ q.bound = copy.bound /\ q.objects = copy.objects \cap Keep
  BY <1>1 DEF Copies
<1>3. UNCHANGED <<session, form, attempt, sidecar, saves, meaning, foreign, applied, arrived, uncounted, Blobs, DraftRefs>>
  BY DEF Collect, Blobs, DraftRefs
<1>4. overlooked' = overlooked \cup ((copy.objects \ copy'.objects) \cap (DraftRefs \cup Kept))
  BY DEF Collect
<1>5. \/ /\ copy' = q /\ served' = q /\ unsure' = unsure
         /\ doc' = doc /\ bound' = q.bound /\ store' = store \cap (Retains(doc) \cup DraftRefs)
      \/ /\ copy' \in {copy, q} /\ (served' = copy \/ served' = copy') /\ unsure' = TRUE
         /\ doubtful' = TRUE /\ UNCHANGED <<doc, bound, store>>
      \/ copy' = copy /\ served' = copy /\ unsure' = unsure /\ UNCHANGED <<doc, bound, store>>
  BY <1>1 DEF Collect, Accepts, Doubts, Refuses, hosted
<1>6. offers' \subseteq offers
  BY DEF Collect, Written
<1>7. Retains(doc) \cup (foreign \ applied) = Keep /\ Required(doc) \subseteq Keep /\ doc = copy.doc
  BY <1>1 DEF Keep, Known, Retains
<1> HIDE DEF q
<1>8. TypeOK'
  <2>1. copy' \in Copies(Blobs) /\ doc' = doc /\ bound' \subseteq Blobs /\ store' \subseteq store
    BY <1>1, <1>2, <1>5 DEF Copies
  <2>2. served' \in Copies(Blobs)
    BY <1>1, <1>2, <1>5
  <2>3. unsure' \in BOOLEAN
    BY <1>1, <1>5 DEF TypeOK
  <2> QED BY <2>1, <2>2, <2>3, <1>1, <1>3, <1>6 DEF TypeOK
<1>9. /\ copy' \in {copy, q} /\ copy'.doc = doc /\ copy'.bound = copy.bound /\ doc' = doc
      /\ served'.doc = doc
  BY <1>1, <1>2, <1>5, <1>7
<1>10. copy.objects \cap Keep \subseteq copy'.objects
  BY <1>2, <1>9
<1>11. ASSUME NEW names, Backed(names, copy, overlooked), names \subseteq Keep \cup DraftRefs \cup Kept
       PROVE  Backed(names, copy', overlooked')
  BY <1>4, <1>9, <1>10, <1>11 DEF Backed
<1>12. SideSound(sidecar)'
  <2>1. sidecar # Nothing => sidecar.blobs \subseteq Kept
    BY <1>1 DEF TypeOK, Sides, Kept
  <2> QED BY <2>1, <1>1, <1>3, <1>11 DEF SideSound
<1>13. CopySound'
  <2>1. Retains(doc) \subseteq Keep  BY <1>7
  <2>2. Required(doc) \cup (doc.waiting \cap arrived) \subseteq copy'.objects \cup overlooked'
    BY <2>1, <1>1, <1>4, <1>7, <1>10 DEF CopySound, Retains
  <2>3. (foreign \ applied) \cap arrived \subseteq copy'.objects
    BY <1>1, <1>7, <1>10 DEF CopySound
  <2> QED BY <2>2, <2>3, <1>1, <1>3, <1>9 DEF CopySound, Known
<1>14. SessionSound'
  <2>1. DraftRefs \subseteq store /\ Required(doc) \subseteq store
    BY <1>1 DEF SessionSound
  <2>2. Backed(store' \cap DraftRefs', copy', overlooked')
    <3>1. Backed(store \cap DraftRefs, copy', overlooked')  BY <1>1, <1>11 DEF SessionSound
    <3> QED BY <3>1, <1>3, <1>5 DEF Backed
  <2>3. (Required(doc) \cup DraftRefs)' \subseteq store'
    BY <2>1, <1>3, <1>5, <1>9 DEF Retains, Required
  <2>4. store' \cap foreign' \subseteq applied'
    BY <1>1, <1>3, <1>5 DEF SessionSound
  <2>5. Count(Required(doc') \ uncounted', meaning') <= Limit
    BY <1>1, <1>3, <1>9 DEF SessionSound
  <2>6. ~doubtful' => Known'
    <3>1. CASE copy' = q /\ served' = q /\ bound' = q.bound /\ store' = store \cap (Retains(doc) \cup DraftRefs)
      <4>1. Backed(store', copy, overlooked)  BY <3>1, <1>1 DEF Backed, Known
      <4>2. store' \subseteq Keep \cup DraftRefs  BY <3>1, <1>7
      <4>3. Backed(store', copy', overlooked')  BY <4>1, <4>2, <1>11
      <4> QED BY <3>1, <4>3, <1>1, <1>2, <1>9 DEF Known
    <3>2. CASE copy' = copy /\ served' = copy /\ UNCHANGED <<doc, bound, store>>
      BY <3>2, <1>1, <1>4 DEF Known, Backed
    <3> QED BY <3>1, <3>2, <1>5
  <2>7. session' \notin {"attempted", "published"}
    BY <1>1, <1>3
  <2> QED BY <2>2, <2>3, <2>4, <2>5, <2>6, <2>7 DEF SessionSound
<1>15. ServedSound'
  <2>1. ~unsure' => served' = copy'
    BY <1>5
  <2>2. Required(doc) \subseteq Keep  BY <1>7
  <2>3. Backed(Required(doc), copy', overlooked')
    <3>1. Backed(Required(doc), copy, overlooked)
      BY <1>1, <1>7 DEF CopySound, Backed
    <3> QED BY <3>1, <2>2, <1>11
  <2> QED BY <2>1, <2>3, <1>1, <1>3, <1>7, <1>9 DEF ServedSound, CopySound
<1> QED BY <1>8, <1>12, <1>13, <1>14, <1>15 DEF IInv

LEMMA CollectStep ==
  ASSUME IInv, Collect
  PROVE  IInv'
<1>1. CASE unsure
  <2>1. /\ UNCHANGED <<copy, served, unsure, doc, bound, store, applied, form, attempt, sidecar, offers, foreign>>
        /\ UNCHANGED <<session, saves, meaning, arrived, uncounted>>
    BY <1>1 DEF Collect, Accepts, Doubts, Refuses, Written, hosted
  <2>2. overlooked' = overlooked \cup ((copy.objects \ copy.objects) \cap (DraftRefs \cup Kept))
    BY <2>1 DEF Collect
  <2>3. session = "open" /\ ~doubtful /\ overlooked' = overlooked
    BY <2>2 DEF Collect, Ready
  <2>4. Grown /\ saves \in Nat
    BY <2>1 DEF IInv, TypeOK, Grown, Blobs
  <2> QED BY <2>1, <2>3, <2>4, StaysStep
<1>2. CASE ~unsure
  BY <1>2, SureCollectStep
<1> QED BY <1>1, <1>2

-----------------------------------------------------------------------------
(* Other devices.                                                          *)

LEMMA AnnounceStep ==
  ASSUME IInv, NEW c \in Contents, Announce(c)
  PROVE  IInv'
<1>1. /\ TypeOK /\ CopySound /\ ServedSound /\ SideSound(sidecar) /\ bound \subseteq Blobs
      /\ copy \in Copies(Blobs) /\ served \in Copies(Blobs)
  BY DEF IInv, TypeOK
<1>2. /\ meaning' \in Seq(Contents) /\ Blobs' = Blobs \cup {NextName} /\ NextName \notin Blobs
      /\ \A n \in Blobs : meaning'[n] = meaning[n]
  BY <1>1, Named DEF Announce
<1>3. /\ foreign' = foreign \cup {NextName} /\ offers' = offers \cup {NextName}
      /\ UNCHANGED <<session, doc, form, attempt, store, bound, doubtful, copy, served, unsure, sidecar, applied, arrived, overlooked, uncounted, saves>>
  BY DEF Announce, open, hosted, past
<1>4. TypeOK'
  <2>1. /\ Docs(Blobs) \subseteq Docs(Blobs') /\ FormsOf(Blobs) \subseteq FormsOf(Blobs')
        /\ Copies(Blobs) \subseteq Copies(Blobs') /\ Sides(Blobs) \subseteq Sides(Blobs')
    BY <1>2, Grows
  <2> QED BY <2>1, <1>1, <1>2, <1>3 DEF TypeOK
<1>5. SideSound(sidecar)'
  BY <1>1, <1>2, <1>3 DEF SideSound, TypeOK, Sides
<1>6. CopySound'
  <2>1. Required(copy.doc) \subseteq Blobs /\ arrived \subseteq Blobs
    BY <1>1 DEF Copies, Docs, Required, TypeOK
  <2>2. Count(Required(copy.doc) \ uncounted, meaning') <= Limit
    BY <2>1, <1>1, <1>2, CountLess DEF CopySound, TypeOK, Blobs
  <2> QED BY <2>1, <2>2, <1>1, <1>2, <1>3 DEF CopySound
<1>7. session' # "closed" => SessionSound'
  <2>1. Required(doc) \subseteq Blobs /\ store \subseteq Blobs
    BY <1>1 DEF TypeOK, Docs, Required
  <2>2. CASE session # "closed"
    <3>1. SessionSound  BY <2>2 DEF IInv
    <3>2. Count(Required(doc) \ uncounted, meaning') <= Limit
      BY <2>1, <3>1, <1>1, <1>2, CountLess DEF SessionSound, TypeOK, Blobs
    <3>3. store \cap foreign' \subseteq applied
      BY <2>1, <3>1, <1>2, <1>3 DEF SessionSound
    <3> QED BY <3>1, <3>2, <3>3, <1>3 DEF SessionSound, Known, DraftRefs
  <2> QED BY <2>2, <1>3
<1>8. ServedSound'
  <2>1. Required(served.doc) \subseteq Blobs
    BY <1>1 DEF Copies, Docs, Required
  <2>2. Count(Required(served.doc) \ uncounted, meaning') <= Limit
    BY <2>1, <1>1, <1>2, CountLess DEF ServedSound, TypeOK, Blobs
  <2> QED BY <2>1, <2>2, <1>1, <1>2, <1>3 DEF ServedSound
<1> QED BY <1>4, <1>5, <1>6, <1>7, <1>8 DEF IInv

LEMMA ArriveStep ==
  ASSUME IInv, NEW n \in Blobs, Arrive(n)
  PROVE  IInv'
<1>1. /\ TypeOK /\ CopySound /\ ServedSound /\ SideSound(sidecar) /\ copy \in Copies(Blobs)
      /\ served = copy
  BY DEF IInv, ServedSound, TypeOK, Arrive
<1>2. /\ copy' = [copy EXCEPT !.objects = @ \cup {n}] /\ served' = copy' /\ unsure' = unsure /\ arrived' = arrived \cup {n}
      /\ UNCHANGED <<session, doc, form, attempt, store, bound, doubtful, sidecar, offers, meaning, foreign, applied, overlooked, uncounted, saves, Blobs>>
  BY DEF Arrive, open, Blobs
<1>3. copy' \in Copies(Blobs) /\ copy'.doc = copy.doc /\ copy'.bound = copy.bound /\ copy'.objects = copy.objects \cup {n}
  BY <1>1, <1>2 DEF Copies
<1>4. TypeOK'
  BY <1>1, <1>2, <1>3 DEF TypeOK
<1>5. SideSound(sidecar)'
  BY <1>1, <1>2, <1>3 DEF SideSound, Backed
<1>6. CopySound'
  BY <1>1, <1>2, <1>3 DEF CopySound
<1>7. session' # "closed" => SessionSound'
  <2>1. CASE session # "closed"
    <3>1. SessionSound  BY <2>1 DEF IInv
    <3>2. (~doubtful => Known)'  BY <3>1, <1>1, <1>2, <1>3 DEF SessionSound, Known, Backed
    <3>3. Backed(store \cap DraftRefs, copy', overlooked)  BY <3>1, <1>3 DEF SessionSound, Backed
    <3> QED BY <3>1, <3>2, <3>3, <1>2 DEF SessionSound, DraftRefs
  <2> QED BY <2>1, <1>2
<1>8. ServedSound'
  BY <1>1, <1>2, <1>3 DEF ServedSound, Backed
<1> QED BY <1>4, <1>5, <1>6, <1>7, <1>8 DEF IInv

-----------------------------------------------------------------------------
(* Sessions.                                                               *)

LEMMA ContinuedIs ==
  ASSUME NEW B \in SUBSET Nat, NEW f \in FormsOf(B), NEW a \in FormsOf(B)
  PROVE  Continued(f, a) \in FormsOf(B) /\ FormRefs(Continued(f, a)) \subseteq FormRefs(f) \cup FormRefs(a)
<1>1. Continued(f, a) \in FormsOf(B) /\ Continued(f, a).base = a.shows /\ Continued(f, a).shows = f.shows
  BY DEF Continued, FormsOf
<1>2. /\ FormRefs(f) = f.base \cup f.shows /\ FormRefs(a) = a.base \cup a.shows
      /\ FormRefs(Continued(f, a)) = Continued(f, a).base \cup Continued(f, a).shows
  BY <1>1, FormIs
<1> QED BY <1>1, <1>2

(* The document is read again, with a form and the contents it names.      *)
LEMMA ReloadStep ==
  ASSUME IInv, session' = "open", NEW f \in FormsOf(Blobs) \cup {Nothing}, NEW a \in FormsOf(Blobs) \cup {Nothing},
         NEW blobs \in SUBSET Blobs, Reloads(blobs), Reconciles(served.doc, f, a),
         FormRefs(f) \cup FormRefs(a) \subseteq blobs, Backed(blobs, copy, overlooked),
         blobs \cap foreign \subseteq applied,
         UNCHANGED <<hosted, sidecar, offers, meaning, foreign, applied, past, saves>>
  PROVE  IInv'
<1>1. /\ TypeOK /\ CopySound /\ ServedSound /\ SideSound(sidecar) /\ Blobs \subseteq Nat /\ served \in Copies(Blobs)
      /\ served.doc \in Docs(Blobs) /\ served.bound \subseteq Blobs /\ Required(served.doc) \subseteq Blobs
  BY DEF IInv, TypeOK, Blobs, Copies, Docs, Required
<1>2. /\ doc' = served.doc /\ bound' = served.bound /\ doubtful' = FALSE
      /\ store' = Required(served.doc) \cup blobs
      /\ UNCHANGED <<copy, served, unsure, arrived, overlooked, uncounted, Blobs>>
  BY DEF Reloads, hosted, past, Blobs
<1>3. /\ form' \in FormsOf(Blobs) \cup {Nothing} /\ attempt' \in FormsOf(Blobs) \cup {Nothing}
      /\ DraftRefs' \subseteq FormRefs(f) \cup FormRefs(a)
  <2>1. attempt' \in {a, Nothing}  BY DEF Reconciles
  <2>2. \/ form' = f
        \/ f # Nothing /\ a # Nothing /\ form' = Continued(f, a)
    BY DEF Reconciles, Settled
  <2>3. FormRefs(Nothing) = {}  BY DEF FormRefs
  <2>4. /\ form' \in FormsOf(Blobs) \cup {Nothing}
        /\ FormRefs(form') \subseteq FormRefs(f) \cup FormRefs(a)
    BY <2>2, <1>1, ContinuedIs
  <2>5. DraftRefs' = FormRefs(form') \cup FormRefs(attempt')  BY DEF DraftRefs, FormRefs
  <2> QED BY <2>1, <2>3, <2>4, <2>5
<1>4. TypeOK'
  BY <1>1, <1>2, <1>3 DEF TypeOK
<1>5. CopySound' /\ ServedSound' /\ SideSound(sidecar)'
  BY <1>1, <1>2 DEF CopySound, ServedSound, SideSound
<1>6. SessionSound'
  <2>1. Backed(store', copy', overlooked')
    BY <1>1, <1>2 DEF ServedSound, Backed
  <2>2. Backed(store' \cap DraftRefs', copy', overlooked')
    BY <2>1 DEF Backed
  <2>3. (Required(doc) \cup DraftRefs)' \subseteq store'
    BY <1>2, <1>3 DEF Required
  <2>4. store' \cap foreign' \subseteq applied'
    BY <1>1, <1>2 DEF ServedSound
  <2>5. Count(Required(doc') \ uncounted', meaning') <= Limit
    BY <1>1, <1>2 DEF ServedSound
  <2>6. Known'
    BY <1>2, <2>1 DEF Known
  <2> QED BY <2>2, <2>3, <2>4, <2>5, <2>6, <1>2 DEF SessionSound
<1> QED BY <1>4, <1>5, <1>6 DEF IInv

LEMMA ReconcileStep == ASSUME IInv, Reconcile PROVE IInv'
<1>1. TypeOK /\ SessionSound
  BY DEF IInv, Reconcile
<1>2. Reloads(store \cap DraftRefs) /\ Reconciles(served.doc, form, attempt) /\ session' = "open"
  BY DEF Reconcile
<1>3. UNCHANGED <<hosted, sidecar, offers, meaning, foreign, applied, past, saves>>
  BY DEF Reconcile
<1>4. /\ store \cap DraftRefs \in SUBSET Blobs /\ FormRefs(form) \cup FormRefs(attempt) \subseteq store \cap DraftRefs
      /\ Backed(store \cap DraftRefs, copy, overlooked) /\ (store \cap DraftRefs) \cap foreign \subseteq applied
  BY <1>1 DEF TypeOK, SessionSound, DraftRefs
<1>5. form \in FormsOf(Blobs) \cup {Nothing} /\ attempt \in FormsOf(Blobs) \cup {Nothing}
  BY <1>1 DEF TypeOK
<1> QED BY <1>2, <1>3, <1>4, <1>5, ReloadStep

LEMMA UnlockStep == ASSUME IInv, Unlock PROVE IInv'
<1>1. TypeOK /\ SideSound(sidecar)
  BY DEF IInv
<1>2. session' = "open" /\ UNCHANGED <<hosted, sidecar, offers, meaning, foreign, applied, past, saves>>
  BY DEF Unlock
<1>3. CASE sidecar = Nothing
  <2>1. Reloads({}) /\ Reconciles(served.doc, Nothing, Nothing)
    BY <1>3 DEF Unlock, Reconciles, Settled
  <2>2. FormRefs(Nothing) = {} /\ Backed({}, copy, overlooked)
    BY DEF FormRefs, Backed
  <2> QED BY <1>2, <2>1, <2>2, ReloadStep
<1>4. CASE sidecar # Nothing
  <2>1. /\ Reloads(sidecar.blobs) /\ Reconciles(served.doc, sidecar.form, sidecar.attempt)
    BY <1>4 DEF Unlock
  <2>2. /\ sidecar.form \in FormsOf(Blobs) \cup {Nothing} /\ sidecar.attempt \in FormsOf(Blobs) \cup {Nothing}
        /\ sidecar.blobs \in SUBSET Blobs
        /\ FormRefs(sidecar.form) \cup FormRefs(sidecar.attempt) \subseteq sidecar.blobs
    BY <1>1, <1>4 DEF TypeOK, Sides
  <2>3. Backed(sidecar.blobs, copy, overlooked) /\ sidecar.blobs \cap foreign \subseteq applied
    BY <1>1, <1>4 DEF SideSound
  <2> QED BY <1>2, <2>1, <2>2, <2>3, ReloadStep
<1> QED BY <1>3, <1>4

LEMMA CloseStep == ASSUME IInv, LockForm \/ Crash PROVE IInv'
<1>1. TypeOK /\ CopySound /\ ServedSound /\ SideSound(sidecar) /\ SessionSound /\ Blobs \subseteq Nat
  BY DEF IInv, LockForm, Crash, Blobs, TypeOK
<1>2. /\ session' = "closed" /\ doc' = NoDoc /\ form' = Nothing /\ attempt' = Nothing /\ store' = {} /\ bound' = {}
      /\ UNCHANGED <<copy, served, unsure, offers, meaning, foreign, applied, arrived, overlooked, uncounted, saves, Blobs>>
  BY DEF LockForm, Crash, Closes, hosted, past, Blobs
<1>3. sidecar' \in {sidecar, Sidecar(form, attempt, store)}
  BY DEF LockForm, Crash, Persists, PersistFails
<1>4. /\ Sidecar(form, attempt, store) \in Sides(Blobs) \cup {Nothing}
      /\ Sidecar(form, attempt, store) # Nothing => Sidecar(form, attempt, store).blobs \subseteq store \cap DraftRefs
  <2>1. FormRefs(form) \cup FormRefs(attempt) \subseteq store /\ store \in SUBSET Blobs
    BY <1>1 DEF SessionSound, DraftRefs, TypeOK
  <2>2. form \in FormsOf(Blobs) \cup {Nothing} /\ attempt \in FormsOf(Blobs) \cup {Nothing}
    BY <1>1 DEF TypeOK
  <2>3. /\ Sidecar(form, attempt, store) \in Sides(Blobs) \cup {Nothing}
        /\ Sidecar(form, attempt, store) # Nothing => Sidecar(form, attempt, store).blobs \subseteq store
    BY <1>1, <2>1, <2>2, SidecarIs
  <2>4. Sidecar(form, attempt, store) # Nothing => Sidecar(form, attempt, store).blobs \subseteq DraftRefs
    BY DEF Sidecar, DraftRefs
  <2> QED BY <2>3, <2>4
<1>5. NoDoc \in Docs(Blobs)
  BY DEF NoDoc, Docs
<1>6. TypeOK'
  BY <1>1, <1>2, <1>3, <1>4, <1>5 DEF TypeOK
<1>7. CopySound' /\ ServedSound'
  BY <1>1, <1>2 DEF CopySound, ServedSound
<1>8. SideSound(sidecar)'
  BY <1>1, <1>2, <1>3, <1>4 DEF SideSound, SessionSound, Backed
<1> QED BY <1>2, <1>6, <1>7, <1>8 DEF IInv

LEMMA ReattachStep == ASSUME IInv, Reattach PROVE IInv'
<1>1. /\ TypeOK /\ CopySound /\ SideSound(sidecar) /\ served' = copy /\ unsure' = FALSE /\ session' = "closed"
      /\ UNCHANGED <<session, doc, form, attempt, store, bound, doubtful, copy, sidecar, offers, meaning,
                      foreign, applied, arrived, overlooked, uncounted, saves, Blobs>>
  BY DEF IInv, Reattach, open, past, Blobs
<1>2. TypeOK'
  BY <1>1 DEF TypeOK
<1>3. CopySound' /\ SideSound(sidecar)'
  BY <1>1 DEF CopySound, SideSound
<1>4. ServedSound'
  BY <1>1 DEF CopySound, ServedSound, Backed
<1> QED BY <1>1, <1>2, <1>3, <1>4 DEF IInv

-----------------------------------------------------------------------------
(* The form.                                                               *)

(* What holds where the form may be changed, and how names grow.           *)
Editable ==
  /\ TypeOK /\ SessionSound /\ ~doubtful /\ session # "closed"
  /\ doc \in Docs(Blobs) /\ Required(doc) \subseteq store /\ Blobs \subseteq Nat /\ DraftRefs \subseteq store

LEMMA IsEditable ==
  ASSUME IInv, Ready \/ session \in {"attempted", "published"}
  PROVE  /\ Editable
         /\ UNCHANGED meaning => Grown
         /\ Grown => Extends(store)
<1>1. Editable
  BY DEF IInv, Ready, Editable, TypeOK, SessionSound, Blobs
<1>2. ASSUME UNCHANGED meaning PROVE Grown
  BY <1>1, <1>2 DEF Editable, Grown, Blobs, TypeOK
<1>3. ASSUME Grown PROVE Extends(store)
  <2>1. store \subseteq Blobs  BY <1>1 DEF Editable, TypeOK
  <2> QED BY <2>1, <1>3 DEF Extends, Grown
<1> QED BY <1>1, <1>2, <1>3

(* A change that the form takes or does not take; the contents may be more *)
(* by then.                                                                *)
LEMMA EnterStep ==
  ASSUME IInv, Ready, Grown, NEW f \in FormsOf(Blobs'), NEW blobs, Extends(blobs), FormRefs(f) \subseteq blobs,
         Enters(f, blobs), Local, UNCHANGED <<attempt, saves>>
  PROVE  IInv'
<1>1. Editable /\ Extends(store)
  BY IsEditable
<1>2. FormsOf(Blobs) \subseteq FormsOf(Blobs')
  BY Grows DEF Grown
<1>3. /\ sidecar' \in {sidecar, Sidecar(f, attempt, blobs)}
      /\ (form' = f /\ store' = blobs) \/ UNCHANGED <<form, store>>
  BY DEF Enters, Persists, PersistFails
<1>4. attempt \in FormsOf(Blobs') \cup {Nothing} /\ form' \in FormsOf(Blobs') \cup {Nothing}
  BY <1>1, <1>2, <1>3 DEF Editable, TypeOK
<1>5. FormRefs(form) \subseteq store /\ FormRefs(attempt) \subseteq store
  BY <1>1 DEF Editable, DraftRefs
<1>6. DraftRefs' = FormRefs(form') \cup FormRefs(attempt)
  BY DEF DraftRefs, FormRefs
<1>7. DraftRefs' \subseteq store' /\ Extends(store')
  <2>1. CASE form' = f /\ store' = blobs  BY <2>1, <1>5, <1>6 DEF Extends
  <2>2. CASE UNCHANGED <<form, store>>
    <3>1. FormRefs(form') = FormRefs(form)  BY <2>2
    <3> QED BY <2>2, <3>1, <1>1, <1>5, <1>6 DEF Extends
  <2> QED BY <2>1, <2>2, <1>3
<1>8. /\ UNCHANGED <<doc, bound, doubtful, hosted, offers, foreign, applied, past>>
      /\ session' = "open" /\ saves' \in Nat /\ attempt' = attempt
  BY <1>1 DEF Local, Ready, Editable, TypeOK
<1>9. FormRefs(f) \cup FormRefs(attempt) \subseteq blobs
  BY <1>5 DEF Extends
<1>10. ~doubtful /\ session # "closed"
  BY DEF Ready
<1>11. /\ session' \in {"open", "attempted", "published"} /\ attempt' \in FormsOf(Blobs') \cup {Nothing}
       /\ session' \notin {"attempted", "published"}
  BY <1>4, <1>8
<1> QED BY <1>3, <1>4, <1>7, <1>8, <1>9, <1>10, <1>11, FormStep

LEMMA BeginStep == ASSUME IInv, Begin PROVE IInv'
<1> DEFINE f == [base |-> doc.now, shows |-> doc.now, changed |-> {}, operation |-> 0]
<1>1. Ready /\ Local /\ UNCHANGED <<attempt, store, sidecar, meaning, saves>> /\ form' = f
  BY DEF Begin
<1>2. Editable /\ Extends(store) /\ Grown
  BY <1>1, IsEditable
<1>3. f \in FormsOf(Blobs) /\ f.base \cup f.shows \subseteq store
  BY <1>2 DEF Editable, Docs, FormsOf, Required
<1> HIDE DEF f
<1>4. FormRefs(f) \subseteq store
  BY <1>2, <1>3, FormIs DEF Editable
<1>5. Blobs' = Blobs
  BY <1>1 DEF Blobs
<1>6. DraftRefs' = FormRefs(f) \cup FormRefs(attempt) /\ FormRefs(attempt) \subseteq store /\ FormRefs(form) \subseteq store
  BY <1>1, <1>2 DEF DraftRefs, FormRefs, Editable
<1>7. /\ form' \in FormsOf(Blobs') \cup {Nothing} /\ attempt' \in FormsOf(Blobs') \cup {Nothing}
      /\ form \in FormsOf(Blobs') \cup {Nothing} /\ attempt \in FormsOf(Blobs') \cup {Nothing}
      /\ saves' \in Nat
  BY <1>1, <1>2, <1>3, <1>5 DEF Editable, TypeOK
<1>8. /\ UNCHANGED <<doc, bound, doubtful, hosted, offers, foreign, applied, past>>
      /\ session' = "open" /\ session # "closed" /\ ~doubtful
  BY <1>1 DEF Local, Ready
<1>9. Extends(store') /\ DraftRefs' \subseteq store'
  BY <1>1, <1>2, <1>4, <1>6 DEF Extends
<1>10. FormRefs(form) \cup FormRefs(attempt) \subseteq store
  BY <1>6
<1>11. session' \in {"open", "attempted", "published"} /\ session' \notin {"attempted", "published"}
  BY <1>8
<1> QED BY <1>1, <1>2, <1>7, <1>8, <1>9, <1>10, <1>11, FormStep

LEMMA ImportStep == ASSUME IInv, NEW c \in Contents, Import(c) PROVE IInv'
<1> DEFINE f == [form EXCEPT !.shows = @ \cup {NextName}, !.changed = @ \cup {NextName}]
           blobs == store \cup {NextName}
<1>1. Ready /\ Local /\ UNCHANGED <<attempt, saves>> /\ Enters(f, blobs) /\ form # Nothing /\ Names(c)
  BY DEF Import
<1>2. Editable /\ store \subseteq Blobs
  BY <1>1, IsEditable DEF Editable, TypeOK
<1>3. /\ meaning' \in Seq(Contents) /\ Blobs' = Blobs \cup {NextName} /\ NextName \notin Blobs
      /\ \A n \in Blobs : meaning'[n] = meaning[n]
  BY <1>1, <1>2, Named DEF Editable
<1>4. Grown /\ Extends(blobs)
  BY <1>2, <1>3 DEF Grown, Extends, Editable
<1>5. form \in FormsOf(Blobs) /\ FormRefs(form) \subseteq store /\ FormRefs(form) = form.base \cup form.shows
  BY <1>1, <1>2 DEF Editable, TypeOK, DraftRefs, FormRefs
<1>6. f \in FormsOf(Blobs') /\ f.base = form.base /\ f.shows = form.shows \cup {NextName}
  BY <1>3, <1>5 DEF FormsOf
<1>7. Blobs' \subseteq Nat
  BY <1>3 DEF Blobs
<1> HIDE DEF f
<1>8. FormRefs(f) \subseteq blobs
  BY <1>5, <1>6, <1>7, FormIs
<1> HIDE DEF blobs
<1> QED BY <1>1, <1>4, <1>6, <1>8, EnterStep

(* A change by which the form names nothing new.                           *)
LEMMA ChangeStep ==
  ASSUME IInv, Ready, form # Nothing, NEW f \in FormsOf(Blobs), f.base = form.base, f.shows \subseteq form.shows,
         Enters(f, store), Local, UNCHANGED <<attempt, meaning, saves>>
  PROVE  IInv'
<1>1. Editable /\ Extends(store) /\ Grown
  BY IsEditable
<1>2. Blobs' = Blobs /\ Blobs \subseteq Nat
  BY <1>1 DEF Blobs, Editable
<1>3. FormRefs(form) \subseteq store /\ FormRefs(form) = form.base \cup form.shows
  BY <1>1 DEF Editable, DraftRefs, FormRefs
<1>4. FormRefs(f) \subseteq store
  BY <1>2, <1>3, FormIs
<1> QED BY <1>1, <1>2, <1>4, EnterStep

LEMMA RenameStep == ASSUME IInv, NEW n \in Blobs, RenameAttachment(n) PROVE IInv'
<1> DEFINE f == [form EXCEPT !.changed = @ \cup {n}]
<1>1. Ready /\ Local /\ UNCHANGED <<attempt, meaning, saves>> /\ Enters(f, store) /\ form # Nothing /\ n \in form.shows
  BY DEF RenameAttachment
<1>2. form \in FormsOf(Blobs)
  BY <1>1 DEF IInv, TypeOK
<1>3. f \in FormsOf(Blobs) /\ f.base = form.base /\ f.shows = form.shows
  BY <1>1, <1>2 DEF FormsOf
<1> HIDE DEF f
<1> QED BY <1>1, <1>3, ChangeStep

LEMMA RemoveStep == ASSUME IInv, NEW n \in Blobs, Remove(n) PROVE IInv'
<1> DEFINE f == [form EXCEPT !.shows = @ \ {n}, !.changed = @ \ {n}]
<1>1. Ready /\ Local /\ UNCHANGED <<attempt, meaning, saves>> /\ Enters(f, store) /\ form # Nothing
  BY DEF Remove
<1>2. form \in FormsOf(Blobs)
  BY <1>1 DEF IInv, TypeOK
<1>3. f \in FormsOf(Blobs) /\ f.base = form.base /\ f.shows = form.shows \ {n}
  BY <1>1, <1>2 DEF FormsOf
<1> HIDE DEF f
<1> QED BY <1>1, <1>3, ChangeStep

LEMMA DiscardStep == ASSUME IInv, DiscardForm PROVE IInv'
<1>1. Ready /\ Local /\ UNCHANGED <<store, meaning, saves>>
  BY DEF DiscardForm
<1>2. Editable /\ Extends(store) /\ Grown
  BY <1>1, IsEditable
<1>3. /\ (form' = Nothing /\ attempt' = Nothing) \/ UNCHANGED <<form, attempt>>
      /\ sidecar' \in {sidecar, Sidecar(Nothing, Nothing, store)}
  BY DEF DiscardForm, Persists, PersistFails
<1>4. Blobs' = Blobs
  BY <1>1 DEF Blobs
<1>5. FormRefs(Nothing) = {} /\ FormRefs(form) \subseteq store /\ FormRefs(attempt) \subseteq store
  BY <1>2 DEF FormRefs, Editable, DraftRefs
<1>6. DraftRefs' \subseteq store' /\ Extends(store')
  BY <1>1, <1>2, <1>3, <1>5 DEF DraftRefs, FormRefs, Extends
<1>7. /\ UNCHANGED <<doc, bound, doubtful, hosted, offers, foreign, applied, past>>
      /\ session \notin {"closed", "attempted", "published"} /\ session' = "open" /\ ~doubtful
  BY <1>1 DEF Local, Ready
<1>8. /\ form' \in FormsOf(Blobs') \cup {Nothing} /\ attempt' \in FormsOf(Blobs') \cup {Nothing} /\ saves' \in Nat
  BY <1>1, <1>2, <1>3, <1>4 DEF Editable, TypeOK
<1>9. session' \in {"open", "attempted", "published"} /\ session' \notin {"attempted", "published"}
  BY <1>7
<1> QED BY <1>2, <1>3, <1>5, <1>6, <1>7, <1>8, <1>9, FormStep

-----------------------------------------------------------------------------
(* Saving.                                                                 *)

LEMMA SaveBeginsStep == ASSUME IInv, SaveBegins PROVE IInv'
<1>1. /\ Ready /\ form # Nothing /\ attempt' = Captured
      /\ UNCHANGED <<doc, form, store, bound, doubtful, hosted, offers, meaning, foreign, applied, past>>
      /\ session' \in {"attempted", session} /\ sidecar' \in {sidecar, Sidecar(form, Captured, store)}
      /\ saves' \in {saves, saves + 1}
  BY DEF SaveBegins, Persists, PersistFails
<1>2. Editable /\ Extends(store) /\ Grown
  BY <1>1, IsEditable
<1>3. Blobs' = Blobs /\ Blobs \subseteq Nat
  BY <1>1, <1>2 DEF Blobs, Editable
<1>4. FormRefs(form) \subseteq store /\ FormRefs(attempt) \subseteq store
  BY <1>2 DEF Editable, DraftRefs
<1>5. Captured \in FormsOf(Blobs) /\ Captured # Nothing /\ FormRefs(Captured) \subseteq store
  <2>1. CASE attempt = Nothing
    <3>1. form \in FormsOf(Blobs) /\ saves \in Nat  BY <1>1, <1>2 DEF Editable, TypeOK
    <3>2. /\ Captured = [form EXCEPT !.operation = saves + 1]
          /\ Captured \in FormsOf(Blobs) /\ Captured.base = form.base /\ Captured.shows = form.shows
      BY <2>1, <3>1 DEF Captured, FormsOf
    <3>3. FormRefs(Captured) = FormRefs(form) /\ Captured # Nothing
      BY <1>3, <3>1, <3>2, FormIs
    <3> QED BY <3>2, <3>3, <1>4
  <2>2. CASE attempt # Nothing
    BY <2>2, <1>2, <1>4 DEF Captured, Editable, TypeOK
  <2> QED BY <2>1, <2>2
<1>6. DraftRefs' \subseteq store' /\ Extends(store')
  <2>1. DraftRefs' = FormRefs(form) \cup FormRefs(Captured)  BY <1>1 DEF DraftRefs, FormRefs
  <2> QED BY <2>1, <1>1, <1>2, <1>4, <1>5 DEF Extends
<1>7. /\ form' \in FormsOf(Blobs') \cup {Nothing} /\ attempt' \in FormsOf(Blobs') \cup {Nothing} /\ saves' \in Nat
      /\ form \in FormsOf(Blobs') \cup {Nothing} /\ Captured \in FormsOf(Blobs') \cup {Nothing}
      /\ form' # Nothing /\ attempt' # Nothing
  BY <1>1, <1>2, <1>3, <1>5 DEF Editable, TypeOK
<1>8. session # "closed" /\ ~doubtful /\ session' \in {"open", "attempted", "published"}
  BY <1>1 DEF Ready
<1>9. FormRefs(form) \cup FormRefs(Captured) \subseteq store
  BY <1>4, <1>5
<1> QED BY <1>1, <1>2, <1>6, <1>7, <1>8, <1>9, FormStep

LEMMA SaveFinishesStep == ASSUME IInv, SaveFinishes PROVE IInv'
<1> DEFINE f == Continued(form, attempt)
<1>1. /\ session = "published" /\ session' = "open" /\ form' = f /\ attempt' = Nothing
      /\ UNCHANGED <<doc, store, bound, doubtful, hosted, offers, meaning, foreign, applied, past, saves>>
      /\ sidecar' \in {sidecar, Sidecar(f, Nothing, store)}
  BY DEF SaveFinishes, Persists, PersistFails
<1>2. Editable /\ Extends(store) /\ Grown
  BY <1>1, IsEditable
<1>3. Blobs' = Blobs /\ Blobs \subseteq Nat /\ form \in FormsOf(Blobs) /\ attempt \in FormsOf(Blobs)
  BY <1>1, <1>2 DEF Blobs, Editable, TypeOK
<1>4. f \in FormsOf(Blobs) /\ FormRefs(f) \subseteq FormRefs(form) \cup FormRefs(attempt)
  BY <1>3, ContinuedIs
<1> HIDE DEF f
<1>5. FormRefs(form) \subseteq store /\ FormRefs(attempt) \subseteq store /\ FormRefs(Nothing) = {}
  BY <1>2 DEF Editable, DraftRefs, FormRefs
<1>6. DraftRefs' \subseteq store' /\ Extends(store')
  <2>1. DraftRefs' = FormRefs(f)  BY <1>1 DEF DraftRefs, FormRefs
  <2> QED BY <2>1, <1>1, <1>2, <1>4, <1>5 DEF Extends
<1>7. /\ form' \in FormsOf(Blobs') \cup {Nothing} /\ attempt' \in FormsOf(Blobs') \cup {Nothing} /\ saves' \in Nat
      /\ f \in FormsOf(Blobs') \cup {Nothing} /\ FormRefs(f) \cup FormRefs(Nothing) \subseteq store
  BY <1>1, <1>2, <1>3, <1>4, <1>5 DEF Editable, TypeOK
<1>8. /\ session # "closed" /\ ~doubtful /\ session' \in {"open", "attempted", "published"}
      /\ session' \notin {"attempted", "published"}
  BY <1>1, <1>2 DEF Editable
<1> QED BY <1>1, <1>2, <1>6, <1>7, <1>8, FormStep

LEMMA SavePublishesStep == ASSUME IInv, SavePublishes PROVE IInv'
<1> DEFINE d == Confirmed(doc, attempt)
<1>1. /\ session = "attempted" /\ UNCHANGED <<form, attempt, sidecar, offers, meaning, foreign, applied, overlooked, saves>>
  BY DEF SavePublishes
<1>2. Editable /\ Extends(store) /\ Grown
  BY <1>1, IsEditable
<1>3. Blobs' = Blobs /\ Blobs \subseteq Nat /\ attempt \in FormsOf(Blobs) /\ form # Nothing /\ attempt # Nothing
  BY <1>1, <1>2 DEF Blobs, Editable, TypeOK
<1>4. /\ d \in Docs(Blobs) /\ Required(d) \subseteq Required(doc) \cup attempt.changed /\ d.waiting = doc.waiting
      /\ attempt.changed \subseteq attempt.shows /\ attempt.shows \subseteq Blobs
  <2>1. attempt.changed \subseteq attempt.shows /\ attempt.shows \subseteq Blobs /\ attempt.operation \in Nat
    BY <1>3, FormIs
  <2>2. doc \in Docs(Blobs)
    BY <1>2 DEF Editable
  <2> DEFINE names == (doc.now \ (attempt.base \ attempt.shows)) \cup attempt.changed
             shown == Shows(doc, names)
  <2>3. names \subseteq Blobs /\ names \subseteq doc.now \cup attempt.changed
    BY <2>1, <2>2 DEF Docs
  <2> HIDE DEF names
  <2>4. /\ shown \in Docs(Blobs) /\ Required(shown) = names \cup doc.past /\ shown.waiting = doc.waiting
    BY <2>2, <2>3 DEF Shows, Docs, Required
  <2>5. d = [shown EXCEPT !.receipts = @ \cup {attempt.operation}]
    BY DEF Confirmed, names
  <2> HIDE DEF shown, d
  <2>6. d \in Docs(Blobs) /\ Required(d) = Required(shown) /\ d.waiting = shown.waiting
    BY <2>1, <2>4, <2>5 DEF Docs, Required
  <2> QED BY <2>1, <2>3, <2>4, <2>6 DEF Required
<1>5. CASE Counted(attempt) /\ Required(d) \subseteq store
  <2>1. /\ Commits(d, store) /\ session' = IF doc' = d /\ ~doubtful' THEN "published" ELSE "open"
        /\ uncounted' =
             IF Adds(attempt) THEN uncounted ELSE uncounted \cup (attempt.changed \ Required(doc))
    BY <1>5 DEF SavePublishes
  <2> HIDE DEF d
  <2>2. uncounted \subseteq uncounted' /\ saves' \in Nat
    BY <2>1, <1>1, <1>2 DEF Editable, TypeOK
  <2>3. Required(doc) \subseteq Blobs
    BY <1>2 DEF Editable, TypeOK
  <2>4. Count(Required(d) \ uncounted', meaning') <= Limit
    <3>1. CASE Adds(attempt)
      <4>1. Count(Required(doc) \cup attempt.shows, meaning) <= Limit
        BY <1>5, <3>1 DEF Counted, Fits, Count
      <4>2. Required(d) \ uncounted' \subseteq Required(doc) \cup attempt.shows
        BY <1>4
      <4> QED BY <4>1, <4>2, <1>1, <1>2, <1>4, <2>3, CountLess DEF Editable, TypeOK, Blobs
    <3>2. CASE ~Adds(attempt)
      <4>1. Required(d) \ uncounted' \subseteq Required(doc) \ uncounted
        BY <1>4, <2>1, <3>2
      <4>2. Count(Required(doc) \ uncounted, meaning) <= Limit
        BY <1>2 DEF Editable, SessionSound
      <4> QED BY <4>1, <4>2, <1>1, <1>2, <2>3, CountLess DEF Editable, TypeOK, Blobs
    <3> QED BY <3>1, <3>2
  <2>5. session' \in {"open", "attempted", "published"} /\ (session' \in {"attempted", "published"} => ~doubtful')
    BY <2>1
  <2>6. session # "closed" /\ ~doubtful
    BY <1>2 DEF Editable
  <2> QED BY <1>1, <1>2, <1>3, <1>4, <2>1, <2>2, <2>4, <2>5, <2>6, CommitStep
<1>6. CASE ~(Counted(attempt) /\ Required(d) \subseteq store)
  <2>1. session' = "open" /\ UNCHANGED <<doc, store, bound, doubtful, copy, served, unsure, arrived, uncounted>>
    BY <1>6 DEF SavePublishes, hosted
  <2> HIDE DEF d
  <2>2. TypeOK'
    BY <1>1, <1>2, <1>3, <2>1 DEF Editable, TypeOK
  <2>3. CopySound' /\ ServedSound' /\ SideSound(sidecar)'
    BY <1>1, <2>1 DEF IInv, CopySound, ServedSound, SideSound
  <2>4. SessionSound'
    BY <1>1, <1>2, <2>1 DEF Editable, SessionSound, Known, DraftRefs
  <2> QED BY <2>2, <2>3, <2>4 DEF IInv
<1> QED BY <1>5, <1>6

-----------------------------------------------------------------------------
(* Changes of the saved entry.                                             *)

LEMMA AttachStep == ASSUME IInv, NEW c \in Contents, Attach(c) PROVE IInv'
<1> DEFINE d == Shows(doc, doc.now \cup {NextName})
           blobs == store \cup {NextName}
<1>1. /\ Ready /\ Names(c) /\ Commits(d, blobs) /\ UNCHANGED <<session, form, attempt, sidecar, offers, saves>>
      /\ UNCHANGED <<foreign, applied, overlooked, uncounted>>
      /\ Count(Required(doc) \cup {NextName}, meaning') <= Limit
  BY DEF Attach, Direct, Count
<1>2. Editable /\ store \subseteq Blobs
  BY <1>1, IsEditable DEF Editable, TypeOK
<1>3. /\ meaning' \in Seq(Contents) /\ Blobs' = Blobs \cup {NextName} /\ NextName \notin Blobs
      /\ \A n \in Blobs : meaning'[n] = meaning[n]
  BY <1>1, <1>2, Named DEF Editable
<1>4. Grown /\ Extends(blobs)
  BY <1>2, <1>3 DEF Grown, Extends, Editable
<1>5. d \in Docs(Blobs') /\ Required(d) = Required(doc) \cup {NextName} /\ d.waiting = doc.waiting
  BY <1>2, <1>3 DEF Editable, Shows, Docs, Required
<1>6. Count(Required(d) \ uncounted', meaning') <= Limit
  <2>1. Required(d) \subseteq Blobs'  BY <1>5 DEF Docs, Required
  <2> QED BY <2>1, <1>1, <1>3, <1>5, CountMonotonic DEF Blobs
<1>7. session = "open" /\ ~doubtful /\ saves' \in Nat /\ session' = "open"
  BY <1>1, <1>2 DEF Ready, Editable, TypeOK
<1> HIDE DEF d, blobs
<1>8. /\ session # "closed" /\ session' \in {"open", "attempted", "published"}
      /\ session' \notin {"attempted", "published"} /\ uncounted \subseteq uncounted'
  BY <1>1, <1>7
<1> QED BY <1>1, <1>4, <1>5, <1>6, <1>7, <1>8, CommitStep

(* A change of the saved entry that shows nothing new.                     *)
LEMMA LessStep ==
  ASSUME IInv, Ready, NEW d \in Docs(Blobs), Required(d) \subseteq Required(doc), d.waiting = doc.waiting,
         Commits(d, store), Direct, UNCHANGED <<meaning, foreign, applied, overlooked, uncounted>>
  PROVE  IInv'
<1>1. Editable /\ Grown /\ Extends(store)
  BY IsEditable
<1>2. Blobs' = Blobs /\ UNCHANGED <<session, form, attempt, sidecar, offers, saves>>
  BY DEF Blobs, Direct
<1>3. Count(Required(d) \ uncounted', meaning') <= Limit
  <2>1. Required(d) \ uncounted' \subseteq Required(doc) \ uncounted /\ Required(doc) \subseteq Blobs
    BY <1>1 DEF Editable, TypeOK
  <2>2. Count(Required(doc) \ uncounted, meaning) <= Limit
    BY <1>1 DEF Editable, SessionSound
  <2> QED BY <2>1, <2>2, <1>1, CountLess DEF Editable, TypeOK, Blobs
<1>4. session = "open" /\ ~doubtful /\ saves' \in Nat /\ session' = "open" /\ d \in Docs(Blobs')
  BY <1>1, <1>2 DEF Ready, Editable, TypeOK
<1>5. /\ session # "closed" /\ session' \in {"open", "attempted", "published"}
      /\ session' \notin {"attempted", "published"} /\ uncounted \subseteq uncounted'
  BY <1>4
<1> QED BY <1>1, <1>2, <1>3, <1>4, <1>5, CommitStep

LEMMA DetachStep == ASSUME IInv, NEW n \in Blobs, Detach(n) PROVE IInv'
<1> DEFINE d == [doc EXCEPT !.now = @ \ {n}]
<1>1. /\ Ready /\ Commits(d, store) /\ Direct /\ UNCHANGED <<meaning, foreign, applied, overlooked, uncounted>>
  BY DEF Detach
<1>2. doc \in Docs(Blobs)
  BY DEF IInv, TypeOK
<1>3. d \in Docs(Blobs) /\ Required(d) \subseteq Required(doc) /\ d.waiting = doc.waiting
  BY <1>2 DEF Docs, Required
<1> HIDE DEF d
<1> QED BY <1>1, <1>3, LessStep

LEMMA PurgeStep == ASSUME IInv, Purge PROVE IInv'
<1> DEFINE d == [doc EXCEPT !.past = {}]
<1>1. /\ Ready /\ Commits(d, store) /\ Direct /\ UNCHANGED <<meaning, foreign, applied, overlooked, uncounted>>
  BY DEF Purge
<1>2. doc \in Docs(Blobs)
  BY DEF IInv, TypeOK
<1>3. d \in Docs(Blobs) /\ Required(d) \subseteq Required(doc) /\ d.waiting = doc.waiting
  BY <1>2 DEF Docs, Required
<1> HIDE DEF d
<1> QED BY <1>1, <1>3, LessStep

-----------------------------------------------------------------------------
(* The theorem.                                                            *)

LEMMA Starts == BinaryInit => IInv
<1> SUFFICES ASSUME BinaryInit PROVE IInv
  OBVIOUS
<1>1. Blobs = {} /\ Required(NoDoc) = {}
  BY DEF BinaryInit, Blobs, NoDoc, Required
<1>2. NoDoc \in Docs({}) /\ copy \in Copies({}) /\ copy.doc = NoDoc /\ copy.objects = {} /\ doc = NoDoc
      /\ served = copy /\ unsure = FALSE /\ bound = {} /\ copy.bound = {}
  BY DEF BinaryInit, NoDoc, Docs, Copies
<1>3. Count({}, meaning) <= Limit
  <2>1. {meaning[n] : n \in {}} = {} /\ Cardinality({}) = 0  BY FS_EmptySet
  <2> QED BY <2>1, LimitAssumption DEF Count
<1>4. TypeOK
  <2>1. served \in Copies(Blobs) /\ copy \in Copies(Blobs) /\ doc \in Docs(Blobs)
    BY <1>1, <1>2
  <2>2. unsure \in BOOLEAN
    BY <1>2
  <2>3. meaning \in Seq(Contents)
    BY DEF BinaryInit
  <2> QED BY <2>1, <2>2, <2>3, <1>1 DEF BinaryInit, TypeOK
<1>5. CopySound
  <2>1. Required(copy.doc) \ uncounted = {}  BY <1>1, <1>2
  <2>2. arrived = {} /\ foreign = {}  BY DEF BinaryInit
  <2> QED BY <1>1, <1>2, <1>3, <2>1, <2>2 DEF CopySound
<1>6. SideSound(sidecar) /\ ServedSound
  <2>1. SideSound(sidecar)  BY DEF BinaryInit, SideSound
  <2>2. Required(served.doc) = {} /\ Required(served.doc) \ uncounted = {}  BY <1>1, <1>2
  <2>3. ServedSound  BY <1>2, <1>3, <2>2 DEF ServedSound, Backed
  <2> QED BY <2>1, <2>3
<1>7. SessionSound
  <2>1. Required(doc) = {} /\ Required(doc) \ uncounted = {} /\ DraftRefs = {}
    BY <1>1, <1>2 DEF BinaryInit, DraftRefs, FormRefs
  <2>2. Known  BY <1>2 DEF BinaryInit, Known, Backed
  <2> QED BY <1>3, <2>1, <2>2 DEF BinaryInit, SessionSound, Backed
<1> QED BY <1>4, <1>5, <1>6, <1>7 DEF IInv

LEMMA BinarySteps == IInv /\ [BinaryNext]_binaryVars => IInv'
<1> SUFFICES ASSUME IInv, [BinaryNext]_binaryVars PROVE IInv'
  OBVIOUS
<1>1. CASE Begin  BY <1>1, BeginStep
<1>2. CASE DiscardForm  BY <1>2, DiscardStep
<1>3. CASE \E c \in Contents : Import(c)  BY <1>3, ImportStep
<1>4. CASE \E c \in Contents : Attach(c)  BY <1>4, AttachStep
<1>5. CASE \E c \in Contents : Announce(c)  BY <1>5, AnnounceStep
<1>6. CASE \E n \in Blobs : RenameAttachment(n)  BY <1>6, RenameStep
<1>7. CASE \E n \in Blobs : Remove(n)  BY <1>7, RemoveStep
<1>8. CASE \E n \in Blobs : Detach(n)  BY <1>8, DetachStep
<1>9. CASE \E n \in Blobs : Arrive(n)  BY <1>9, ArriveStep
<1>10. CASE \E n \in Blobs : Apply(n)  BY <1>10, ApplyStep
<1>11. CASE \E n \in Blobs : ApplyLate(n)  BY <1>11, ApplyStep
<1>12. CASE SaveBegins  BY <1>12, SaveBeginsStep
<1>13. CASE SavePublishes  BY <1>13, SavePublishesStep
<1>14. CASE SaveFinishes  BY <1>14, SaveFinishesStep
<1>15. CASE Purge  BY <1>15, PurgeStep
<1>16. CASE Collect  BY <1>16, CollectStep
<1>17. CASE Reconcile  BY <1>17, ReconcileStep
<1>18. CASE LockForm \/ Crash  BY <1>18, CloseStep
<1>19. CASE Unlock  BY <1>19, UnlockStep
<1>20. CASE Reattach  BY <1>20, ReattachStep
<1>21. CASE UNCHANGED binaryVars
  <2>1. UNCHANGED <<session, doc, form, attempt, store, bound, doubtful, copy, served, unsure, sidecar, offers, meaning,
                    foreign, applied, arrived, overlooked, uncounted, saves, Blobs, DraftRefs>>
    BY <1>21 DEF binaryVars, open, hosted, past, Blobs, DraftRefs
  <2>2. TypeOK'  BY <2>1 DEF IInv, TypeOK
  <2>3. CopySound' /\ ServedSound'  BY <2>1 DEF IInv, CopySound, ServedSound
  <2>4. SideSound(sidecar)'  BY <2>1 DEF IInv, SideSound
  <2>5. (session # "closed" => SessionSound)'  BY <2>1 DEF IInv, SessionSound, Known
  <2> QED BY <2>2, <2>3, <2>4, <2>5 DEF IInv
<1> QED BY <1>1, <1>2, <1>3, <1>4, <1>5, <1>6, <1>7, <1>8, <1>9, <1>10, <1>11, <1>12, <1>13, <1>14,
           <1>15, <1>16, <1>17, <1>18, <1>19, <1>20, <1>21 DEF BinaryNext

(* Whatever writes fail, whatever other devices send and wherever the      *)
(* program ends: the session has what its document and its forms name, the *)
(* working copy has what its document needs, and what was attached here    *)
(* stays within the limit.                                                 *)
THEOREM BinariesAreSound == BinarySpec => []BinariesSound
<1>1. IInv => BinariesSound
  <2> SUFFICES ASSUME IInv PROVE BinariesSound
    OBVIOUS
  <2>1. ContentsHeld
    BY DEF IInv, SessionSound, ContentsHeld
  <2>2. ContentsStored
    <3>1. sidecar # Nothing => Kept \subseteq sidecar.blobs
      BY DEF IInv, TypeOK, Sides, Kept
    <3> QED BY <3>1 DEF IInv, CopySound, ContentsStored
  <2>3. QuotaKept
    BY DEF IInv, CopySound, SessionSound, QuotaKept, Fits, Count
  <2> QED BY <2>1, <2>2, <2>3 DEF BinariesSound
<1> QED BY <1>1, Starts, BinarySteps, PTL DEF BinarySpec

-----------------------------------------------------------------------------
(***************************************************************************)
(* CredentialsSound for any number of rotations.                           *)
(*                                                                         *)
(* The archive that a crash may bring back is the one served or one that   *)
(* extends it, and while it is in doubt the active records are in force.   *)
(* So it suffices that each credential file holds the device's identity    *)
(* under the archive served.  Final credentials are those of the files, as *)
(* seen and as saved, which is what lets a session go on.                  *)
(***************************************************************************)

Chains == Seq(Nat) \ {<<>>}
OwnRecords == [id : {"own"}, epoch : Nat, key : Nat]
CredentialFiles == [active : OwnRecords \cup {Missing}, prepared : OwnRecords \cup {Missing}, join : BOOLEAN]
Places == {"attach", "finalize", "mark", "clear", "open", "prepared", "commit"}
OpenWorkers == [step : Places, opening : BOOLEAN, chain : Chains, epoch : Nat]

CredentialTypes ==
  /\ archive \in [visible : Chains, durable : Chains, store : Chains]
  /\ files \in CredentialFiles /\ synced \in CredentialFiles
  /\ marks \in [final : Nat, prepared : Nat]
  /\ keys \in Nat
  /\ worker \in OpenWorkers \cup {Missing}

(* One chain is a beginning of another.                                    *)
Begins(s, t) == Len(s) <= Len(t) /\ \A i \in 1..Len(s) : t[i] = s[i]

(* The key of some epoch of the chain opens the record.                    *)
Opens(record, chain) == record # Missing /\ record.epoch \in 1..Len(chain) /\ record.key = chain[record.epoch]

(* What a file of credentials must hold for the device to be itself.       *)
Holds(f, chain) ==
  \/ Opens(f.active, chain)
  \/ flavor = "portable" /\ f.active = Missing /\ f.join
  \/ flavor # "portable" /\ (Opens(f.prepared, chain) \/ f.prepared = Staged)

(* The archive that may vanish extends the one that is served, and while   *)
(* it is in doubt the active records are in force.                         *)
ArchiveOK ==
  /\ archive.durable = archive.store /\ Begins(archive.store, archive.visible)
  /\ archive.visible # archive.store =>
       Opens(files.active, archive.store) /\ Opens(synced.active, archive.store)

FilesOK == Holds(files, archive.store) /\ Holds(synced, archive.store)

(* Final credentials of the served epoch are active, also after a crash.   *)
MarksOK ==
  /\ marks.final <= Len(archive.store)
  /\ marks.final = Len(archive.store) =>
       UnlocksCurrent(files.active, archive.store) /\ UnlocksCurrent(synced.active, archive.store)

(* What an open worker has established at each place.                      *)
Finalizes == worker.step \in {"finalize", "mark", "clear"}
WorkerOK ==
  worker # Missing =>
    /\ worker.step = "attach" => worker.opening /\ worker.epoch = Len(worker.chain)
    /\ worker.opening => worker.step = "attach" \/ (Finalizes /\ worker.epoch = Len(worker.chain))
    /\ Finalizes => Begins(worker.chain, archive.store) /\ marks.final <= Len(worker.chain) /\ worker.epoch <= Len(worker.chain)
    /\ worker.step \in {"mark", "clear"} =>
         UnlocksCurrent(files.active, worker.chain) /\ UnlocksCurrent(synced.active, worker.chain)
    /\ ~worker.opening => 
         /\ worker.epoch <= Len(archive.store)
         /\ worker.epoch = Len(archive.store) => UnlocksCurrent(files.active, archive.store)
    /\ ~worker.opening =>
         Opens(files.active, archive.store) /\ Opens(synced.active, archive.store)

CredentialInv == CredentialTypes /\ ArchiveOK /\ FilesOK /\ MarksOK /\ WorkerOK

-----------------------------------------------------------------------------
(* Chains and the records their keys open.                                 *)

LEMMA ChainIs ==
  ASSUME NEW c \in Chains
  PROVE  Len(c) \in Nat /\ Len(c) >= 1 /\ \A i \in 1..Len(c) : c[i] \in Nat
BY DEF Chains

LEMMA BeginsSelf == ASSUME NEW c PROVE Begins(c, c) BY DEF Begins

LEMMA OpensLater ==
  ASSUME NEW s \in Chains, NEW t \in Chains, Begins(s, t), NEW r, Opens(r, s)
  PROVE  Opens(r, t)
BY ChainIs DEF Opens, Begins

LEMMA CurrentOpens ==
  ASSUME NEW c \in Chains, NEW r, UnlocksCurrent(r, c)
  PROVE  Opens(r, c)
BY ChainIs DEF Opens, UnlocksCurrent, Unlocks, Epoch

LEMMA CurrentStays ==
  ASSUME NEW s \in Chains, NEW t \in Chains, Begins(s, t), Len(s) >= Len(t), NEW r, UnlocksCurrent(r, s)
  PROVE  UnlocksCurrent(r, t)
BY ChainIs DEF Begins, UnlocksCurrent, Unlocks, Epoch

LEMMA PastOpens ==
  ASSUME NEW c \in Chains, NEW r, UnlocksPast(r, c)
  PROVE  Opens(r, c)
BY ChainIs DEF Opens, UnlocksPast, Unlocks, Epoch

LEMMA OpensIsUnlocked ==
  ASSUME NEW c \in Chains, NEW r, Opens(r, c)
  PROVE  UnlocksCurrent(r, c) \/ UnlocksPast(r, c)
BY ChainIs DEF Opens, UnlocksPast, UnlocksCurrent, Unlocks, Epoch

LEMMA Appended ==
  ASSUME NEW c \in Chains, NEW k \in Nat
  PROVE  Append(c, k) \in Chains /\ Begins(c, Append(c, k)) /\ Len(Append(c, k)) = Len(c) + 1
BY ChainIs DEF Chains, Begins

LEMMA Shortened ==
  ASSUME NEW c \in Chains, Before(c) \in Chains
  PROVE  Begins(Before(c), c) /\ Len(c) = Len(Before(c)) + 1
BY ChainIs DEF Chains, Begins, Before

LEMMA OwnIs ==
  ASSUME NEW e \in Nat, NEW k \in Nat
  PROVE  Own(e, k) \in OwnRecords /\ Own(e, k).epoch = e /\ Own(e, k).key = k
BY DEF Own, Sealed, OwnRecords

-----------------------------------------------------------------------------
(* The steps.  None is no record (Distinct).                               *)

Distinct == Missing \notin OwnRecords

LEMMA OwnOpens ==
  ASSUME Distinct, NEW c \in Chains
  PROVE  /\ Own(Len(c), c[Len(c)]) \in OwnRecords
         /\ UnlocksCurrent(Own(Len(c), c[Len(c)]), c)
BY ChainIs, OwnIs DEF Distinct, UnlocksCurrent, Unlocks, Epoch

LEMMA StartsCredentials == ASSUME Distinct, CredentialsInit PROVE CredentialInv
<1>1. <<1>> \in Chains /\ Len(<<1>>) = 1 /\ <<1>>[1] = 1 BY DEF Chains
<1>2. Own(1, 1) \in OwnRecords /\ Staged \in OwnRecords BY OwnIs DEF Staged
<1>3. PICK joining \in BOOLEAN :
        files = [active |-> IF joining THEN Missing ELSE Own(1, 1),
                 prepared |-> IF joining /\ flavor = "platform" THEN Staged ELSE Missing,
                 join |-> joining /\ flavor = "portable"]
  BY DEF CredentialsInit
<1>4. CredentialTypes BY <1>1, <1>2, <1>3 DEF CredentialsInit, CredentialTypes, CredentialFiles
<1>5. ArchiveOK BY BeginsSelf DEF CredentialsInit, ArchiveOK
<1>6. FilesOK
  <2>1. Holds(files, archive.store)
    <3>1. CASE joining /\ flavor = "portable" BY <1>3, <3>1 DEF Holds
    <3>2. CASE joining /\ flavor # "portable" BY <1>3, <3>2 DEF Holds, CredentialsInit, Flavors
    <3>3. CASE ~joining
      <4>1. Opens(Own(1, 1), <<1>>) BY <1>1, <1>2, OwnIs DEF Opens, Distinct
      <4> QED BY <1>3, <3>3, <4>1 DEF Holds, CredentialsInit
    <3> QED BY <3>1, <3>2, <3>3
  <2> QED BY <2>1 DEF FilesOK, CredentialsInit
<1>7. MarksOK BY <1>1 DEF CredentialsInit, MarksOK
<1> QED BY <1>4, <1>5, <1>6, <1>7 DEF CredentialInv, WorkerOK, CredentialsInit

(* What an opening stages again: the active record changes only where      *)
(* there was none, and the device stays itself.                            *)
LEMMA RestagedIs ==
  ASSUME Distinct, CredentialInv, Selected(archive.visible, files) \notin {"none", "new"}
  PROVE  LET f == Restaged(archive.visible) IN
         /\ f \in CredentialFiles
         /\ Holds(f, archive.store)
         /\ files.active # Missing => f.active = files.active
<1> DEFINE chain == archive.visible
           record == Own(Epoch(chain), chain[Epoch(chain)])
           f == Restaged(chain)
<1>1. chain \in Chains /\ archive.store \in Chains /\ files \in CredentialFiles
  BY DEF CredentialInv, CredentialTypes
<1>2. record \in OwnRecords /\ UnlocksCurrent(record, chain) BY <1>1, OwnOpens DEF Epoch
<1>3. Opens(files.active, archive.store) \/ Opens(record, archive.store)
  <2>1. CASE chain # archive.store BY <2>1 DEF CredentialInv, ArchiveOK
  <2>2. CASE chain = archive.store BY <1>1, <1>2, <2>2, CurrentOpens
  <2> QED BY <2>1, <2>2
<1>4. Selected(chain, files) = "staged" /\ flavor = "portable" => files.active = Missing
  BY DEF Selected, Portable
<1>5. Selected(chain, files) = "past" /\ flavor = "portable" => files.active # Missing
  BY DEF Selected, Portable, UnlocksPast, Unlocks
<1>6. Holds(files, archive.store) BY DEF CredentialInv, FilesOK
<1>7. files.active = Missing => ~Opens(files.active, archive.store) BY DEF Opens
<1> HIDE DEF chain, record
<1>8. f = [files EXCEPT !.prepared = record] \/ f = files
      \/ (f = [files EXCEPT !.active = record] /\ Selected(chain, files) = "staged" /\ flavor = "portable")
  BY DEF f, Restaged, record
<1>9. CASE f = files BY <1>1, <1>6, <1>9 DEF chain, f
<1>10. CASE f = [files EXCEPT !.prepared = record] /\ f # files
  <2>1. f \in CredentialFiles /\ f.active = files.active /\ f.prepared = record /\ f.join = files.join
    BY <1>1, <1>2, <1>10 DEF CredentialFiles
  <2>2. Holds(f, archive.store) BY <1>3, <1>6, <2>1 DEF Holds
  <2> QED BY <2>1, <2>2 DEF chain, f
<1>11. CASE f = [files EXCEPT !.active = record] /\ Selected(chain, files) = "staged" /\ flavor = "portable"
  <2>1. f \in CredentialFiles /\ f.active = record
    BY <1>1, <1>2, <1>11 DEF CredentialFiles
  <2>2. Holds(f, archive.store) BY <1>3, <1>4, <1>7, <1>11, <2>1 DEF Holds
  <2> QED BY <1>4, <1>11, <2>1, <2>2 DEF chain, f
<1> QED BY <1>8, <1>9, <1>10, <1>11

LEMMA OpenKeeps == ASSUME Distinct, CredentialInv, Open PROVE CredentialInv'
<1> DEFINE f == Restaged(archive.visible)
<1>1. /\ f \in CredentialFiles /\ Holds(f, archive.store)
      /\ files.active # Missing => f.active = files.active
  BY RestagedIs DEF Open
<1> HIDE DEF f
<1>2. worker = Missing /\ files' = f /\ (synced' = f \/ synced' = synced) BY DEF Open, Publishes, Uncertain, f
<1>3. UNCHANGED <<flavor, archive, marks, keys>> BY DEF Open
<1>4. worker' = Missing \/ worker' = [step |-> "attach", opening |-> TRUE, chain |-> archive.visible, epoch |-> Len(archive.visible)]
  BY <1>2 DEF Open, Epoch
<1>5. CredentialTypes'
  <2>0. archive.visible \in Chains BY DEF CredentialInv, CredentialTypes
  <2>1. archive.visible \in Chains /\ Len(archive.visible) \in Nat BY <2>0, ChainIs
  <2>2. [step |-> "attach", opening |-> TRUE, chain |-> archive.visible, epoch |-> Len(archive.visible)] \in OpenWorkers
    BY <2>1, TRUE \in BOOLEAN, "attach" \in Places DEF OpenWorkers, Places
  <2>3. worker' \in OpenWorkers \cup {Missing} BY <1>4, <2>2
  <2> QED BY <1>1, <1>2, <1>3, <2>3 DEF CredentialInv, CredentialTypes
<1>6. ArchiveOK' BY <1>1, <1>2, <1>3 DEF CredentialInv, ArchiveOK, Opens
<1>7. FilesOK' BY <1>1, <1>2, <1>3 DEF CredentialInv, FilesOK, Holds
<1>8. MarksOK' BY <1>1, <1>2, <1>3 DEF CredentialInv, MarksOK, UnlocksCurrent, Unlocks
<1>9. WorkerOK' BY <1>4 DEF WorkerOK, Finalizes
<1> QED BY <1>5, <1>6, <1>7, <1>8, <1>9 DEF CredentialInv

LEMMA RestKeeps ==
  ASSUME CredentialInv, UNCHANGED <<flavor, archive, files, synced, marks>>
  PROVE  ArchiveOK' /\ FilesOK' /\ MarksOK'
<1>1. ArchiveOK' BY DEF CredentialInv, ArchiveOK, Opens
<1>2. FilesOK' BY DEF CredentialInv, FilesOK, Holds, Opens
<1>3. MarksOK' BY DEF CredentialInv, MarksOK, UnlocksCurrent, Unlocks
<1> QED BY <1>1, <1>2, <1>3

LEMMA WorkerIs ==
  ASSUME CredentialInv, worker # Missing
  PROVE  worker \in OpenWorkers /\ archive.store \in Chains
BY DEF CredentialInv, CredentialTypes

(* A command that ends leaves an open worker with what it had.             *)
LEMMA EndsOpen ==
  ASSUME CredentialInv, worker # Missing, ~worker.opening, NEW c \in Chains,
         worker' = [worker EXCEPT !.step = "open", !.chain = c],
         archive'.store = archive.store, UNCHANGED marks,
         files'.active = files.active, synced'.active = synced.active
  PROVE  worker' \in OpenWorkers /\ WorkerOK'
<1>1. worker \in OpenWorkers BY WorkerIs
<1>2. /\ worker' \in OpenWorkers /\ worker'.step = "open" /\ ~worker'.opening
      /\ worker'.epoch = worker.epoch
  BY <1>1 DEF OpenWorkers, Places
<1>3. worker.epoch <= Len(archive.store) BY DEF CredentialInv, WorkerOK
<1>4. worker.epoch = Len(archive.store) => UnlocksCurrent(files.active, archive.store)
  BY DEF CredentialInv, WorkerOK
<1>5. Opens(files.active, archive.store) /\ Opens(synced.active, archive.store) BY DEF CredentialInv, WorkerOK
<1> QED BY <1>2, <1>3, <1>4, <1>5 DEF WorkerOK, Finalizes, UnlocksCurrent, Unlocks, Opens

LEMMA FailsKeeps ==
  ASSUME CredentialInv, worker # Missing, Fails \/ FailsUncertain,
         archive'.store = archive.store, UNCHANGED marks,
         files'.active = files.active, synced'.active = synced.active
  PROVE  worker' \in OpenWorkers \cup {Missing} /\ WorkerOK'
<1>1. worker \in OpenWorkers BY WorkerIs
<1>2. CASE worker' = Missing BY <1>2 DEF WorkerOK
<1>3. CASE worker' # Missing
  <2>1. ~worker.opening /\ worker' = [worker EXCEPT !.step = "open"] BY <1>3 DEF Fails, FailsUncertain
  <2>2. worker.chain \in Chains /\ worker' = [worker EXCEPT !.step = "open", !.chain = worker.chain]
    BY <1>1, <2>1 DEF OpenWorkers
  <2> QED BY <2>1, <2>2, EndsOpen
<1> QED BY <1>2, <1>3

LEMMA AttachKeeps == ASSUME CredentialInv, AttachArchive PROVE CredentialInv'
<1>1. worker \in OpenWorkers /\ worker # Missing /\ worker.step = "attach" /\ archive.store \in Chains
  BY WorkerIs DEF AttachArchive, At
<1>2. UNCHANGED <<flavor, archive, files, synced, marks, keys>> BY DEF AttachArchive, KeepFiles
<1>3. worker.opening /\ worker.epoch = Len(worker.chain) BY <1>1 DEF CredentialInv, WorkerOK
<1>4. worker' \in OpenWorkers \cup {Missing} /\ WorkerOK'
  <2>1. CASE archive.store = worker.chain
    <3>1. worker' = [worker EXCEPT !.step = "finalize"] BY <2>1 DEF AttachArchive, Steps
    <3>2. worker' \in OpenWorkers /\ worker'.step = "finalize" /\ worker'.opening
          /\ worker'.epoch = Len(worker'.chain) /\ worker'.chain = archive.store
      BY <1>1, <1>3, <2>1, <3>1 DEF OpenWorkers, Places
    <3>3. marks.final <= Len(archive.store) BY DEF CredentialInv, MarksOK
    <3>4. Begins(archive.store, archive.store) /\ Len(archive.store) \in Nat BY <1>1, BeginsSelf, ChainIs
    <3> QED BY <1>2, <3>2, <3>3, <3>4 DEF WorkerOK, Finalizes
  <2>2. CASE archive.store # worker.chain BY <1>1, <1>2, <2>2, FailsKeeps DEF AttachArchive
  <2> QED BY <2>1, <2>2
<1>5. CredentialTypes' BY <1>2, <1>4 DEF CredentialInv, CredentialTypes
<1> QED BY <1>2, <1>4, <1>5, RestKeeps DEF CredentialInv

LEMMA BeginsLater ==
  ASSUME NEW r \in Chains, NEW s \in Chains, NEW t \in Chains, Begins(r, s), Begins(s, t)
  PROVE  Begins(r, t)
BY ChainIs DEF Begins

LEMMA HoldsLater ==
  ASSUME NEW s \in Chains, NEW t \in Chains, Begins(s, t), NEW f, Holds(f, s)
  PROVE  Holds(f, t)
BY OpensLater DEF Holds

(* What is promoted, or is left as it was, is in force where it was        *)
(* finalized, and there is no later epoch that was final before.           *)
LEMMA FinalizedIs ==
  ASSUME CredentialInv, At("finalize"), Valid(worker.chain), NEW f,
         f = IF Promotes(worker.chain) THEN Promoted ELSE files
  PROVE  /\ f \in CredentialFiles
         /\ UnlocksCurrent(f.active, worker.chain) /\ Opens(f.active, archive.store)
         /\ marks.final = Len(archive.store) => UnlocksCurrent(f.active, archive.store)
         /\ ~worker.opening /\ worker.epoch = Len(archive.store) => UnlocksCurrent(f.active, archive.store)
<1>1. worker \in OpenWorkers /\ worker # Missing /\ worker.step = "finalize" /\ archive.store \in Chains
  BY WorkerIs DEF At
<1>2. files \in CredentialFiles BY DEF CredentialInv, CredentialTypes
<1>3. worker.chain \in Chains /\ worker.epoch \in Nat BY <1>1 DEF OpenWorkers
<1>4. Begins(worker.chain, archive.store) /\ marks.final <= Len(worker.chain) /\ worker.epoch <= Len(worker.chain)
  BY <1>1 DEF CredentialInv, WorkerOK, Finalizes
<1>5. f \in CredentialFiles /\ UnlocksCurrent(f.active, worker.chain)
  BY <1>2 DEF CredentialFiles, Valid, Promotes, Promoted
<1>6. Opens(f.active, archive.store) BY <1>1, <1>3, <1>4, <1>5, CurrentOpens, OpensLater
<1>7. Len(worker.chain) >= Len(archive.store) => UnlocksCurrent(f.active, archive.store)
  BY <1>1, <1>3, <1>4, <1>5, CurrentStays
<1>8. Len(worker.chain) \in Nat /\ Len(archive.store) \in Nat BY <1>1, <1>3, ChainIs
<1> QED BY <1>3, <1>4, <1>5, <1>6, <1>7, <1>8

LEMMA FinalizeKeeps == ASSUME CredentialInv, Finalize PROVE CredentialInv'
<1>1. worker \in OpenWorkers /\ worker # Missing /\ worker.step = "finalize" /\ archive.store \in Chains
  BY WorkerIs DEF Finalize, At
<1>2. UNCHANGED <<flavor, archive, marks, keys>> BY DEF Finalize
<1>3. CASE ~Valid(worker.chain)
  <2>1. Fails /\ UNCHANGED <<files, synced>> BY <1>3 DEF Finalize, KeepFiles
  <2>2. worker' \in OpenWorkers \cup {Missing} /\ WorkerOK' BY <1>1, <1>2, <2>1, FailsKeeps
  <2>3. CredentialTypes' BY <1>2, <2>1, <2>2 DEF CredentialInv, CredentialTypes
  <2> QED BY <1>2, <2>1, <2>2, <2>3, RestKeeps DEF CredentialInv
<1>4. CASE Valid(worker.chain)
  <2> DEFINE f == IF Promotes(worker.chain) THEN Promoted ELSE files
  <2>1. /\ f \in CredentialFiles
        /\ UnlocksCurrent(f.active, worker.chain) /\ Opens(f.active, archive.store)
        /\ marks.final = Len(archive.store) => UnlocksCurrent(f.active, archive.store)
        /\ ~worker.opening /\ worker.epoch = Len(archive.store) => UnlocksCurrent(f.active, archive.store)
    BY <1>4, FinalizedIs DEF Finalize
  <2>2. \/ files' = f /\ synced' = f /\ Steps("mark")
        \/ files' = f /\ synced' = synced /\ FailsUncertain
    BY <1>4 DEF Finalize, Publishes, Uncertain
  <2> HIDE DEF f
  <2>3. Holds(f, archive.store) BY <2>1 DEF Holds
  <2>4. ArchiveOK' BY <1>2, <2>1, <2>2 DEF CredentialInv, ArchiveOK, Opens
  <2>5. FilesOK' BY <1>2, <2>2, <2>3 DEF CredentialInv, FilesOK, Holds, Opens
  <2>6. MarksOK' BY <1>2, <2>1, <2>2 DEF CredentialInv, MarksOK, UnlocksCurrent, Unlocks
  <2>7. worker' \in OpenWorkers \cup {Missing} /\ WorkerOK'
    <3>1. CASE synced' = f /\ Steps("mark")
      <4>1. worker' \in OpenWorkers /\ worker'.step = "mark" /\ worker'.opening = worker.opening
            /\ worker'.epoch = worker.epoch /\ worker'.chain = worker.chain
        BY <1>1, <3>1 DEF OpenWorkers, Places, Steps
      <4>2. /\ worker.opening => worker.epoch = Len(worker.chain)
            /\ Begins(worker.chain, archive.store) /\ marks.final <= Len(worker.chain) /\ worker.epoch <= Len(worker.chain)
            /\ ~worker.opening => worker.epoch <= Len(archive.store)
        BY <1>1 DEF CredentialInv, WorkerOK, Finalizes
      <4>3. files' = f BY <2>2
      <4> QED BY <1>2, <2>1, <3>1, <4>1, <4>2, <4>3 DEF WorkerOK, Finalizes, UnlocksCurrent, Unlocks, Opens
    <3>2. CASE synced' = synced /\ FailsUncertain
      <4>1. CASE worker' = Missing BY <4>1 DEF WorkerOK
      <4>2. CASE worker' # Missing
        <5>1. ~worker.opening /\ worker' = [worker EXCEPT !.step = "open"] BY <3>2, <4>2 DEF FailsUncertain
        <5>2. /\ worker' \in OpenWorkers /\ worker'.step = "open" /\ ~worker'.opening
              /\ worker'.epoch = worker.epoch
          BY <1>1, <5>1 DEF OpenWorkers, Places
        <5>3. worker.epoch <= Len(archive.store) /\ Opens(synced.active, archive.store)
          BY <1>1, <5>1 DEF CredentialInv, WorkerOK
        <5>4. files' = f BY <2>2
        <5> QED BY <1>2, <2>1, <3>2, <5>1, <5>2, <5>3, <5>4 DEF WorkerOK, Finalizes, UnlocksCurrent, Unlocks, Opens
      <4> QED BY <4>1, <4>2
    <3> QED BY <2>2, <3>1, <3>2
  <2>8. CredentialTypes' BY <1>2, <2>1, <2>2, <2>7 DEF CredentialInv, CredentialTypes
  <2> QED BY <2>4, <2>5, <2>6, <2>7, <2>8 DEF CredentialInv
<1> QED BY <1>3, <1>4

LEMMA MarkFinalKeeps == ASSUME CredentialInv, MarkFinal PROVE CredentialInv'
<1>1. worker \in OpenWorkers /\ worker # Missing /\ worker.step = "mark" /\ archive.store \in Chains
  BY WorkerIs DEF MarkFinal, At
<1>2. UNCHANGED <<flavor, archive, files, synced, keys>> BY DEF MarkFinal, KeepFiles
<1>3. worker.chain \in Chains /\ worker.epoch \in Nat BY <1>1 DEF OpenWorkers
<1>4. /\ Begins(worker.chain, archive.store) /\ marks.final <= Len(worker.chain) /\ worker.epoch <= Len(worker.chain)
      /\ UnlocksCurrent(files.active, worker.chain) /\ UnlocksCurrent(synced.active, worker.chain)
  BY <1>1 DEF CredentialInv, WorkerOK, Finalizes
<1>5. CASE UNCHANGED marks /\ FailsUncertain
  <2>1. worker' \in OpenWorkers \cup {Missing} /\ WorkerOK' BY <1>1, <1>2, <1>5, FailsKeeps
  <2>2. CredentialTypes' BY <1>2, <1>5, <2>1 DEF CredentialInv, CredentialTypes
  <2> QED BY <1>2, <1>5, <2>1, <2>2, RestKeeps DEF CredentialInv
<1>6. CASE marks' = [marks EXCEPT !.final = Len(worker.chain)] /\ Steps("clear")
  <2>0. Len(worker.chain) \in Nat /\ Len(archive.store) \in Nat BY <1>1, <1>3, ChainIs
  <2>1. marks' \in [final : Nat, prepared : Nat] /\ marks'.final = Len(worker.chain)
    BY <1>6, <2>0 DEF CredentialInv, CredentialTypes
  <2>2. worker' \in OpenWorkers /\ worker'.step = "clear" /\ worker'.opening = worker.opening
        /\ worker'.epoch = worker.epoch /\ worker'.chain = worker.chain
    BY <1>1, <1>6 DEF OpenWorkers, Places, Steps
  <2>3. CredentialTypes' BY <1>2, <2>1, <2>2 DEF CredentialInv, CredentialTypes
  <2>4. ArchiveOK' BY <1>2 DEF CredentialInv, ArchiveOK, Opens
  <2>5. FilesOK' BY <1>2 DEF CredentialInv, FilesOK, Holds, Opens
  <2>6. MarksOK'
    <3>1. Len(worker.chain) <= Len(archive.store) BY <1>4 DEF Begins
    <3>2. Len(worker.chain) = Len(archive.store) =>
            UnlocksCurrent(files.active, archive.store) /\ UnlocksCurrent(synced.active, archive.store)
      BY <1>1, <1>3, <1>4, <2>0, CurrentStays
    <3> QED BY <1>2, <2>1, <3>1, <3>2 DEF MarksOK
  <2>7. WorkerOK'
    <3>1. /\ worker.opening => worker.epoch = Len(worker.chain)
          /\ ~worker.opening =>
               /\ worker.epoch <= Len(archive.store)
               /\ worker.epoch = Len(archive.store) => UnlocksCurrent(files.active, archive.store)
               /\ Opens(files.active, archive.store) /\ Opens(synced.active, archive.store)
      BY <1>1 DEF CredentialInv, WorkerOK
    <3>2. worker'.step # "attach" /\ worker'.step \in {"finalize", "mark", "clear"} BY <2>2
    <3> QED BY <1>2, <1>4, <2>0, <2>1, <2>2, <3>1, <3>2 DEF WorkerOK, Finalizes
  <2> QED BY <2>3, <2>4, <2>5, <2>6, <2>7 DEF CredentialInv
<1> QED BY <1>5, <1>6 DEF MarkFinal, Epoch

LEMMA MarkClearedKeeps == ASSUME CredentialInv, MarkCleared PROVE CredentialInv'
<1>1. worker \in OpenWorkers /\ worker # Missing /\ worker.step = "clear" /\ archive.store \in Chains
  BY WorkerIs DEF MarkCleared, At
<1>2. UNCHANGED <<flavor, archive, files, synced, keys>> BY DEF MarkCleared, KeepFiles
<1>3. worker.chain \in Chains /\ worker.epoch \in Nat BY <1>1 DEF OpenWorkers
<1>4. /\ Begins(worker.chain, archive.store) /\ worker.epoch <= Len(worker.chain)
      /\ UnlocksCurrent(files.active, worker.chain) /\ UnlocksCurrent(synced.active, worker.chain)
  BY <1>1 DEF CredentialInv, WorkerOK, Finalizes
<1>5. CASE UNCHANGED marks /\ FailsUncertain
  <2>1. worker' \in OpenWorkers \cup {Missing} /\ WorkerOK' BY <1>1, <1>2, <1>5, FailsKeeps
  <2>2. CredentialTypes' BY <1>2, <1>5, <2>1 DEF CredentialInv, CredentialTypes
  <2> QED BY <1>2, <1>5, <2>1, <2>2, RestKeeps DEF CredentialInv
<1>6. CASE marks' = [marks EXCEPT !.prepared = 0] /\ worker' = [worker EXCEPT !.step = "open", !.opening = FALSE]
  <2>1. marks' \in [final : Nat, prepared : Nat] /\ marks'.final = marks.final
    BY <1>6 DEF CredentialInv, CredentialTypes
  <2>2. worker' \in OpenWorkers /\ worker'.step = "open" /\ worker'.opening = FALSE
        /\ worker'.epoch = worker.epoch
    BY <1>1, <1>6 DEF OpenWorkers, Places
  <2>3. CredentialTypes' BY <1>2, <2>1, <2>2 DEF CredentialInv, CredentialTypes
  <2>4. ArchiveOK' /\ FilesOK'
    <3>1. ArchiveOK' BY <1>2 DEF CredentialInv, ArchiveOK, Opens
    <3>2. FilesOK' BY <1>2 DEF CredentialInv, FilesOK, Holds, Opens
    <3> QED BY <3>1, <3>2
  <2>5. MarksOK' BY <1>2, <2>1 DEF CredentialInv, MarksOK, UnlocksCurrent, Unlocks
  <2>6. WorkerOK'
    <3>0. Len(worker.chain) \in Nat /\ Len(archive.store) \in Nat BY <1>1, <1>3, ChainIs
    <3>1. Opens(files.active, archive.store) /\ Opens(synced.active, archive.store)
      BY <1>1, <1>3, <1>4, CurrentOpens, OpensLater
    <3>2. worker.epoch <= Len(archive.store) BY <1>3, <1>4, <3>0 DEF Begins
    <3>3. worker.epoch = Len(archive.store) => UnlocksCurrent(files.active, archive.store)
      BY <1>1, <1>3, <1>4, <3>0, CurrentStays
    <3> QED BY <1>2, <2>2, <3>1, <3>2, <3>3 DEF WorkerOK, Finalizes
  <2> QED BY <2>3, <2>4, <2>5, <2>6 DEF CredentialInv
<1> QED BY <1>5, <1>6 DEF MarkCleared

LEMMA Commanding ==
  ASSUME CredentialInv, worker # Missing, worker.step \in {"open", "prepared", "commit"}
  PROVE  /\ ~worker.opening /\ worker.epoch <= Len(archive.store)
         /\ worker.epoch = Len(archive.store) => UnlocksCurrent(files.active, archive.store)
         /\ Opens(files.active, archive.store) /\ Opens(synced.active, archive.store)
BY DEF CredentialInv, WorkerOK, Finalizes

LEMMA RotateKeeps == ASSUME Distinct, CredentialInv, RotatePassword PROVE CredentialInv'
<1> DEFINE f == [files EXCEPT !.prepared = Own(Epoch(worker.chain) + 1, keys + 1)]
<1>1. worker \in OpenWorkers /\ worker # Missing /\ worker.step = "open" /\ archive.store \in Chains
  BY WorkerIs DEF RotatePassword, At
<1>2. UNCHANGED <<flavor, archive, marks>> /\ keys' = keys + 1 /\ keys \in Nat
  BY DEF RotatePassword, CredentialInv, CredentialTypes
<1>3. /\ ~worker.opening /\ worker.epoch <= Len(archive.store)
      /\ worker.epoch = Len(archive.store) => UnlocksCurrent(files.active, archive.store)
      /\ Opens(files.active, archive.store) /\ Opens(synced.active, archive.store)
  BY <1>1, Commanding
<1>4. worker.chain \in Chains BY <1>1 DEF OpenWorkers
<1>5. f \in CredentialFiles /\ f.active = files.active
  <2>1. Len(worker.chain) + 1 \in Nat /\ keys + 1 \in Nat BY <1>2, <1>4, ChainIs
  <2>2. Own(Len(worker.chain) + 1, keys + 1) \in OwnRecords BY <2>1, OwnIs
  <2> QED BY <2>2 DEF CredentialInv, CredentialTypes, CredentialFiles, Epoch
<1>6. \/ UNCHANGED <<files, synced, worker>>
      \/ files' = f /\ synced' = f /\ worker' = [worker EXCEPT !.step = "prepared", !.chain = Append(@, keys + 1)]
      \/ files' = f /\ synced' = synced /\ FailsUncertain
  BY DEF RotatePassword, Publishes, Uncertain, KeepFiles
<1> HIDE DEF f
<1>7. files'.active = files.active /\ synced'.active \in {files.active, synced.active}
      /\ files' \in CredentialFiles /\ synced' \in CredentialFiles
  BY <1>5, <1>6 DEF CredentialInv, CredentialTypes
<1>8. ArchiveOK' BY <1>2, <1>7 DEF CredentialInv, ArchiveOK, Opens
<1>9. FilesOK' BY <1>2, <1>3, <1>7 DEF FilesOK, Holds
<1>10. MarksOK' BY <1>2, <1>7 DEF CredentialInv, MarksOK, UnlocksCurrent, Unlocks
<1>11. worker' \in OpenWorkers \cup {Missing} /\ WorkerOK'
  <2>1. CASE UNCHANGED <<files, synced, worker>>
    BY <1>1, <1>2, <2>1 DEF CredentialInv, WorkerOK, Finalizes, Opens, UnlocksCurrent, Unlocks
  <2>2. CASE worker' = [worker EXCEPT !.step = "prepared", !.chain = Append(@, keys + 1)]
    <3>1. Append(worker.chain, keys + 1) \in Chains BY <1>2, <1>4, Appended
    <3>2. worker' \in OpenWorkers /\ worker'.step = "prepared" /\ ~worker'.opening
          /\ worker'.epoch = worker.epoch
      BY <1>1, <1>3, <2>2, <3>1 DEF OpenWorkers, Places
    <3> QED BY <1>2, <1>3, <1>7, <3>2 DEF WorkerOK, Finalizes, UnlocksCurrent, Unlocks, Opens
  <2>3. CASE files' = f /\ synced' = synced /\ FailsUncertain
    BY <1>1, <1>2, <1>7, <2>3, FailsKeeps
  <2> QED BY <1>6, <2>1, <2>2, <2>3
<1>12. CredentialTypes' BY <1>2, <1>7, <1>11 DEF CredentialInv, CredentialTypes
<1> QED BY <1>8, <1>9, <1>10, <1>11, <1>12 DEF CredentialInv

LEMMA MarkPreparedKeeps == ASSUME CredentialInv, MarkPrepared PROVE CredentialInv'
<1>1. worker \in OpenWorkers /\ worker # Missing /\ worker.step = "prepared" /\ archive.store \in Chains
  BY WorkerIs DEF MarkPrepared, At
<1>2. UNCHANGED <<flavor, archive, files, synced, keys>> BY DEF MarkPrepared, KeepFiles
<1>3. /\ ~worker.opening /\ worker.epoch <= Len(archive.store)
      /\ worker.epoch = Len(archive.store) => UnlocksCurrent(files.active, archive.store)
      /\ Opens(files.active, archive.store) /\ Opens(synced.active, archive.store)
  BY <1>1, Commanding
<1>4. CASE UNCHANGED marks /\ worker' = [worker EXCEPT !.step = "open", !.chain = archive.store]
  <2>1. worker' \in OpenWorkers /\ WorkerOK' BY <1>1, <1>2, <1>3, <1>4, EndsOpen
  <2>2. CredentialTypes' BY <1>2, <1>4, <2>1 DEF CredentialInv, CredentialTypes
  <2> QED BY <1>2, <1>4, <2>1, <2>2, RestKeeps DEF CredentialInv
<1>5. CASE marks' = [marks EXCEPT !.prepared = Len(worker.chain)] /\ Steps("commit")
  <2>0. worker.chain \in Chains BY <1>1 DEF OpenWorkers
  <2>1. Len(worker.chain) \in Nat BY <2>0, ChainIs
  <2>2. marks' \in [final : Nat, prepared : Nat] /\ marks'.final = marks.final
    BY <1>5, <2>1 DEF CredentialInv, CredentialTypes
  <2>3. worker' \in OpenWorkers /\ worker'.step = "commit" /\ ~worker'.opening /\ worker'.epoch = worker.epoch
    BY <1>1, <1>3, <1>5 DEF OpenWorkers, Places, Steps
  <2>4. CredentialTypes' BY <1>2, <2>2, <2>3 DEF CredentialInv, CredentialTypes
  <2>5. ArchiveOK' BY <1>2 DEF CredentialInv, ArchiveOK, Opens
  <2>6. FilesOK' BY <1>2 DEF CredentialInv, FilesOK, Holds, Opens
  <2>7. MarksOK' BY <1>2, <2>2 DEF CredentialInv, MarksOK, UnlocksCurrent, Unlocks
  <2>8. WorkerOK' BY <1>2, <1>3, <2>3 DEF WorkerOK, Finalizes
  <2> QED BY <2>4, <2>5, <2>6, <2>7, <2>8 DEF CredentialInv
<1> QED BY <1>4, <1>5 DEF MarkPrepared, Epoch

(* The archive grows: records that opened still open, and no earlier epoch *)
(* is the last one any more.                                               *)
LEMMA GrowsKeeps ==
  ASSUME CredentialInv, NEW c \in Chains,
         Begins(archive.store, c), Len(c) = Len(archive.store) + 1,
         archive' = [visible |-> c, durable |-> c, store |-> c],
         UNCHANGED <<flavor, files, synced, marks>>
  PROVE  /\ archive' \in [visible : Chains, durable : Chains, store : Chains]
         /\ ArchiveOK' /\ FilesOK' /\ MarksOK'
<1>1. archive.store \in Chains /\ archive'.store = c /\ archive'.visible = c /\ archive'.durable = c
  BY DEF CredentialInv, CredentialTypes
<1>2. ArchiveOK' BY <1>1, BeginsSelf DEF ArchiveOK
<1>3. FilesOK' BY <1>1, HoldsLater DEF CredentialInv, FilesOK, Holds
<1>4. Len(archive.store) \in Nat /\ Len(c) \in Nat BY <1>1, ChainIs
<1>5. marks.final \in Nat /\ marks.final <= Len(archive.store) BY DEF CredentialInv, CredentialTypes, MarksOK
<1>6. MarksOK' BY <1>1, <1>4, <1>5 DEF MarksOK
<1> QED BY <1>1, <1>2, <1>3, <1>6

LEMMA CommitKeeps == ASSUME CredentialInv, Commit PROVE CredentialInv'
<1>1. worker \in OpenWorkers /\ worker # Missing /\ worker.step = "commit" /\ archive.store \in Chains
  BY WorkerIs DEF Commit, At
<1>2. UNCHANGED <<flavor, files, synced, marks, keys>> BY DEF Commit, KeepFiles
<1>3. /\ ~worker.opening /\ worker.epoch <= Len(archive.store)
      /\ Opens(files.active, archive.store) /\ Opens(synced.active, archive.store)
  BY <1>1, Commanding
<1>4. worker.chain \in Chains /\ worker.epoch \in Nat BY <1>1 DEF OpenWorkers
<1>5. CASE UNCHANGED archive /\ worker' = [worker EXCEPT !.step = "open", !.chain = archive.store]
  <2>1. worker' \in OpenWorkers /\ WorkerOK' BY <1>1, <1>2, <1>3, <1>5, EndsOpen
  <2>2. CredentialTypes' BY <1>2, <1>5, <2>1 DEF CredentialInv, CredentialTypes
  <2> QED BY <1>2, <1>5, <2>1, <2>2, RestKeeps DEF CredentialInv
<1>6. CASE archive.store = Before(worker.chain)
  <2>1. Begins(archive.store, worker.chain) /\ Len(worker.chain) = Len(archive.store) + 1
    BY <1>1, <1>4, <1>6, Shortened
  <2>2. Len(archive.store) \in Nat /\ Len(worker.chain) \in Nat BY <1>1, <1>4, ChainIs
  <2>3. CASE archive' = [visible |-> worker.chain, durable |-> worker.chain, store |-> worker.chain] /\ Steps("finalize")
    <3>1. /\ archive' \in [visible : Chains, durable : Chains, store : Chains]
          /\ ArchiveOK' /\ FilesOK' /\ MarksOK'
      BY <1>2, <1>4, <2>1, <2>3, GrowsKeeps
    <3>2. worker' \in OpenWorkers /\ worker'.step = "finalize" /\ ~worker'.opening
          /\ worker'.epoch = worker.epoch /\ worker'.chain = worker.chain
      BY <1>1, <1>3, <2>3 DEF OpenWorkers, Places, Steps
    <3>3. archive'.store = worker.chain BY <2>3
    <3>4. Opens(files.active, worker.chain) /\ Opens(synced.active, worker.chain)
      BY <1>1, <1>3, <1>4, <2>1, OpensLater
    <3>5. marks.final <= Len(worker.chain)
      BY <2>1, <2>2 DEF CredentialInv, CredentialTypes, MarksOK
    <3>6. WorkerOK'
      BY <1>2, <1>3, <1>4, <2>1, <2>2, <3>2, <3>3, <3>4, <3>5, BeginsSelf DEF WorkerOK, Finalizes
    <3> QED BY <1>2, <3>1, <3>2, <3>6 DEF CredentialInv, CredentialTypes
  <2>4. CASE archive' = [archive EXCEPT !.visible = worker.chain] /\ FailsUncertain
    <3>1. archive' \in [visible : Chains, durable : Chains, store : Chains]
          /\ archive'.store = archive.store /\ archive'.durable = archive.durable /\ archive'.visible = worker.chain
      BY <1>4, <2>4 DEF CredentialInv, CredentialTypes
    <3>2. worker' \in OpenWorkers \cup {Missing} /\ WorkerOK' BY <1>1, <1>2, <2>4, <3>1, FailsKeeps
    <3>3. ArchiveOK' BY <1>2, <1>3, <2>1, <3>1 DEF CredentialInv, ArchiveOK
    <3>4. FilesOK' BY <1>2, <3>1 DEF CredentialInv, FilesOK, Holds, Opens
    <3>5. MarksOK' BY <1>2, <3>1 DEF CredentialInv, MarksOK, UnlocksCurrent, Unlocks
    <3> QED BY <1>2, <3>1, <3>2, <3>3, <3>4, <3>5 DEF CredentialInv, CredentialTypes
  <2> QED BY <1>5, <2>3, <2>4 DEF Commit
<1> QED BY <1>5, <1>6 DEF Commit
LEMMA RetryKeeps == ASSUME CredentialInv, Retry PROVE CredentialInv'
<1>1. worker \in OpenWorkers /\ worker # Missing /\ worker.step = "open" /\ archive.store \in Chains
  BY WorkerIs DEF Retry, At
<1>2. UNCHANGED <<flavor, archive, files, synced, marks, keys>> BY DEF Retry, KeepFiles
<1>3. /\ ~worker.opening /\ worker.epoch <= Len(archive.store)
      /\ worker.epoch = Len(archive.store) => UnlocksCurrent(files.active, archive.store)
      /\ Opens(files.active, archive.store) /\ Opens(synced.active, archive.store)
  BY <1>1, Commanding
<1>4. worker' \in OpenWorkers /\ worker'.step = "finalize" /\ ~worker'.opening
      /\ worker'.epoch = worker.epoch /\ worker'.chain = archive.store
  BY <1>1, <1>3 DEF Retry, OpenWorkers, Places
<1>5. marks.final <= Len(archive.store) BY DEF CredentialInv, MarksOK
<1>6. WorkerOK' BY <1>2, <1>3, <1>4, <1>5, BeginsSelf DEF WorkerOK, Finalizes
<1>7. CredentialTypes' BY <1>2, <1>4 DEF CredentialInv, CredentialTypes
<1> QED BY <1>2, <1>6, <1>7, RestKeeps DEF CredentialInv

LEMMA ReceiveKeeps == ASSUME CredentialInv, ReceiveRotation PROVE CredentialInv'
<1> DEFINE c == Append(archive.store, keys + 1)
<1>1. archive.store \in Chains /\ keys \in Nat BY DEF CredentialInv, CredentialTypes
<1>2. /\ archive' = [visible |-> c, durable |-> c, store |-> c] /\ keys' = keys + 1
      /\ UNCHANGED <<flavor, files, synced, marks, worker>>
  BY DEF ReceiveRotation, KeepFiles
<1>3. c \in Chains /\ Begins(archive.store, c) /\ Len(c) = Len(archive.store) + 1 BY <1>1, Appended
<1>4. Len(archive.store) \in Nat BY <1>1, ChainIs
<1> HIDE DEF c
<1>5. /\ archive' \in [visible : Chains, durable : Chains, store : Chains]
      /\ ArchiveOK' /\ FilesOK' /\ MarksOK'
  BY <1>2, <1>3, GrowsKeeps
<1>6. CredentialTypes' BY <1>1, <1>2, <1>5 DEF CredentialInv, CredentialTypes
<1>7. ASSUME worker # Missing PROVE WorkerOK'
  <2>1. worker \in OpenWorkers /\ worker.chain \in Chains /\ worker.epoch \in Nat
    BY <1>7, WorkerIs DEF OpenWorkers
  <2>2. archive'.store = c BY <1>2
  <2>3. Finalizes => Begins(worker.chain, c) /\ marks.final <= Len(worker.chain) /\ worker.epoch <= Len(worker.chain)
    BY <1>1, <1>3, <1>7, <2>1, BeginsLater DEF CredentialInv, WorkerOK
  <2>4. ~worker.opening => worker.epoch <= Len(c) /\ worker.epoch # Len(c)
    BY <1>3, <1>4, <1>7, <2>1 DEF CredentialInv, WorkerOK
  <2>5. ~worker.opening => Opens(files.active, c) /\ Opens(synced.active, c)
    BY <1>1, <1>3, <1>7, OpensLater DEF CredentialInv, WorkerOK
  <2>6. /\ worker.step = "attach" => worker.opening /\ worker.epoch = Len(worker.chain)
        /\ worker.opening => worker.step = "attach" \/ (Finalizes /\ worker.epoch = Len(worker.chain))
        /\ worker.step \in {"mark", "clear"} =>
             UnlocksCurrent(files.active, worker.chain) /\ UnlocksCurrent(synced.active, worker.chain)
    BY <1>7 DEF CredentialInv, WorkerOK
  <2> QED BY <1>2, <2>2, <2>3, <2>4, <2>5, <2>6 DEF WorkerOK, Finalizes
<1>8. WorkerOK' BY <1>2, <1>7 DEF WorkerOK
<1> QED BY <1>5, <1>6, <1>8 DEF CredentialInv

LEMMA LockKeeps ==
  ASSUME CredentialInv, worker' = Missing, UNCHANGED <<flavor, archive, files, synced, marks, keys>>
  PROVE  CredentialInv'
<1>1. WorkerOK' BY DEF WorkerOK
<1>2. CredentialTypes' BY DEF CredentialInv, CredentialTypes
<1> QED BY <1>1, <1>2, RestKeeps DEF CredentialInv

(* A session adopts an epoch only when its credentials are final, which    *)
(* are then in force: also while a command of the worker is finalizing,    *)
(* since no later epoch was final than the one it finalizes.               *)
LEMMA WatchKeeps == ASSUME CredentialInv, Watch PROVE CredentialInv'
<1>1. worker \in OpenWorkers /\ worker # Missing /\ ~worker.opening /\ archive.store \in Chains
  BY WorkerIs DEF Watch
<1>2. UNCHANGED <<flavor, archive, files, synced, marks, keys>> BY DEF Watch, KeepFiles
<1>3. CASE worker' = Missing BY <1>2, <1>3, LockKeeps
<1>4. CASE Adopts /\ worker' = [worker EXCEPT !.epoch = Len(archive.store)]
  <2>0. Len(archive.store) \in Nat BY <1>1, ChainIs
  <2>1. worker' \in OpenWorkers /\ worker'.epoch = Len(archive.store) /\ ~worker'.opening
        /\ worker'.step = worker.step /\ worker'.chain = worker.chain
    BY <1>1, <1>4, <2>0 DEF OpenWorkers
  <2>2. marks.final = Len(archive.store) BY <1>4 DEF Adopts, Epoch
  <2>3. UnlocksCurrent(files.active, archive.store) BY <2>2 DEF CredentialInv, MarksOK
  <2>4. /\ worker.step # "attach"
        /\ Finalizes => Begins(worker.chain, archive.store) /\ marks.final <= Len(worker.chain)
        /\ worker.step \in {"mark", "clear"} =>
             UnlocksCurrent(files.active, worker.chain) /\ UnlocksCurrent(synced.active, worker.chain)
        /\ Opens(files.active, archive.store) /\ Opens(synced.active, archive.store)
    BY <1>1 DEF CredentialInv, WorkerOK
  <2>5. WorkerOK' BY <1>2, <2>0, <2>1, <2>2, <2>3, <2>4 DEF WorkerOK, Finalizes
  <2>6. CredentialTypes' BY <1>2, <2>1 DEF CredentialInv, CredentialTypes
  <2> QED BY <1>2, <2>5, <2>6, RestKeeps DEF CredentialInv
<1> QED BY <1>3, <1>4 DEF Watch, Epoch

(* Whatever survives, the archive is the one served or extends it, and     *)
(* each of the two credential files holds what the device needs.           *)
LEMMA RestartKeeps == ASSUME CredentialInv, RestartHost PROVE CredentialInv'
<1>1. PICK t \in {archive.visible, archive.durable} : archive' = [visible |-> t, durable |-> t, store |-> t]
  BY DEF RestartHost
<1>2. PICK f \in {files, synced} : files' = f /\ synced' = f BY DEF RestartHost, Publishes
<1>3. worker' = Missing /\ UNCHANGED <<flavor, marks, keys>> BY DEF RestartHost
<1>4. t \in Chains /\ archive.store \in Chains BY DEF CredentialInv, CredentialTypes
<1>5. Begins(archive.store, t) BY BeginsSelf DEF CredentialInv, ArchiveOK
<1>6. CredentialTypes' BY <1>1, <1>2, <1>3, <1>4 DEF CredentialInv, CredentialTypes
<1>7. ArchiveOK' BY <1>1, BeginsSelf DEF ArchiveOK
<1>8. FilesOK'
  <2>1. Holds(f, archive.store) BY DEF CredentialInv, FilesOK
  <2>2. Holds(f, t) BY <1>4, <1>5, <2>1, HoldsLater
  <2> QED BY <1>1, <1>2, <1>3, <2>2 DEF FilesOK, Holds
<1>9. MarksOK'
  <2>1. Len(archive.store) \in Nat /\ Len(t) \in Nat /\ Len(archive.store) <= Len(t)
    BY <1>4, <1>5, ChainIs DEF Begins
  <2>2. marks.final \in Nat /\ marks.final <= Len(archive.store) BY DEF CredentialInv, CredentialTypes, MarksOK
  <2>3. marks.final = Len(archive.store) => UnlocksCurrent(f.active, archive.store)
    BY DEF CredentialInv, MarksOK
  <2>4. marks.final = Len(t) => UnlocksCurrent(f.active, t)
    BY <1>4, <1>5, <2>1, <2>2, <2>3, CurrentStays
  <2> QED BY <1>1, <1>2, <1>3, <2>1, <2>2, <2>4 DEF MarksOK
<1>10. WorkerOK' BY <1>3 DEF WorkerOK
<1> QED BY <1>6, <1>7, <1>8, <1>9, <1>10 DEF CredentialInv

LEMMA NextKeeps == ASSUME Distinct, CredentialInv, [CredentialsNext]_credentialsVars PROVE CredentialInv'
<1>1. CASE UNCHANGED credentialsVars
  <2>1. CredentialTypes' BY <1>1 DEF CredentialInv, CredentialTypes, credentialsVars
  <2>2. WorkerOK' BY <1>1 DEF CredentialInv, WorkerOK, Finalizes, Opens, UnlocksCurrent, Unlocks, credentialsVars
  <2> QED BY <1>1, <2>1, <2>2, RestKeeps DEF CredentialInv, credentialsVars
<1>2. CASE Lock BY <1>2, LockKeeps DEF Lock, KeepFiles
<1> QED BY <1>1, <1>2, OpenKeeps, AttachKeeps, FinalizeKeeps, MarkFinalKeeps, MarkClearedKeeps,
       RotateKeeps, MarkPreparedKeeps, CommitKeeps, RetryKeeps, ReceiveKeeps, WatchKeeps, RestartKeeps
    DEF CredentialsNext

(* A file that holds its device's identity makes an unlocked worker select *)
(* it: it is neither locked out nor made a new reader.                     *)
LEMMA HeldIsSelected ==
  ASSUME flavor \in Flavors, Missing # Staged, NEW c \in Chains, NEW f \in CredentialFiles, Holds(f, c)
  PROVE  Selected(c, f) \in {"active", "prepared", "past", "staged"}
<1>1. \A r : Opens(r, c) => r # Missing /\ (UnlocksCurrent(r, c) \/ UnlocksPast(r, c))
  BY OpensIsUnlocked DEF Opens
<1>2. CASE flavor = "portable" BY <1>1, <1>2 DEF Holds, Selected, Portable
<1>3. CASE flavor # "portable" BY <1>1, <1>3 DEF Holds, Selected, Platform
<1> QED BY <1>2, <1>3

LEMMA InvImplies == ASSUME Distinct, flavor \in Flavors, CredentialInv PROVE CredentialsSound
<1>1. /\ archive.store \in Chains /\ archive.visible \in Chains
      /\ files \in CredentialFiles /\ synced \in CredentialFiles
  BY DEF CredentialInv, CredentialTypes
<1>2. Missing # Staged BY OwnIs DEF Distinct, Staged
<1>3. \A chain \in {archive.visible, archive.durable}, f \in {files, synced} : Holds(f, chain)
  BY <1>1, HoldsLater DEF CredentialInv, ArchiveOK, FilesOK
<1>4. IdentityKept
  <2>1. archive.durable \in Chains BY <1>1 DEF CredentialInv, ArchiveOK
  <2> QED BY <1>1, <1>2, <1>3, <2>1, HeldIsSelected DEF IdentityKept
<1>5. SessionFinal BY DEF CredentialInv, WorkerOK, SessionFinal, Epoch
<1> QED BY <1>4, <1>5 DEF CredentialsSound

THEOREM CredentialsAreSound == ASSUME Distinct PROVE CredentialsSpec => []CredentialsSound
<1>1. CredentialsInit => CredentialInv /\ flavor \in Flavors BY StartsCredentials DEF CredentialsInit
<1>2. CredentialInv /\ flavor \in Flavors /\ [CredentialsNext]_credentialsVars => (CredentialInv /\ flavor \in Flavors)'
  <2>1. [CredentialsNext]_credentialsVars => flavor' = flavor
    BY DEF CredentialsNext, credentialsVars, Open, AttachArchive, Finalize, MarkFinal, MarkCleared, RotatePassword, MarkPrepared,
           Commit, Retry, ReceiveRotation, Watch, Lock, RestartHost
  <2> QED BY <2>1, NextKeeps
<1>3. CredentialInv /\ flavor \in Flavors => CredentialsSound BY InvImplies
<1> QED BY <1>1, <1>2, <1>3, PTL DEF CredentialsSpec

=============================================================================
