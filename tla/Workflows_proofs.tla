--------------------------- MODULE Workflows_proofs ---------------------------
(***************************************************************************)
(* HandoffSound for any number of drivers, operations and intents; and     *)
(* PortSound, of the port an Android worker reaches its file through.      *)
(*                                                                         *)
(* HandoffInv reads what is known of the other side from the journals that *)
(* a power loss may reveal: a record of a journal names what its device    *)
(* decided (RecordOK), each transfer in an archive names a consent that    *)
(* the recipient cannot forget (Decided), a retained commit is the one in  *)
(* doubt (Prepared), and an answer on its way stands at its sender         *)
(* (CallOK).  Records only move on (Follows) and chains only grow          *)
(* (Begins), so what was known stays known (Advances and the lemmas that   *)
(* end in Later): each action has to establish only what it adds.          *)
(***************************************************************************)
EXTENDS Handoff, CipherPort, SequenceTheorems, TLAPS

(* c is a sequence of its own elements, and d goes on from c.              *)
Whole(c) == c \in Seq({c[n] : n \in DOMAIN c})
Begins(c, d) == Len(c) <= Len(d) /\ \A n \in 1..Len(c) : d[n] = c[n]

(* None is neither a chain nor a worker.                                   *)
NoneApart == ~Whole(None) /\ \A b, p : None # [basis |-> b, pending |-> p]

IntentOK(i) ==
  /\ i = Intent(i.previous, i.operation, i.manager, i.recipient)
  /\ i.operation \in Operations
  /\ i.manager \in Devices /\ i.recipient \in Devices /\ i.manager # i.recipient

SourcePhases == {"proposed", "rejected", "committed", "awaiting", "completed"}
TargetPhases == {"waiting", "requested", "consented", "rejected", "completed"}
Phases == SourcePhases \cup TargetPhases

(* Whatever a power loss reveals of h's journal, it holds the intent, in   *)
(* the given phase or one that follows it.                                 *)
Remembers(h, i) ==
  \A j \in lasting[h] : i.operation \in DOMAIN j /\ j[i.operation].intent = i
Stands(h, i, phase) ==
  \A j \in lasting[h] :
    /\ i.operation \in DOMAIN j /\ j[i.operation].intent = i
    /\ j[i.operation].phase \in After[phase]

(* One journal goes on from another.                                       *)
Follows(j, k) ==
  /\ DOMAIN j \subseteq DOMAIN k
  /\ \A o \in DOMAIN j : k[o].intent = j[o].intent /\ k[o].phase \in After[j[o].phase]

(* What a record in the journal of h says.                                 *)
RecordOK(h, o, e) ==
  /\ e = [intent |-> e.intent, phase |-> e.phase]
  /\ e.intent \in asked /\ e.intent.operation = o
  /\ \/ h = e.intent.manager /\ e.phase \in SourcePhases
     \/ h = e.intent.recipient /\ e.phase \in TargetPhases
  /\ h = e.intent.recipient /\ e.phase \in {"requested", "consented", "completed"} =>
       e.intent \in agreed
  /\ e.phase \in {"committed", "awaiting", "completed"} => Committed(chain[h], e.intent)
  /\ e.phase = "completed" /\ h = e.intent.manager =>
       /\ Committed(chain[e.intent.recipient], e.intent)
       /\ Stands(e.intent.recipient, e.intent, "completed")

JournalOK(h) ==
  /\ journal[h] \in lasting[h]
  /\ unsaved[h] # None => unsaved[h] \in lasting[h]
  /\ \A j \in lasting[h] : \A o \in DOMAIN j : RecordOK(h, o, j[o])

(* Each transfer in a chain was decided by both sides.                     *)
Decided(c) ==
  \A n \in DOMAIN c : c[n].handoff # None =>
    LET i == Intent(c[n].handoff.previous, c[n].operation, c[n].signer, c[n].manager)
    IN  i \in asked /\ Stands(i.recipient, i, "consented")

ChainOK(h) ==
  /\ Whole(chain[h]) /\ Decided(chain[h])
  /\ doubt[h] # None =>
       Whole(doubt[h]) /\ Decided(doubt[h]) /\ Begins(chain[h], doubt[h])

(* The commit a worker retains is the one in doubt.                        *)
Prepared(h, o) ==
  /\ doubt[h] # None
  /\ \E i \in asked : i.operation = o /\ Remembers(h, i) /\ Committed(doubt[h], i)

Working(h) == worker[h] # None
WorkerIs(h, w) ==
  /\ w = [basis |-> w.basis, pending |-> w.pending]
  /\ Whole(w.basis) /\ Begins(w.basis, chain[h])
  /\ w.pending # None /\ w.pending.exact => Prepared(h, w.pending.operation)
WorkerOK(h) == worker[h] # None => WorkerIs(h, worker[h])

Asks == {"propose", "ask", "answered"}
Serves == {"ask_source", "source_answered"}
CallOK(r) ==
  /\ DOMAIN r = {"host", "intent", "stage", "session", "reply"}
  /\ r.intent \in asked
  /\ r.host = IF r.stage \in Serves THEN r.intent.recipient ELSE r.intent.manager
  /\ Remembers(r.host, r.intent)
  /\ r.stage \in {"answered", "source_answered", "status_answered"} /\ r.reply.decision # "unknown" =>
       /\ r.reply.decision \in Phases
       /\ Stands(Other(r.host, r.intent), r.intent, r.reply.decision)
  /\ r.stage = "transfer" =>
       Committed(chain[r.host], r.intent) \/ Stands(r.intent.recipient, r.intent, "consented")
  /\ r.stage = "record" => Committed(chain[r.host], r.intent)
  /\ r.session /\ r.stage \in Asks \cup {"transfer"} => Working(r.host)

CallKept(c) == call[c] # None => CallOK(call[c])

Domains ==
  /\ DOMAIN chain = Devices /\ DOMAIN doubt = Devices /\ DOMAIN worker = Devices
  /\ DOMAIN journal = Devices /\ DOMAIN lasting = Devices /\ DOMAIN unsaved = Devices
  /\ DOMAIN call = Drivers /\ DOMAIN told = Devices
  /\ \A h \in Devices : DOMAIN told[h] = Operations

ToldOK ==
  \A h \in Devices, o \in Operations : told[h][o] # None =>
    /\ told[h][o].intent.operation = o /\ told[h][o].phase \in Phases
    /\ Stands(h, told[h][o].intent, told[h][o].phase)

RefusedOK == \A i \in refused : i.recipient \in Devices /\ Stands(i.recipient, i, "rejected")

HandoffInv ==
  /\ Domains
  /\ \A i \in asked : IntentOK(i)
  /\ \A h \in Devices : JournalOK(h) /\ ChainOK(h) /\ WorkerOK(h)
  /\ \A c \in Drivers : CallKept(c)
  /\ ToldOK /\ RefusedOK

-----------------------------------------------------------------------------

(* Chains.                                                                 *)

LEMMA WholeHas ==
  ASSUME NEW c, Whole(c)
  PROVE  Len(c) \in Nat /\ DOMAIN c = 1..Len(c)
BY LenProperties DEF Whole

LEMMA ChainGrows ==
  ASSUME NEW c, Whole(c), NEW e
  PROVE  /\ Whole(Append(c, e)) /\ Begins(c, Append(c, e))
         /\ Len(Append(c, e)) = Len(c) + 1
         /\ DOMAIN Append(c, e) = 1..(Len(c) + 1)
         /\ Append(c, e)[Len(c) + 1] = e
         /\ \A n \in 1..Len(c) : Append(c, e)[n] = c[n]
<1> DEFINE S == {c[n] : n \in DOMAIN c} \cup {e}
           a == Append(c, e)
           T == {a[n] : n \in DOMAIN a}
<1>1. c \in Seq(S)
  BY SeqDef, LenProperties DEF Whole
<1>2. e \in S
  OBVIOUS
<1> HIDE DEF S
<1>3. /\ a \in Seq(S) /\ Len(a) = Len(c) + 1
      /\ a[Len(c) + 1] = e /\ \A n \in 1..Len(c) : a[n] = c[n]
  BY <1>1, <1>2, AppendProperties
<1> HIDE DEF a
<1>4. /\ DOMAIN a = 1..(Len(c) + 1) /\ Len(a) \in Nat
      /\ a \in [1..Len(a) -> S]
  BY <1>3, LenProperties
<1>5. Whole(a)
  <2>1. \A n \in DOMAIN a : a[n] \in T
    OBVIOUS
  <2> HIDE DEF T
  <2>2. a \in [1..Len(a) -> T]
    BY <1>3, <1>4, <2>1
  <2>3. a \in Seq(T)
    BY <1>4, <2>2, SeqDef
  <2> QED BY <2>3 DEF T, Whole
<1>6. Len(c) \in Nat BY WholeHas
<1> QED BY <1>3, <1>4, <1>5, <1>6 DEF a, Begins

LEMMA BeginsItself == ASSUME NEW c, Whole(c) PROVE Begins(c, c)
BY WholeHas DEF Begins

LEMMA BeginsOn ==
  ASSUME NEW a, NEW b, NEW c, Whole(a), Whole(b), Whole(c), Begins(a, b), Begins(b, c)
  PROVE  Begins(a, c)
BY WholeHas DEF Begins

LEMMA CommittedLater ==
  ASSUME NEW c, NEW d, Whole(c), Whole(d), Begins(c, d), NEW i, Committed(c, i)
  PROVE  Committed(d, i)
<1> DEFINE n == Len(i.previous) + 1
<1>1. n \in DOMAIN c BY DEF Committed
<1> HIDE DEF n
<1>2. n \in DOMAIN d /\ d[n] = c[n] BY <1>1, WholeHas DEF Begins
<1> QED BY <1>2 DEF Committed, n

(* What a receiver takes goes on from what it has.                         *)
LEMMA OfferedGoesOn ==
  ASSUME NEW c, NEW d, Whole(c), Whole(d), ~Forks(c, d), Len(d) > Len(c)
  PROVE  Begins(c, d)
BY WholeHas DEF Forks, Begins

(* A transfer is found where its intent says.                              *)
LEMMA HashHas ==
  ASSUME NEW c, Whole(c)
  PROVE  Len(Hash(c)) = Len(c)
<1>1. Len(c) \in Nat /\ DOMAIN c = 1..Len(c) BY WholeHas
<1>2. DOMAIN Hash(c) = 1..Len(c) BY <1>1 DEF Hash
<1>3. Hash(c) \in [1..Len(c) -> {<<c[n].operation, c[n].intent>> : n \in DOMAIN c}]
  BY <1>1 DEF Hash
<1>4. Hash(c) \in Seq({<<c[n].operation, c[n].intent>> : n \in DOMAIN c})
  BY <1>1, <1>3, SeqDef
<1> QED BY <1>1, <1>2, <1>4, LenProperties

LEMMA TransferIsCommitted ==
  ASSUME NEW c, Whole(c), NEW i, i.previous = Hash(c)
  PROVE  Committed(Append(c, Successor(c, i.operation, Transfer(Consent(i)))), i)
<1> DEFINE e == Successor(c, i.operation, Transfer(Consent(i)))
<1>1. e.operation = i.operation /\ e.manager = i.recipient /\ e.handoff = Consent(i)
  BY DEF Successor, Transfer, Consent
<1> HIDE DEF e
<1>2. Len(i.previous) = Len(c) BY HashHas
<1>3. Len(c) + 1 \in DOMAIN Append(c, e) /\ Append(c, e)[Len(c) + 1] = e
  BY ChainGrows, WholeHas
<1> QED BY <1>1, <1>2, <1>3 DEF Committed, e

-----------------------------------------------------------------------------
(* Journals.                                                               *)

LEMMA AfterIs ==
  /\ \A p \in Phases : p \in After[p]
  /\ \A p \in Phases : \A q \in After[p] : q \in Phases /\ \A r \in After[q] : r \in After[p]
BY DEF After, Phases, SourcePhases, TargetPhases

LEMMA FollowsItself ==
  ASSUME HandoffInv, NEW h \in Devices
  PROVE  Follows(journal[h], journal[h])
<1>1. \A o \in DOMAIN journal[h] : journal[h][o].phase \in Phases
  BY DEF HandoffInv, JournalOK, RecordOK, Phases
<1> QED BY <1>1, AfterIs DEF Follows

(* What every step does to the history, the chains and the journals.       *)
Advances ==
  /\ asked \subseteq asked' /\ agreed \subseteq agreed'
  /\ \A h \in Devices : Whole(chain'[h]) /\ Begins(chain[h], chain'[h])
  /\ \A h \in Devices : \E k : Follows(journal[h], k) /\ lasting'[h] \subseteq lasting[h] \cup {k}

LEMMA StandsLater ==
  ASSUME HandoffInv, Advances, NEW h \in Devices, NEW i, NEW p \in Phases, Stands(h, i, p)
  PROVE  Stands(h, i, p)'
<1>1. PICK k : Follows(journal[h], k) /\ lasting'[h] \subseteq lasting[h] \cup {k}
  BY DEF Advances
<1>2. journal[h] \in lasting[h] BY DEF HandoffInv, JournalOK
<1>3. i.operation \in DOMAIN k /\ k[i.operation].intent = i /\ k[i.operation].phase \in After[p]
  BY <1>1, <1>2, AfterIs DEF Stands, Follows
<1> QED BY <1>1, <1>3 DEF Stands

LEMMA RemembersLater ==
  ASSUME HandoffInv, Advances, NEW h \in Devices, NEW i, Remembers(h, i)
  PROVE  Remembers(h, i)'
<1>1. PICK k : Follows(journal[h], k) /\ lasting'[h] \subseteq lasting[h] \cup {k}
  BY DEF Advances
<1>2. journal[h] \in lasting[h] BY DEF HandoffInv, JournalOK
<1>3. i.operation \in DOMAIN k /\ k[i.operation].intent = i
  BY <1>1, <1>2 DEF Remembers, Follows
<1> QED BY <1>1, <1>3 DEF Remembers

LEMMA CommittedStays ==
  ASSUME HandoffInv, Advances, NEW h \in Devices, NEW i, Committed(chain[h], i)
  PROVE  Committed(chain'[h], i)
BY CommittedLater DEF HandoffInv, ChainOK, Advances

LEMMA RecordLater ==
  ASSUME HandoffInv, Advances, NEW h \in Devices, NEW o, NEW e, RecordOK(h, o, e)
  PROVE  RecordOK(h, o, e)'
<1>1. e.intent \in asked /\ IntentOK(e.intent) BY DEF HandoffInv, RecordOK
<1>2. e.intent.recipient \in Devices BY <1>1 DEF IntentOK
<1>3. e.phase \in {"committed", "awaiting", "completed"} => Committed(chain'[h], e.intent)
  BY CommittedStays DEF RecordOK
<1>4. e.phase = "completed" /\ h = e.intent.manager =>
        /\ Committed(chain'[e.intent.recipient], e.intent)
        /\ Stands(e.intent.recipient, e.intent, "completed")'
  <2>1. "completed" \in Phases BY DEF Phases, SourcePhases
  <2> QED BY <1>2, <2>1, CommittedStays, StandsLater DEF RecordOK
<1>5. /\ e = [intent |-> e.intent, phase |-> e.phase]
      /\ e.intent \in asked' /\ e.intent.operation = o
      /\ \/ h = e.intent.manager /\ e.phase \in SourcePhases
         \/ h = e.intent.recipient /\ e.phase \in TargetPhases
      /\ h = e.intent.recipient /\ e.phase \in {"requested", "consented", "completed"} =>
           e.intent \in agreed'
  BY DEF RecordOK, Advances
<1> QED BY <1>3, <1>4, <1>5 DEF RecordOK

LEMMA DecidedLater ==
  ASSUME HandoffInv, Advances, NEW c, Decided(c)
  PROVE  Decided(c)'
<1> SUFFICES ASSUME NEW n \in DOMAIN c, c[n].handoff # None
             PROVE  LET i == Intent(c[n].handoff.previous, c[n].operation, c[n].signer, c[n].manager)
                    IN  i \in asked' /\ Stands(i.recipient, i, "consented")'
  BY DEF Decided
<1> DEFINE i == Intent(c[n].handoff.previous, c[n].operation, c[n].signer, c[n].manager)
<1>1. i \in asked /\ Stands(i.recipient, i, "consented") BY DEF Decided
<1> HIDE DEF i
<1>2. i.recipient \in Devices BY <1>1 DEF HandoffInv, IntentOK
<1>3. "consented" \in Phases BY DEF Phases, TargetPhases
<1>4. i \in asked' BY <1>1 DEF Advances
<1> QED BY <1>1, <1>2, <1>3, <1>4, StandsLater DEF i

(* Chains that stay, and the worker of a host of which the doubt stays.    *)
LEMMA ChainLater ==
  ASSUME HandoffInv, Advances, NEW h \in Devices, chain'[h] = chain[h],
         doubt'[h] = doubt[h] \/ doubt'[h] = None
  PROVE  ChainOK(h)'
BY DecidedLater DEF HandoffInv, ChainOK

LEMMA PreparedLater ==
  ASSUME HandoffInv, Advances, NEW h \in Devices, NEW o, Prepared(h, o), doubt'[h] = doubt[h]
  PROVE  Prepared(h, o)'
<1>1. PICK i \in asked : i.operation = o /\ Remembers(h, i) /\ Committed(doubt[h], i)
  BY DEF Prepared
<1>2. i \in asked' /\ Remembers(h, i)' BY <1>1, RemembersLater DEF Advances
<1> QED BY <1>1, <1>2 DEF Prepared

LEMMA WorkerLater ==
  ASSUME HandoffInv, Advances, NEW h \in Devices, NEW w, WorkerIs(h, w),
         doubt'[h] = doubt[h] \/ doubt[h] = None
  PROVE  WorkerIs(h, w)'
<1>1. Whole(chain[h]) /\ Whole(chain'[h]) /\ Begins(chain[h], chain'[h])
  BY DEF HandoffInv, ChainOK, Advances
<1>2. Begins(w.basis, chain'[h]) BY <1>1, BeginsOn DEF WorkerIs
<1>3. ASSUME w.pending # None, w.pending.exact
      PROVE  Prepared(h, w.pending.operation)'
  <2>1. Prepared(h, w.pending.operation) BY <1>3 DEF WorkerIs
  <2>2. doubt'[h] = doubt[h] BY <2>1 DEF Prepared
  <2> QED BY <2>1, <2>2, PreparedLater
<1> QED BY <1>2, <1>3 DEF WorkerIs

LEMMA WorkersLater ==
  ASSUME HandoffInv, Advances, NEW h \in Devices, worker'[h] = worker[h] \/ worker'[h] = None,
         doubt'[h] = doubt[h] \/ doubt[h] = None
  PROVE  WorkerOK(h)'
<1> SUFFICES ASSUME NEW w, w = worker'[h], w # None PROVE WorkerIs(h, w)'
  BY DEF WorkerOK
<1>1. w = worker[h] OBVIOUS
<1>2. WorkerIs(h, w) BY <1>1 DEF HandoffInv, WorkerOK
<1> QED BY <1>2, WorkerLater

(* A call that stays, or that only loses its session.                      *)
LEMMA CallLater ==
  ASSUME HandoffInv, Advances, NEW r, CallOK(r),
         r.session /\ r.stage \in Asks \cup {"transfer"} => Working(r.host)'
  PROVE  CallOK(r)'
<1>1. r.intent \in asked /\ r.intent \in asked' /\ IntentOK(r.intent)
  BY DEF CallOK, HandoffInv, Advances
<1>2. r.host \in Devices /\ r.intent.recipient \in Devices /\ Other(r.host, r.intent) \in Devices
  BY <1>1 DEF CallOK, IntentOK, Other
<1>3. Remembers(r.host, r.intent)' BY <1>2, RemembersLater DEF CallOK
<1>4. ASSUME r.stage \in {"answered", "source_answered", "status_answered"}, r.reply.decision # "unknown"
      PROVE  r.reply.decision \in Phases /\ Stands(Other(r.host, r.intent), r.intent, r.reply.decision)'
  BY <1>2, <1>4, StandsLater DEF CallOK
<1>5. ASSUME r.stage = "transfer"
      PROVE  Committed(chain'[r.host], r.intent) \/ Stands(r.intent.recipient, r.intent, "consented")'
  <2>1. "consented" \in Phases BY DEF Phases, TargetPhases
  <2> QED BY <1>2, <1>5, <2>1, StandsLater, CommittedStays DEF CallOK
<1>6. r.stage = "record" => Committed(chain'[r.host], r.intent)
  BY <1>2, CommittedStays DEF CallOK
<1>7. DOMAIN r = {"host", "intent", "stage", "session", "reply"}
      /\ r.host = IF r.stage \in Serves THEN r.intent.recipient ELSE r.intent.manager
  BY DEF CallOK
<1> HIDE DEF Asks, Serves
<1> QED BY <1>1, <1>3, <1>4, <1>5, <1>6, <1>7 DEF CallOK, Other

LEMMA CallsLater ==
  ASSUME HandoffInv, Advances, NEW S, NEW c \in Drivers, c \notin S,
         \A d \in Drivers \ S : call'[d] = call[d] \/ call'[d] = None,
         \A h \in Devices : Working(h) => Working(h)'
  PROVE  CallKept(c)'
<1> SUFFICES ASSUME NEW r, r = call'[c], r # None PROVE CallOK(r)'
  BY DEF CallKept
<1>1. r = call[c] BY DEF HandoffInv
<1>2. CallOK(r) BY <1>1 DEF HandoffInv, CallKept
<1>3. r.host \in Devices
  <2>1. r.intent \in asked /\ IntentOK(r.intent) BY <1>2 DEF CallOK, HandoffInv
  <2> QED BY <1>2, <2>1 DEF CallOK, IntentOK
<1>4. r.session /\ r.stage \in Asks \cup {"transfer"} => Working(r.host)'
  BY <1>2, <1>3 DEF CallOK
<1> QED BY <1>2, <1>4, CallLater

LEMMA ToldLater ==
  ASSUME HandoffInv, Advances, UNCHANGED told
  PROVE  ToldOK'
BY StandsLater DEF HandoffInv, ToldOK

LEMMA RefusedLater ==
  ASSUME HandoffInv, Advances, UNCHANGED refused
  PROVE  RefusedOK'
<1>1. "rejected" \in Phases BY DEF Phases, SourcePhases
<1> QED BY <1>1, StandsLater DEF HandoffInv, RefusedOK

-----------------------------------------------------------------------------
(* What the actions are made of.                                           *)

(* Every write of a journal leaves the old ones or the new one.            *)
Wrote(h, k) ==
  /\ DOMAIN journal' = Devices /\ DOMAIN lasting' = Devices /\ DOMAIN unsaved' = Devices
  /\ lasting'[h] \subseteq lasting[h] \cup {k}
  /\ journal'[h] \in lasting'[h]
  /\ unsaved'[h] # None => unsaved'[h] \in lasting'[h]
  /\ \A g \in Devices \ {h} :
       journal'[g] = journal[g] /\ lasting'[g] = lasting[g] /\ unsaved'[g] = unsaved[g]

LEMMA SavesWrite ==
  ASSUME HandoffInv, NEW h \in Devices, NEW k, Published(h, k) \/ Uncertain(h, k)
  PROVE  Wrote(h, k)
<1>1. CASE Published(h, k)
  BY <1>1 DEF Published, Wrote, HandoffInv, Domains
<1>2. CASE Uncertain(h, k)
  <2>1. PICK seen \in {journal[h], k} : journal' = [journal EXCEPT ![h] = seen]
    BY <1>2 DEF Uncertain
  <2>2. journal[h] \in lasting[h] BY DEF HandoffInv, JournalOK
  <2> QED BY <1>2, <2>1, <2>2 DEF Uncertain, Wrote, HandoffInv, Domains
<1> QED BY <1>1, <1>2

LEMMA NothingWritten ==
  ASSUME HandoffInv, NEW h \in Devices, UNCHANGED profile
  PROVE  Wrote(h, journal[h])
BY DEF HandoffInv, Domains, JournalOK, profile, Wrote

LEMMA PutIs ==
  ASSUME HandoffInv, NEW h \in Devices, NEW i, NEW p \in Phases,
         i.operation \notin DOMAIN journal[h] \/ (Has(h, i) /\ p \in After[Phase(h, i)])
  PROVE  /\ Follows(journal[h], Put(h, i, p))
         /\ DOMAIN Put(h, i, p) = DOMAIN journal[h] \cup {i.operation}
         /\ Put(h, i, p)[i.operation] = [intent |-> i, phase |-> p]
         /\ \A o \in DOMAIN journal[h] : o # i.operation => Put(h, i, p)[o] = journal[h][o]
<1>1. \A o \in DOMAIN journal[h] : journal[h][o].phase \in Phases
  BY DEF HandoffInv, JournalOK, RecordOK, Phases
<1>2. /\ DOMAIN Put(h, i, p) = DOMAIN journal[h] \cup {i.operation}
      /\ Put(h, i, p)[i.operation] = [intent |-> i, phase |-> p]
      /\ \A o \in DOMAIN journal[h] : o # i.operation => Put(h, i, p)[o] = journal[h][o]
  BY DEF Put
<1>3. ASSUME NEW o \in DOMAIN journal[h]
      PROVE  Put(h, i, p)[o].intent = journal[h][o].intent /\
             Put(h, i, p)[o].phase \in After[journal[h][o].phase]
  <2>1. CASE o = i.operation BY <1>2, <2>1 DEF Has, Phase
  <2>2. CASE o # i.operation BY <1>1, <1>2, <2>2, AfterIs
  <2> QED BY <2>1, <2>2
<1> QED BY <1>2, <1>3 DEF Follows

(* A step that writes one journal, and no other of what matters to it.     *)
LEMMA WriteAdvances ==
  ASSUME HandoffInv, NEW h \in Devices, NEW k, Wrote(h, k), Follows(journal[h], k),
         asked \subseteq asked', agreed \subseteq agreed',
         \A g \in Devices : Whole(chain'[g]) /\ Begins(chain[g], chain'[g])
  PROVE  Advances
<1>1. ASSUME NEW g \in Devices
      PROVE  \E j : Follows(journal[g], j) /\ lasting'[g] \subseteq lasting[g] \cup {j}
  <2>1. CASE g = h BY <2>1 DEF Wrote
  <2>2. CASE g # h
    <3>1. Follows(journal[g], journal[g]) BY FollowsItself
    <3> QED BY <2>2, <3>1 DEF Wrote
  <2> QED BY <2>1, <2>2
<1> QED BY <1>1 DEF Advances

LEMMA ChainsStay ==
  ASSUME HandoffInv, UNCHANGED chain
  PROVE  \A g \in Devices : Whole(chain'[g]) /\ Begins(chain[g], chain'[g])
BY BeginsItself DEF HandoffInv, ChainOK

LEMMA JournalsLater ==
  ASSUME HandoffInv, Advances, NEW h \in Devices, NEW k, Wrote(h, k),
         \A o \in DOMAIN k : RecordOK(h, o, k[o])'
  PROVE  \A g \in Devices : JournalOK(g)'
<1> SUFFICES ASSUME NEW g \in Devices PROVE JournalOK(g)'
  OBVIOUS
<1>1. journal'[g] \in lasting'[g] /\ (unsaved'[g] # None => unsaved'[g] \in lasting'[g])
  BY DEF Wrote, HandoffInv, JournalOK
<1>2. ASSUME NEW j \in lasting'[g], NEW o \in DOMAIN j PROVE RecordOK(g, o, j[o])'
  <2>1. CASE g = h /\ j = k BY <2>1
  <2>2. CASE j \in lasting[g]
    <3>1. RecordOK(g, o, j[o]) BY <2>2 DEF HandoffInv, JournalOK
    <3> QED BY <3>1, RecordLater
  <2> QED BY <2>1, <2>2 DEF Wrote
<1> QED BY <1>1, <1>2 DEF JournalOK

(* The records of the old journal, and one that was put.                   *)
LEMMA OldRecords ==
  ASSUME HandoffInv, Advances, NEW h \in Devices, NEW j, j = journal[h], NEW o \in DOMAIN j
  PROVE  RecordOK(h, o, j[o])'
<1>1. RecordOK(h, o, j[o]) BY DEF HandoffInv, JournalOK
<1> QED BY <1>1, RecordLater

LEMMA PutRecords ==
  ASSUME HandoffInv, Advances, NEW h \in Devices, NEW i, NEW p \in Phases,
         NEW k, k = Put(h, i, p),
         RecordOK(h, i.operation, [intent |-> i, phase |-> p])'
  PROVE  \A o \in DOMAIN k : RecordOK(h, o, k[o])'
<1> SUFFICES ASSUME NEW o \in DOMAIN k, NEW e, e = k[o] PROVE RecordOK(h, o, e)'
  OBVIOUS
<1>1. CASE o = i.operation
  <2>1. e = [intent |-> i, phase |-> p] BY <1>1 DEF Put
  <2> QED BY <1>1, <2>1
<1>2. CASE o # i.operation
  <2>1. o \in DOMAIN journal[h] /\ e = journal[h][o] BY <1>2 DEF Put
  <2> QED BY <2>1, OldRecords
<1> QED BY <1>1, <1>2

(* The archives stay as they are, or one of them takes another.            *)
GoOn ==
  /\ DOMAIN chain' = Devices /\ UNCHANGED <<doubt, worker>>
  /\ \A g \in Devices : Whole(chain'[g]) /\ Begins(chain[g], chain'[g])
  /\ \A g \in Devices :
       chain'[g] = chain[g] \/ (doubt[g] = None /\ \E h \in Devices : chain'[g] = chain[h])

LEMMA StayGoesOn ==
  ASSUME HandoffInv, UNCHANGED <<archive, worker>>
  PROVE  GoOn
BY ChainsStay DEF HandoffInv, Domains, archive, GoOn

LEMMA OfferGoes ==
  ASSUME HandoffInv, NEW h \in Devices, NEW g \in Devices, Offer(h, g), UNCHANGED worker
  PROVE  GoOn
<1>1. /\ chain' = [chain EXCEPT ![g] = chain[h]] /\ DOMAIN chain = Devices
      /\ doubt[g] = None /\ UNCHANGED doubt
      /\ ~Forks(chain[g], chain[h]) /\ Len(chain[h]) > Len(chain[g])
  BY DEF Offer, HandoffInv, Domains
<1>2. \A d \in Devices : Whole(chain[d]) BY DEF HandoffInv, ChainOK
<1>3. Begins(chain[g], chain[h]) BY <1>1, <1>2, OfferedGoesOn
<1>4. ASSUME NEW d \in Devices PROVE Whole(chain'[d]) /\ Begins(chain[d], chain'[d])
  <2>1. CASE d = g BY <1>1, <1>2, <1>3, <2>1
  <2>2. CASE d # g BY <1>1, <1>2, <2>2, BeginsItself
  <2> QED BY <2>1, <2>2
<1> QED BY <1>1, <1>4 DEF GoOn

LEMMA GoesOn ==
  ASSUME HandoffInv, Advances, GoOn
  PROVE  /\ \A g \in Devices : ChainOK(g)' /\ WorkerOK(g)'
         /\ \A g \in Devices : Working(g) => Working(g)'
<1>1. ASSUME NEW g \in Devices PROVE ChainOK(g)'
  <2>1. CASE chain'[g] = chain[g] BY <2>1, ChainLater DEF GoOn
  <2>2. ASSUME NEW h \in Devices, chain'[g] = chain[h], doubt[g] = None PROVE ChainOK(g)'
    <3>1. PICK c : c = chain[h] OBVIOUS
    <3>2. Decided(c) BY <3>1 DEF HandoffInv, ChainOK
    <3>3. Decided(c)' BY <3>2, DecidedLater
    <3>4. c = chain'[g] /\ doubt'[g] = None BY <2>2, <3>1 DEF GoOn
    <3> QED BY <3>3, <3>4 DEF ChainOK, GoOn
  <2> QED BY <2>1, <2>2 DEF GoOn
<1>2. \A g \in Devices : WorkerOK(g)' BY WorkersLater DEF GoOn
<1> QED BY <1>1, <1>2 DEF Working, GoOn

(* A step that writes one journal while archives go on.                    *)
LEMMA PutStep ==
  ASSUME HandoffInv, NEW h \in Devices, NEW i, NEW p \in Phases,
         NEW k, k = Put(h, i, p), Wrote(h, k),
         i.operation \notin DOMAIN journal[h] \/ (Has(h, i) /\ p \in After[Phase(h, i)]),
         asked \subseteq asked', agreed \subseteq agreed', GoOn,
         Advances => RecordOK(h, i.operation, [intent |-> i, phase |-> p])'
  PROVE  /\ Advances
         /\ \A g \in Devices : JournalOK(g)' /\ ChainOK(g)' /\ WorkerOK(g)'
         /\ \A g \in Devices : Working(g) => Working(g)'
<1>1. Follows(journal[h], k) BY PutIs
<1>2. Advances BY <1>1, WriteAdvances DEF GoOn
<1>3. \A o \in DOMAIN k : RecordOK(h, o, k[o])' BY <1>2, PutRecords
<1>4. \A g \in Devices : JournalOK(g)' BY <1>2, <1>3, JournalsLater
<1> QED BY <1>2, <1>4, GoesOn

(* The same of a journal that is written as it was.                        *)
LEMMA SameStep ==
  ASSUME HandoffInv, NEW h \in Devices, NEW k, k = journal[h], Wrote(h, k),
         asked \subseteq asked', agreed \subseteq agreed', GoOn
  PROVE  /\ Advances
         /\ \A g \in Devices : JournalOK(g)' /\ ChainOK(g)' /\ WorkerOK(g)'
         /\ \A g \in Devices : Working(g) => Working(g)'
<1>1. Follows(journal[h], k) BY FollowsItself
<1>2. Advances BY <1>1, WriteAdvances DEF GoOn
<1>3. ASSUME NEW o \in DOMAIN k, NEW e, e = k[o] PROVE RecordOK(h, o, e)'
  <2>1. k \in lasting[h] BY DEF HandoffInv, JournalOK
  <2>2. RecordOK(h, o, e) BY <1>3, <2>1 DEF HandoffInv, JournalOK
  <2> QED BY <1>2, <2>2, RecordLater
<1>4. \A g \in Devices : JournalOK(g)' BY <1>2, <1>3, JournalsLater
<1> QED BY <1>2, <1>4, GoesOn

-----------------------------------------------------------------------------
(* Calls.                                                                  *)

LEMMA CallsStay ==
  ASSUME HandoffInv, Advances, UNCHANGED call, \A h \in Devices : Working(h) => Working(h)'
  PROVE  \A c \in Drivers : CallKept(c)'
<1> SUFFICES ASSUME NEW c \in Drivers PROVE CallKept(c)'
  OBVIOUS
<1> DEFINE S == {}
<1>1. c \notin S /\ \A d \in Drivers \ S : call'[d] = call[d] OBVIOUS
<1> HIDE DEF S
<1> QED BY <1>1, CallsLater

(* One call moves, returns or starts.                                      *)
LEMMA CallMoves ==
  ASSUME HandoffInv, Advances, NEW c \in Drivers, NEW r, call' = [call EXCEPT ![c] = r],
         r = None \/ CallOK(r)', \A h \in Devices : Working(h) => Working(h)'
  PROVE  DOMAIN call' = Drivers /\ \A d \in Drivers : CallKept(d)'
<1>1. DOMAIN call = Drivers BY DEF HandoffInv, Domains
<1>2. ASSUME NEW d \in Drivers PROVE CallKept(d)'
  <2>1. CASE d = c BY <1>1, <2>1 DEF CallKept
  <2>2. CASE d # c
    <3>1. \A b \in Drivers \ {c} : call'[b] = call[b] OBVIOUS
    <3> QED BY <2>2, <3>1, CallsLater
  <2> QED BY <2>1, <2>2
<1> QED BY <1>1, <1>2

LEMMA ReturnKeeps ==
  ASSUME HandoffInv, Advances, NEW c \in Drivers, Return(c),
         \A h \in Devices : Working(h) => Working(h)'
  PROVE  DOMAIN call' = Drivers /\ \A d \in Drivers : CallKept(d)'
<1> DEFINE r == None
<1>1. call' = [call EXCEPT ![c] = None] BY DEF Return
<1> QED BY <1>1, CallMoves

(* A call of the manager goes on.                                          *)
LEMMA GotoKeeps ==
  ASSUME HandoffInv, Advances, NEW c \in Drivers, NEW r, r = call[c], r # None,
         r.stage \notin Serves, NEW stage \in {"transfer", "record", "deliver", "status"},
         Goto(c, stage),
         stage = "transfer" => r.stage = "answered" /\ Stands(r.intent.recipient, r.intent, "consented")',
         stage = "record" => Committed(chain'[r.host], r.intent),
         \A h \in Devices : Working(h) => Working(h)'
  PROVE  DOMAIN call' = Drivers /\ \A d \in Drivers : CallKept(d)'
<1> DEFINE q == [r EXCEPT !.stage = stage, !.reply = None]
<1>1. call' = [call EXCEPT ![c] = q] BY DEF Goto, HandoffInv, Domains
<1>2. CallOK(r) BY DEF HandoffInv, CallKept
<1>3. /\ DOMAIN q = {"host", "intent", "stage", "session", "reply"}
      /\ q.host = r.host /\ q.intent = r.intent /\ q.session = r.session /\ q.stage = stage
  BY <1>2 DEF CallOK
<1> HIDE DEF q
<1>4. /\ r.intent \in asked /\ IntentOK(r.intent) /\ r.host = r.intent.manager
      /\ r.host \in Devices /\ r.intent \in asked'
  BY <1>2 DEF CallOK, HandoffInv, IntentOK, Advances
<1>5. Remembers(q.host, q.intent)' BY <1>2, <1>3, <1>4, RemembersLater DEF CallOK
<1>6. q.session /\ q.stage \in Asks \cup {"transfer"} => Working(q.host)'
  BY <1>2, <1>3, <1>4 DEF CallOK, Asks
<1>7. q.host = IF q.stage \in Serves THEN q.intent.recipient ELSE q.intent.manager
  BY <1>3, <1>4 DEF Serves
<1>8. q.stage \notin {"answered", "source_answered", "status_answered"} BY <1>3
<1>9. CallOK(q)' BY <1>3, <1>4, <1>5, <1>6, <1>7, <1>8 DEF CallOK
<1> QED BY <1>1, <1>9, CallMoves

(* The workers that stay what they are.                                    *)
LEMMA WorkersWork ==
  ASSUME UNCHANGED worker
  PROVE  \A h \in Devices : Working(h) => Working(h)'
BY DEF Working

-----------------------------------------------------------------------------
(* The steps.                                                              *)

(* The parts of the invariant in the next state.                           *)
LEMMA PartsKeep ==
  ASSUME Domains', \A i \in asked' : IntentOK(i),
         \A h \in Devices : JournalOK(h)' /\ ChainOK(h)' /\ WorkerOK(h)',
         \A c \in Drivers : CallKept(c)', ToldOK', RefusedOK'
  PROVE  HandoffInv'
BY DEF HandoffInv, IntentOK

LEMMA SettledStep ==
  ASSUME HandoffInv, NEW h \in Devices, NEW k, Wrote(h, k),
         \A g \in Devices : JournalOK(g)' /\ ChainOK(g)' /\ WorkerOK(g)',
         GoOn, \A i \in asked' : IntentOK(i),
         DOMAIN call' = Drivers, \A c \in Drivers : CallKept(c)',
         DOMAIN told' = Devices, \A g \in Devices : DOMAIN told'[g] = Operations,
         ToldOK', RefusedOK'
  PROVE  HandoffInv'
<1>1. Domains' BY DEF HandoffInv, Domains, Wrote, GoOn
<1> QED BY <1>1, PartsKeep

(* A write after which nothing is left to see but calls.          *)
LEMMA QuietStep ==
  ASSUME HandoffInv, Advances, NEW h \in Devices, NEW k, Wrote(h, k),
         \A g \in Devices : JournalOK(g)' /\ ChainOK(g)' /\ WorkerOK(g)',
         GoOn, \A i \in asked' : IntentOK(i),
         DOMAIN call' = Drivers, \A c \in Drivers : CallKept(c)',
         UNCHANGED told, UNCHANGED refused
  PROVE  HandoffInv'
<1>1. DOMAIN told' = Devices /\ \A g \in Devices : DOMAIN told'[g] = Operations
  BY DEF HandoffInv, Domains
<1>2. ToldOK' /\ RefusedOK' BY ToldLater, RefusedLater
<1> QED BY <1>1, <1>2, SettledStep

LEMMA ReportKeeps ==
  ASSUME HandoffInv, Advances, NEW h \in Devices, NEW i, NEW p \in Phases,
         i.operation \in Operations, Report(h, i, p), Stands(h, i, p)'
  PROVE  /\ DOMAIN told' = Devices /\ \A g \in Devices : DOMAIN told'[g] = Operations
         /\ ToldOK'
<1> DEFINE e == [intent |-> i, phase |-> p]
<1>1. told' = [told EXCEPT ![h][i.operation] = e] BY DEF Report
<1>2. e.intent = i /\ e.phase = p OBVIOUS
<1> HIDE DEF e
<1>3. DOMAIN told = Devices /\ \A g \in Devices : DOMAIN told[g] = Operations
  BY DEF HandoffInv, Domains
<1>4. DOMAIN told' = Devices /\ \A g \in Devices : DOMAIN told'[g] = Operations
  BY <1>1, <1>3
<1>5. ASSUME NEW g \in Devices, NEW o \in Operations, NEW t, t = told'[g][o], t # None
      PROVE  t.intent.operation = o /\ t.phase \in Phases /\ Stands(g, t.intent, t.phase)'
  <2>1. CASE g = h /\ o = i.operation
    <3>1. t = e BY <1>1, <1>3, <1>5, <2>1
    <3> QED BY <1>2, <2>1, <3>1
  <2>2. CASE ~(g = h /\ o = i.operation)
    <3>1. t = told[g][o] BY <1>1, <1>3, <1>5, <2>2
    <3>2. t.intent.operation = o /\ t.phase \in Phases /\ Stands(g, t.intent, t.phase)
      BY <1>5, <3>1 DEF HandoffInv, ToldOK
    <3> QED BY <3>2, StandsLater
  <2> QED BY <2>1, <2>2
<1> QED BY <1>4, <1>5 DEF ToldOK

(* What a step finds.                                                      *)
LEMMA RecordNamed ==
  ASSUME HandoffInv, NEW h \in Devices
  PROVE  \A o \in DOMAIN journal[h] : journal[h][o].intent.operation = o /\ o \in Operations
<1> SUFFICES ASSUME NEW o \in DOMAIN journal[h]
             PROVE  journal[h][o].intent.operation = o /\ o \in Operations
  OBVIOUS
<1>1. RecordOK(h, o, journal[h][o]) BY DEF HandoffInv, JournalOK
<1> QED BY <1>1 DEF RecordOK, HandoffInv, IntentOK

LEMMA RecordFound ==
  ASSUME HandoffInv, NEW h \in Devices, NEW o, o \in DOMAIN journal[h],
         NEW i, i = journal[h][o].intent
  PROVE  /\ i \in asked /\ IntentOK(i) /\ o = i.operation /\ i.operation \in Operations /\ Has(h, i)
         /\ Phase(h, i) \in Phases /\ Phase(h, i) \in After[Phase(h, i)]
         /\ RecordOK(h, o, [intent |-> i, phase |-> Phase(h, i)])
<1>1. RecordOK(h, o, journal[h][o]) BY DEF HandoffInv, JournalOK
<1>2. i \in asked /\ o = i.operation BY <1>1 DEF RecordOK
<1>3. journal[h][o] = [intent |-> i, phase |-> Phase(h, i)] BY <1>1, <1>2 DEF RecordOK, Phase
<1>4. Phase(h, i) \in Phases BY <1>1, <1>2 DEF RecordOK, Phase, Phases
<1> QED BY <1>1, <1>2, <1>3, <1>4, AfterIs DEF HandoffInv, IntentOK, Has

LEMMA CallFound ==
  ASSUME HandoffInv, NEW c \in Drivers, NEW r, r = call[c], r # None
  PROVE  /\ CallOK(r) /\ r.intent \in asked /\ IntentOK(r.intent)
         /\ r.host \in Devices /\ Other(r.host, r.intent) \in Devices
<1>1. CallOK(r) BY DEF HandoffInv, CallKept
<1>2. r.intent \in asked /\ IntentOK(r.intent) BY <1>1 DEF CallOK, HandoffInv
<1> QED BY <1>1, <1>2 DEF CallOK, IntentOK, Other

LEMMA WorkerFound ==
  ASSUME HandoffInv, NEW h \in Devices, worker[h] # None
  PROVE  Working(h) /\ WorkerIs(h, worker[h])
BY DEF HandoffInv, WorkerOK, WorkerIs, Working

LEMMA NowStands ==
  ASSUME HandoffInv, NEW h \in Devices, NEW k, Published(h, k), NEW i,
         i.operation \in DOMAIN k, k[i.operation].intent = i
  PROVE  /\ Remembers(h, i)'
         /\ \A p \in Phases : k[i.operation].phase \in After[p] => Stands(h, i, p)'
<1>1. lasting'[h] = {k} BY DEF Published, HandoffInv, Domains
<1> QED BY <1>1 DEF Remembers, Stands

LEMMA StartKeeps ==
  ASSUME HandoffInv, Advances, NEW c \in Drivers, NEW h \in Devices, NEW i \in asked,
         NEW stage \in {"transfer", "deliver", "propose", "ask", "ask_source"},
         Start(c, h, i, stage), Remembers(h, i)',
         h = IF stage = "ask_source" THEN i.recipient ELSE i.manager,
         stage = "transfer" => Committed(chain[h], i),
         stage \in {"transfer", "propose", "ask"} => Working(h),
         \A g \in Devices : Working(g) => Working(g)'
  PROVE  DOMAIN call' = Drivers /\ \A d \in Drivers : CallKept(d)'
<1>1. PICK q : q = Driver(h, i, stage) OBVIOUS
<1>2. call' = [call EXCEPT ![c] = q] BY <1>1 DEF Start
<1>3. /\ DOMAIN q = {"host", "intent", "stage", "session", "reply"}
      /\ q.host = h /\ q.intent = i /\ q.stage = stage
  BY <1>1 DEF Driver
<1>4. q.intent \in asked' BY <1>3 DEF Advances
<1>5. q.session /\ q.stage \in Asks \cup {"transfer"} => Working(q.host)'
  BY <1>3 DEF Asks
<1>6. q.stage = "transfer" => Committed(chain'[q.host], q.intent) BY <1>3, CommittedStays
<1>7. q.host = IF q.stage \in Serves THEN q.intent.recipient ELSE q.intent.manager
  BY <1>3 DEF Serves
<1>8. q.stage \notin {"answered", "source_answered", "status_answered", "record"} BY <1>3
<1>9. Remembers(q.host, q.intent)' BY <1>3
<1>10. CallOK(q)' BY <1>3, <1>4, <1>5, <1>6, <1>7, <1>8, <1>9 DEF CallOK
<1> QED BY <1>2, <1>10, CallMoves

LEMMA ProposeKeeps ==
  ASSUME HandoffInv, NEW c \in Drivers, NEW h \in Devices, NEW r \in Devices,
         NEW o \in Operations, Propose(c, h, r, o)
  PROVE  HandoffInv'
<1>1. PICK i : i = Intent(Hash(chain[h]), o, h, r) OBVIOUS
<1>2. PICK k : k = Put(h, i, "proposed") OBVIOUS
<1>3. /\ i.operation \notin DOMAIN journal[h] /\ (Published(h, k) \/ Uncertain(h, k))
      /\ Verify(chain[h], i) /\ asked' = asked \cup {i}
      /\ UNCHANGED <<archive, worker, call, agreed, refused, told>>
  BY <1>1, <1>2 DEF Propose, Intent
<1>4. IntentOK(i) /\ i.manager = h BY <1>1, <1>3 DEF IntentOK, Intent, Verify
<1>5. "proposed" \in Phases BY DEF Phases, SourcePhases
<1>6. Advances => RecordOK(h, i.operation, [intent |-> i, phase |-> "proposed"])'
  BY <1>3, <1>4 DEF RecordOK, SourcePhases, IntentOK
<1>7. Wrote(h, k) BY <1>3, SavesWrite
<1>8. asked \subseteq asked' /\ agreed \subseteq agreed' /\ GoOn
  BY <1>3, StayGoesOn
<1>9. /\ Advances
      /\ \A g \in Devices : JournalOK(g)' /\ ChainOK(g)' /\ WorkerOK(g)'
      /\ \A g \in Devices : Working(g) => Working(g)'
  BY <1>2, <1>3, <1>5, <1>6, <1>7, <1>8, PutStep
<1>10. DOMAIN call' = Drivers /\ \A d \in Drivers : CallKept(d)'
  BY <1>3, <1>9, CallsStay DEF HandoffInv, Domains
<1>11. \A a \in asked' : IntentOK(a) BY <1>3, <1>4 DEF HandoffInv
<1> QED BY <1>3, <1>7, <1>8, <1>9, <1>10, <1>11, QuietStep

LEMMA ResumeKeeps ==
  ASSUME HandoffInv, Advances, NEW c \in Drivers, NEW h \in Devices, NEW o,
         o \in DOMAIN journal[h], NEW i, i = journal[h][o].intent,
         Published(h, journal[h]), Resume(c, h, i), UNCHANGED worker
  PROVE  /\ DOMAIN call' = Drivers /\ \A d \in Drivers : CallKept(d)'
         /\ DOMAIN told' = Devices /\ \A g \in Devices : DOMAIN told'[g] = Operations
         /\ ToldOK'
<1>1. /\ i \in asked /\ IntentOK(i) /\ o = i.operation /\ i.operation \in Operations /\ Has(h, i)
      /\ Phase(h, i) \in Phases /\ Phase(h, i) \in After[Phase(h, i)]
  BY RecordFound, RecordNamed
<1>2. PICK k : k = journal[h] OBVIOUS
<1>3. PICK p : p = Phase(h, i) OBVIOUS
<1>4. i.operation \in DOMAIN k /\ k[i.operation].intent = i /\ k[i.operation].phase = p
  BY <1>1, <1>2, <1>3 DEF Has, Phase
<1>5. Remembers(h, i)' /\ Stands(h, i, p)' BY <1>1, <1>2, <1>3, <1>4, NowStands
<1>6. \A g \in Devices : Working(g) => Working(g)' BY WorkersWork
<1>7. AtPrevious(h, i) \/ worker[h] # None => Working(h)
  BY WorkerFound DEF AtPrevious, Live
<1>8. UNCHANGED told =>
        DOMAIN told' = Devices /\ (\A g \in Devices : DOMAIN told'[g] = Operations) /\ ToldOK'
  BY ToldLater DEF HandoffInv, Domains
<1>9. ASSUME UNCHANGED told,
             NEW stage \in {"transfer", "deliver", "propose", "ask", "ask_source"},
             Start(c, h, i, stage),
             h = IF stage = "ask_source" THEN i.recipient ELSE i.manager,
             stage = "transfer" => Committed(chain[h], i),
             stage \in {"transfer", "propose", "ask"} => Working(h)
      PROVE  /\ DOMAIN call' = Drivers /\ \A d \in Drivers : CallKept(d)'
             /\ DOMAIN told' = Devices /\ \A g \in Devices : DOMAIN told'[g] = Operations
             /\ ToldOK'
  BY <1>1, <1>5, <1>6, <1>8, <1>9, StartKeeps
<1>10. CASE h = i.recipient /\ Start(c, h, i, "ask_source") /\ UNCHANGED told
  BY <1>9, <1>10
<1>11. CASE h = i.manager /\ Start(c, h, i, "deliver") /\ UNCHANGED told
  BY <1>9, <1>11
<1>12. CASE /\ h = i.manager /\ Committed(chain[h], i) /\ worker[h] # None
            /\ Start(c, h, i, "transfer") /\ UNCHANGED told
  BY <1>7, <1>9, <1>12
<1>13. CASE /\ h = i.manager
            /\ AtPrevious(h, i) \/ (worker[h] # None /\ worker[h].pending # None)
            /\ Start(c, h, i, IF AtPrevious(h, i) THEN "propose" ELSE "ask") /\ UNCHANGED told
  <2>1. CASE AtPrevious(h, i) BY <1>7, <1>9, <1>13, <2>1
  <2>2. CASE ~AtPrevious(h, i) BY <1>7, <1>9, <1>13, <2>2
  <2> QED BY <2>1, <2>2
<1>14. CASE UNCHANGED call /\ Report(h, i, p)
  <2>1. DOMAIN call' = Drivers /\ \A d \in Drivers : CallKept(d)'
    BY <1>6, <1>14, CallsStay DEF HandoffInv, Domains
  <2> QED BY <1>1, <1>3, <1>5, <1>14, <2>1, ReportKeeps
<1> QED BY <1>3, <1>10, <1>11, <1>12, <1>13, <1>14 DEF Resume

LEMMA RetryKeeps ==
  ASSUME HandoffInv, NEW c \in Drivers, NEW h \in Devices, NEW o \in Operations, Retry(c, h, o)
  PROVE  HandoffInv'
<1>1. PICK i : i = journal[h][o].intent OBVIOUS
<1>2. PICK k : k = journal[h] OBVIOUS
<1>3. /\ o \in DOMAIN journal[h] /\ UNCHANGED <<archive, worker, users>>
      /\ \/ Published(h, k) /\ Resume(c, h, i)
         \/ Uncertain(h, k) /\ UNCHANGED <<call, told>>
  BY <1>1, <1>2 DEF Retry
<1>4. Wrote(h, k) /\ GoOn /\ asked \subseteq asked' /\ agreed \subseteq agreed'
  BY <1>3, SavesWrite, StayGoesOn DEF users
<1>5. /\ Advances
      /\ \A g \in Devices : JournalOK(g)' /\ ChainOK(g)' /\ WorkerOK(g)'
      /\ \A g \in Devices : Working(g) => Working(g)'
  BY <1>2, <1>3, <1>4, SameStep
<1>6. \A a \in asked' : IntentOK(a) BY <1>3 DEF HandoffInv, users
<1>7. CASE Published(h, k) /\ Resume(c, h, i)
  <2>1. /\ DOMAIN call' = Drivers /\ \A d \in Drivers : CallKept(d)'
        /\ DOMAIN told' = Devices /\ \A g \in Devices : DOMAIN told'[g] = Operations
        /\ ToldOK'
    BY <1>1, <1>2, <1>3, <1>5, <1>7, ResumeKeeps
  <2>2. RefusedOK' BY <1>3, <1>5, RefusedLater DEF users
  <2> QED BY <1>3, <1>4, <1>5, <1>6, <2>1, <2>2, SettledStep
<1>8. CASE Uncertain(h, k) /\ UNCHANGED <<call, told>>
  <2>1. DOMAIN call' = Drivers /\ \A d \in Drivers : CallKept(d)'
    BY <1>5, <1>8, CallsStay DEF HandoffInv, Domains
  <2>2. UNCHANGED refused BY <1>3 DEF users
  <2> QED BY <1>3, <1>4, <1>5, <1>6, <1>8, <2>1, <2>2, QuietStep
<1> QED BY <1>3, <1>7, <1>8

CallsOK == DOMAIN call = Drivers /\ \A c \in Drivers : CallKept(c)
StayAtWork == \A g \in Devices : Working(g) => Working(g)'

(* A step that puts one record.                                            *)
LEMMA PutKeeps ==
  ASSUME HandoffInv, NEW h \in Devices, NEW i, NEW p \in Phases,
         Published(h, Put(h, i, p)) \/ Uncertain(h, Put(h, i, p)),
         i.operation \notin DOMAIN journal[h] \/ (Has(h, i) /\ p \in After[Phase(h, i)]),
         UNCHANGED asked, agreed \subseteq agreed', GoOn,
         Advances => RecordOK(h, i.operation, [intent |-> i, phase |-> p])',
         Advances /\ StayAtWork => CallsOK',
         UNCHANGED told, Advances => RefusedOK'
  PROVE  HandoffInv'
<1>1. PICK k : k = Put(h, i, p) OBVIOUS
<1>2. Wrote(h, k) BY <1>1, SavesWrite
<1>3. /\ Advances
      /\ \A g \in Devices : JournalOK(g)' /\ ChainOK(g)' /\ WorkerOK(g)'
      /\ StayAtWork
  BY <1>1, <1>2, PutStep DEF StayAtWork
<1>4. ToldOK' BY <1>3, ToldLater
<1>5. DOMAIN told' = Devices /\ \A g \in Devices : DOMAIN told'[g] = Operations
  BY DEF HandoffInv, Domains
<1>6. DOMAIN call' = Drivers /\ \A c \in Drivers : CallKept(c)' BY <1>3 DEF CallsOK
<1>7. \A a \in asked' : IntentOK(a) BY DEF HandoffInv
<1> QED BY <1>2, <1>3, <1>4, <1>5, <1>6, <1>7, SettledStep

(* A step that leaves every record as it is.                               *)
LEMMA SameKeeps ==
  ASSUME HandoffInv, NEW h \in Devices, Wrote(h, journal[h]), UNCHANGED users, GoOn,
         Advances /\ StayAtWork => CallsOK',
         UNCHANGED told \/ (Advances => /\ DOMAIN told' = Devices
                                        /\ \A g \in Devices : DOMAIN told'[g] = Operations
                                        /\ ToldOK')
  PROVE  HandoffInv'
<1>1. PICK k : k = journal[h] OBVIOUS
<1>2. Wrote(h, k) BY <1>1
<1>3. /\ Advances
      /\ \A g \in Devices : JournalOK(g)' /\ ChainOK(g)' /\ WorkerOK(g)'
      /\ StayAtWork
  BY <1>1, <1>2, SameStep DEF StayAtWork, users
<1>4. DOMAIN told' = Devices /\ (\A g \in Devices : DOMAIN told'[g] = Operations) /\ ToldOK'
  BY <1>3, ToldLater DEF HandoffInv, Domains
<1>5. RefusedOK' BY <1>3, RefusedLater DEF users
<1>6. DOMAIN call' = Drivers /\ \A c \in Drivers : CallKept(c)' BY <1>3 DEF CallsOK
<1>7. \A a \in asked' : IntentOK(a) BY DEF HandoffInv, users
<1> QED BY <1>2, <1>3, <1>4, <1>5, <1>6, <1>7, SettledStep

LEMMA CallsAsWere ==
  ASSUME HandoffInv, Advances, StayAtWork, UNCHANGED call
  PROVE  CallsOK'
BY CallsStay DEF HandoffInv, Domains, CallsOK, StayAtWork

LEMMA CallReturns ==
  ASSUME HandoffInv, Advances, StayAtWork, NEW c \in Drivers, Return(c)
  PROVE  CallsOK'
BY ReturnKeeps DEF CallsOK, StayAtWork

LEMMA AcceptKeeps ==
  ASSUME HandoffInv, NEW c \in Drivers, NEW h \in Devices, NEW o \in Operations, Accept(c, h, o)
  PROVE  HandoffInv'
<1>1. PICK i : i = journal[h][o].intent OBVIOUS
<1>2. PICK p : p = "requested" OBVIOUS
<1>3. /\ o \in DOMAIN journal[h] /\ h = i.recipient /\ Phase(h, i) = "waiting" /\ AtPrevious(h, i)
      /\ \/ Published(h, Put(h, i, p)) /\ Start(c, h, i, "ask_source")
         \/ Uncertain(h, Put(h, i, p)) /\ UNCHANGED call
      /\ agreed' = agreed \cup {i}
      /\ UNCHANGED <<archive, worker, asked, refused, told>>
  BY <1>1, <1>2 DEF Accept
<1>4. i \in asked /\ IntentOK(i) /\ o = i.operation /\ Has(h, i)
  BY <1>1, <1>3, RecordFound, RecordNamed
<1>5. p \in Phases /\ p \in After[Phase(h, i)] BY <1>2, <1>3 DEF Phases, TargetPhases, After
<1>6. ASSUME Advances PROVE RecordOK(h, i.operation, [intent |-> i, phase |-> p])'
  BY <1>2, <1>3, <1>4 DEF RecordOK, TargetPhases, IntentOK
<1>7. ASSUME Advances, StayAtWork PROVE CallsOK'
  <2>1. CASE Published(h, Put(h, i, p)) /\ Start(c, h, i, "ask_source")
    <3>1. PICK k : k = Put(h, i, p) OBVIOUS
    <3>2. i.operation \in DOMAIN k /\ k[i.operation].intent = i BY <3>1 DEF Put
    <3>3. Remembers(h, i)' BY <2>1, <3>1, <3>2, NowStands
    <3> QED BY <1>3, <1>4, <1>7, <2>1, <3>3, StartKeeps DEF CallsOK, StayAtWork
  <2>2. CASE UNCHANGED call BY <1>7, <2>2, CallsAsWere
  <2> QED BY <1>3, <2>1, <2>2
<1>8. Advances => RefusedOK' BY <1>3, RefusedLater
<1>9. GoOn BY <1>3, StayGoesOn
<1> QED BY <1>3, <1>4, <1>5, <1>6, <1>7, <1>8, <1>9, PutKeeps

LEMMA RejectKeeps ==
  ASSUME HandoffInv, NEW c \in Drivers, NEW h \in Devices, NEW o \in Operations, Reject(c, h, o)
  PROVE  HandoffInv'
<1>1. PICK i : i = journal[h][o].intent OBVIOUS
<1>2. PICK p : p = "rejected" OBVIOUS
<1>3. /\ o \in DOMAIN journal[h] /\ h = i.recipient /\ Phase(h, i) \in {"waiting", "rejected"}
      /\ \/ Published(h, Put(h, i, p)) /\ refused' = refused \cup {i}
         \/ Uncertain(h, Put(h, i, p)) /\ UNCHANGED refused
      /\ UNCHANGED <<archive, worker, call, asked, agreed, told>>
  BY <1>1, <1>2 DEF Reject
<1>4. i \in asked /\ IntentOK(i) /\ o = i.operation /\ Has(h, i)
  BY <1>1, <1>3, RecordFound, RecordNamed
<1>5. p \in Phases /\ p \in After[Phase(h, i)] BY <1>2, <1>3 DEF Phases, TargetPhases, After
<1>6. ASSUME Advances PROVE RecordOK(h, i.operation, [intent |-> i, phase |-> p])'
  BY <1>2, <1>3, <1>4 DEF RecordOK, TargetPhases, IntentOK
<1>7. ASSUME Advances PROVE RefusedOK'
  <2>1. CASE Published(h, Put(h, i, p)) /\ refused' = refused \cup {i}
    <3>1. PICK k : k = Put(h, i, p) OBVIOUS
    <3>2. /\ i.operation \in DOMAIN k /\ k[i.operation].intent = i
          /\ k[i.operation].phase \in After[p]
      BY <1>2, <3>1 DEF Put, After
    <3>3. Stands(h, i, "rejected")' BY <1>2, <1>5, <2>1, <3>1, <3>2, NowStands
    <3>4. ASSUME NEW a \in refused'
          PROVE  a.recipient \in Devices /\ Stands(a.recipient, a, "rejected")'
      <4>1. CASE a = i BY <1>3, <3>3, <4>1
      <4>2. CASE a \in refused
        <5>1. a.recipient \in Devices /\ Stands(a.recipient, a, "rejected")
          BY <4>2 DEF HandoffInv, RefusedOK
        <5> QED BY <1>2, <1>5, <1>7, <5>1, StandsLater
      <4> QED BY <2>1, <4>1, <4>2
    <3> QED BY <3>4 DEF RefusedOK
  <2>2. CASE UNCHANGED refused BY <1>7, <2>2, RefusedLater
  <2> QED BY <1>3, <2>1, <2>2
<1>8. Advances /\ StayAtWork => CallsOK' BY <1>3, CallsAsWere
<1>9. GoOn BY <1>3, StayGoesOn
<1> QED BY <1>3, <1>4, <1>5, <1>6, <1>7, <1>8, <1>9, PutKeeps

LEMMA RecordAppliedKeeps ==
  ASSUME HandoffInv, NEW h \in Devices, NEW o \in Operations, RecordApplied(h, o)
  PROVE  HandoffInv'
<1>1. PICK i : i = journal[h][o].intent OBVIOUS
<1>2. PICK p : p = "completed" OBVIOUS
<1>3. /\ o \in DOMAIN journal[h] /\ h = i.recipient /\ Phase(h, i) = "consented"
      /\ Committed(chain[h], i)
      /\ Published(h, Put(h, i, p)) \/ Uncertain(h, Put(h, i, p))
      /\ UNCHANGED <<archive, worker, call, users, told>>
  BY <1>1, <1>2 DEF RecordApplied, Applies
<1>4. /\ i \in asked /\ IntentOK(i) /\ o = i.operation /\ Has(h, i)
      /\ RecordOK(h, o, [intent |-> i, phase |-> "consented"])
  BY <1>1, <1>3, RecordFound, RecordNamed
<1>5. p \in Phases /\ p \in After[Phase(h, i)] BY <1>2, <1>3 DEF Phases, TargetPhases, After
<1>6. i \in agreed BY <1>3, <1>4 DEF RecordOK
<1>7. ASSUME Advances PROVE RecordOK(h, i.operation, [intent |-> i, phase |-> p])'
  <2>1. Committed(chain'[h], i) BY <1>3, <1>7, CommittedStays
  <2>2. i \in asked' /\ i \in agreed' BY <1>4, <1>6, <1>7 DEF Advances
  <2> QED BY <1>2, <1>3, <1>4, <2>1, <2>2 DEF RecordOK, TargetPhases, IntentOK
<1>8. Advances => RefusedOK' BY <1>3, RefusedLater DEF users
<1>9. Advances /\ StayAtWork => CallsOK' BY <1>3, CallsAsWere
<1>10. UNCHANGED asked /\ agreed \subseteq agreed' /\ GoOn BY <1>3, StayGoesOn DEF users
<1> QED BY <1>3, <1>4, <1>5, <1>7, <1>8, <1>9, <1>10, PutKeeps

LEMMA ReceiveProposalKeeps ==
  ASSUME HandoffInv, NEW c \in Drivers, ReceiveProposal(c)
  PROVE  HandoffInv'
<1>1. PICK r : r = call[c] OBVIOUS
<1>2. PICK i, g : i = r.intent /\ g = Other(r.host, r.intent) OBVIOUS
<1>3. PICK p : p = "waiting" OBVIOUS
<1>4. /\ r # None /\ r.stage = "propose" /\ i.operation \notin DOMAIN journal[g]
      /\ \/ Published(g, Put(g, i, p)) /\ UNCHANGED call
         \/ Uncertain(g, Put(g, i, p)) /\ Return(c)
      /\ UNCHANGED <<archive, worker, users, told>>
  BY <1>1, <1>2, <1>3 DEF ReceiveProposal, At
<1>5. CallOK(r) /\ i \in asked /\ IntentOK(i) /\ g \in Devices
  BY <1>1, <1>2, <1>4, CallFound
<1>6. g = i.recipient BY <1>2, <1>4, <1>5 DEF CallOK, Serves, Other
<1>7. p \in Phases BY <1>3 DEF Phases, TargetPhases
<1>8. ASSUME Advances PROVE RecordOK(g, i.operation, [intent |-> i, phase |-> p])'
  <2>1. i \in asked' BY <1>5, <1>8 DEF Advances
  <2> QED BY <1>3, <1>6, <2>1 DEF RecordOK, TargetPhases
<1>9. Advances => RefusedOK' BY <1>4, RefusedLater DEF users
<1>10. Advances /\ StayAtWork => CallsOK' BY <1>4, CallsAsWere, CallReturns
<1>11. UNCHANGED asked /\ agreed \subseteq agreed' /\ GoOn BY <1>4, StayGoesOn DEF users
<1> QED BY <1>4, <1>5, <1>7, <1>8, <1>9, <1>10, <1>11, PutKeeps

LEMMA RecordConsentKeeps ==
  ASSUME HandoffInv, NEW c \in Drivers, RecordConsent(c)
  PROVE  HandoffInv'
<1>1. PICK r : r = call[c] OBVIOUS
<1>2. PICK i, h : i = r.intent /\ h = r.host OBVIOUS
<1>3. PICK p : p = "consented" OBVIOUS
<1>4. /\ r # None /\ r.stage = "source_answered"
      /\ Has(h, i) /\ Phase(h, i) \in {"requested", "consented"}
      /\ Published(h, Put(h, i, p)) \/ Uncertain(h, Put(h, i, p))
      /\ Return(c) /\ UNCHANGED <<archive, worker, users, told>>
  BY <1>1, <1>2, <1>3 DEF RecordConsent, At
<1>5. CallOK(r) /\ i \in asked /\ IntentOK(i) /\ h \in Devices
  BY <1>1, <1>2, <1>4, CallFound
<1>6. h = i.recipient BY <1>2, <1>4, <1>5 DEF CallOK, Serves
<1>7. p \in Phases /\ p \in After[Phase(h, i)] BY <1>3, <1>4 DEF Phases, TargetPhases, After
<1>8. i \in agreed
  <2>1. RecordOK(h, i.operation, journal[h][i.operation])
    BY <1>4, <1>5 DEF Has, HandoffInv, JournalOK
  <2> QED BY <1>4, <1>6, <2>1 DEF RecordOK, Has, Phase
<1>9. ASSUME Advances PROVE RecordOK(h, i.operation, [intent |-> i, phase |-> p])'
  <2>1. i \in asked' /\ i \in agreed' BY <1>5, <1>8, <1>9 DEF Advances
  <2> QED BY <1>3, <1>5, <1>6, <2>1 DEF RecordOK, TargetPhases, IntentOK
<1>10. Advances => RefusedOK' BY <1>4, RefusedLater DEF users
<1>11. Advances /\ StayAtWork => CallsOK' BY <1>4, CallReturns
<1>12. UNCHANGED asked /\ agreed \subseteq agreed' /\ GoOn BY <1>4, StayGoesOn DEF users
<1> QED BY <1>4, <1>5, <1>7, <1>9, <1>10, <1>11, <1>12, PutKeeps

LEMMA DecideKeeps ==
  ASSUME HandoffInv, NEW c \in Drivers, Decide(c)
  PROVE  HandoffInv'
<1>1. PICK r : r = call[c] OBVIOUS
<1>2. PICK i, h : i = r.intent /\ h = r.host OBVIOUS
<1>3. PICK p : p = "rejected" OBVIOUS
<1>4. /\ r # None /\ r.stage = "answered"
      /\ UNCHANGED <<archive, worker, users, told>>
  BY <1>1 DEF Decide, At
<1>5. CallOK(r) /\ i \in asked /\ IntentOK(i) /\ h \in Devices
  BY <1>1, <1>2, <1>4, CallFound
<1>6. h = i.manager BY <1>2, <1>4, <1>5 DEF CallOK, Serves
<1>7. UNCHANGED asked /\ agreed \subseteq agreed' /\ GoOn BY <1>4, StayGoesOn DEF users
<1>8. CASE Return(c) /\ UNCHANGED profile
  <2>1. Wrote(h, journal[h]) BY <1>5, <1>8, NothingWritten
  <2>2. Advances /\ StayAtWork => CallsOK' BY <1>8, CallReturns
  <2> QED BY <1>4, <1>5, <1>7, <2>1, <2>2, SameKeeps
<1>9. CASE /\ Has(h, i) /\ Phase(h, i) = "proposed" /\ Return(c)
           /\ Published(h, Put(h, i, p)) \/ Uncertain(h, Put(h, i, p))
  <2>1. p \in Phases /\ p \in After[Phase(h, i)] BY <1>3, <1>9 DEF Phases, SourcePhases, After
  <2>2. ASSUME Advances PROVE RecordOK(h, i.operation, [intent |-> i, phase |-> p])'
    <3>1. i \in asked' BY <1>5, <2>2 DEF Advances
    <3> QED BY <1>3, <1>5, <1>6, <3>1 DEF RecordOK, SourcePhases, IntentOK
  <2>3. Advances => RefusedOK' BY <1>4, RefusedLater DEF users
  <2>4. Advances /\ StayAtWork => CallsOK' BY <1>9, CallReturns
  <2> QED BY <1>4, <1>5, <1>7, <1>9, <2>1, <2>2, <2>3, <2>4, PutKeeps
<1>10. CASE r.reply.decision = "consented" /\ Goto(c, "transfer") /\ UNCHANGED profile
  <2>1. Wrote(h, journal[h]) BY <1>5, <1>10, NothingWritten
  <2>2. Stands(i.recipient, i, "consented")
    BY <1>2, <1>4, <1>5, <1>6, <1>10 DEF CallOK, Other, IntentOK
  <2>3. ASSUME Advances, StayAtWork PROVE CallsOK'
    <3>1. "consented" \in Phases BY DEF Phases, TargetPhases
    <3>2. Stands(i.recipient, i, "consented")'
      BY <1>5, <2>2, <2>3, <3>1, StandsLater DEF IntentOK
    <3>3. r.stage \notin Serves BY <1>4 DEF Serves
    <3> QED BY <1>1, <1>2, <1>4, <1>10, <2>3, <3>2, <3>3, GotoKeeps DEF CallsOK, StayAtWork
  <2> QED BY <1>4, <1>5, <1>7, <2>1, <2>3, SameKeeps
<1> QED BY <1>1, <1>2, <1>3, <1>8, <1>9, <1>10 DEF Decide

LEMMA AbortKeeps ==
  ASSUME HandoffInv, NEW c \in Drivers, Abort(c)
  PROVE  HandoffInv'
<1>1. call[c] # None /\ Return(c) /\ UNCHANGED <<archive, worker, profile, users, told>>
  BY DEF Abort
<1>2. PICK h \in Devices : TRUE BY <1>1, CallFound
<1>3. Wrote(h, journal[h]) BY <1>1, NothingWritten
<1>4. GoOn BY <1>1, StayGoesOn
<1>5. Advances /\ StayAtWork => CallsOK' BY <1>1, CallReturns
<1> QED BY <1>1, <1>3, <1>4, <1>5, SameKeeps

LEMMA RepublishKeeps ==
  ASSUME HandoffInv, NEW h \in Devices, Republish(h)
  PROVE  HandoffInv'
<1>1. /\ unsaved[h] # None
      /\ journal' = [journal EXCEPT ![h] = unsaved[h]]
      /\ lasting' = [lasting EXCEPT ![h] = {unsaved[h]}]
      /\ unsaved' = [unsaved EXCEPT ![h] = None]
      /\ UNCHANGED <<archive, worker, call, users, told>>
  BY DEF Republish
<1>2. unsaved[h] \in lasting[h] BY <1>1 DEF HandoffInv, JournalOK
<1>3. Wrote(h, journal[h]) BY <1>1, <1>2 DEF Wrote, HandoffInv, Domains
<1>4. GoOn BY <1>1, StayGoesOn
<1>5. Advances /\ StayAtWork => CallsOK' BY <1>1, CallsAsWere
<1> QED BY <1>1, <1>3, <1>4, <1>5, SameKeeps

(* The record of the manager moves on, or stays.                           *)
LEMMA AdvancedKeeps ==
  ASSUME HandoffInv, NEW c \in Drivers, NEW r, r = call[c], r # None,
         NEW i, NEW h, i = r.intent, h = r.host, h = i.manager, Has(h, i),
         NEW from, NEW p \in {"committed", "awaiting", "completed"},
         \A q \in from : p \in After[q],
         Published(h, Advanced(c, from, p)) \/ Uncertain(h, Advanced(c, from, p)),
         GoOn, UNCHANGED users, UNCHANGED told,
         Committed(chain[h], i),
         p = "completed" =>
           Committed(chain[i.recipient], i) /\ Stands(i.recipient, i, "completed"),
         Advances /\ StayAtWork => CallsOK'
  PROVE  HandoffInv'
<1>1. i \in asked /\ IntentOK(i) /\ h \in Devices BY CallFound
<1>2. CASE Phase(h, i) \in from
  <2>1. Advanced(c, from, p) = Put(h, i, p) BY <1>2 DEF Advanced
  <2>2. p \in Phases /\ p \in After[Phase(h, i)] BY <1>2 DEF Phases, SourcePhases
  <2>3. ASSUME Advances PROVE RecordOK(h, i.operation, [intent |-> i, phase |-> p])'
    <3>1. i \in asked' /\ Committed(chain'[h], i) BY <1>1, <2>3, CommittedStays DEF Advances
    <3>2. i.recipient \in Devices /\ i.recipient # h BY <1>1 DEF IntentOK
    <3>3. p = "completed" =>
            Committed(chain'[i.recipient], i) /\ Stands(i.recipient, i, "completed")'
      BY <2>2, <2>3, <3>2, CommittedStays, StandsLater
    <3> QED BY <1>1, <3>1, <3>2, <3>3 DEF RecordOK, SourcePhases
  <2>4. Advances => RefusedOK' BY RefusedLater DEF users
  <2>5. UNCHANGED asked /\ agreed \subseteq agreed' BY DEF users
  <2>6. Published(h, Put(h, i, p)) \/ Uncertain(h, Put(h, i, p)) BY <2>1
  <2> QED BY <1>1, <2>2, <2>3, <2>4, <2>5, <2>6, PutKeeps
<1>3. CASE Phase(h, i) \notin from
  <2>1. Advanced(c, from, p) = journal[h] BY <1>3 DEF Advanced
  <2>2. Wrote(h, journal[h]) BY <1>1, <2>1, SavesWrite
  <2> QED BY <1>1, <2>2, SameKeeps
<1> QED BY <1>2, <1>3

LEMMA RecordCommittedKeeps ==
  ASSUME HandoffInv, NEW c \in Drivers, RecordCommitted(c)
  PROVE  HandoffInv'
<1>1. PICK r : r = call[c] OBVIOUS
<1>2. PICK i, h : i = r.intent /\ h = r.host OBVIOUS
<1>3. PICK from : from = {"proposed"} OBVIOUS
<1>4. PICK p : p = "committed" OBVIOUS
<1>5. /\ r # None /\ r.stage = "record" /\ Has(h, i)
      /\ UNCHANGED <<archive, worker, users, told>>
      /\ \/ Published(h, Advanced(c, from, p)) /\ Goto(c, "deliver")
         \/ Published(h, journal[h]) /\ Return(c)
         \/ Uncertain(h, Advanced(c, from, p)) /\ Return(c)
  BY <1>1, <1>2, <1>3, <1>4 DEF RecordCommitted, At, AdvanceUncertain
<1>6. CallOK(r) /\ i \in asked /\ IntentOK(i) /\ h \in Devices
  BY <1>1, <1>2, <1>5, CallFound
<1>7. h = i.manager /\ Committed(chain[h], i) BY <1>2, <1>5, <1>6 DEF CallOK, Serves
<1>8. p \in {"committed", "awaiting", "completed"} /\ p # "completed" /\ \A q \in from : p \in After[q]
  BY <1>3, <1>4 DEF After
<1>9. GoOn /\ UNCHANGED users /\ UNCHANGED told BY <1>5, StayGoesOn
<1>10. r.stage \notin Serves BY <1>5 DEF Serves
<1>11. Goto(c, "deliver") => (Advances /\ StayAtWork => CallsOK')
  BY <1>1, <1>5, <1>10, GotoKeeps DEF CallsOK, StayAtWork
<1>12. Return(c) => (Advances /\ StayAtWork => CallsOK') BY CallReturns
<1>13. CASE Published(h, journal[h]) /\ Return(c)
  <2>1. Wrote(h, journal[h]) BY <1>6, <1>13, SavesWrite
  <2> QED BY <1>6, <1>9, <1>12, <1>13, <2>1, SameKeeps
<1>14. CASE \/ Published(h, Advanced(c, from, p)) /\ Goto(c, "deliver")
            \/ Uncertain(h, Advanced(c, from, p)) /\ Return(c)
  BY <1>1, <1>2, <1>5, <1>7, <1>8, <1>9, <1>11, <1>12, <1>14, AdvancedKeeps
<1> QED BY <1>5, <1>13, <1>14

LEMMA DeliverKeeps ==
  ASSUME HandoffInv, NEW c \in Drivers, Deliver(c)
  PROVE  HandoffInv'
<1>1. PICK r : r = call[c] OBVIOUS
<1>2. PICK i, h, g : i = r.intent /\ h = r.host /\ g = Other(r.host, r.intent) OBVIOUS
<1>3. PICK from : from = {"committed"} OBVIOUS
<1>4. PICK p : p = "awaiting" OBVIOUS
<1>5. /\ r # None /\ r.stage = "deliver" /\ Has(h, i)
      /\ Offer(h, g) \/ UNCHANGED archive
      /\ UNCHANGED <<worker, users, told>>
      /\ \/ Published(h, Advanced(c, from, p)) /\ Goto(c, "status")
         \/ Uncertain(h, Advanced(c, from, p)) /\ Return(c)
  BY <1>1, <1>2, <1>3, <1>4 DEF Deliver, At, AdvanceUncertain
<1>6. CallOK(r) /\ i \in asked /\ IntentOK(i) /\ h \in Devices /\ g \in Devices
  BY <1>1, <1>2, <1>5, CallFound
<1>7. h = i.manager BY <1>2, <1>5, <1>6 DEF CallOK, Serves
<1>8. GoOn BY <1>5, <1>6, OfferGoes, StayGoesOn
<1>9. r.stage \notin Serves BY <1>5 DEF Serves
<1>10. Goto(c, "status") => (Advances /\ StayAtWork => CallsOK')
  BY <1>1, <1>5, <1>9, GotoKeeps DEF CallsOK, StayAtWork
<1>11. Return(c) => (Advances /\ StayAtWork => CallsOK') BY CallReturns
<1>12. p \in {"committed", "awaiting", "completed"} /\ p # "completed" /\ \A q \in from : p \in After[q]
  BY <1>3, <1>4 DEF After
<1>13. CASE Phase(h, i) \in from
  <2>1. RecordOK(h, i.operation, journal[h][i.operation])
    BY <1>5, <1>6 DEF Has, HandoffInv, JournalOK
  <2>2. Committed(chain[h], i) BY <1>3, <1>5, <1>13, <2>1 DEF RecordOK, Has, Phase
  <2> QED BY <1>1, <1>2, <1>5, <1>7, <1>8, <1>10, <1>11, <1>12, <2>2, AdvancedKeeps
<1>14. CASE Phase(h, i) \notin from
  <2>1. Advanced(c, from, p) = journal[h] BY <1>1, <1>2, <1>14 DEF Advanced
  <2>2. Wrote(h, journal[h]) BY <1>5, <1>6, <2>1, SavesWrite
  <2> QED BY <1>5, <1>6, <1>8, <1>10, <1>11, <2>2, SameKeeps
<1> QED BY <1>13, <1>14

LEMMA RecordCompletedKeeps ==
  ASSUME HandoffInv, NEW c \in Drivers, RecordCompleted(c)
  PROVE  HandoffInv'
<1>1. PICK r : r = call[c] OBVIOUS
<1>2. PICK i, h : i = r.intent /\ h = r.host OBVIOUS
<1>3. PICK from : from = {"committed", "awaiting"} OBVIOUS
<1>4. PICK p : p = "completed" OBVIOUS
<1>5. /\ r # None /\ r.stage = "status_answered" /\ Return(c)
      /\ UNCHANGED <<archive, worker, users, told>>
      /\ \/ /\ r.reply.decision = "completed" /\ Committed(chain[h], i) /\ Has(h, i)
            /\ Published(h, Advanced(c, from, p)) \/ Uncertain(h, Advanced(c, from, p))
         \/ UNCHANGED profile
  BY <1>1, <1>2, <1>3, <1>4 DEF RecordCompleted, At, AdvanceUncertain
<1>6. CallOK(r) /\ i \in asked /\ IntentOK(i) /\ h \in Devices
  BY <1>1, <1>2, <1>5, CallFound
<1>7. h = i.manager BY <1>2, <1>5, <1>6 DEF CallOK, Serves
<1>8. GoOn /\ UNCHANGED users /\ UNCHANGED told BY <1>5, StayGoesOn
<1>9. Advances /\ StayAtWork => CallsOK' BY <1>5, CallReturns
<1>10. CASE UNCHANGED profile
  <2>1. Wrote(h, journal[h]) BY <1>6, <1>10, NothingWritten
  <2> QED BY <1>6, <1>8, <1>9, <2>1, SameKeeps
<1>11. CASE /\ r.reply.decision = "completed" /\ Committed(chain[h], i) /\ Has(h, i)
            /\ Published(h, Advanced(c, from, p)) \/ Uncertain(h, Advanced(c, from, p))
  <2>1. p \in {"committed", "awaiting", "completed"} /\ \A q \in from : p \in After[q]
    BY <1>3, <1>4 DEF After
  <2>2. Stands(i.recipient, i, p)
    BY <1>2, <1>4, <1>5, <1>6, <1>7, <1>11 DEF CallOK, Other, IntentOK
  <2>3. Committed(chain[i.recipient], i)
    <3>1. PICK g : g = i.recipient OBVIOUS
    <3>2. g \in Devices BY <1>6, <3>1 DEF IntentOK
    <3>3. journal[g] \in lasting[g] BY <3>2 DEF HandoffInv, JournalOK
    <3>4. /\ i.operation \in DOMAIN journal[g] /\ journal[g][i.operation].intent = i
          /\ journal[g][i.operation].phase = "completed"
      BY <1>4, <2>2, <3>1, <3>3 DEF Stands, After
    <3>5. RecordOK(g, i.operation, journal[g][i.operation])
      BY <3>2, <3>3, <3>4 DEF HandoffInv, JournalOK
    <3> QED BY <3>1, <3>4, <3>5 DEF RecordOK
  <2>4. Stands(i.recipient, i, "completed") BY <1>4, <2>2
  <2> QED BY <1>1, <1>2, <1>5, <1>7, <1>8, <1>9, <1>11, <2>1, <2>3, <2>4, AdvancedKeeps
<1> QED BY <1>5, <1>10, <1>11

LEMMA ReplyUncertainKeeps ==
  ASSUME HandoffInv, NEW c \in Drivers, ReplyUncertain(c)
  PROVE  HandoffInv'
<1>1. PICK r : r = call[c] OBVIOUS
<1>2. PICK g : g = Other(r.host, r.intent) OBVIOUS
<1>3. /\ r # None /\ Uncertain(g, journal[g]) /\ Return(c)
      /\ UNCHANGED <<archive, worker, users, told>>
  BY <1>1, <1>2 DEF ReplyUncertain
<1>4. g \in Devices BY <1>1, <1>2, <1>3, CallFound
<1>5. Wrote(g, journal[g]) BY <1>3, <1>4, SavesWrite
<1>6. GoOn BY <1>3, StayGoesOn
<1>7. Advances /\ StayAtWork => CallsOK' BY <1>3, CallReturns
<1> QED BY <1>3, <1>4, <1>5, <1>6, <1>7, SameKeeps

(* A call that got its answer.                                             *)
Confirmed(r, p) ==
  p = "unknown" \/ (p \in Phases /\ Stands(Other(r.host, r.intent), r.intent, p))

LEMMA AnsweredKeeps ==
  ASSUME HandoffInv, Advances, StayAtWork, NEW c \in Drivers, NEW r, r = call[c], r # None,
         r.stage \in Requests, NEW a, a = Answered(r.stage), NEW q,
         call' = [call EXCEPT ![c] = q], q = [r EXCEPT !.stage = a, !.reply = q.reply],
         NEW p, p = q.reply.decision, Confirmed(r, p)'
  PROVE  CallsOK'
<1>1. CallOK(r) /\ r.intent \in asked /\ IntentOK(r.intent) /\ r.host \in Devices
  BY CallFound
<1>2. /\ DOMAIN q = {"host", "intent", "stage", "session", "reply"}
      /\ q.host = r.host /\ q.intent = r.intent /\ q.session = r.session /\ q.stage = a
  BY <1>1 DEF CallOK
<1>3. /\ a \in {"answered", "source_answered", "status_answered"}
      /\ a \in Serves <=> r.stage \in Serves
      /\ a \in Asks \cup {"transfer"} => r.stage \in Asks
  BY DEF Answered, Requests, Serves, Asks
<1>4. q.intent \in asked' BY <1>1, <1>2 DEF Advances
<1>5. Remembers(q.host, q.intent)' BY <1>1, <1>2, RemembersLater DEF CallOK
<1>6. q.session /\ q.stage \in Asks \cup {"transfer"} => Working(q.host)'
  BY <1>1, <1>2, <1>3 DEF CallOK, StayAtWork
<1>7. q.host = IF q.stage \in Serves THEN q.intent.recipient ELSE q.intent.manager
  BY <1>1, <1>2, <1>3 DEF CallOK
<1>8. q.stage # "transfer" /\ q.stage # "record" BY <1>2, <1>3
<1>9. q.reply.decision # "unknown" =>
        /\ q.reply.decision \in Phases
        /\ Stands(Other(q.host, q.intent), q.intent, q.reply.decision)'
  BY <1>2 DEF Confirmed, Other
<1>10. CallOK(q)' BY <1>2, <1>4, <1>5, <1>6, <1>7, <1>8, <1>9 DEF CallOK, Other
<1> QED BY <1>10, CallMoves DEF CallsOK, StayAtWork

LEMMA ReplyKeeps ==
  ASSUME HandoffInv, NEW c \in Drivers, Reply(c)
  PROVE  HandoffInv'
<1>1. PICK r : r = call[c] OBVIOUS
<1>2. PICK i, g : i = r.intent /\ g = Other(r.host, r.intent) OBVIOUS
<1>3. PICK p : p = IF Has(g, i) THEN Phase(g, i) ELSE "unknown" OBVIOUS
<1>4. PICK a : a = Answered(r.stage) OBVIOUS
<1>5. PICK q : q = [r EXCEPT !.stage = a, !.reply = [decision |-> p, ready |-> AtPrevious(g, i)]]
  OBVIOUS
<1>6. /\ r # None /\ r.stage \in Requests
      /\ IF Has(g, i) THEN Published(g, journal[g]) /\ Report(g, i, p)
                      ELSE UNCHANGED <<profile, told>>
      /\ UNCHANGED <<archive, worker, users>>
  BY <1>1, <1>2, <1>3 DEF Reply
<1>7. call' = [call EXCEPT ![c] = q]
  BY <1>1, <1>2, <1>3, <1>4, <1>5 DEF Reply, HandoffInv, Domains
<1>8. CallOK(r) /\ i \in asked /\ IntentOK(i) /\ g \in Devices
  BY <1>1, <1>2, <1>6, CallFound
<1>9. q.reply.decision = p /\ q = [r EXCEPT !.stage = a, !.reply = q.reply]
  BY <1>5, <1>8 DEF CallOK
<1>10. GoOn BY <1>6, StayGoesOn
<1>11. CASE Has(g, i)
  <2>1. PICK k : k = journal[g] OBVIOUS
  <2>2. /\ i.operation \in DOMAIN k /\ k[i.operation].intent = i /\ k[i.operation].phase = p
    BY <1>3, <1>11, <2>1 DEF Has, Phase
  <2>3. i.operation \in Operations BY <1>8 DEF IntentOK
  <2>4. p \in Phases /\ p \in After[p]
    <3>1. RecordOK(g, i.operation, journal[g][i.operation])
      BY <1>8, <1>11 DEF Has, HandoffInv, JournalOK
    <3>2. p \in Phases BY <2>1, <2>2, <3>1 DEF RecordOK, Phases
    <3> QED BY <3>2, AfterIs
  <2>5. Stands(g, i, p)' BY <1>6, <1>8, <1>11, <2>1, <2>2, <2>4, NowStands
  <2>6. Wrote(g, journal[g]) BY <1>6, <1>8, <1>11, SavesWrite
  <2>7. Advances /\ StayAtWork => CallsOK'
    <3>1. Confirmed(r, p)' BY <1>2, <2>4, <2>5 DEF Confirmed, Other
    <3> QED BY <1>1, <1>4, <1>6, <1>7, <1>9, <3>1, AnsweredKeeps
  <2>8. Advances => /\ DOMAIN told' = Devices
                    /\ \A d \in Devices : DOMAIN told'[d] = Operations
                    /\ ToldOK'
    BY <1>6, <1>8, <1>11, <2>3, <2>4, <2>5, ReportKeeps
  <2> QED BY <1>6, <1>8, <1>10, <2>6, <2>7, <2>8, SameKeeps
<1>12. CASE ~Has(g, i)
  <2>1. p = "unknown" BY <1>3, <1>12
  <2>2. Wrote(g, journal[g]) BY <1>6, <1>8, <1>12, NothingWritten
  <2>3. Advances /\ StayAtWork => CallsOK'
    <3>1. Confirmed(r, p)' BY <2>1 DEF Confirmed
    <3> QED BY <1>1, <1>4, <1>6, <1>7, <1>9, <3>1, AnsweredKeeps
  <2> QED BY <1>6, <1>8, <1>10, <1>12, <2>2, <2>3, SameKeeps
<1> QED BY <1>11, <1>12

-----------------------------------------------------------------------------
(* Steps of one host that leave the journals alone.                        *)

Only(h, a, b, w) ==
  /\ DOMAIN chain' = Devices /\ DOMAIN doubt' = Devices /\ DOMAIN worker' = Devices
  /\ chain'[h] = a /\ doubt'[h] = b /\ worker'[h] = w
  /\ \A g \in Devices \ {h} :
       chain'[g] = chain[g] /\ doubt'[g] = doubt[g] /\ worker'[g] = worker[g]

LEMMA HostMoves ==
  ASSUME HandoffInv, NEW h \in Devices, NEW a, NEW b, NEW w, Only(h, a, b, w),
         NEW k, k = journal[h], Wrote(h, k), UNCHANGED <<users, told>>,
         Whole(a), Begins(chain[h], a), Decided(a),
         b # None => Whole(b) /\ Begins(a, b) /\ Decided(b),
         w # None => (Advances => WorkerIs(h, w)'),
         Advances => CallsOK'
  PROVE  HandoffInv'
<1>1. \A g \in Devices : Whole(chain'[g]) /\ Begins(chain[g], chain'[g])
  <2>1. ASSUME NEW g \in Devices PROVE Whole(chain'[g]) /\ Begins(chain[g], chain'[g])
    <3>1. CASE g = h BY <3>1 DEF Only
    <3>2. CASE g # h BY <3>2, BeginsItself DEF Only, HandoffInv, ChainOK
    <3> QED BY <3>1, <3>2
  <2> QED BY <2>1
<1>2. UNCHANGED asked /\ UNCHANGED agreed /\ UNCHANGED refused BY DEF users
<1>3. Follows(journal[h], k) BY FollowsItself
<1>4. asked \subseteq asked' /\ agreed \subseteq agreed' BY <1>2
<1>5. Advances BY <1>1, <1>3, <1>4, WriteAdvances
<1>6. ASSUME NEW g \in Devices PROVE ChainOK(g)'
  <2>1. CASE g = h
    <3>1. Decided(a)' BY <1>5, DecidedLater
    <3>2. b # None => Decided(b)' BY <1>5, DecidedLater
    <3>3. a = chain'[h] /\ b = doubt'[h] BY DEF Only
    <3> QED BY <2>1, <3>1, <3>2, <3>3 DEF ChainOK
  <2>2. CASE g # h BY <1>5, <2>2, ChainLater DEF Only
  <2> QED BY <2>1, <2>2
<1>7. ASSUME NEW g \in Devices PROVE WorkerOK(g)'
  <2>1. CASE g = h
    <3>1. w = worker'[h] BY DEF Only
    <3>2. w # None => WorkerIs(h, w)' BY <1>5
    <3> QED BY <2>1, <3>1, <3>2 DEF WorkerOK
  <2>2. CASE g # h BY <1>5, <2>2, WorkersLater DEF Only
  <2> QED BY <2>1, <2>2
<1>8. ASSUME NEW g \in Devices PROVE JournalOK(g)'
  <2>1. ASSUME NEW o \in DOMAIN k, NEW e, e = k[o] PROVE RecordOK(h, o, e)'
    BY <1>5, <2>1, OldRecords
  <2> QED BY <1>5, <2>1, JournalsLater
<1>9. ToldOK' /\ RefusedOK' BY <1>2, <1>5, ToldLater, RefusedLater
<1>10. CallsOK' BY <1>5
<1>11. Domains'
  BY <1>10 DEF HandoffInv, Domains, Only, Wrote, CallsOK
<1>12. \A i \in asked' : IntentOK(i) BY <1>2 DEF HandoffInv
<1> QED BY <1>6, <1>7, <1>8, <1>9, <1>10, <1>11, <1>12, PartsKeep DEF CallsOK

LEMMA OtherDecided ==
  ASSUME NEW c, Whole(c), Decided(c), NEW e, e.handoff = None
  PROVE  Decided(Append(c, e))
<1> DEFINE d == Append(c, e)
<1>1. /\ DOMAIN d = 1..(Len(c) + 1) /\ d[Len(c) + 1] = e /\ DOMAIN c = 1..Len(c)
      /\ Len(c) \in Nat /\ \A n \in 1..Len(c) : d[n] = c[n]
  BY ChainGrows, WholeHas
<1> HIDE DEF d
<1>2. \A n \in DOMAIN d : n \in DOMAIN c \/ n = Len(c) + 1 BY <1>1
<1>3. \A n \in DOMAIN d : d[n].handoff # None => n \in DOMAIN c /\ d[n] = c[n]
  BY <1>1, <1>2
<1>4. Decided(d) BY <1>3 DEF Decided
<1> QED BY <1>4 DEF d

LEMMA TransferDecided ==
  ASSUME NEW c, Whole(c), Decided(c), NEW i \in asked, IntentOK(i),
         Stands(i.recipient, i, "consented"), Latest(c).manager = i.manager
  PROVE  Decided(Append(c, Successor(c, i.operation, Transfer(Consent(i)))))
<1> DEFINE e == Successor(c, i.operation, Transfer(Consent(i)))
           d == Append(c, e)
<1>1. /\ e.operation = i.operation /\ e.manager = i.recipient /\ e.signer = i.manager
      /\ e.handoff.previous = i.previous
  BY DEF Successor, Transfer, Consent
<1>2. Intent(e.handoff.previous, e.operation, e.signer, e.manager) = i
  BY <1>1 DEF IntentOK
<1> HIDE DEF e
<1>3. /\ DOMAIN d = 1..(Len(c) + 1) /\ d[Len(c) + 1] = e /\ DOMAIN c = 1..Len(c)
      /\ Len(c) \in Nat /\ \A n \in 1..Len(c) : d[n] = c[n]
  BY ChainGrows, WholeHas
<1> HIDE DEF d
<1>4. \A n \in DOMAIN d : (n \in DOMAIN c /\ d[n] = c[n]) \/ d[n] = e BY <1>3
<1>5. Decided(d)
  <2> SUFFICES ASSUME NEW n \in DOMAIN d, d[n].handoff # None
               PROVE  LET j == Intent(d[n].handoff.previous, d[n].operation, d[n].signer, d[n].manager)
                      IN  j \in asked /\ Stands(j.recipient, j, "consented")
    BY DEF Decided
  <2>1. CASE n \in DOMAIN c /\ d[n] = c[n] BY <2>1 DEF Decided
  <2>2. CASE d[n] = e BY <1>2, <2>2
  <2> QED BY <1>4, <2>1, <2>2
<1> QED BY <1>5 DEF d, e

LEMMA ExchangeKeeps ==
  ASSUME HandoffInv, NEW h \in Devices, NEW g \in Devices, Exchange(h, g)
  PROVE  HandoffInv'
<1>1. Offer(h, g) /\ UNCHANGED <<worker, profile, call, users, told>> BY DEF Exchange
<1>2. GoOn BY <1>1, OfferGoes
<1>3. Wrote(h, journal[h]) BY <1>1, NothingWritten
<1>4. Advances /\ StayAtWork => CallsOK' BY <1>1, CallsAsWere
<1> QED BY <1>1, <1>2, <1>3, <1>4, SameKeeps

(* What a host has.                                                        *)
LEMMA HostFound ==
  ASSUME HandoffInv, NEW h \in Devices
  PROVE  /\ Whole(chain[h]) /\ Begins(chain[h], chain[h]) /\ Decided(chain[h])
         /\ doubt[h] # None =>
              Whole(doubt[h]) /\ Begins(chain[h], doubt[h]) /\ Decided(doubt[h])
BY BeginsItself DEF HandoffInv, ChainOK

(* A worker of what the host serves.                                       *)
LEMMA WorkerFresh ==
  ASSUME NEW h, NEW c, NEW w, w = [basis |-> c, pending |-> None], Whole(c), c = chain'[h]
  PROVE  WorkerIs(h, w)'
<1>1. w = [basis |-> w.basis, pending |-> w.pending] /\ w.basis = c /\ w.pending = None OBVIOUS
<1>2. Begins(c, c) BY BeginsItself
<1> QED BY <1>1, <1>2 DEF WorkerIs

LEMMA UnlockKeeps ==
  ASSUME HandoffInv, NEW h \in Devices, Unlock(h)
  PROVE  HandoffInv'
<1>1. PICK a, b, k : a = chain[h] /\ b = doubt[h] /\ k = journal[h] OBVIOUS
<1>2. PICK w : w = [basis |-> a, pending |-> None] OBVIOUS
<1>3. /\ worker[h] = None /\ worker' = [worker EXCEPT ![h] = w]
      /\ UNCHANGED <<archive, profile, call, users, told>>
  BY <1>1, <1>2 DEF Unlock
<1>4. Only(h, a, b, w) BY <1>1, <1>3 DEF Only, HandoffInv, Domains, archive
<1>5. Wrote(h, k) BY <1>1, <1>3, NothingWritten
<1>6. WorkerIs(h, w)' BY <1>1, <1>2, <1>3, HostFound, WorkerFresh DEF archive
<1>7. StayAtWork BY <1>3 DEF StayAtWork, Working, HandoffInv, Domains
<1>8. Advances => CallsOK' BY <1>3, <1>7, CallsAsWere
<1> QED BY <1>1, <1>3, <1>4, <1>5, <1>6, <1>8, HostFound, HostMoves

LEMMA ApplyKeeps ==
  ASSUME NoneApart, HandoffInv, NEW h \in Devices, Apply(h)
  PROVE  HandoffInv'
<1>1. PICK a, b, k : a = chain[h] /\ b = doubt[h] /\ k = journal[h] OBVIOUS
<1>2. PICK w : w = [worker[h] EXCEPT !.basis = a] OBVIOUS
<1>3. /\ worker[h] # None /\ worker[h].pending = None
      /\ UNCHANGED <<archive, profile, call, users, told>>
  BY DEF Apply
<1>4. worker' = [worker EXCEPT ![h] = w] BY <1>1, <1>2 DEF Apply, HandoffInv, Domains
<1>5. WorkerIs(h, worker[h]) BY <1>3, WorkerFound
<1>6. w = [basis |-> w.basis, pending |-> w.pending] /\ w.basis = a /\ w.pending = None
  BY <1>2, <1>3, <1>5 DEF WorkerIs
<1>7. Only(h, a, b, w) BY <1>1, <1>3, <1>4 DEF Only, HandoffInv, Domains, archive
<1>8. Wrote(h, k) BY <1>1, <1>3, NothingWritten
<1>9. WorkerIs(h, w)'
  <2>1. a = chain'[h] /\ Whole(a) /\ Begins(a, a) BY <1>1, <1>3, HostFound DEF archive
  <2> QED BY <1>6, <2>1 DEF WorkerIs
<1>10. StayAtWork
  <2>1. w # None BY <1>6 DEF NoneApart
  <2> QED BY <1>3, <1>4, <2>1 DEF StayAtWork, Working, HandoffInv, Domains
<1>11. Advances => CallsOK' BY <1>3, <1>10, CallsAsWere
<1> QED BY <1>1, <1>3, <1>7, <1>8, <1>9, <1>11, HostFound, HostMoves

(* A call of another host stays, whatever becomes of the worker of h.      *)
LEMMA ElsewhereKeeps ==
  ASSUME HandoffInv, Advances, NEW h \in Devices,
         \A g \in Devices \ {h} : worker'[g] = worker[g],
         NEW r, CallOK(r), r.host # h
  PROVE  CallOK(r)'
<1>1. r.host \in Devices
  <2>1. r.intent \in asked /\ IntentOK(r.intent) BY DEF CallOK, HandoffInv
  <2> QED BY <2>1 DEF CallOK, IntentOK
<1>2. r.session /\ r.stage \in Asks \cup {"transfer"} => Working(r.host)'
  BY <1>1 DEF CallOK, Working
<1> QED BY <1>2, CallLater

LEMMA LockKeeps ==
  ASSUME HandoffInv, NEW h \in Devices, Lock(h)
  PROVE  HandoffInv'
<1>1. PICK a, b, k : a = chain[h] /\ b = doubt[h] /\ k = journal[h] OBVIOUS
<1>2. PICK w : w = None OBVIOUS
<1>3. /\ worker' = [worker EXCEPT ![h] = w]
      /\ call' = [c \in Drivers |-> IF call[c] # None /\ call[c].host = h
                                    THEN [call[c] EXCEPT !.session = FALSE] ELSE call[c]]
      /\ UNCHANGED <<archive, profile, users, told>>
  BY <1>2 DEF Lock
<1>4. Only(h, a, b, w) BY <1>1, <1>3 DEF Only, HandoffInv, Domains, archive
<1>5. Wrote(h, k) BY <1>1, <1>3, NothingWritten
<1>6. ASSUME Advances, NEW c \in Drivers, NEW q, q = call'[c], q # None PROVE CallOK(q)'
  <2>1. PICK r : r = call[c] OBVIOUS
  <2>2. CASE r # None /\ r.host = h
    <3>1. q = [r EXCEPT !.session = FALSE] BY <1>3, <1>6, <2>1, <2>2
    <3>2. CallOK(r) BY <2>1, <2>2, CallFound
    <3>3. /\ DOMAIN q = {"host", "intent", "stage", "session", "reply"}
          /\ q.host = r.host /\ q.intent = r.intent /\ q.stage = r.stage /\ q.reply = r.reply
          /\ ~q.session
      BY <3>1, <3>2 DEF CallOK
    <3>4. CallOK(q) BY <3>2, <3>3 DEF CallOK
    <3> QED BY <1>6, <3>3, <3>4, CallLater
  <2>3. CASE ~(r # None /\ r.host = h)
    <3>1. q = r /\ r # None /\ r.host # h BY <1>3, <1>6, <2>1, <2>3
    <3>2. CallOK(r) BY <2>1, <3>1, CallFound
    <3>3. \A g \in Devices \ {h} : worker'[g] = worker[g] BY <1>4 DEF Only
    <3> QED BY <1>6, <3>1, <3>2, <3>3, ElsewhereKeeps
  <2> QED BY <2>2, <2>3
<1>7. Advances => CallsOK' BY <1>3, <1>6 DEF CallsOK, CallKept
<1> QED BY <1>1, <1>2, <1>3, <1>4, <1>5, <1>7, HostFound, HostMoves

LEMMA RestartKeeps ==
  ASSUME HandoffInv, NEW h \in Devices, Restart(h)
  PROVE  HandoffInv'
<1>1. PICK a : a \in Archives(h) /\ chain' = [chain EXCEPT ![h] = a] BY DEF Restart
<1>2. PICK b, w, k : b = None /\ w = None /\ k = journal[h] OBVIOUS
<1>3. /\ doubt' = [doubt EXCEPT ![h] = b] /\ worker' = [worker EXCEPT ![h] = w]
      /\ \/ UNCHANGED <<journal, lasting>>
         \/ \E j \in lasting[h] : /\ journal' = [journal EXCEPT ![h] = j]
                                  /\ lasting' = [lasting EXCEPT ![h] = {j}]
      /\ unsaved' = [unsaved EXCEPT ![h] = None]
      /\ call' = [c \in Drivers |-> IF call[c] # None /\ call[c].host = h THEN None ELSE call[c]]
      /\ UNCHANGED <<users, told>>
  BY <1>2 DEF Restart
<1>4. Only(h, a, b, w) BY <1>1, <1>3 DEF Only, HandoffInv, Domains
<1>5. journal[h] \in lasting[h] BY DEF HandoffInv, JournalOK
<1>6. Wrote(h, k)
  <2>1. CASE UNCHANGED <<journal, lasting>>
    BY <1>2, <1>3, <1>5, <2>1 DEF Wrote, HandoffInv, Domains
  <2>2. ASSUME NEW j \in lasting[h], journal' = [journal EXCEPT ![h] = j],
               lasting' = [lasting EXCEPT ![h] = {j}]
        PROVE  Wrote(h, k)
    BY <1>2, <1>3, <2>2 DEF Wrote, HandoffInv, Domains
  <2> QED BY <1>3, <2>1, <2>2
<1>7. Whole(a) /\ Begins(chain[h], a) /\ Decided(a) BY <1>1, HostFound DEF Archives
<1>8. ASSUME Advances, NEW c \in Drivers, NEW q, q = call'[c], q # None PROVE CallOK(q)'
  <2>1. q = call[c] /\ q.host # h BY <1>3, <1>8
  <2>2. CallOK(q) BY <1>8, <2>1, CallFound
  <2>3. \A g \in Devices \ {h} : worker'[g] = worker[g] BY <1>4 DEF Only
  <2> QED BY <1>8, <2>1, <2>2, <2>3, ElsewhereKeeps
<1>9. Advances => CallsOK' BY <1>3, <1>8 DEF CallsOK, CallKept
<1> QED BY <1>2, <1>3, <1>4, <1>6, <1>7, <1>9, HostMoves

LEMMA AdministerKeeps ==
  ASSUME NoneApart, HandoffInv, NEW h \in Devices, NEW o \in Operations, NEW i \in Others,
         Administer(h, o, i)
  PROVE  HandoffInv'
<1>1. PICK c, k : c = chain[h] /\ k = journal[h] OBVIOUS
<1>2. PICK e : e = Successor(c, o, i) OBVIOUS
<1>3. PICK next : next = Append(c, e) OBVIOUS
<1>4. e.handoff = None BY <1>2 DEF Others, Rotate, Successor
<1>5. /\ worker[h] # None /\ worker[h].pending = None /\ worker[h].basis = c /\ doubt[h] = None
      /\ \/ /\ chain' = [chain EXCEPT ![h] = next]
            /\ worker' = [worker EXCEPT ![h].basis = next]
            /\ UNCHANGED doubt
         \/ doubt' = [doubt EXCEPT ![h] = next] /\ UNCHANGED <<chain, worker>>
      /\ UNCHANGED <<profile, call, users, told>>
  BY <1>1, <1>2, <1>3 DEF Administer, Live
<1>6. Whole(c) /\ Begins(c, c) /\ Decided(c) BY <1>1, HostFound
<1>7. Whole(next) /\ Begins(c, next) /\ Decided(next)
  BY <1>3, <1>4, <1>6, ChainGrows, OtherDecided
<1>8. WorkerIs(h, worker[h]) BY <1>5, WorkerFound
<1>9. Wrote(h, k) BY <1>1, <1>5, NothingWritten
<1>10. UNCHANGED users /\ UNCHANGED told BY <1>5
<1>11. CASE /\ chain' = [chain EXCEPT ![h] = next]
            /\ worker' = [worker EXCEPT ![h].basis = next]
            /\ UNCHANGED doubt
  <2>1. PICK w : w = [worker[h] EXCEPT !.basis = next] OBVIOUS
  <2>2. worker' = [worker EXCEPT ![h] = w] BY <1>11, <2>1 DEF HandoffInv, Domains
  <2>3. w = [basis |-> w.basis, pending |-> w.pending] /\ w.basis = next /\ w.pending = None
    BY <1>5, <1>8, <2>1 DEF WorkerIs
  <2>4. Only(h, next, None, w) BY <1>5, <1>11, <2>2 DEF Only, HandoffInv, Domains
  <2>5. WorkerIs(h, w)'
    <3>1. next = chain'[h] BY <2>4 DEF Only
    <3> QED BY <1>7, <2>3, <3>1, BeginsItself DEF WorkerIs
  <2>6. StayAtWork
    <3>1. w # None BY <2>3 DEF NoneApart
    <3> QED BY <2>2, <3>1 DEF StayAtWork, Working, HandoffInv, Domains
  <2>7. Advances => CallsOK' BY <1>5, <2>6, CallsAsWere
  <2> QED BY <1>1, <1>7, <1>9, <1>10, <2>4, <2>5, <2>7, HostMoves
<1>12. CASE doubt' = [doubt EXCEPT ![h] = next] /\ UNCHANGED <<chain, worker>>
  <2>1. PICK w : w = worker[h] OBVIOUS
  <2>2. Only(h, c, next, w) BY <1>1, <1>12, <2>1 DEF Only, HandoffInv, Domains
  <2>3. Advances => WorkerIs(h, w)'
    <3>1. WorkerIs(h, w) /\ doubt[h] = None BY <1>5, <1>8, <2>1
    <3> QED BY <3>1, WorkerLater
  <2>4. StayAtWork BY <1>12, WorkersWork DEF StayAtWork
  <2>5. Advances => CallsOK' BY <1>5, <2>4, CallsAsWere
  <2> QED BY <1>1, <1>6, <1>7, <1>9, <1>10, <2>2, <2>3, <2>5, HostMoves
<1> QED BY <1>5, <1>11, <1>12

(* The worker commits the transfer of its call.                            *)
LEMMA TransferKeeps ==
  ASSUME NoneApart, HandoffInv, NEW c \in Drivers, TransferManagement(c)
  PROVE  HandoffInv'
<1>1. PICK r : r = call[c] OBVIOUS
<1>2. PICK i, h : i = r.intent /\ h = r.host OBVIOUS
<1>3. PICK w, k, a : w = worker[h] /\ k = journal[h] /\ a = chain[h] OBVIOUS
<1>4. PICK next : next = Append(w.basis, Successor(w.basis, i.operation, Transfer(Consent(i))))
  OBVIOUS
<1>5. /\ r # None /\ r.stage = "transfer" /\ r.session /\ UNCHANGED <<profile, users, told>>
      /\ \/ /\ w.pending # None /\ w.pending.operation = i.operation /\ w.pending.exact
            /\ chain' = [chain EXCEPT ![h] = doubt[h]]
            /\ doubt' = [doubt EXCEPT ![h] = None]
            /\ worker' = [worker EXCEPT ![h] = [basis |-> doubt[h], pending |-> None]]
            /\ Goto(c, "record")
         \/ /\ Committed(w.basis, i)
            /\ Goto(c, "record") /\ UNCHANGED <<archive, worker>>
         \/ /\ Live(h) /\ doubt[h] = None
            /\ CanExtend(w.basis, h, i.operation, Transfer(Consent(i)))
            /\ \/ /\ chain' = [chain EXCEPT ![h] = next]
                  /\ worker' = [worker EXCEPT ![h].basis = next]
                  /\ Goto(c, "record") /\ UNCHANGED doubt
               \/ /\ doubt' = [doubt EXCEPT ![h] = next]
                  /\ worker' = [worker EXCEPT
                       ![h] = [w EXCEPT !.pending = [operation |-> i.operation, exact |-> TRUE]]]
                  /\ Return(c) /\ UNCHANGED chain
         \/ /\ worker' = [worker EXCEPT
                 ![h] = [w EXCEPT !.pending = [operation |-> i.operation, exact |-> FALSE]]]
            /\ Return(c) /\ UNCHANGED archive
  BY <1>1, <1>2, <1>3, <1>4 DEF TransferManagement, At
<1>6. CallOK(r) /\ i \in asked /\ IntentOK(i) /\ h \in Devices
  BY <1>1, <1>2, <1>5, CallFound
<1>7. /\ h = i.manager /\ Remembers(h, i) /\ w # None
      /\ Committed(a, i) \/ Stands(i.recipient, i, "consented")
  BY <1>2, <1>3, <1>5, <1>6 DEF CallOK, Serves, Working
<1>8. WorkerIs(h, w) BY <1>3, <1>6, <1>7, WorkerFound
<1>9. Whole(a) /\ Begins(a, a) /\ Decided(a) BY <1>3, <1>6, HostFound
<1>10. Wrote(h, k) BY <1>3, <1>5, <1>6, NothingWritten
<1>11. UNCHANGED users /\ UNCHANGED told BY <1>5
<1>12. r.stage \notin Serves BY <1>5 DEF Serves
<1>13. ASSUME Goto(c, "record"), Advances, StayAtWork, Committed(chain'[h], i) PROVE CallsOK'
  BY <1>1, <1>2, <1>5, <1>12, <1>13, GotoKeeps DEF CallsOK, StayAtWork
<1>14. ASSUME NEW v, worker' = [worker EXCEPT ![h] = v], v # None PROVE StayAtWork
  BY <1>14 DEF StayAtWork, Working, HandoffInv, Domains

(* It retains an uncertain commit and publishes it again.                  *)
<1>20. CASE /\ w.pending # None /\ w.pending.operation = i.operation /\ w.pending.exact
            /\ chain' = [chain EXCEPT ![h] = doubt[h]]
            /\ doubt' = [doubt EXCEPT ![h] = None]
            /\ worker' = [worker EXCEPT ![h] = [basis |-> doubt[h], pending |-> None]]
            /\ Goto(c, "record")
  <2>1. PICK b, v : b = doubt[h] /\ v = [basis |-> b, pending |-> None] OBVIOUS
  <2>2. Prepared(h, i.operation) BY <1>8, <1>20 DEF WorkerIs
  <2>3. b # None /\ Committed(b, i)
    <3>1. PICK j \in asked : j.operation = i.operation /\ Remembers(h, j) /\ Committed(doubt[h], j)
      BY <2>2 DEF Prepared
    <3>2. journal[h] \in lasting[h] BY <1>6 DEF HandoffInv, JournalOK
    <3>3. j = i BY <1>7, <3>1, <3>2 DEF Remembers
    <3> QED BY <2>1, <2>2, <3>1, <3>3 DEF Prepared
  <2>4. Whole(b) /\ Begins(a, b) /\ Decided(b) BY <1>3, <1>6, <2>1, <2>3, HostFound
  <2>5. Only(h, b, None, v) BY <1>6, <1>20, <2>1 DEF Only, HandoffInv, Domains
  <2>6. b = chain'[h] BY <2>5 DEF Only
  <2>7. WorkerIs(h, v)' BY <2>1, <2>4, <2>6, WorkerFresh
  <2>8. StayAtWork BY <1>14, <1>20, <2>1 DEF NoneApart
  <2>9. Advances => CallsOK' BY <1>13, <1>20, <2>3, <2>6, <2>8
  <2> QED BY <1>3, <1>6, <1>10, <1>11, <2>4, <2>5, <2>7, <2>9, HostMoves

(* The transfer is committed already.                                      *)
<1>21. CASE Committed(w.basis, i) /\ Goto(c, "record") /\ UNCHANGED <<archive, worker>>
  <2>1. Committed(a, i) BY <1>3, <1>8, <1>9, <1>21, CommittedLater DEF WorkerIs
  <2>2. chain'[h] = a BY <1>3, <1>21 DEF archive
  <2>3. GoOn BY <1>21, StayGoesOn
  <2>4. Advances /\ StayAtWork => CallsOK' BY <1>13, <1>21, <2>1, <2>2
  <2> QED BY <1>3, <1>6, <1>10, <1>11, <2>3, <2>4, SameKeeps

(* It signs and commits it now.                                            *)
<1>22. ASSUME Live(h), doubt[h] = None, CanExtend(w.basis, h, i.operation, Transfer(Consent(i)))
       PROVE  /\ w.basis = a /\ w.pending = None
              /\ Whole(next) /\ Begins(a, next) /\ Decided(next) /\ Committed(next, i)
  <2>1. w.basis = a /\ w.pending = None BY <1>3, <1>22 DEF Live
  <2>2. ~Uses(a, i.operation) /\ Latest(a).manager = h /\ i.previous = Hash(a)
    BY <1>22, <2>1 DEF CanExtend, Transfer, ConsentHolds, Consent
  <2>3. ~Committed(a, i) BY <2>2 DEF Committed, Uses
  <2>4. Stands(i.recipient, i, "consented") BY <1>7, <2>3
  <2>5. Decided(next) BY <1>4, <1>6, <1>7, <1>9, <2>1, <2>2, <2>4, TransferDecided
  <2>6. Committed(next, i) BY <1>4, <1>9, <2>1, <2>2, TransferIsCommitted
  <2>7. Whole(next) /\ Begins(a, next) BY <1>4, <1>9, <2>1, ChainGrows
  <2> QED BY <2>1, <2>5, <2>6, <2>7
<1>23. CASE /\ Live(h) /\ doubt[h] = None
            /\ CanExtend(w.basis, h, i.operation, Transfer(Consent(i)))
            /\ chain' = [chain EXCEPT ![h] = next]
            /\ worker' = [worker EXCEPT ![h].basis = next]
            /\ Goto(c, "record") /\ UNCHANGED doubt
  <2>1. PICK v : v = [w EXCEPT !.basis = next] OBVIOUS
  <2>2. worker' = [worker EXCEPT ![h] = v] BY <1>3, <1>6, <1>23, <2>1 DEF HandoffInv, Domains
  <2>3. v = [basis |-> v.basis, pending |-> v.pending] /\ v.basis = next /\ v.pending = None
    BY <1>8, <1>22, <1>23, <2>1 DEF WorkerIs
  <2>4. Only(h, next, None, v) BY <1>6, <1>23, <2>2 DEF Only, HandoffInv, Domains
  <2>5. next = chain'[h] BY <2>4 DEF Only
  <2>6. WorkerIs(h, v)' BY <1>22, <1>23, <2>3, <2>5, BeginsItself DEF WorkerIs
  <2>7. v # None BY <2>3 DEF NoneApart
  <2>8. StayAtWork BY <1>14, <2>2, <2>7
  <2>9. Advances => CallsOK' BY <1>13, <1>22, <1>23, <2>5, <2>8
  <2> QED BY <1>3, <1>6, <1>10, <1>11, <1>22, <1>23, <2>4, <2>6, <2>9, HostMoves
<1>24. CASE /\ Live(h) /\ doubt[h] = None
            /\ CanExtend(w.basis, h, i.operation, Transfer(Consent(i)))
            /\ doubt' = [doubt EXCEPT ![h] = next]
            /\ worker' = [worker EXCEPT
                 ![h] = [w EXCEPT !.pending = [operation |-> i.operation, exact |-> TRUE]]]
            /\ Return(c) /\ UNCHANGED chain
  <2>1. PICK p : p = [operation |-> i.operation, exact |-> TRUE] OBVIOUS
  <2>2. PICK v : v = [w EXCEPT !.pending = p] OBVIOUS
  <2>3. worker' = [worker EXCEPT ![h] = v] BY <1>24, <2>1, <2>2
  <2>4. v = [basis |-> v.basis, pending |-> v.pending] /\ v.basis = a /\ v.pending = p
    BY <1>8, <1>22, <1>24, <2>2 DEF WorkerIs
  <2>5. Only(h, a, next, v) BY <1>3, <1>6, <1>24, <2>3 DEF Only, HandoffInv, Domains
  <2>6. next = doubt'[h] /\ a = chain'[h] BY <2>5 DEF Only
  <2>7. next # None BY <1>22, <1>24 DEF NoneApart
  <2>8. ASSUME Advances PROVE WorkerIs(h, v)'
    <3>1. p.operation = i.operation BY <2>1
    <3>2. i \in asked' /\ Remembers(h, i)' BY <1>6, <1>7, <2>8, RemembersLater DEF Advances
    <3>3. Prepared(h, p.operation)'
      BY <1>22, <1>24, <2>6, <2>7, <3>1, <3>2 DEF Prepared
    <3> QED BY <1>9, <2>4, <2>6, <3>3 DEF WorkerIs
  <2>9. v # None BY <2>4 DEF NoneApart
  <2>10. StayAtWork BY <1>14, <2>3, <2>9
  <2>11. Advances => CallsOK' BY <1>24, <2>10, CallReturns
  <2> QED BY <1>3, <1>6, <1>9, <1>10, <1>11, <1>22, <1>24, <2>5, <2>8, <2>11, HostMoves

(* Another commit is in doubt: it retains that one.                        *)
<1>25. CASE /\ worker' = [worker EXCEPT
                 ![h] = [w EXCEPT !.pending = [operation |-> i.operation, exact |-> FALSE]]]
            /\ Return(c) /\ UNCHANGED archive
  <2>1. PICK p : p = [operation |-> i.operation, exact |-> FALSE] OBVIOUS
  <2>2. PICK v, b : v = [w EXCEPT !.pending = p] /\ b = doubt[h] OBVIOUS
  <2>3. worker' = [worker EXCEPT ![h] = v] BY <1>25, <2>1, <2>2
  <2>4. v = [basis |-> v.basis, pending |-> v.pending] /\ v.basis = w.basis /\ v.pending = p
    BY <1>8, <2>2 DEF WorkerIs
  <2>5. Only(h, a, b, v) BY <1>3, <1>6, <1>25, <2>2, <2>3 DEF Only, HandoffInv, Domains, archive
  <2>6. a = chain'[h] BY <2>5 DEF Only
  <2>7. WorkerIs(h, v)'
    <3>1. ~p.exact BY <2>1
    <3>2. Whole(v.basis) /\ Begins(v.basis, a) BY <1>3, <1>8, <2>4 DEF WorkerIs
    <3> QED BY <2>4, <2>6, <3>1, <3>2 DEF WorkerIs
  <2>8. v # None BY <2>4 DEF NoneApart
  <2>9. StayAtWork BY <1>14, <2>3, <2>8
  <2>10. Advances => CallsOK' BY <1>25, <2>9, CallReturns
  <2>11. b # None => Whole(b) /\ Begins(a, b) /\ Decided(b) BY <1>3, <1>6, <2>2, HostFound
  <2> QED BY <1>3, <1>6, <1>9, <1>10, <1>11, <2>5, <2>7, <2>10, <2>11, HostMoves
<1> QED BY <1>5, <1>20, <1>21, <1>23, <1>24, <1>25

-----------------------------------------------------------------------------
LEMMA StartIs == Whole(StartChain) /\ Decided(StartChain)
<1> DEFINE g == Genesis(Founder, FirstPolicy)
           root == <<g>>
           e == Successor(root, FirstOperation, Admit(Joiner))
<1>1. e.handoff = None BY DEF Successor, Admit
<1>2. g.handoff = None BY DEF Genesis
<1> HIDE DEF g, e
<1>3. DOMAIN root = {1} /\ root[1] = g OBVIOUS
<1>4. {root[n] : n \in DOMAIN root} = {g} BY <1>3
<1>5. root \in Seq({g}) OBVIOUS
<1>6. Whole(root) BY <1>4, <1>5 DEF Whole
<1>7. Decided(root) BY <1>2, <1>3 DEF Decided
<1> HIDE DEF root
<1>8. Whole(Append(root, e)) /\ Decided(Append(root, e))
  BY <1>1, <1>6, <1>7, ChainGrows, OtherDecided
<1> QED BY <1>8 DEF StartChain, g, root, e

LEMMA HandoffBegins == Init => HandoffInv
<1> SUFFICES ASSUME Init PROVE HandoffInv
  OBVIOUS
<1>1. Domains BY DEF Init, Domains
<1>2. \A i \in asked : IntentOK(i) BY DEF Init
<1>3. ASSUME NEW h \in Devices PROVE JournalOK(h) /\ ChainOK(h) /\ WorkerOK(h)
  <2>1. JournalOK(h)
    <3>1. /\ journal[h] = << >> /\ lasting[h] = {<< >>} /\ unsaved[h] = None
      BY DEF Init
    <3>2. DOMAIN << >> = {} OBVIOUS
    <3> QED BY <3>1, <3>2 DEF JournalOK
  <2>2. chain[h] = StartChain /\ doubt[h] = None /\ worker[h] = None BY DEF Init
  <2>3. ChainOK(h) BY <2>2, StartIs DEF ChainOK
  <2> QED BY <2>1, <2>2, <2>3 DEF WorkerOK
<1>4. \A c \in Drivers : CallKept(c) BY DEF Init, CallKept
<1>5. ToldOK /\ RefusedOK BY DEF Init, ToldOK, RefusedOK
<1> QED BY <1>1, <1>2, <1>3, <1>4, <1>5 DEF HandoffInv

LEMMA HandoffStays ==
  ASSUME HandoffInv, UNCHANGED vars
  PROVE  HandoffInv'
<1>1. /\ UNCHANGED <<chain, doubt, worker, journal, lasting, unsaved, call>>
      /\ UNCHANGED <<asked, agreed, refused, told>>
  BY DEF vars, archive, profile, users
<1>2. CASE \E h \in Devices : TRUE
  <2>1. PICK h \in Devices : TRUE BY <1>2
  <2>2. Wrote(h, journal[h]) BY <1>1, NothingWritten DEF profile
  <2>3. GoOn /\ UNCHANGED users /\ UNCHANGED told BY <1>1, StayGoesOn DEF archive, users
  <2>4. Advances /\ StayAtWork => CallsOK' BY <1>1, CallsAsWere
  <2> QED BY <2>2, <2>3, <2>4, SameKeeps
<1> QED BY <1>2, HandoffAssumption DEF Devices

LEMMA HandoffKeeps ==
  ASSUME NoneApart, HandoffInv, [Next]_vars
  PROVE  HandoffInv'
<1>1. ASSUME NEW c \in Drivers, NEW h \in Devices, NEW o \in Operations,
             \/ \E r \in Devices : Propose(c, h, r, o)
             \/ Retry(c, h, o) \/ Accept(c, h, o) \/ Reject(c, h, o)
      PROVE  HandoffInv'
  BY <1>1, ProposeKeeps, RetryKeeps, AcceptKeeps, RejectKeeps
<1>2. ASSUME NEW c \in Drivers, DriverStep(c) PROVE HandoffInv'
  BY <1>2, DecideKeeps, TransferKeeps, RecordCommittedKeeps, DeliverKeeps,
     RecordCompletedKeeps, RecordConsentKeeps, ReceiveProposalKeeps, ReplyKeeps,
     ReplyUncertainKeeps DEF DriverStep
<1>3. ASSUME NEW c \in Drivers, Abort(c) PROVE HandoffInv'
  BY <1>3, AbortKeeps
<1>4. ASSUME NEW h \in Devices, NEW o \in Operations, RecordApplied(h, o) PROVE HandoffInv'
  BY <1>4, RecordAppliedKeeps
<1>5. ASSUME NEW h \in Devices, NEW o \in Operations, NEW i \in Others, Administer(h, o, i)
      PROVE  HandoffInv'
  BY <1>5, AdministerKeeps
<1>6. ASSUME NEW h \in Devices, NEW g \in Devices, Exchange(h, g) PROVE HandoffInv'
  BY <1>6, ExchangeKeeps
<1>7. ASSUME NEW h \in Devices, Republish(h) \/ Unlock(h) \/ Apply(h) \/ Lock(h) \/ Restart(h)
      PROVE  HandoffInv'
  BY <1>7, RepublishKeeps, UnlockKeeps, ApplyKeeps, LockKeeps, RestartKeeps
<1>8. CASE UNCHANGED vars BY <1>8, HandoffStays
<1> QED BY <1>1, <1>2, <1>3, <1>4, <1>5, <1>6, <1>7, <1>8 DEF Next

(* What the invariant says of what the users decided.                      *)
LEMMA DecidedIsAgreed ==
  ASSUME HandoffInv, NEW i \in asked, Stands(i.recipient, i, "consented")
  PROVE  i \in agreed /\ i \notin refused
<1>1. PICK h : h = i.recipient OBVIOUS
<1>2. IntentOK(i) /\ h \in Devices BY <1>1 DEF HandoffInv, IntentOK
<1>3. journal[h] \in lasting[h] BY <1>2 DEF HandoffInv, JournalOK
<1>4. /\ i.operation \in DOMAIN journal[h] /\ journal[h][i.operation].intent = i
      /\ journal[h][i.operation].phase \in {"consented", "completed"}
  BY <1>1, <1>3 DEF Stands, After
<1>5. RecordOK(h, i.operation, journal[h][i.operation])
  BY <1>2, <1>3, <1>4 DEF HandoffInv, JournalOK
<1>6. i \in agreed BY <1>1, <1>4, <1>5 DEF RecordOK
<1>7. ASSUME i \in refused PROVE FALSE
  <2>1. Stands(i.recipient, i, "rejected") BY <1>7 DEF HandoffInv, RefusedOK
  <2>2. journal[h][i.operation].phase \in {"rejected"} BY <1>1, <1>3, <2>1 DEF Stands, After
  <2> QED BY <1>4, <2>2
<1> QED BY <1>6, <1>7

LEMMA ArchivesHave ==
  ASSUME HandoffInv, NEW h \in Devices, NEW c \in Archives(h)
  PROVE  Whole(c) /\ Decided(c) /\ Whole(chain[h]) /\ Begins(chain[h], c)
BY HostFound DEF Archives

LEMMA HandoffImplies == HandoffInv => HandoffSound
<1> SUFFICES ASSUME HandoffInv PROVE HandoffSound
  OBVIOUS
<1>1. HandoffAgreed
  <2> SUFFICES ASSUME NEW h \in Devices, NEW c \in Archives(h), NEW n \in DOMAIN c,
                      c[n].handoff # None
               PROVE  LET i == Intent(c[n].handoff.previous, c[n].operation, c[n].signer, c[n].manager)
                      IN  i \in asked /\ i \in agreed /\ i \notin refused
    BY DEF HandoffAgreed
  <2>1. PICK i : i = Intent(c[n].handoff.previous, c[n].operation, c[n].signer, c[n].manager)
    OBVIOUS
  <2>2. Decided(c) BY ArchivesHave
  <2>3. i \in asked /\ Stands(i.recipient, i, "consented") BY <2>1, <2>2 DEF Decided
  <2> QED BY <2>1, <2>3, DecidedIsAgreed
<1>2. ToldStands
  BY DEF HandoffInv, ToldOK, Stands, ToldStands
<1>3. ReceiptsNotAhead
  <2> SUFFICES ASSUME NEW h \in Devices, NEW j \in lasting[h], NEW o \in DOMAIN j,
                      NEW i, i = j[o].intent
               PROVE  /\ j[o].phase \in {"committed", "awaiting", "completed"} =>
                           \A c \in Archives(h) : Committed(c, i)
                      /\ j[o].phase = "completed" /\ h = i.manager =>
                           /\ \A c \in Archives(i.recipient) : Committed(c, i)
                           /\ \A k \in lasting[i.recipient] :
                                o \in DOMAIN k /\ k[o] = [intent |-> i, phase |-> "completed"]
    BY DEF ReceiptsNotAhead
  <2>1. RecordOK(h, o, j[o]) BY DEF HandoffInv, JournalOK
  <2>2. i \in asked /\ IntentOK(i) /\ i.operation = o BY <2>1 DEF RecordOK, HandoffInv
  <2>3. ASSUME NEW g \in Devices, Committed(chain[g], i), NEW c \in Archives(g)
        PROVE  Committed(c, i)
    BY <2>3, ArchivesHave, CommittedLater
  <2>4. j[o].phase \in {"committed", "awaiting", "completed"} => Committed(chain[h], i)
    BY <2>1 DEF RecordOK
  <2>5. ASSUME j[o].phase = "completed", h = i.manager
        PROVE  /\ \A c \in Archives(i.recipient) : Committed(c, i)
               /\ \A k \in lasting[i.recipient] :
                    o \in DOMAIN k /\ k[o] = [intent |-> i, phase |-> "completed"]
    <3>1. PICK g : g = i.recipient OBVIOUS
    <3>2. g \in Devices BY <2>2, <3>1 DEF IntentOK
    <3>3. Committed(chain[g], i) /\ Stands(g, i, "completed")
      BY <2>1, <2>5, <3>1 DEF RecordOK
    <3>4. ASSUME NEW k \in lasting[g]
          PROVE  o \in DOMAIN k /\ k[o] = [intent |-> i, phase |-> "completed"]
      <4>1. o \in DOMAIN k /\ k[o].intent = i /\ k[o].phase = "completed"
        BY <2>2, <3>3 DEF Stands, After
      <4>2. RecordOK(g, o, k[o]) BY <3>2, <4>1 DEF HandoffInv, JournalOK
      <4>3. k[o] = [intent |-> k[o].intent, phase |-> k[o].phase] BY <4>2 DEF RecordOK
      <4> QED BY <4>1, <4>3
    <3> QED BY <2>3, <3>1, <3>2, <3>3, <3>4
  <2> QED BY <2>3, <2>4, <2>5
<1> QED BY <1>1, <1>2, <1>3 DEF HandoffSound

(* Management moves only by a decision of both sides, what a host told     *)
(* stands in whatever survives, and a receipt is never ahead of what it    *)
(* confirms, in every behaviour of the workflow.                           *)
THEOREM HandoffIsSound == ASSUME NoneApart PROVE Spec => []HandoffSound
<1>1. HandoffInv /\ [Next]_vars => HandoffInv' BY HandoffKeeps
<1> QED BY <1>1, HandoffBegins, HandoffImplies, PTL DEF Spec

-----------------------------------------------------------------------------
(* The port: what a worker is told, who holds the native writer, and who   *)
(* owns descriptors.                                                       *)

PortTypes ==
  /\ process \in [Workers -> {"unborn", "running", "dead"}]
  /\ endpoint \in [Workers -> {"none", "accepting", "closed"}]
  /\ writers \subseteq Workers /\ tables \subseteq Workers
  /\ transaction \in [Workers -> Transactions] /\ leases \in [Workers -> SUBSET Owners]
  /\ number \in Nat /\ number <= MaxNumber /\ latest \in Nat /\ effects \subseteq 1..number
  /\ stored \in [id : Numbered, by : Workers \cup {0}] /\ known \in [Workers -> Nat]
  /\ heard \in [id : Numbered, out : {"none", "done", "refused"}, by : Workers \cup {0}]

(* A mutation whose effect is still to come has a number of its own.       *)
Pending(t) == t.op \notin Reading /\ t.at \in {"sent", "inside", "owned"}
NumberSound(t) ==
  /\ Pending(t) => t.id \in 1..number /\ t.id \notin effects /\ (heard.out # "none" => t.id # heard.id)
  /\ t.at = "decided" => t.op \in Showing /\ t.id \in effects
Apart ==
  \A v, w \in Workers :
    v # w /\ Pending(transaction[v]) /\ Pending(transaction[w]) =>
      transaction[v].id # transaction[w].id

(* What a worker was told precedes what it asks.                           *)
Later(w, t) ==
  Pending(t) => /\ heard.by = w => heard.id < t.id
                /\ stored.by = w => stored.id < t.id

(* Who may own descriptors while a call is where it is.                    *)
MayOwn(t) ==
  IF t.at = "none" \/ t.op \notin Carrying THEN {}
  ELSE IF t.at \in {"sent", "inside"} THEN {"object", "parcel"}
  ELSE IF t.at = "owned" THEN {"object", "table"} ELSE {"object"}
Owned == \A w \in Workers : leases[w] \subseteq MayOwn(transaction[w]) \cup {"retained"}

Capable == WriterHeld /\ NothingLeaks /\ Owned
Truthful ==
  /\ ToldIsTrue /\ DraftIsLatest
  /\ \A w \in Workers : NumberSound(transaction[w]) /\ Later(w, transaction[w])
  /\ Apart
  /\ latest \in effects \cup {0} /\ heard.id <= number /\ stored.id <= number

PortInv == PortTypes /\ Capable /\ Truthful

-----------------------------------------------------------------------------

(* What the parts of a step leave behind is of its type.                   *)

LEMMA Leased ==
  ASSUME PortInv, NEW w \in Workers, NEW gone, NEW new \in SUBSET Owners, Leases(w, gone, new)
  PROVE  leases' \in [Workers -> SUBSET Owners]
  BY DEF PortInv, PortTypes, Leases

LEMMA Moved ==
  ASSUME PortInv, NEW w \in Workers, NEW place \in Places, MovesTo(w, place)
  PROVE  transaction' \in [Workers -> Transactions]
  BY DEF PortInv, PortTypes, MovesTo, Transactions

LEMMA Effected ==
  ASSUME PortInv, NEW w \in Workers, Pending(transaction[w]), TakesEffect(w) \/ UNCHANGED Files
  PROVE  /\ latest' \in Nat /\ effects' \subseteq 1..number
         /\ stored' \in [id : Numbered, by : Workers \cup {0}]
<1>1. transaction[w].id \in 1..number /\ transaction[w].id \in Numbered
  BY DEF PortInv, PortTypes, Truthful, NumberSound, Transactions
<1>2. CASE TakesEffect(w)
  <2>1. latest' \in {latest, transaction[w].id} /\ effects' = effects \cup {transaction[w].id}
    BY <1>2 DEF TakesEffect, Publishes, PutsDraft
  <2>2. stored' \in {stored, [id |-> transaction[w].id, by |-> w]}
    BY <1>2 DEF TakesEffect, Publishes, PutsDraft
  <2>3. latest' \in Nat
    BY <1>1, <2>1 DEF PortInv, PortTypes
  <2>5. effects' \subseteq 1..number
    BY <1>1, <2>1 DEF PortInv, PortTypes
  <2>4. stored' \in [id : Numbered, by : Workers \cup {0}]
    BY <1>1, <2>2 DEF PortInv, PortTypes
  <2> QED
    BY <2>3, <2>4, <2>5
<1>3. CASE UNCHANGED Files
  BY <1>3 DEF PortInv, PortTypes, Files
<1> QED BY <1>2, <1>3

LEMMA Ended ==
  ASSUME PortInv, NEW w \in Workers, NEW out \in Outcomes, Over(w, out)
  PROVE  /\ transaction' \in [Workers -> Transactions] /\ known' \in [Workers -> Nat]
         /\ heard' \in [id : Numbered, out : {"none", "done", "refused"}, by : Workers \cup {0}]
<1>1. NoTransaction \in Transactions
  BY PortAssumption DEF NoTransaction, Transactions, Calls, Reading, Places, Numbered
<1>2. transaction' \in [Workers -> Transactions]
  BY <1>1 DEF PortInv, PortTypes, Over
<1>3. transaction[w].id \in Numbered /\ Numbered \subseteq Nat
  BY PortAssumption DEF PortInv, PortTypes, Transactions, Numbered
<1>4. NothingTold \in [id : Numbered, out : {"none", "done", "refused"}, by : Workers \cup {0}]
  BY PortAssumption DEF NothingTold, Numbered
<1>5. ASSUME NEW o \in Outcomes, Tells(w, o)
      PROVE  /\ known' \in [Workers -> Nat]
             /\ heard' \in [id : Numbered, out : {"none", "done", "refused"}, by : Workers \cup {0}]
  BY <1>3, <1>4, <1>5 DEF PortInv, PortTypes, Tells, Outcomes
<1>6. Unproven(transaction[w].op) \in Outcomes
  BY DEF Unproven, Outcomes
<1>7. CASE process[w] = "running"
  BY <1>2, <1>5, <1>6, <1>7 DEF Over
<1>8. CASE process[w] # "running"
  BY <1>2, <1>8 DEF PortInv, PortTypes, Over, Answers
<1> QED BY <1>7, <1>8

(* A call that ends with a true answer and no effect of the last moment.   *)
LEMMA EndsTruthful ==
  ASSUME PortInv, NEW w \in Workers, NEW out \in Outcomes, Over(w, out), UNCHANGED Files,
         transaction[w].op \in Calls,
         out = "refused" => Pending(transaction[w]) \/ transaction[w].op \in Reading,
         out = "done" => transaction[w].at = "decided"
  PROVE  Truthful'
<1> DEFINE t == transaction[w]
           Heard == \/ heard' \in {heard, NothingTold}
                    \/ heard' = [id |-> t.id, out |-> "refused", by |-> 0] /\ Pending(t)
                    \/ heard' = [id |-> t.id, out |-> "done", by |-> 0] /\ t.at = "decided" /\ t.op \notin Reading
           Known == \A v \in Workers : known'[v] = known[v] \/ (known'[v] = t.id /\ t.at = "decided")
<1>1. ASSUME NEW o \in Outcomes, Tells(w, o),
             o = "refused" => Pending(t) \/ t.op \in Reading,
             o = "done" => t.at = "decided"
      PROVE  Heard /\ Known
  BY <1>1 DEF PortInv, PortTypes, Truthful, NumberSound, Tells, Outcomes, Reading, Drafting, Showing
<1>2. Unproven(t.op) \in Outcomes /\ Unproven(t.op) # "done"
      /\ (Unproven(t.op) = "refused" => t.op \in Reading)
  BY DEF Unproven, Outcomes
<1>3. Heard /\ Known
  <2>1. CASE process[w] = "running"
    BY <1>1, <1>2, <2>1 DEF Over
  <2>2. CASE process[w] # "running"
    BY <2>2 DEF Over, Answers
  <2> QED BY <2>1, <2>2
<1>4. \A v \in Workers : transaction'[v] = IF v = w THEN NoTransaction ELSE transaction[v]
  BY DEF PortInv, PortTypes, Over
<1>5. ~Pending(NoTransaction) /\ NoTransaction.at # "decided"
  BY DEF Pending, NoTransaction, Reading
<1>6. UNCHANGED <<number, latest, effects, stored>>
  BY DEF Over, Files
<1>7. t.id \in Nat /\ (t.at = "decided" => t.id \in effects) /\ (Pending(t) => t.id \notin effects /\ t.id <= number)
      /\ effects \subseteq 1..number /\ number \in Nat
  BY PortAssumption DEF PortInv, PortTypes, Truthful, NumberSound, Transactions, Numbered
<1> HIDE DEF t
<1>8. ToldIsTrue'
  BY <1>3, <1>6, <1>7 DEF PortInv, Truthful, ToldIsTrue, NothingTold
<1>9. DraftIsLatest'
  BY <1>3, <1>6 DEF PortInv, Truthful, DraftIsLatest, NothingTold
<1>10. /\ heard'.id <= number
       /\ heard'.out # "none" => \/ heard' = heard
                                 \/ heard'.id = t.id /\ (Pending(t) \/ t.id \in effects)
  <2>1. CASE heard' \in {heard, NothingTold}
    BY <2>1, <1>7 DEF PortInv, Truthful, NothingTold
  <2>2. CASE heard' \notin {heard, NothingTold}
    BY <2>2, <1>3, <1>7
  <2> QED BY <2>1, <2>2
<1>11. \A v \in Workers : NumberSound(transaction[v])' /\ Later(v, transaction[v])'
  <2> SUFFICES ASSUME NEW v \in Workers PROVE NumberSound(transaction[v])' /\ Later(v, transaction[v])'
    OBVIOUS
  <2>1. CASE v = w
    BY <2>1, <1>4, <1>5 DEF NumberSound, Later, Pending, NoTransaction, Reading
  <2>2. CASE v # w
    <3>1. transaction'[v] = transaction[v] /\ v # 0
      BY <2>2, <1>4 DEF Workers
    <3>2. Pending(t) /\ Pending(transaction[v]) => transaction[v].id # t.id
      BY <2>2 DEF PortInv, Truthful, Apart, t
    <3>3. Pending(transaction[v]) =>
             transaction[v].id \in 1..number /\ transaction[v].id \notin effects
             /\ (heard.out # "none" => transaction[v].id # heard.id)
             /\ (heard.by = v => heard.id < transaction[v].id) /\ (stored.by = v => stored.id < transaction[v].id)
      BY DEF PortInv, Truthful, NumberSound, Later
    <3>4. Pending(transaction[v]) => (heard'.out # "none" => transaction[v].id # heard'.id)
      BY <3>2, <3>3, <1>10
    <3>5. Pending(transaction[v]) => (heard'.by = v => heard'.id < transaction[v].id)
      BY <3>1, <3>3, <1>3 DEF NothingTold
    <3>6. transaction[v].at = "decided" => transaction[v].op \in Showing /\ transaction[v].id \in effects
      BY DEF PortInv, Truthful, NumberSound
    <3> QED
      BY <3>1, <3>3, <3>4, <3>5, <3>6, <1>6 DEF NumberSound, Later, Pending
  <2> QED BY <2>1, <2>2
<1>12. Apart'
  BY <1>4, <1>5 DEF PortInv, Truthful, Apart, Pending
<1> QED
  BY <1>6, <1>8, <1>9, <1>10, <1>11, <1>12 DEF PortInv, Truthful

-----------------------------------------------------------------------------

LEMMA StartWorkerKeeps ==
  ASSUME PortInv, NEW w \in Workers, StartWorker(w)
  PROVE  PortInv'
<1>1. PortTypes'
  BY DEF PortInv, PortTypes, StartWorker, Files, Answers, Calls, Reading, Publishing, Drafting, Carrying, Showing, Places, Transactions, Owners, OfTable, Numbered
<1>2. Capable'
  BY DEF PortInv, PortTypes, Capable, WriterHeld, NothingLeaks, Owned, MayOwn, Inside, Place, StartWorker, Files, Answers, Calls, Reading, Publishing, Drafting, Carrying, Showing, Places, Transactions, Owners, OfTable, Numbered
<1>3. Truthful'
  BY <1>1 DEF PortInv, PortTypes, Truthful, ToldIsTrue, DraftIsLatest, NumberSound, Later, Apart, Pending, StartWorker, Files, Answers, Calls, Reading, Publishing, Drafting, Carrying, Showing, Places, Transactions, Owners, OfTable, Numbered
<1> QED BY <1>1, <1>2, <1>3 DEF PortInv

LEMMA WorkerDiesKeeps ==
  ASSUME PortInv, NEW w \in Workers, WorkerDies(w)
  PROVE  PortInv'
<1>1. PortTypes'
  BY DEF PortInv, PortTypes, WorkerDies, Leases, Files, Answers, Calls, Reading, Publishing, Drafting, Carrying, Showing, Places, Transactions, Owners, OfTable, Numbered
<1>2. Capable'
  BY DEF PortInv, PortTypes, Capable, WriterHeld, NothingLeaks, Owned, MayOwn, Inside, Place, WorkerDies, Leases, Files, Answers, Calls, Reading, Publishing, Drafting, Carrying, Showing, Places, Transactions, Owners, OfTable, Numbered
<1>3. Truthful'
  BY <1>1 DEF PortInv, PortTypes, Truthful, ToldIsTrue, DraftIsLatest, NumberSound, Later, Apart, Pending, WorkerDies, Leases, Files, Answers, Calls, Reading, Publishing, Drafting, Carrying, Showing, Places, Transactions, Owners, OfTable, Numbered
<1> QED BY <1>1, <1>2, <1>3 DEF PortInv

LEMMA CloseEndpointKeeps ==
  ASSUME PortInv, NEW w \in Workers, CloseEndpoint(w)
  PROVE  PortInv'
<1>1. PortTypes'
  BY DEF PortInv, PortTypes, CloseEndpoint, Inside, Place, Files, Answers, Calls, Reading, Publishing, Drafting, Carrying, Showing, Places, Transactions, Owners, OfTable, Numbered
<1>2. Capable'
  BY DEF PortInv, PortTypes, Capable, WriterHeld, NothingLeaks, Owned, MayOwn, Inside, Place, CloseEndpoint, Files, Answers, Calls, Reading, Publishing, Drafting, Carrying, Showing, Places, Transactions, Owners, OfTable, Numbered
<1>3. Truthful'
  BY <1>1 DEF PortInv, PortTypes, Truthful, ToldIsTrue, DraftIsLatest, NumberSound, Later, Apart, Pending, CloseEndpoint, Inside, Place, Files, Answers, Calls, Reading, Publishing, Drafting, Carrying, Showing, Places, Transactions, Owners, OfTable, Numbered
<1> QED BY <1>1, <1>2, <1>3 DEF PortInv

LEMMA CloseTableKeeps ==
  ASSUME PortInv, NEW w \in Workers, CloseTable(w)
  PROVE  PortInv'
<1>1. PortTypes'
  BY DEF PortInv, PortTypes, CloseTable, Leases, Files, Answers, Calls, Reading, Publishing, Drafting, Carrying, Showing, Places, Transactions, Owners, OfTable, Numbered
<1>2. Capable'
  BY DEF PortInv, PortTypes, Capable, WriterHeld, NothingLeaks, Owned, MayOwn, Inside, Place, CloseTable, Leases, Files, Answers, Calls, Reading, Publishing, Drafting, Carrying, Showing, Places, Transactions, Owners, OfTable, Numbered
<1>3. Truthful'
  BY <1>1 DEF PortInv, PortTypes, Truthful, ToldIsTrue, DraftIsLatest, NumberSound, Later, Apart, Pending, CloseTable, Leases, Files, Answers, Calls, Reading, Publishing, Drafting, Carrying, Showing, Places, Transactions, Owners, OfTable, Numbered
<1> QED BY <1>1, <1>2, <1>3 DEF PortInv

LEMMA UndeliveredKeeps ==
  ASSUME PortInv, NEW w \in Workers, Undelivered(w)
  PROVE  PortInv'
<1>1. PortTypes'
  <2>1. leases' \in [Workers -> SUBSET Owners]
    BY Leased DEF Undelivered
  <2>2. NoTransaction \in Transactions
    BY PortAssumption DEF NoTransaction, Transactions, Calls, Reading, Places, Numbered
  <2> QED
    BY <2>1, <2>2 DEF PortInv, PortTypes, Undelivered, Capabilities, Files, Answers
<1>2. Capable'
  BY DEF PortInv, PortTypes, Capable, WriterHeld, NothingLeaks, Owned, MayOwn, Inside, Place, Undelivered, Leases, Capabilities, Files, Answers, NoTransaction, Calls, Reading, Publishing, Drafting, Carrying, Showing, Places, Transactions, Owners, OfTable, Numbered
<1>3. Truthful'
  BY <1>1 DEF PortInv, PortTypes, Truthful, ToldIsTrue, DraftIsLatest, NumberSound, Later, Apart, Pending, Undelivered, Leases, Capabilities, Files, Answers, Place, NoTransaction, Calls, Reading, Publishing, Drafting, Carrying, Showing, Places, Transactions, Owners, OfTable, Numbered
<1> QED BY <1>1, <1>2, <1>3 DEF PortInv

LEMMA EnterEndpointKeeps ==
  ASSUME PortInv, NEW w \in Workers, EnterEndpoint(w)
  PROVE  PortInv'
<1>1. PortTypes'
  BY DEF PortInv, PortTypes, EnterEndpoint, MovesTo, Capabilities, Files, Answers, Place, Calls, Reading, Publishing, Drafting, Carrying, Showing, Places, Transactions, Owners, OfTable, Numbered
<1>2. Capable'
  BY DEF PortInv, PortTypes, Capable, WriterHeld, NothingLeaks, Owned, MayOwn, Inside, Place, EnterEndpoint, MovesTo, Capabilities, Files, Answers, Calls, Reading, Publishing, Drafting, Carrying, Showing, Places, Transactions, Owners, OfTable, Numbered
<1>3. Truthful'
  BY <1>1 DEF PortInv, PortTypes, Truthful, ToldIsTrue, DraftIsLatest, NumberSound, Later, Apart, Pending, EnterEndpoint, MovesTo, Capabilities, Files, Answers, Place, Calls, Reading, Publishing, Drafting, Carrying, Showing, Places, Transactions, Owners, OfTable, Numbered
<1> QED BY <1>1, <1>2, <1>3 DEF PortInv

LEMMA RejectLateKeeps ==
  ASSUME PortInv, NEW w \in Workers, RejectLate(w)
  PROVE  PortInv'
<1>1. PortTypes'
  <2>1. leases' \in [Workers -> SUBSET Owners]
    BY Leased DEF RejectLate, Owners
  <2>2. Over(w, "refused") /\ "refused" \in Outcomes
    BY DEF RejectLate, Outcomes, Unproven
  <2>3. /\ transaction' \in [Workers -> Transactions] /\ known' \in [Workers -> Nat]
        /\ heard' \in [id : Numbered, out : {"none", "done", "refused"}, by : Workers \cup {0}]
    BY <2>2, Ended
  <2> QED
    BY <2>1, <2>2, <2>3 DEF PortInv, PortTypes, RejectLate, Over, Files
<1>2. Capable'
  BY DEF PortInv, PortTypes, Capable, WriterHeld, NothingLeaks, Owned, MayOwn, Inside, Place, RejectLate, Over, Tells, NothingTold, NoTransaction, Unproven, Leases, Files, Answers, Calls, Reading, Publishing, Drafting, Carrying, Showing, Places, Transactions, Owners, OfTable, Numbered
<1>3. Truthful'
  <2>1. Over(w, "refused") /\ UNCHANGED Files /\ "refused" \in Outcomes /\ transaction[w].op \in Calls
    BY DEF PortInv, PortTypes, Transactions, RejectLate, Outcomes, Unproven
  <2>2. /\ "refused" = "refused" => Pending(transaction[w]) \/ transaction[w].op \in Reading
        /\ "refused" = "done" => transaction[w].at = "decided"
    BY DEF RejectLate, Place, Pending, Unproven
  <2> QED
    BY <2>1, <2>2, EndsTruthful
<1> QED BY <1>1, <1>2, <1>3 DEF PortInv

LEMMA ConsumeKeeps ==
  ASSUME PortInv, NEW w \in Workers, Consume(w)
  PROVE  PortInv'
<1>1. PortTypes'
  <2>1. leases' \in [Workers -> SUBSET Owners]
    BY Leased DEF PortInv, PortTypes, Consume, Owners
  <2>2. transaction' \in [Workers -> Transactions]
    BY Moved DEF Consume, Places
  <2> QED
    BY <2>1, <2>2 DEF PortInv, PortTypes, Consume, Capabilities, Files, Answers
<1>2. Capable'
  BY DEF PortInv, PortTypes, Capable, WriterHeld, NothingLeaks, Owned, MayOwn, Inside, Place, Consume, MovesTo, Leases, Capabilities, Files, Answers, Calls, Reading, Publishing, Drafting, Carrying, Showing, Places, Transactions, Owners, OfTable, Numbered
<1>3. Truthful'
  BY <1>1 DEF PortInv, PortTypes, Truthful, ToldIsTrue, DraftIsLatest, NumberSound, Later, Apart, Pending, Consume, MovesTo, Leases, Capabilities, Files, Answers, Place, Calls, Reading, Publishing, Drafting, Carrying, Showing, Places, Transactions, Owners, OfTable, Numbered
<1> QED BY <1>1, <1>2, <1>3 DEF PortInv

LEMMA UnconsumedKeeps ==
  ASSUME PortInv, NEW w \in Workers, Unconsumed(w)
  PROVE  PortInv'
<1>1. PortTypes'
  <2>1. leases' \in [Workers -> SUBSET Owners]
    BY Leased DEF Unconsumed, Owners
  <2>2. Over(w, "refused") /\ "refused" \in Outcomes
    BY DEF Unconsumed, Leaves, Outcomes, Unproven
  <2>3. /\ transaction' \in [Workers -> Transactions] /\ known' \in [Workers -> Nat]
        /\ heard' \in [id : Numbered, out : {"none", "done", "refused"}, by : Workers \cup {0}]
    BY <2>2, Ended
  <2> QED
    BY <2>1, <2>2, <2>3 DEF PortInv, PortTypes, Unconsumed, Leaves, Over, Files
<1>2. Capable'
  BY DEF PortInv, PortTypes, Capable, WriterHeld, NothingLeaks, Owned, MayOwn, Inside, Place, Unconsumed, Leaves, Over, Tells, NothingTold, NoTransaction, Unproven, Leases, Files, Answers, Calls, Reading, Publishing, Drafting, Carrying, Showing, Places, Transactions, Owners, OfTable, Numbered
<1>3. Truthful'
  <2>1. Over(w, "refused") /\ UNCHANGED Files /\ "refused" \in Outcomes /\ transaction[w].op \in Calls
    BY DEF PortInv, PortTypes, Transactions, Unconsumed, Leaves, Outcomes, Unproven
  <2>2. /\ "refused" = "refused" => Pending(transaction[w]) \/ transaction[w].op \in Reading
        /\ "refused" = "done" => transaction[w].at = "decided"
    BY DEF Unconsumed, Place, Pending, Unproven
  <2> QED
    BY <2>1, <2>2, EndsTruthful
<1> QED BY <1>1, <1>2, <1>3 DEF PortInv

LEMMA NativeRefusesKeeps ==
  ASSUME PortInv, NEW w \in Workers, NativeRefuses(w)
  PROVE  PortInv'
<1>1. PortTypes'
  <2>1. leases' \in [Workers -> SUBSET Owners]
    BY Leased DEF NativeRefuses, Owners
  <2>2. Over(w, "refused") /\ "refused" \in Outcomes
    BY DEF NativeRefuses, Leaves, Outcomes, Unproven
  <2>3. /\ transaction' \in [Workers -> Transactions] /\ known' \in [Workers -> Nat]
        /\ heard' \in [id : Numbered, out : {"none", "done", "refused"}, by : Workers \cup {0}]
    BY <2>2, Ended
  <2> QED
    BY <2>1, <2>2, <2>3 DEF PortInv, PortTypes, NativeRefuses, Leaves, Over, Files
<1>2. Capable'
  BY DEF PortInv, PortTypes, Capable, WriterHeld, NothingLeaks, Owned, MayOwn, Inside, Place, NativeRefuses, Leaves, Over, Tells, NothingTold, NoTransaction, Unproven, Leases, Files, Answers, Calls, Reading, Publishing, Drafting, Carrying, Showing, Places, Transactions, Owners, OfTable, Numbered
<1>3. Truthful'
  <2>1. Over(w, "refused") /\ UNCHANGED Files /\ "refused" \in Outcomes /\ transaction[w].op \in Calls
    BY DEF PortInv, PortTypes, Transactions, NativeRefuses, Leaves, Outcomes, Unproven
  <2>2. /\ "refused" = "refused" => Pending(transaction[w]) \/ transaction[w].op \in Reading
        /\ "refused" = "done" => transaction[w].at = "decided"
    BY DEF NativeRefuses, Place, Pending, Unproven
  <2> QED
    BY <2>1, <2>2, EndsTruthful
<1> QED BY <1>1, <1>2, <1>3 DEF PortInv

LEMMA NativeReadsKeeps ==
  ASSUME PortInv, NEW w \in Workers, NativeReads(w)
  PROVE  PortInv'
<1>1. PortTypes'
  <2>1. latest \in Numbered
    BY PortAssumption DEF PortInv, PortTypes, Truthful, Numbered
  <2>2. transaction' \in [Workers -> Transactions]
    BY <2>1 DEF PortInv, PortTypes, NativeReads, Transactions, Places
  <2> QED
    BY <2>2 DEF PortInv, PortTypes, NativeReads, Capabilities, Files, Answers
<1>2. Capable'
  BY DEF PortInv, PortTypes, Capable, WriterHeld, NothingLeaks, Owned, MayOwn, Inside, Place, NativeReads, Capabilities, Files, Answers, Calls, Reading, Publishing, Drafting, Carrying, Showing, Places, Transactions, Owners, OfTable, Numbered
<1>3. Truthful'
  BY <1>1 DEF PortInv, PortTypes, Truthful, ToldIsTrue, DraftIsLatest, NumberSound, Later, Apart, Pending, NativeReads, Capabilities, Files, Answers, Place, Calls, Reading, Publishing, Drafting, Carrying, Showing, Places, Transactions, Owners, OfTable, Numbered
<1> QED BY <1>1, <1>2, <1>3 DEF PortInv

LEMMA NativeDoneKeeps ==
  ASSUME PortInv, NEW w \in Workers, NativeDone(w)
  PROVE  PortInv'
<1>1. PortTypes'
  <2>1. leases' \in [Workers -> SUBSET Owners]
    BY Leased DEF NativeDone, Owners
  <2>2. Over(w, "done") /\ "done" \in Outcomes
    BY DEF NativeDone, Leaves, Outcomes, Unproven
  <2>3. /\ transaction' \in [Workers -> Transactions] /\ known' \in [Workers -> Nat]
        /\ heard' \in [id : Numbered, out : {"none", "done", "refused"}, by : Workers \cup {0}]
    BY <2>2, Ended
  <2>4. Pending(transaction[w])
    BY DEF NativeDone, Mutates, Place, Pending
  <2>5. /\ latest' \in Nat /\ effects' \subseteq 1..number
        /\ stored' \in [id : Numbered, by : Workers \cup {0}]
    BY <2>4, Effected DEF NativeDone
  <2> QED
    BY <2>1, <2>2, <2>3, <2>5 DEF PortInv, PortTypes, NativeDone, Leaves, Over
<1>2. Capable'
  BY DEF PortInv, PortTypes, Capable, WriterHeld, NothingLeaks, Owned, MayOwn, Inside, Place, NativeDone, Mutates, TakesEffect, Publishes, PutsDraft, Leaves, Over, Tells, NothingTold, NoTransaction, Unproven, Leases, Files, Answers, Calls, Reading, Publishing, Drafting, Carrying, Showing, Places, Transactions, Owners, OfTable, Numbered
<1>3. Truthful'
  <2> DEFINE t == transaction[w]
  <2>1. /\ Pending(t) /\ t.op \notin Showing /\ t.id \in 1..number /\ t.id \notin effects
        /\ number \in Nat /\ effects \subseteq 1..number
    BY DEF PortInv, PortTypes, Truthful, NumberSound, NativeDone, Mutates, Pending, Place
  <2>2. /\ heard' = heard \/ heard' = NothingTold
           \/ heard' = [id |-> t.id, out |-> "done", by |-> IF t.op \in Drafting THEN w ELSE 0]
        /\ known' = known /\ number' = number
    BY <2>1 DEF NativeDone, Leaves, Over, Tells, Unproven, Answers, Pending
  <2>3. /\ effects' = effects \cup {t.id} /\ latest' \in {latest, t.id}
        /\ stored' = IF t.op \in Drafting THEN [id |-> t.id, by |-> w] ELSE stored
    BY DEF NativeDone, TakesEffect, Publishes, PutsDraft, Publishing, Drafting
  <2>4. /\ \A v \in Workers : transaction'[v] = IF v = w THEN NoTransaction ELSE transaction[v]
        /\ ~Pending(NoTransaction) /\ NoTransaction.at # "decided"
    BY DEF PortInv, PortTypes, NativeDone, Leaves, Over, Pending, NoTransaction, Reading
  <2>5. heard.by = w => heard.id < t.id
    BY <2>1 DEF PortInv, Truthful, Later
  <2>6. heard.out # "none" => heard.id # t.id
    BY <2>1 DEF PortInv, Truthful, NumberSound
  <2>7. heard \in [id : Numbered, out : {"none", "done", "refused"}, by : Workers \cup {0}] /\ w # 0
    BY DEF PortInv, PortTypes, Workers
  <2> HIDE DEF t
  <2>8. ToldIsTrue'
    BY <2>2, <2>3, <2>6, <2>7 DEF PortInv, Truthful, ToldIsTrue, NothingTold
  <2>9. DraftIsLatest'
    <3>1. CASE t.op \in Drafting
      <4>1. stored'.by = w /\ stored'.id = t.id /\ t.id \in Nat /\ heard.id \in Nat
        BY <3>1, <2>1, <2>3, <2>7, PortAssumption DEF Numbered
      <4>2. heard'.by = w => heard'.id <= t.id
        BY <4>1, <2>2, <2>5, <2>7 DEF NothingTold
      <4> QED BY <4>1, <4>2 DEF DraftIsLatest
    <3>2. CASE t.op \notin Drafting
      BY <3>2, <2>2, <2>3 DEF PortInv, Truthful, NothingTold, DraftIsLatest
    <3> QED BY <3>1, <3>2
  <2>10. \A v \in Workers : NumberSound(transaction[v])' /\ Later(v, transaction[v])'
    <3> SUFFICES ASSUME NEW v \in Workers PROVE NumberSound(transaction[v])' /\ Later(v, transaction[v])'
      OBVIOUS
    <3>1. CASE v = w
      BY <3>1, <2>4 DEF NumberSound, Later, Pending, NoTransaction, Reading
    <3>2. CASE v # w
      <4>1. transaction'[v] = transaction[v] /\ v # 0
        BY <3>2, <2>4 DEF Workers
      <4>2. Pending(transaction[v]) => transaction[v].id # t.id
        BY <3>2, <2>1 DEF PortInv, Truthful, Apart, t
      <4>3. /\ NumberSound(transaction[v]) /\ Later(v, transaction[v])
        BY DEF PortInv, Truthful
      <4>4. NumberSound(transaction[v])'
        BY <4>1, <4>2, <4>3, <2>2, <2>3 DEF NumberSound, Pending, NothingTold
      <4>5. Later(v, transaction[v])'
        BY <3>2, <4>1, <4>3, <2>2, <2>3 DEF Later, Pending, NothingTold
      <4> QED BY <4>4, <4>5
    <3> QED BY <3>1, <3>2
  <2>11. Apart'
    BY <2>4 DEF PortInv, Truthful, Apart, Pending
  <2>12. latest' \in effects' \cup {0} /\ heard'.id <= number' /\ stored'.id <= number'
    BY <2>1, <2>2, <2>3 DEF PortInv, Truthful, NothingTold
  <2> QED
    BY <2>8, <2>9, <2>10, <2>11, <2>12 DEF Truthful
<1> QED BY <1>1, <1>2, <1>3 DEF PortInv

LEMMA NativeCommitsKeeps ==
  ASSUME PortInv, NEW w \in Workers, NativeCommits(w)
  PROVE  PortInv'
<1>1. PortTypes'
  <2>1. Pending(transaction[w])
    BY DEF NativeCommits, Mutates, Place, Pending
  <2>2. leases' \in [Workers -> SUBSET Owners] /\ transaction' \in [Workers -> Transactions]
    BY Leased, Moved DEF NativeCommits, Places
  <2>3. /\ latest' \in Nat /\ effects' \subseteq 1..number
        /\ stored' \in [id : Numbered, by : Workers \cup {0}]
    BY <2>1, Effected DEF NativeCommits
  <2> QED
    BY <2>2, <2>3 DEF PortInv, PortTypes, NativeCommits, Capabilities, Answers
<1>2. Capable'
  BY DEF PortInv, PortTypes, Capable, WriterHeld, NothingLeaks, Owned, MayOwn, Inside, Place, NativeCommits, Mutates, TakesEffect, Publishes, PutsDraft, MovesTo, Leases, Capabilities, Answers, Calls, Reading, Publishing, Drafting, Carrying, Showing, Places, Transactions, Owners, OfTable, Numbered
<1>3. Truthful'
  BY <1>1 DEF PortInv, PortTypes, Truthful, ToldIsTrue, DraftIsLatest, NumberSound, Later, Apart, Pending, NativeCommits, Mutates, TakesEffect, Publishes, PutsDraft, MovesTo, Leases, Capabilities, Answers, Place, Calls, Reading, Publishing, Drafting, Carrying, Showing, Places, Transactions, Owners, OfTable, Numbered
<1> QED BY <1>1, <1>2, <1>3 DEF PortInv

LEMMA NativeUncertainKeeps ==
  ASSUME PortInv, NEW w \in Workers, NativeUncertain(w)
  PROVE  PortInv'
<1>1. PortTypes'
  <2>1. leases' \in [Workers -> SUBSET Owners]
    BY Leased DEF NativeUncertain, Owners
  <2>2. Over(w, "uncertain") /\ "uncertain" \in Outcomes
    BY DEF NativeUncertain, Leaves, Outcomes, Unproven
  <2>3. /\ transaction' \in [Workers -> Transactions] /\ known' \in [Workers -> Nat]
        /\ heard' \in [id : Numbered, out : {"none", "done", "refused"}, by : Workers \cup {0}]
    BY <2>2, Ended
  <2>4. Pending(transaction[w])
    BY DEF NativeUncertain, Mutates, Place, Pending
  <2>5. /\ latest' \in Nat /\ effects' \subseteq 1..number
        /\ stored' \in [id : Numbered, by : Workers \cup {0}]
    BY <2>4, Effected DEF NativeUncertain
  <2> QED
    BY <2>1, <2>2, <2>3, <2>5 DEF PortInv, PortTypes, NativeUncertain, Leaves, Over
<1>2. Capable'
  BY DEF PortInv, PortTypes, Capable, WriterHeld, NothingLeaks, Owned, MayOwn, Inside, Place, NativeUncertain, Mutates, TakesEffect, Publishes, PutsDraft, Leaves, Over, Tells, NothingTold, NoTransaction, Unproven, Leases, Files, Answers, Calls, Reading, Publishing, Drafting, Carrying, Showing, Places, Transactions, Owners, OfTable, Numbered
<1>3. Truthful'
  BY <1>1 DEF PortInv, PortTypes, Truthful, ToldIsTrue, DraftIsLatest, NumberSound, Later, Apart, Pending, NativeUncertain, Mutates, TakesEffect, Publishes, PutsDraft, Leaves, Over, Tells, NothingTold, NoTransaction, Unproven, Leases, Files, Answers, Place, Calls, Reading, Publishing, Drafting, Carrying, Showing, Places, Transactions, Owners, OfTable, Numbered
<1> QED BY <1>1, <1>2, <1>3 DEF PortInv

LEMMA ShowKeeps ==
  ASSUME PortInv, NEW w \in Workers, Show(w)
  PROVE  PortInv'
<1>1. PortTypes'
  <2>1. leases' \in [Workers -> SUBSET Owners]
    BY Leased DEF Show, Owners
  <2>2. Over(w, "done") /\ "done" \in Outcomes
    BY DEF Show, Leaves, Outcomes, Unproven
  <2>3. /\ transaction' \in [Workers -> Transactions] /\ known' \in [Workers -> Nat]
        /\ heard' \in [id : Numbered, out : {"none", "done", "refused"}, by : Workers \cup {0}]
    BY <2>2, Ended
  <2> QED
    BY <2>1, <2>2, <2>3 DEF PortInv, PortTypes, Show, Leaves, Over, Files
<1>2. Capable'
  BY DEF PortInv, PortTypes, Capable, WriterHeld, NothingLeaks, Owned, MayOwn, Inside, Place, Show, Leaves, Over, Tells, NothingTold, NoTransaction, Unproven, Leases, Files, Answers, Calls, Reading, Publishing, Drafting, Carrying, Showing, Places, Transactions, Owners, OfTable, Numbered
<1>3. Truthful'
  <2>1. Over(w, "done") /\ UNCHANGED Files /\ "done" \in Outcomes /\ transaction[w].op \in Calls
    BY DEF PortInv, PortTypes, Transactions, Show, Leaves, Outcomes, Unproven
  <2>2. /\ "done" = "refused" => Pending(transaction[w]) \/ transaction[w].op \in Reading
        /\ "done" = "done" => transaction[w].at = "decided"
    BY DEF Show, Place, Pending, Unproven
  <2> QED
    BY <2>1, <2>2, EndsTruthful
<1> QED BY <1>1, <1>2, <1>3 DEF PortInv

LEMMA CannotShowKeeps ==
  ASSUME PortInv, NEW w \in Workers, CannotShow(w)
  PROVE  PortInv'
<1>1. PortTypes'
  <2>1. leases' \in [Workers -> SUBSET Owners]
    BY Leased DEF CannotShow, Owners
  <2>2. Over(w, Unproven(transaction[w].op)) /\ Unproven(transaction[w].op) \in Outcomes
    BY DEF CannotShow, Leaves, Outcomes, Unproven
  <2>3. /\ transaction' \in [Workers -> Transactions] /\ known' \in [Workers -> Nat]
        /\ heard' \in [id : Numbered, out : {"none", "done", "refused"}, by : Workers \cup {0}]
    BY <2>2, Ended
  <2> QED
    BY <2>1, <2>2, <2>3 DEF PortInv, PortTypes, CannotShow, Leaves, Over, Files
<1>2. Capable'
  BY DEF PortInv, PortTypes, Capable, WriterHeld, NothingLeaks, Owned, MayOwn, Inside, Place, CannotShow, Leaves, Over, Tells, NothingTold, NoTransaction, Unproven, Leases, Files, Answers, Calls, Reading, Publishing, Drafting, Carrying, Showing, Places, Transactions, Owners, OfTable, Numbered
<1>3. Truthful'
  <2>1. Over(w, Unproven(transaction[w].op)) /\ UNCHANGED Files /\ Unproven(transaction[w].op) \in Outcomes /\ transaction[w].op \in Calls
    BY DEF PortInv, PortTypes, Transactions, CannotShow, Leaves, Outcomes, Unproven
  <2>2. /\ Unproven(transaction[w].op) = "refused" => Pending(transaction[w]) \/ transaction[w].op \in Reading
        /\ Unproven(transaction[w].op) = "done" => transaction[w].at = "decided"
    BY DEF CannotShow, Place, Pending, Unproven
  <2> QED
    BY <2>1, <2>2, EndsTruthful
<1> QED BY <1>1, <1>2, <1>3 DEF PortInv

LEMMA SubmitKeeps ==
  ASSUME PortInv, NEW w \in Workers, NEW op \in Calls, Submit(w, op)
  PROVE  PortInv'
<1>1. PortTypes'
  <2>1. leases' \in [Workers -> SUBSET Owners]
    BY Leased DEF Submit, Owners
  <2>2. [op |-> op, at |-> "sent", id |-> IF op \in Reading THEN 0 ELSE number'] \in Transactions
    BY PortAssumption DEF PortInv, PortTypes, Submit, Transactions, Places, Numbered
  <2>3. /\ number' \in Nat /\ number <= number' /\ number' <= MaxNumber
        /\ effects' \subseteq 1..number'
    BY PortAssumption DEF PortInv, PortTypes, Submit, Files
  <2> QED
    BY <2>1, <2>2, <2>3 DEF PortInv, PortTypes, Submit, Capabilities, Files, Answers
<1>2. Capable'
  BY DEF PortInv, PortTypes, Capable, WriterHeld, NothingLeaks, Owned, MayOwn, Inside, Place, Submit, Leases, Capabilities, Calls, Reading, Publishing, Drafting, Carrying, Showing, Places, Transactions, Owners, OfTable, Numbered
<1>3. Truthful'
  BY <1>1 DEF PortInv, PortTypes, Truthful, ToldIsTrue, DraftIsLatest, NumberSound, Later, Apart, Pending, Submit, Files, Answers, Place, Calls, Reading, Publishing, Drafting, Carrying, Showing, Places, Transactions, Owners, OfTable, Numbered
<1> QED BY <1>1, <1>2, <1>3 DEF PortInv

LEMMA HostCommitsKeeps ==
  ASSUME PortInv, HostCommits
  PROVE  PortInv'
<1>1. PortTypes'
  BY PortAssumption DEF PortInv, PortTypes, HostCommits, Capabilities, Answers
<1>2. Capable'
  BY DEF PortInv, Capable, WriterHeld, NothingLeaks, Owned, MayOwn, Inside, Place, HostCommits, Capabilities
<1>3. Truthful'
  <2>1. /\ number \in Nat /\ number' = number + 1 /\ effects \subseteq 1..number
        /\ effects' = effects \cup {number'} /\ latest' = number'
        /\ heard.id <= number /\ heard.id \in Nat /\ stored.id <= number /\ stored.id \in Nat
    BY PortAssumption DEF PortInv, PortTypes, Truthful, HostCommits, Numbered
  <2>2. UNCHANGED <<stored, transaction, known, heard>>
    BY DEF HostCommits, Answers
  <2>3. ToldIsTrue' /\ DraftIsLatest' /\ Apart'
    BY <2>1, <2>2 DEF PortInv, Truthful, ToldIsTrue, DraftIsLatest, Apart
  <2>4. ASSUME NEW w \in Workers PROVE NumberSound(transaction[w])' /\ Later(w, transaction[w])'
    <3>1. NumberSound(transaction[w]) /\ Later(w, transaction[w])
      BY DEF PortInv, Truthful
    <3> QED
      BY <2>1, <2>2, <3>1 DEF NumberSound, Later, Pending
  <2> QED
    BY <2>1, <2>2, <2>3, <2>4 DEF Truthful
<1> QED BY <1>1, <1>2, <1>3 DEF PortInv

(* For any number of worker generations and calls: what a worker is told   *)
(* of a call is true, the native writer is held exactly while it may be    *)
(* used, no descriptor outlives its call, and a draft is not older than    *)
(* what its generation was told, wherever processes die and endpoints and  *)
(* tables are closed.                                                      *)
THEOREM PortIsSound == PortSpec => []PortSound
<1>1. PortInit => PortInv
  <2> SUFFICES ASSUME PortInit PROVE PortInv
    OBVIOUS
  <2>1. PortTypes
    BY PortAssumption DEF PortInit, PortTypes, NoTransaction, NoDraft, NothingTold, Calls, Reading, Publishing, Drafting, Carrying, Showing, Places, Transactions, Owners, OfTable, Numbered
  <2>2. Capable
    BY DEF PortInit, NoTransaction, Capable, WriterHeld, NothingLeaks, Owned, MayOwn, Inside, Place, Calls, Reading, Publishing, Drafting, Carrying, Showing, Places, Transactions, Owners, OfTable, Numbered
  <2>3. Truthful
    BY DEF PortInit, NoTransaction, NoDraft, NothingTold, Truthful, ToldIsTrue, DraftIsLatest, NumberSound, Later, Apart, Pending, Calls, Reading, Publishing, Drafting, Carrying, Showing, Places, Transactions, Owners, OfTable, Numbered
  <2> QED BY <2>1, <2>2, <2>3 DEF PortInv
<1>2. PortInv /\ [PortNext]_portVars => PortInv'
  <2> SUFFICES ASSUME PortInv, [PortNext]_portVars PROVE PortInv'
    OBVIOUS
  <2>1. CASE HostCommits
    BY <2>1, HostCommitsKeeps
  <2>2. ASSUME NEW w \in Workers, WorkerStep(w) PROVE PortInv'
    BY <2>2, StartWorkerKeeps, WorkerDiesKeeps, CloseEndpointKeeps, CloseTableKeeps, SubmitKeeps,
       UndeliveredKeeps DEF WorkerStep
  <2>3. ASSUME NEW w \in Workers, HostStep(w) PROVE PortInv'
    BY <2>3, EnterEndpointKeeps, RejectLateKeeps, ConsumeKeeps, UnconsumedKeeps,
       NativeRefusesKeeps, NativeReadsKeeps, NativeDoneKeeps, NativeCommitsKeeps,
       NativeUncertainKeeps, ShowKeeps, CannotShowKeeps DEF HostStep
  <2>4. CASE UNCHANGED portVars
    BY <2>4 DEF portVars, PortInv, PortTypes, Place, Capable, WriterHeld, NothingLeaks, Owned, MayOwn, Inside, Truthful, ToldIsTrue, DraftIsLatest, NumberSound, Later, Apart, Pending
  <2> QED
    BY <2>1, <2>2, <2>3, <2>4 DEF PortNext
<1>3. PortInv => PortSound
  BY DEF PortInv, Capable, Truthful, PortSound
<1> QED
  BY <1>1, <1>2, <1>3, PTL DEF PortSpec
=============================================================================
