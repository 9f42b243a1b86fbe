------------------------- MODULE Coordinator_proofs --------------------------
(***************************************************************************)
(* The file writer, for every set of candidate archives; and what the      *)
(* coordinator reported as saved survives every crash, for any number of   *)
(* candidates, local changes and objects of peers.                         *)
(*                                                                         *)
(* LineInv ties the marker, the store's memory and the call in progress to *)
(* the last acknowledged version and mentions no file, so it survives      *)
(* other programs writing to the path.  DiskInv adds what the path may     *)
(* hold and is inductive relative to LineInv when only hosts write.  Both  *)
(* hold under the coordinator too: a candidate that it throws away is one  *)
(* that the store never referred to (Unused).  Grows says that a candidate *)
(* holds what its base held.                                               *)
(***************************************************************************)
EXTENDS Coordinator, TLAPS

-----------------------------------------------------------------------------
(* The file writer.                                                        *)

CreateCalls == {"create_mark", "create_publish", "create_sync", "create_ack"}
OpenCalls == {"open_sync", "open_recheck", "open_ack"}
CommitCalls == {"commit_mark", "commit_recheck", "commit_publish", "commit_sync"}
ConfirmCalls == {"confirm_sync", "confirm_recheck", "confirm_ack", "confirm_final"}

(* No call refers to an archive that nobody built.                         *)
RefsMade ==
  /\ anchor.accepted \in made \cup {Nil}
  /\ anchor.prepared \in made \cup {Nil}
  /\ cand \in made \cup {Nil}
  /\ snapshot \in made \cup {Nil}
  /\ last_commit \in made \cup {Nil}
  /\ acked \in made \cup {Nil}

(* The marker accepts the acknowledged version, or its direct successor    *)
(* once that successor is fully published; it prepares only successors.    *)
MarkerLine ==
  /\ \/ anchor.accepted = acked
     \/ anchor.accepted # Nil /\ base[anchor.accepted] = acked /\ anchor.prepared = Nil
  /\ anchor.prepared # Nil => anchor.accepted = acked /\ base[anchor.prepared] = acked

NoStore == snapshot = Nil /\ uncertain = FALSE /\ last_commit = Nil

(* The memory of an open store between calls.                              *)
OpenStore ==
  /\ snapshot # Nil
  /\ acked # Nil
  /\ uncertain => /\ last_commit # Nil
                  /\ base[last_commit] = acked
                  /\ snapshot \in {acked, last_commit}
  /\ ~uncertain => snapshot = acked /\ last_commit \in {Nil, snapshot}

CallLine ==
  /\ pc = "closed" => NoStore /\ cand = Nil
  /\ pc \in CreateCalls => NoStore /\ cand # Nil /\ acked = Nil /\ base[cand] = Nil
  /\ pc \in OpenCalls => NoStore /\ cand # Nil /\ cand \in {anchor.accepted, anchor.prepared}
  /\ pc \in {"ready"} \cup ConfirmCalls => OpenStore
  /\ pc \in CommitCalls => OpenStore /\ ~uncertain /\ cand # Nil /\ base[cand] = acked
  /\ pc = "commit_ack" =>
       /\ snapshot = cand /\ last_commit = cand /\ cand # Nil
       /\ base[cand] = acked /\ acked # Nil /\ ~uncertain
  /\ pc \in ConfirmCalls => cand # Nil /\ cand = last_commit
  /\ pc = "confirm_final" => anchor = Marker(cand, Nil)

LineInv == TypeOK /\ RefsMade /\ MarkerLine /\ CallLine

(* What each call knows about the path while it runs.                      *)
CallDisk ==
  /\ pc = "create_mark" => visible = Nil
  /\ pc = "create_publish" => visible = Nil /\ anchor = Marker(Nil, cand)
  /\ pc = "create_sync" => visible = cand /\ anchor = Marker(Nil, cand)
  /\ pc = "create_ack" => survivors = {cand}
  /\ pc = "open_sync" => visible = cand
  /\ pc \in {"open_recheck", "open_ack"} => survivors = {cand}
  /\ pc \in {"ready"} \cup ConfirmCalls => uncertain \/ survivors = {snapshot}
  /\ pc \in {"commit_mark", "commit_recheck", "commit_publish"} => survivors = {snapshot}
  /\ pc \in {"commit_recheck", "commit_publish", "commit_sync"} => anchor = Marker(snapshot, cand)
  /\ pc = "commit_sync" => visible = cand
  /\ pc = "commit_ack" => survivors = {cand} /\ anchor = Marker(acked, cand)
  /\ pc \in ConfirmCalls => visible = cand
  /\ pc \in ConfirmCalls \ {"confirm_sync"} => survivors = {cand}

DiskInv ==
  /\ visible \in survivors
  /\ survivors \subseteq made \cup {Nil}
  /\ visible = Nil => survivors = {Nil}
  /\ anchor.accepted # acked => survivors = {anchor.accepted}
  /\ Recoverable
  /\ AckedSurvives
  /\ CallDisk

-----------------------------------------------------------------------------
(* A marker built from two optional fingerprints is a marker holding them. *)
LEMMA MarkerFacts ==
  /\ \A a, p \in Maybe : /\ Marker(a, p) \in Anchors
                         /\ Marker(a, p).accepted = a
                         /\ Marker(a, p).prepared = p
  /\ \A m \in Anchors : m.accepted \in Maybe /\ m.prepared \in Maybe
  BY DEF Marker, Anchors

(* The writer's line invariant holds initially.                            *)
LEMMA LineInit == StoreInit => LineInv
<1> SUFFICES ASSUME StoreInit PROVE LineInv
  OBVIOUS
<1> USE NoneAssumption DEF StoreInit
<1>1. anchor = Marker(Nil, Nil) /\ Nil \in Maybe
  BY DEF Marker, Maybe
<1>2. TypeOK
  BY <1>1, MarkerFacts DEF TypeOK, Maybe, Calls
<1>3. RefsMade /\ MarkerLine /\ CallLine
  BY <1>1, MarkerFacts DEF RefsMade, MarkerLine, CallLine, NoStore, CreateCalls, OpenCalls,
                           CommitCalls, ConfirmCalls
<1>4. QED
  BY <1>2, <1>3 DEF LineInv

(* Every step of a host or of another program preserves it.                *)
LEMMA LineStep == LineInv /\ [StoreNext]_storeVars => LineInv'
<1> SUFFICES ASSUME LineInv, [StoreNext]_storeVars PROVE LineInv'
  OBVIOUS
<1> USE NoneAssumption DEF candidates, disk, memory, CreateCalls, OpenCalls, CommitCalls,
                           ConfirmCalls
<1>1. TypeOK /\ RefsMade /\ MarkerLine /\ CallLine
  BY DEF LineInv
<1>2. QED
  <2>1. ASSUME NEW v \in Versions, StageGenesis(v) PROVE LineInv'
    BY <1>1, <2>1 DEF StageGenesis, Goto, LineInv, TypeOK, Maybe, Calls, RefsMade, MarkerLine,
                      CallLine, NoStore, OpenStore
  <2>2. ASSUME NEW v \in Versions, Stage(v) PROVE LineInv'
    BY <1>1, <2>2 DEF Stage, Goto, LineInv, TypeOK, Maybe, Calls, RefsMade, MarkerLine, CallLine,
                      NoStore, OpenStore
  <2>3. ASSUME NEW v \in Versions, Create(v) PROVE LineInv'
    BY <1>1, <2>3 DEF Create, Goto, LineInv, TypeOK, Maybe, Calls, RefsMade, MarkerLine,
                      CallLine, NoStore, OpenStore
  <2>4. ASSUME NEW v \in Versions, Commit(v) PROVE LineInv'
    BY <1>1, <2>4 DEF Commit, Goto, LineInv, TypeOK, Maybe, Calls, RefsMade, MarkerLine,
                      CallLine, NoStore, OpenStore
  <2>5. ASSUME NEW v \in Versions, Confirm(v) PROVE LineInv'
    BY <1>1, <2>5, MarkerFacts DEF Confirm, Goto, LineInv, TypeOK, Maybe, Calls, RefsMade,
                                   MarkerLine, CallLine, NoStore, OpenStore
  <2>6. CASE CreateMark
    <3>1. TypeOK'
      <4>1. anchor' \in Anchors
        BY <1>1, <2>6, MarkerFacts DEF CreateMark, Closed, Goto, SaveAnchor, SaveAnchorFails,
                                       TypeOK, Maybe
      <4>2. uncertain' \in BOOLEAN
        BY <1>1, <2>6 DEF CreateMark, Closed, Goto, SaveAnchor, SaveAnchorFails, TypeOK
      <4>3. QED
        BY <1>1, <2>6, <4>1, <4>2 DEF CreateMark, Closed, Goto, SaveAnchor, SaveAnchorFails,
                                      TypeOK, Maybe, Calls
    <3>2. RefsMade'
      BY <1>1, <2>6, MarkerFacts DEF CreateMark, Closed, Goto, SaveAnchor, SaveAnchorFails,
                                     TypeOK, Maybe, RefsMade, CallLine, OpenStore
    <3>3. MarkerLine'
      BY <1>1, <2>6, MarkerFacts DEF CreateMark, Closed, Goto, SaveAnchor, SaveAnchorFails,
                                     TypeOK, Maybe, RefsMade, MarkerLine, CallLine, OpenStore
    <3>4. CallLine'
      BY <1>1, <2>6, MarkerFacts DEF CreateMark, Closed, Goto, SaveAnchor, SaveAnchorFails,
                                     TypeOK, Maybe, RefsMade, MarkerLine, CallLine, NoStore,
                                     OpenStore
    <3>5. QED
      BY <3>1, <3>2, <3>3, <3>4 DEF LineInv
  <2>7. CASE CreatePublish
    BY <1>1, <2>7 DEF CreatePublish, Rename, Closed, Goto, LineInv, TypeOK, Maybe, Calls,
                      RefsMade, MarkerLine, CallLine, NoStore, OpenStore
  <2>8. CASE CreateSync
    BY <1>1, <2>8 DEF CreateSync, Sync, Closed, Goto, LineInv, TypeOK, Maybe, Calls, RefsMade,
                      MarkerLine, CallLine, NoStore, OpenStore
  <2>9. CASE CreateAck
    <3>1. TypeOK'
      <4>1. anchor' \in Anchors
        BY <1>1, <2>9, MarkerFacts DEF CreateAck, Opened, Closed, Return, Goto, SaveAnchor,
                                       SaveAnchorFails, TypeOK, Maybe
      <4>2. uncertain' \in BOOLEAN
        BY <1>1, <2>9 DEF CreateAck, Opened, Closed, Return, Goto, SaveAnchor, SaveAnchorFails,
                          TypeOK
      <4>3. QED
        BY <1>1, <2>9, <4>1, <4>2 DEF CreateAck, Opened, Closed, Return, Goto, SaveAnchor,
                                      SaveAnchorFails, TypeOK, Maybe, Calls
    <3>2. RefsMade'
      BY <1>1, <2>9, MarkerFacts DEF CreateAck, Opened, Closed, Return, Goto, SaveAnchor,
                                     SaveAnchorFails, TypeOK, Maybe, RefsMade, CallLine,
                                     OpenStore
    <3>3. MarkerLine'
      BY <1>1, <2>9, MarkerFacts DEF CreateAck, Opened, Closed, Return, Goto, SaveAnchor,
                                     SaveAnchorFails, TypeOK, Maybe, RefsMade, MarkerLine,
                                     CallLine, OpenStore
    <3>4. CallLine'
      BY <1>1, <2>9, MarkerFacts DEF CreateAck, Opened, Closed, Return, Goto, SaveAnchor,
                                     SaveAnchorFails, TypeOK, Maybe, RefsMade, MarkerLine,
                                     CallLine, NoStore, OpenStore
    <3>5. QED
      BY <3>1, <3>2, <3>3, <3>4 DEF LineInv
  <2>10. CASE OpenRead
    BY <1>1, <2>10 DEF OpenRead, Goto, LineInv, TypeOK, Maybe, Calls, RefsMade, MarkerLine,
                       CallLine, NoStore, OpenStore
  <2>11. CASE OpenSync
    BY <1>1, <2>11 DEF OpenSync, Sync, Closed, Goto, LineInv, TypeOK, Maybe, Calls, RefsMade,
                       MarkerLine, CallLine, NoStore, OpenStore
  <2>12. CASE OpenRecheck
    BY <1>1, <2>12 DEF OpenRecheck, Closed, Goto, LineInv, TypeOK, Maybe, Calls, RefsMade,
                       MarkerLine, CallLine, NoStore, OpenStore
  <2>13. CASE OpenAck
    <3>1. TypeOK'
      <4>1. anchor' \in Anchors
        BY <1>1, <2>13, MarkerFacts DEF OpenAck, Opened, Closed, Return, Goto, SaveAnchor,
           SaveAnchorFails, TypeOK, Maybe
      <4>2. uncertain' \in BOOLEAN
        BY <1>1, <2>13 DEF OpenAck, Opened, Closed, Return, Goto, SaveAnchor, SaveAnchorFails,
                           TypeOK
      <4>3. QED
        BY <1>1, <2>13, <4>1, <4>2 DEF OpenAck, Opened, Closed, Return, Goto, SaveAnchor,
                                       SaveAnchorFails, TypeOK, Maybe, Calls
    <3>2. RefsMade'
      BY <1>1, <2>13, MarkerFacts DEF OpenAck, Opened, Closed, Return, Goto, SaveAnchor,
                                      SaveAnchorFails, TypeOK, Maybe, RefsMade, CallLine,
                                      OpenStore
    <3>3. MarkerLine'
      BY <1>1, <2>13, MarkerFacts DEF OpenAck, Opened, Closed, Return, Goto, SaveAnchor,
                                      SaveAnchorFails, TypeOK, Maybe, RefsMade, MarkerLine,
                                      CallLine, OpenStore
    <3>4. CallLine'
      BY <1>1, <2>13, MarkerFacts DEF OpenAck, Opened, Closed, Return, Goto, SaveAnchor,
                                      SaveAnchorFails, TypeOK, Maybe, RefsMade, MarkerLine,
                                      CallLine, NoStore, OpenStore
    <3>5. QED
      BY <3>1, <3>2, <3>3, <3>4 DEF LineInv
  <2>14. CASE CommitMark
    BY <1>1, <2>14, MarkerFacts DEF CommitMark, Return, Goto, SaveAnchor, SaveAnchorFails,
                                    LineInv, TypeOK, Maybe, Calls, RefsMade, MarkerLine,
                                    CallLine, NoStore, OpenStore
  <2>15. CASE CommitRecheck
    BY <1>1, <2>15 DEF CommitRecheck, Return, Goto, LineInv, TypeOK, Maybe, Calls, RefsMade,
                       MarkerLine, CallLine, NoStore, OpenStore
  <2>16. CASE CommitPublish
    <3>1. TypeOK'
      BY <1>1, <2>16 DEF CommitPublish, Rename, Doubt, Return, Goto, TypeOK, Maybe, Calls
    <3>2. RefsMade'
      BY <1>1, <2>16, MarkerFacts DEF CommitPublish, Rename, Doubt, Return, Goto, TypeOK, Maybe,
                                      RefsMade, CallLine, OpenStore
    <3>3. MarkerLine'
      BY <1>1, <2>16, MarkerFacts DEF CommitPublish, Rename, Doubt, Return, Goto, TypeOK, Maybe,
                                      RefsMade, MarkerLine, CallLine, OpenStore
    <3>4. CallLine'
      BY <1>1, <2>16, MarkerFacts DEF CommitPublish, Rename, Doubt, Return, Goto, TypeOK, Maybe,
                                      RefsMade, MarkerLine, CallLine, NoStore, OpenStore
    <3>5. QED
      BY <3>1, <3>2, <3>3, <3>4 DEF LineInv
  <2>17. CASE CommitSync
    <3>1. TypeOK'
      BY <1>1, <2>17 DEF CommitSync, Sync, Doubt, Return, Goto, TypeOK, Maybe, Calls
    <3>2. RefsMade'
      BY <1>1, <2>17, MarkerFacts DEF CommitSync, Sync, Doubt, Return, Goto, TypeOK, Maybe,
                                      RefsMade, CallLine, OpenStore
    <3>3. MarkerLine'
      BY <1>1, <2>17, MarkerFacts DEF CommitSync, Sync, Doubt, Return, Goto, TypeOK, Maybe,
                                      RefsMade, MarkerLine, CallLine, OpenStore
    <3>4. CallLine'
      BY <1>1, <2>17, MarkerFacts DEF CommitSync, Sync, Doubt, Return, Goto, TypeOK, Maybe,
                                      RefsMade, MarkerLine, CallLine, NoStore, OpenStore
    <3>5. QED
      BY <3>1, <3>2, <3>3, <3>4 DEF LineInv
  <2>18. CASE CommitAck
    <3>1. TypeOK'
      <4>1. anchor' \in Anchors
        BY <1>1, <2>18, MarkerFacts DEF CommitAck, Return, Goto, SaveAnchor, SaveAnchorFails,
           TypeOK, Maybe
      <4>2. uncertain' \in BOOLEAN
        BY <1>1, <2>18 DEF CommitAck, Return, Goto, SaveAnchor, SaveAnchorFails, TypeOK
      <4>3. QED
        BY <1>1, <2>18, <4>1, <4>2 DEF CommitAck, Return, Goto, SaveAnchor, SaveAnchorFails,
                                       TypeOK, Maybe, Calls
    <3>2. RefsMade'
      BY <1>1, <2>18, MarkerFacts DEF CommitAck, Return, Goto, SaveAnchor, SaveAnchorFails,
                                      TypeOK, Maybe, RefsMade, CallLine, OpenStore
    <3>3. MarkerLine'
      BY <1>1, <2>18, MarkerFacts DEF CommitAck, Return, Goto, SaveAnchor, SaveAnchorFails,
                                      TypeOK, Maybe, RefsMade, MarkerLine, CallLine, OpenStore
    <3>4. CallLine'
      BY <1>1, <2>18, MarkerFacts DEF CommitAck, Return, Goto, SaveAnchor, SaveAnchorFails,
                                      TypeOK, Maybe, RefsMade, MarkerLine, CallLine, NoStore,
                                      OpenStore
    <3>5. QED
      BY <3>1, <3>2, <3>3, <3>4 DEF LineInv
  <2>19. CASE ConfirmSync
    BY <1>1, <2>19 DEF ConfirmSync, Sync, Return, Goto, LineInv, TypeOK, Maybe, Calls, RefsMade,
                       MarkerLine, CallLine, NoStore, OpenStore
  <2>20. CASE ConfirmRecheck
    BY <1>1, <2>20 DEF ConfirmRecheck, Return, Goto, LineInv, TypeOK, Maybe, Calls, RefsMade,
                       MarkerLine, CallLine, NoStore, OpenStore
  <2>21. CASE ConfirmAck
    BY <1>1, <2>21, MarkerFacts DEF ConfirmAck, Return, Goto, SaveAnchor, SaveAnchorFails,
                                    LineInv, TypeOK, Maybe, Calls, RefsMade, MarkerLine,
                                    CallLine, NoStore, OpenStore
  <2>22. CASE ConfirmFinal
    <3>1. TypeOK'
      BY <1>1, <2>22 DEF ConfirmFinal, Return, Goto, TypeOK, Maybe, Calls
    <3>2. RefsMade'
      BY <1>1, <2>22, MarkerFacts DEF ConfirmFinal, Return, Goto, TypeOK, Maybe, RefsMade,
                                      CallLine, OpenStore
    <3>3. MarkerLine'
      BY <1>1, <2>22, MarkerFacts DEF ConfirmFinal, Return, Goto, TypeOK, Maybe, RefsMade,
                                      MarkerLine, CallLine, OpenStore
    <3>4. CallLine'
      BY <1>1, <2>22, MarkerFacts DEF ConfirmFinal, Return, Goto, TypeOK, Maybe, RefsMade,
                                      MarkerLine, CallLine, NoStore, OpenStore
    <3>5. QED
      BY <3>1, <3>2, <3>3, <3>4 DEF LineInv
  <2>23. CASE Exit
    BY <1>1, <2>23 DEF Exit, Closed, Goto, LineInv, TypeOK, Maybe, Calls, RefsMade, MarkerLine,
                       CallLine, NoStore, OpenStore
  <2>24. CASE PowerLoss
    BY <1>1, <2>24 DEF PowerLoss, Closed, Goto, LineInv, TypeOK, Maybe, Calls, RefsMade,
                       MarkerLine, CallLine, NoStore, OpenStore
  <2>25. ASSUME NEW w \in Maybe, Replace(w) PROVE LineInv'
    BY <1>1, <2>25 DEF Replace, Goto, LineInv, TypeOK, Maybe, Calls, RefsMade, MarkerLine,
                       CallLine, NoStore, OpenStore
  <2>26. CASE UNCHANGED storeVars
    BY <1>1, <2>26 DEF storeVars, LineInv, TypeOK, RefsMade, MarkerLine, CallLine, NoStore, OpenStore
  <2>27. QED
    BY <1>1, <2>1, <2>2, <2>3, <2>4, <2>5, <2>6, <2>7, <2>8, <2>9, <2>10, <2>11, <2>12, <2>13,
       <2>14, <2>15, <2>16, <2>17, <2>18, <2>19, <2>20, <2>21, <2>22, <2>23, <2>24, <2>25, <2>26
       DEF StoreNext, HostNext, Callers, CreateCall, OpenCall, CommitCall, ConfirmCall

(* Type correctness of the writer against every environment: I/O errors,   *)
(* crashes, power loss and other programs writing to the path.             *)
THEOREM TypeCorrect == StoreSpec => []TypeOK
<1>1. LineInv => TypeOK
  BY DEF LineInv
<1>2. QED
  BY <1>1, LineInit, LineStep, PTL DEF StoreSpec

(* An open store is never behind the last acknowledged version, even when  *)
(* other programs roll the file back between any two steps.                *)
THEOREM NeverBehind == StoreSpec => []OpenNotBehind
<1>1. LineInv => OpenNotBehind
  BY DEF LineInv, TypeOK, Calls, CallLine, OpenNotBehind, NoStore, OpenStore, CreateCalls,
         OpenCalls,
         CommitCalls, ConfirmCalls
<1>2. QED
  BY <1>1, LineInit, LineStep, PTL DEF StoreSpec

(* Acknowledged versions form one line in every environment: commit,       *)
(* confirm_commit and open acknowledge only direct successors, and create  *)
(* acknowledges a genesis only when nothing was acknowledged before.       *)
THEOREM LinearAcknowledgements == StoreSpec => AckedLinear
<1> DEFINE Line == acked' # acked => acked' # Nil /\ base'[acked'] = acked
<1>1. LineInv /\ [StoreNext]_storeVars => [Line]_storeVars
  <2> SUFFICES ASSUME LineInv, StoreNext PROVE Line
    BY DEF storeVars
  <2> USE NoneAssumption DEF candidates, LineInv, CreateCalls, OpenCalls, CommitCalls, ConfirmCalls
  <2>1. CASE CreateAck
    BY <2>1 DEF CreateAck, Opened, Closed, Return, CallLine, MarkerLine, OpenStore
  <2>2. CASE OpenAck
    BY <2>2 DEF OpenAck, Opened, Closed, Return, CallLine, MarkerLine, OpenStore
  <2>3. CASE CommitAck
    BY <2>3 DEF CommitAck, Return, CallLine, MarkerLine, OpenStore
  <2>4. CASE ConfirmFinal
    BY <2>4 DEF ConfirmFinal, Return, CallLine, MarkerLine, OpenStore
  <2>5. CASE ~(CreateAck \/ OpenAck \/ CommitAck \/ ConfirmFinal)
    BY <2>5 DEF StoreNext, HostNext, Callers, CreateCall, OpenCall, CommitCall, ConfirmCall,
           StageGenesis, Stage, Create, Commit, Confirm, CreateMark, CreatePublish,
           CreateSync, OpenRead, OpenSync, OpenRecheck, CommitMark, CommitRecheck,
           CommitPublish, CommitSync, ConfirmSync, ConfirmRecheck, ConfirmAck, Exit,
           PowerLoss, Replace
  <2>6. QED
    BY <2>1, <2>2, <2>3, <2>4, <2>5
<1>2. QED
  BY <1>1, LineInit, LineStep, PTL DEF StoreSpec, AckedLinear

-----------------------------------------------------------------------------
(* The disk part of the invariant holds initially ...                      *)
LEMMA DiskInit == StoreInit => DiskInv
  BY NoneAssumption DEF StoreInit, DiskInv, Recoverable, AckedSurvives, CallDisk, ConfirmCalls

(* ... and every host step, crash and power loss preserves it.             *)
LEMMA DiskStep == LineInv /\ LineInv' /\ DiskInv /\ [HostNext]_storeVars => DiskInv'
<1> SUFFICES ASSUME LineInv, LineInv', DiskInv, [HostNext]_storeVars PROVE DiskInv'
  OBVIOUS
<1> USE NoneAssumption DEF candidates, disk, memory, CreateCalls, OpenCalls, CommitCalls,
                           ConfirmCalls
<1>1. TypeOK /\ RefsMade /\ MarkerLine /\ CallLine /\ TypeOK' /\ RefsMade' /\ CallLine'
  BY DEF LineInv
<1>2. QED
  <2>1. ASSUME NEW v \in Versions, StageGenesis(v) PROVE DiskInv'
    BY <1>1, <2>1 DEF StageGenesis, Goto, DiskInv, Recoverable, AckedSurvives, CallDisk
  <2>2. ASSUME NEW v \in Versions, Stage(v) PROVE DiskInv'
    BY <1>1, <2>2 DEF Stage, Goto, DiskInv, Recoverable, AckedSurvives, CallDisk
  <2>3. ASSUME NEW v \in Versions, Create(v) PROVE DiskInv'
    BY <1>1, <2>3, MarkerFacts DEF Create, Goto, DiskInv, Recoverable, AckedSurvives, CallDisk
  <2>4. ASSUME NEW v \in Versions, Commit(v) PROVE DiskInv'
    BY <1>1, <2>4, MarkerFacts DEF Commit, Goto, DiskInv, Recoverable, AckedSurvives, CallDisk
  <2>5. ASSUME NEW v \in Versions, Confirm(v) PROVE DiskInv'
    BY <1>1, <2>5, MarkerFacts DEF Confirm, Goto, DiskInv, Recoverable, AckedSurvives, CallDisk
  <2>6. CASE CreateMark
    <3>1. /\ visible' \in survivors' /\ survivors' \subseteq made' \cup {Nil}
          /\ visible' = Nil => survivors' = {Nil}
      BY <1>1, <2>6 DEF CreateMark, Closed, Goto, SaveAnchor, SaveAnchorFails, TypeOK, Maybe,
                        RefsMade, MarkerLine, CallLine, NoStore, OpenStore, DiskInv, CallDisk
    <3>2. anchor'.accepted # acked' => survivors' = {anchor'.accepted}
      BY <1>1, <2>6, MarkerFacts DEF CreateMark, Closed, Goto, SaveAnchor, SaveAnchorFails,
                                     TypeOK, Maybe, RefsMade, MarkerLine, CallLine, NoStore,
                                     OpenStore, DiskInv, CallDisk, Recoverable, AckedSurvives
    <3>3. Recoverable'
      BY <1>1, <2>6, MarkerFacts DEF CreateMark, Closed, Goto, SaveAnchor, SaveAnchorFails,
                                     TypeOK, Maybe, RefsMade, MarkerLine, CallLine, NoStore,
                                     OpenStore, DiskInv, CallDisk, Recoverable
    <3>4. AckedSurvives'
      BY <1>1, <2>6 DEF CreateMark, Closed, Goto, SaveAnchor, SaveAnchorFails, TypeOK, Maybe,
                        RefsMade, MarkerLine, CallLine, NoStore, OpenStore, DiskInv, CallDisk,
                        AckedSurvives
    <3>5. CallDisk'
      BY <1>1, <2>6, MarkerFacts DEF CreateMark, Closed, Goto, SaveAnchor, SaveAnchorFails,
                                     TypeOK, Maybe, RefsMade, MarkerLine, CallLine, NoStore,
                                     OpenStore, DiskInv, CallDisk, Recoverable
    <3>6. QED
      BY <3>1, <3>2, <3>3, <3>4, <3>5 DEF DiskInv
  <2>7. CASE CreatePublish
    <3>1. /\ visible' \in survivors' /\ survivors' \subseteq made' \cup {Nil}
          /\ visible' = Nil => survivors' = {Nil}
      BY <1>1, <2>7 DEF CreatePublish, Rename, Closed, Goto, TypeOK, Maybe, RefsMade, MarkerLine,
                        CallLine, NoStore, OpenStore, DiskInv, CallDisk
    <3>2. anchor'.accepted # acked' => survivors' = {anchor'.accepted}
      BY <1>1, <2>7, MarkerFacts DEF CreatePublish, Rename, Closed, Goto, TypeOK, Maybe,
                                     RefsMade, MarkerLine, CallLine, NoStore, OpenStore, DiskInv,
                                     CallDisk, Recoverable, AckedSurvives
    <3>3. Recoverable'
      BY <1>1, <2>7, MarkerFacts DEF CreatePublish, Rename, Closed, Goto, TypeOK, Maybe,
                                     RefsMade, MarkerLine, CallLine, NoStore, OpenStore, DiskInv,
                                     CallDisk, Recoverable
    <3>4. AckedSurvives'
      BY <1>1, <2>7 DEF CreatePublish, Rename, Closed, Goto, TypeOK, Maybe, RefsMade, MarkerLine,
                        CallLine, NoStore, OpenStore, DiskInv, CallDisk, AckedSurvives
    <3>5. CallDisk'
      BY <1>1, <2>7, MarkerFacts DEF CreatePublish, Rename, Closed, Goto, TypeOK, Maybe,
                                     RefsMade, MarkerLine, CallLine, NoStore, OpenStore, DiskInv,
                                     CallDisk, Recoverable
    <3>6. QED
      BY <3>1, <3>2, <3>3, <3>4, <3>5 DEF DiskInv
  <2>8. CASE CreateSync
    BY <1>1, <2>8 DEF CreateSync, Sync, Closed, Goto, DiskInv, Recoverable, AckedSurvives, CallDisk
  <2>9. CASE CreateAck
    <3>1. /\ visible' \in survivors' /\ survivors' \subseteq made' \cup {Nil}
          /\ visible' = Nil => survivors' = {Nil}
      BY <1>1, <2>9 DEF CreateAck, Opened, Closed, Return, Goto, SaveAnchor, SaveAnchorFails,
                        TypeOK, Maybe, RefsMade, MarkerLine, CallLine, NoStore, OpenStore,
                        DiskInv, CallDisk
    <3>2. anchor'.accepted # acked' => survivors' = {anchor'.accepted}
      BY <1>1, <2>9, MarkerFacts DEF CreateAck, Opened, Closed, Return, Goto, SaveAnchor,
                                     SaveAnchorFails, TypeOK, Maybe, RefsMade, MarkerLine,
                                     CallLine, NoStore, OpenStore, DiskInv, CallDisk,
                                     Recoverable, AckedSurvives
    <3>3. Recoverable'
      BY <1>1, <2>9, MarkerFacts DEF CreateAck, Opened, Closed, Return, Goto, SaveAnchor,
                                     SaveAnchorFails, TypeOK, Maybe, RefsMade, MarkerLine,
                                     CallLine, NoStore, OpenStore, DiskInv, CallDisk, Recoverable
    <3>4. AckedSurvives'
      BY <1>1, <2>9 DEF CreateAck, Opened, Closed, Return, Goto, SaveAnchor, SaveAnchorFails,
                        TypeOK, Maybe, RefsMade, MarkerLine, CallLine, NoStore, OpenStore,
                        DiskInv, CallDisk, AckedSurvives
    <3>5. CallDisk'
      BY <1>1, <2>9, MarkerFacts DEF CreateAck, Opened, Closed, Return, Goto, SaveAnchor,
                                     SaveAnchorFails, TypeOK, Maybe, RefsMade, MarkerLine,
                                     CallLine, NoStore, OpenStore, DiskInv, CallDisk, Recoverable
    <3>6. QED
      BY <3>1, <3>2, <3>3, <3>4, <3>5 DEF DiskInv
  <2>10. CASE OpenRead
    BY <1>1, <2>10, MarkerFacts DEF OpenRead, Goto, DiskInv, Recoverable, AckedSurvives, CallDisk
  <2>11. CASE OpenSync
    BY <1>1, <2>11 DEF OpenSync, Sync, Closed, Goto, DiskInv, Recoverable, AckedSurvives, CallDisk
  <2>12. CASE OpenRecheck
    BY <1>1, <2>12 DEF OpenRecheck, Closed, Goto, DiskInv, Recoverable, AckedSurvives, CallDisk
  <2>13. CASE OpenAck
    <3>1. /\ visible' \in survivors' /\ survivors' \subseteq made' \cup {Nil}
          /\ visible' = Nil => survivors' = {Nil}
      BY <1>1, <2>13 DEF OpenAck, Opened, Closed, Return, Goto, SaveAnchor, SaveAnchorFails,
                         TypeOK, Maybe, RefsMade, MarkerLine, CallLine, NoStore, OpenStore,
                         DiskInv, CallDisk
    <3>2. anchor'.accepted # acked' => survivors' = {anchor'.accepted}
      BY <1>1, <2>13, MarkerFacts DEF OpenAck, Opened, Closed, Return, Goto, SaveAnchor,
                                      SaveAnchorFails, TypeOK, Maybe, RefsMade, MarkerLine,
                                      CallLine, NoStore, OpenStore, DiskInv, CallDisk,
                                      Recoverable, AckedSurvives
    <3>3. Recoverable'
      BY <1>1, <2>13, MarkerFacts DEF OpenAck, Opened, Closed, Return, Goto, SaveAnchor,
                                      SaveAnchorFails, TypeOK, Maybe, RefsMade, MarkerLine,
                                      CallLine, NoStore, OpenStore, DiskInv, CallDisk,
                                      Recoverable
    <3>4. AckedSurvives'
      BY <1>1, <2>13 DEF OpenAck, Opened, Closed, Return, Goto, SaveAnchor, SaveAnchorFails,
                         TypeOK, Maybe, RefsMade, MarkerLine, CallLine, NoStore, OpenStore,
                         DiskInv, CallDisk, AckedSurvives
    <3>5. CallDisk'
      BY <1>1, <2>13, MarkerFacts DEF OpenAck, Opened, Closed, Return, Goto, SaveAnchor,
                                      SaveAnchorFails, TypeOK, Maybe, RefsMade, MarkerLine,
                                      CallLine, NoStore, OpenStore, DiskInv, CallDisk,
                                      Recoverable
    <3>6. QED
      BY <3>1, <3>2, <3>3, <3>4, <3>5 DEF DiskInv
  <2>14. CASE CommitMark
    <3>1. /\ visible' \in survivors' /\ survivors' \subseteq made' \cup {Nil}
          /\ visible' = Nil => survivors' = {Nil}
      BY <1>1, <2>14 DEF CommitMark, Return, Goto, SaveAnchor, SaveAnchorFails, TypeOK, Maybe,
                         RefsMade, MarkerLine, CallLine, NoStore, OpenStore, DiskInv, CallDisk
    <3>2. anchor'.accepted # acked' => survivors' = {anchor'.accepted}
      BY <1>1, <2>14, MarkerFacts DEF CommitMark, Return, Goto, SaveAnchor, SaveAnchorFails,
                                      TypeOK, Maybe, RefsMade, MarkerLine, CallLine, NoStore,
                                      OpenStore, DiskInv, CallDisk, Recoverable, AckedSurvives
    <3>3. Recoverable'
      BY <1>1, <2>14, MarkerFacts DEF CommitMark, Return, Goto, SaveAnchor, SaveAnchorFails,
                                      TypeOK, Maybe, RefsMade, MarkerLine, CallLine, NoStore,
                                      OpenStore, DiskInv, CallDisk, Recoverable
    <3>4. AckedSurvives'
      BY <1>1, <2>14 DEF CommitMark, Return, Goto, SaveAnchor, SaveAnchorFails, TypeOK, Maybe,
                         RefsMade, MarkerLine, CallLine, NoStore, OpenStore, DiskInv, CallDisk,
                         AckedSurvives
    <3>5. CallDisk'
      BY <1>1, <2>14, MarkerFacts DEF CommitMark, Return, Goto, SaveAnchor, SaveAnchorFails,
                                      TypeOK, Maybe, RefsMade, MarkerLine, CallLine, NoStore,
                                      OpenStore, DiskInv, CallDisk, Recoverable
    <3>6. QED
      BY <3>1, <3>2, <3>3, <3>4, <3>5 DEF DiskInv
  <2>15. CASE CommitRecheck
    BY <1>1, <2>15 DEF CommitRecheck, Return, Goto, DiskInv, Recoverable, AckedSurvives, CallDisk
  <2>16. CASE CommitPublish
    <3>1. /\ visible' \in survivors' /\ survivors' \subseteq made' \cup {Nil}
          /\ visible' = Nil => survivors' = {Nil}
      BY <1>1, <2>16 DEF CommitPublish, Rename, Doubt, Return, Goto, TypeOK, Maybe, RefsMade,
                         MarkerLine, CallLine, NoStore, OpenStore, DiskInv, CallDisk
    <3>2. anchor'.accepted # acked' => survivors' = {anchor'.accepted}
      BY <1>1, <2>16, MarkerFacts DEF CommitPublish, Rename, Doubt, Return, Goto, TypeOK, Maybe,
                                      RefsMade, MarkerLine, CallLine, NoStore, OpenStore,
                                      DiskInv, CallDisk, Recoverable, AckedSurvives
    <3>3. Recoverable'
      BY <1>1, <2>16, MarkerFacts DEF CommitPublish, Rename, Doubt, Return, Goto, TypeOK, Maybe,
                                      RefsMade, MarkerLine, CallLine, NoStore, OpenStore,
                                      DiskInv, CallDisk, Recoverable
    <3>4. AckedSurvives'
      BY <1>1, <2>16 DEF CommitPublish, Rename, Doubt, Return, Goto, TypeOK, Maybe, RefsMade,
                         MarkerLine, CallLine, NoStore, OpenStore, DiskInv, CallDisk,
                         AckedSurvives
    <3>5. CallDisk'
      BY <1>1, <2>16, MarkerFacts DEF CommitPublish, Rename, Doubt, Return, Goto, TypeOK, Maybe,
                                      RefsMade, MarkerLine, CallLine, NoStore, OpenStore,
                                      DiskInv, CallDisk, Recoverable
    <3>6. QED
      BY <3>1, <3>2, <3>3, <3>4, <3>5 DEF DiskInv
  <2>17. CASE CommitSync
    <3>1. /\ visible' \in survivors' /\ survivors' \subseteq made' \cup {Nil}
          /\ visible' = Nil => survivors' = {Nil}
      BY <1>1, <2>17 DEF CommitSync, Sync, Doubt, Return, Goto, TypeOK, Maybe, RefsMade,
                         MarkerLine, CallLine, NoStore, OpenStore, DiskInv, CallDisk
    <3>2. anchor'.accepted # acked' => survivors' = {anchor'.accepted}
      BY <1>1, <2>17, MarkerFacts DEF CommitSync, Sync, Doubt, Return, Goto, TypeOK, Maybe,
                                      RefsMade, MarkerLine, CallLine, NoStore, OpenStore,
                                      DiskInv, CallDisk, Recoverable, AckedSurvives
    <3>3. Recoverable'
      BY <1>1, <2>17, MarkerFacts DEF CommitSync, Sync, Doubt, Return, Goto, TypeOK, Maybe,
                                      RefsMade, MarkerLine, CallLine, NoStore, OpenStore,
                                      DiskInv, CallDisk, Recoverable
    <3>4. AckedSurvives'
      BY <1>1, <2>17 DEF CommitSync, Sync, Doubt, Return, Goto, TypeOK, Maybe, RefsMade,
                         MarkerLine, CallLine, NoStore, OpenStore, DiskInv, CallDisk,
                         AckedSurvives
    <3>5. CallDisk'
      BY <1>1, <2>17, MarkerFacts DEF CommitSync, Sync, Doubt, Return, Goto, TypeOK, Maybe,
                                      RefsMade, MarkerLine, CallLine, NoStore, OpenStore,
                                      DiskInv, CallDisk, Recoverable
    <3>6. QED
      BY <3>1, <3>2, <3>3, <3>4, <3>5 DEF DiskInv
  <2>18. CASE CommitAck
    <3>1. /\ visible' \in survivors' /\ survivors' \subseteq made' \cup {Nil}
          /\ visible' = Nil => survivors' = {Nil}
      BY <1>1, <2>18 DEF CommitAck, Return, Goto, SaveAnchor, SaveAnchorFails, TypeOK, Maybe,
                         RefsMade, MarkerLine, CallLine, NoStore, OpenStore, DiskInv, CallDisk
    <3>2. anchor'.accepted # acked' => survivors' = {anchor'.accepted}
      BY <1>1, <2>18, MarkerFacts DEF CommitAck, Return, Goto, SaveAnchor, SaveAnchorFails,
                                      TypeOK, Maybe, RefsMade, MarkerLine, CallLine, NoStore,
                                      OpenStore, DiskInv, CallDisk, Recoverable, AckedSurvives
    <3>3. Recoverable'
      BY <1>1, <2>18, MarkerFacts DEF CommitAck, Return, Goto, SaveAnchor, SaveAnchorFails,
                                      TypeOK, Maybe, RefsMade, MarkerLine, CallLine, NoStore,
                                      OpenStore, DiskInv, CallDisk, Recoverable
    <3>4. AckedSurvives'
      BY <1>1, <2>18 DEF CommitAck, Return, Goto, SaveAnchor, SaveAnchorFails, TypeOK, Maybe,
                         RefsMade, MarkerLine, CallLine, NoStore, OpenStore, DiskInv, CallDisk,
                         AckedSurvives
    <3>5. CallDisk'
      BY <1>1, <2>18, MarkerFacts DEF CommitAck, Return, Goto, SaveAnchor, SaveAnchorFails,
                                      TypeOK, Maybe, RefsMade, MarkerLine, CallLine, NoStore,
                                      OpenStore, DiskInv, CallDisk, Recoverable
    <3>6. QED
      BY <3>1, <3>2, <3>3, <3>4, <3>5 DEF DiskInv
  <2>19. CASE ConfirmSync
    BY <1>1, <2>19 DEF ConfirmSync, Sync, Return, Goto, DiskInv, Recoverable, AckedSurvives,
                       CallDisk
  <2>20. CASE ConfirmRecheck
    BY <1>1, <2>20 DEF ConfirmRecheck, Return, Goto, DiskInv, Recoverable, AckedSurvives, CallDisk
  <2>21. CASE ConfirmAck
    <3>1. /\ visible' \in survivors' /\ survivors' \subseteq made' \cup {Nil}
          /\ visible' = Nil => survivors' = {Nil}
      BY <1>1, <2>21 DEF ConfirmAck, Return, Goto, SaveAnchor, SaveAnchorFails, TypeOK, Maybe,
                         RefsMade, MarkerLine, CallLine, NoStore, OpenStore, DiskInv, CallDisk
    <3>2. anchor'.accepted # acked' => survivors' = {anchor'.accepted}
      BY <1>1, <2>21, MarkerFacts DEF ConfirmAck, Return, Goto, SaveAnchor, SaveAnchorFails,
                                      TypeOK, Maybe, RefsMade, MarkerLine, CallLine, NoStore,
                                      OpenStore, DiskInv, CallDisk, Recoverable, AckedSurvives
    <3>3. Recoverable'
      BY <1>1, <2>21, MarkerFacts DEF ConfirmAck, Return, Goto, SaveAnchor, SaveAnchorFails,
                                      TypeOK, Maybe, RefsMade, MarkerLine, CallLine, NoStore,
                                      OpenStore, DiskInv, CallDisk, Recoverable
    <3>4. AckedSurvives'
      BY <1>1, <2>21 DEF ConfirmAck, Return, Goto, SaveAnchor, SaveAnchorFails, TypeOK, Maybe,
                         RefsMade, MarkerLine, CallLine, NoStore, OpenStore, DiskInv, CallDisk,
                         AckedSurvives
    <3>5. CallDisk'
      BY <1>1, <2>21, MarkerFacts DEF ConfirmAck, Return, Goto, SaveAnchor, SaveAnchorFails,
                                      TypeOK, Maybe, RefsMade, MarkerLine, CallLine, NoStore,
                                      OpenStore, DiskInv, CallDisk, Recoverable
    <3>6. QED
      BY <3>1, <3>2, <3>3, <3>4, <3>5 DEF DiskInv
  <2>22. CASE ConfirmFinal
    <3>1. /\ visible' \in survivors' /\ survivors' \subseteq made' \cup {Nil}
          /\ visible' = Nil => survivors' = {Nil}
      BY <1>1, <2>22 DEF ConfirmFinal, Return, Goto, TypeOK, Maybe, RefsMade, MarkerLine,
                         CallLine, NoStore, OpenStore, DiskInv, CallDisk
    <3>2. anchor'.accepted # acked' => survivors' = {anchor'.accepted}
      BY <1>1, <2>22, MarkerFacts DEF ConfirmFinal, Return, Goto, TypeOK, Maybe, RefsMade,
                                      MarkerLine, CallLine, NoStore, OpenStore, DiskInv,
                                      CallDisk, Recoverable, AckedSurvives
    <3>3. Recoverable'
      BY <1>1, <2>22, MarkerFacts DEF ConfirmFinal, Return, Goto, TypeOK, Maybe, RefsMade,
                                      MarkerLine, CallLine, NoStore, OpenStore, DiskInv,
                                      CallDisk, Recoverable
    <3>4. AckedSurvives'
      BY <1>1, <2>22 DEF ConfirmFinal, Return, Goto, TypeOK, Maybe, RefsMade, MarkerLine,
                         CallLine, NoStore, OpenStore, DiskInv, CallDisk, AckedSurvives
    <3>5. CallDisk'
      BY <1>1, <2>22, MarkerFacts DEF ConfirmFinal, Return, Goto, TypeOK, Maybe, RefsMade,
                                      MarkerLine, CallLine, NoStore, OpenStore, DiskInv,
                                      CallDisk, Recoverable
    <3>6. QED
      BY <3>1, <3>2, <3>3, <3>4, <3>5 DEF DiskInv
  <2>23. CASE Exit
    BY <1>1, <2>23 DEF Exit, Closed, Goto, DiskInv, Recoverable, AckedSurvives, CallDisk
  <2>24. CASE PowerLoss
    BY <1>1, <2>24 DEF PowerLoss, Closed, Goto, DiskInv, Recoverable, AckedSurvives, CallDisk
  <2>25. CASE UNCHANGED storeVars
    BY <1>1, <2>25 DEF storeVars, DiskInv, Recoverable, AckedSurvives, CallDisk
  <2>26. QED
    BY <1>1, <2>1, <2>2, <2>3, <2>4, <2>5, <2>6, <2>7, <2>8, <2>9, <2>10, <2>11, <2>12, <2>13,
       <2>14, <2>15, <2>16, <2>17, <2>18, <2>19, <2>20, <2>21, <2>22, <2>23, <2>24, <2>25 DEF
       HostNext, Callers, CreateCall, OpenCall, CommitCall, ConfirmCall

(* A host step is a step of a possibly disturbed system too.               *)
LEMMA HostInv == HostSpec => [](LineInv /\ DiskInv)
<1>1. LineInv /\ [HostNext]_storeVars => LineInv'
  BY LineStep DEF StoreNext
<1>2. QED
  BY <1>1, LineInit, DiskInit, DiskStep, PTL DEF HostSpec

(* With only this profile's hosts writing, every crash leaves a file that  *)
(* the marker names, so open can always take it.                           *)
THEOREM AlwaysRecoverable == HostSpec => []Recoverable
<1>1. DiskInv => Recoverable
  BY DEF DiskInv
<1>2. QED
  BY <1>1, HostInv, PTL

(* No acknowledged version is lost to any crash or power loss.             *)
THEOREM AcknowledgedSurvives == HostSpec => []AckedSurvives
<1>1. DiskInv => AckedSurvives
  BY DEF DiskInv
<1>2. QED
  BY <1>1, HostInv, PTL

(* A store that is not uncertain is the durable, acknowledged file.        *)
THEOREM CertainStores == HostSpec => []CertainIsOnDisk
<1>1. LineInv /\ DiskInv => CertainIsOnDisk
  BY DEF LineInv, DiskInv, CallLine, CallDisk, OpenStore, CertainIsOnDisk
<1>2. QED
  BY <1>1, HostInv, PTL

-----------------------------------------------------------------------------
(* The writer with failing I/O, crashes and power loss implements the      *)
(* crash-atomic archive of AtomicArchive.                                  *)
THEOREM Refinement == HostSpec => ImplementsAtomic
<1>1. StoreInit => Atomic!Init
  BY DEF StoreInit, Atomic!Init
<1>2. LineInv /\ DiskInv /\ [HostNext]_storeVars => [Atomic!Next]_(Atomic!vars)
  <2> SUFFICES ASSUME LineInv, DiskInv, [HostNext]_storeVars
               PROVE Atomic!Next \/ UNCHANGED Atomic!vars
    OBVIOUS
  <2> USE NoneAssumption DEF candidates, disk, memory, Atomic!vars
  <2>0. TypeOK /\ RefsMade /\ MarkerLine /\ CallLine /\ CallDisk /\ visible \in survivors
    BY DEF LineInv, DiskInv
  <2>1. ASSUME NEW v \in Versions, StageGenesis(v) \/ Stage(v) PROVE Atomic!Next
    <3>1. Atomic!Propose(v)
      <4>1. CASE StageGenesis(v)
        <5>1. base' = [base EXCEPT ![v] = base[v]] /\ base[v] \in Versions \cup {Nil}
          BY <2>0, <4>1 DEF StageGenesis, TypeOK, Maybe
        <5>2. QED
          BY <4>1, <5>1 DEF StageGenesis, Atomic!Propose
      <4>2. CASE Stage(v)
        BY <2>0, <4>2 DEF Stage, Atomic!Propose, TypeOK, Maybe
      <4>3. QED
        BY <2>1, <4>1, <4>2
    <3>2. QED
      BY <3>1 DEF Atomic!Next
  <2>2. ASSUME pc \in {"create_publish", "commit_publish"}, Rename, UNCHANGED <<candidates, acked>>
        PROVE Atomic!Next
    <3>1. cand \in Versions /\ cand \in made /\ base[cand] = acked
      BY <2>0, <2>2 DEF TypeOK, Maybe, RefsMade, CallLine, CreateCalls, CommitCalls
    <3>2. Atomic!Write(cand)
      BY <2>2, <3>1 DEF Rename, Atomic!Write
    <3>3. QED
      BY <3>1, <3>2 DEF Atomic!Next
  <2>3. ASSUME Sync \/ PowerLoss, UNCHANGED <<candidates, acked>> PROVE Atomic!Next
    <3>1. Atomic!Settle
      BY <2>0, <2>3 DEF Sync, PowerLoss, Atomic!Settle
    <3>2. QED
      BY <3>1 DEF Atomic!Next
  <2>4. ASSUME acked' = cand, pc \in {"create_ack", "open_ack", "commit_ack", "confirm_final"},
               UNCHANGED <<candidates, disk>>
        PROVE Atomic!Next \/ UNCHANGED Atomic!vars
    <3>1. /\ cand \in Versions /\ survivors = {cand}
          /\ cand = acked \/ base[cand] = acked
      BY <2>0, <2>4 DEF TypeOK, Maybe, MarkerLine, CallLine, CallDisk, OpenStore, CreateCalls,
                        OpenCalls, ConfirmCalls
    <3>2. CASE cand = acked
      BY <2>4, <3>2
    <3>3. CASE base[cand] = acked
      <4>1. Atomic!Acknowledge(cand)
        BY <2>4, <3>1, <3>3 DEF Atomic!Acknowledge
      <4>2. QED
        BY <3>1, <4>1 DEF Atomic!Next
    <3>4. QED
      BY <3>1, <3>2, <3>3
  <2>5. CASE Callers
    BY <2>1, <2>5 DEF Callers, Create, Commit, Confirm
  <2>6. CASE CreateCall
    BY <2>2, <2>3, <2>4, <2>6 DEF CreateCall, CreateMark, CreatePublish, CreateSync, CreateAck,
                                  Opened
  <2>7. CASE OpenCall
    BY <2>3, <2>4, <2>7 DEF OpenCall, OpenRead, OpenSync, OpenRecheck, OpenAck, Opened
  <2>8. CASE CommitCall
    BY <2>2, <2>3, <2>4, <2>8 DEF CommitCall, CommitMark, CommitRecheck, CommitPublish, CommitSync,
                                  CommitAck
  <2>9. CASE ConfirmCall
    BY <2>3, <2>4, <2>9 DEF ConfirmCall, ConfirmSync, ConfirmRecheck, ConfirmAck, ConfirmFinal
  <2>10. CASE Exit \/ UNCHANGED storeVars
    BY <2>10 DEF Exit, storeVars
  <2>11. CASE PowerLoss
    BY <2>3, <2>11 DEF PowerLoss
  <2>12. QED
    BY <2>5, <2>6, <2>7, <2>8, <2>9, <2>10, <2>11 DEF HostNext
<1>3. QED
  BY <1>1, <1>2, HostInv, PTL DEF HostSpec, ImplementsAtomic, Atomic!Spec

-----------------------------------------------------------------------------
(* The coordinator.                                                        *)

(* Nothing refers to the candidate, on disk, in memory or in the marker.   *)
Unused(v) ==
  /\ v \notin {anchor.accepted, anchor.prepared, cand, snapshot, last_commit, acked}
  /\ v \notin survivors
  /\ \A w \in made : base[w] # v

Grows ==
  \A v \in made : base[v] # Nil =>
    /\ base[v] \in made
    /\ content[base[v]] \subseteq content[v]
    /\ payload[v] \in content[v]

RequestsOK ==
  /\ payload \in [Versions -> Payloads \cup {Nil}]
  /\ content \in [Versions -> SUBSET Payloads]
  /\ draft # Nil => draft \in made /\ Unused(draft)
  /\ caller # Nil =>
       /\ caller.version \in made
       /\ caller.version # draft
       /\ pc = "ready" => Unused(caller.version) \/ caller.version = last_commit

(* A copy that the store already took for its snapshot, although the       *)
(* commit is not acknowledged, is the only one on the disk.                *)
Settled ==
  /\ acked # Nil
  /\ last_commit # Nil => base[last_commit] # Nil
  /\ pc \in {"ready"} \cup ConfirmCalls /\ snapshot # acked => survivors = {snapshot}

Inv == LineInv /\ DiskInv /\ Grows /\ RequestsOK /\ Settled /\ AcksSurvive

-----------------------------------------------------------------------------
LEMMA InitInv == CoordinatorInit => Inv
<1> SUFFICES ASSUME CoordinatorInit PROVE Inv
  OBVIOUS
<1>1. First \in Versions /\ First # Nil /\ First \in Maybe /\ Nil \in Maybe
  BY NoneAssumption, CoordinatorAssumption DEF Maybe
<1>2. anchor \in Anchors /\ anchor.accepted = First /\ anchor.prepared = Nil
  BY <1>1, MarkerFacts DEF CoordinatorInit
<1>3. TypeOK
  BY <1>1, <1>2 DEF CoordinatorInit, TypeOK, Maybe, Calls
<1>4. RefsMade /\ MarkerLine
  BY <1>1, <1>2 DEF CoordinatorInit, RefsMade, MarkerLine
<1>5. CallLine
  BY <1>1 DEF CoordinatorInit, CallLine, OpenStore, CreateCalls, OpenCalls, CommitCalls,
              ConfirmCalls
<1>6. DiskInv
  BY <1>1, <1>2 DEF CoordinatorInit, DiskInv, CallDisk, Recoverable, AckedSurvives, ConfirmCalls
<1>7. Grows /\ RequestsOK /\ Settled /\ AcksSurvive
  BY <1>1 DEF CoordinatorInit, Grows, RequestsOK, Settled, AcksSurvive
<1>8. QED
  BY <1>3, <1>4, <1>5, <1>6, <1>7 DEF LineInv, Inv

(* A step of the store itself keeps the store's invariants.                *)
LEMMA StoreInv ==
  ASSUME Inv, HostNext \/ UNCHANGED storeVars
  PROVE  LineInv' /\ DiskInv'
<1>1. LineInv'
  BY LineStep DEF Inv, StoreNext
<1>2. QED
  BY <1>1, DiskStep DEF Inv

(* A candidate that was never used can be forgotten.                       *)
LEMMA DiscardInv ==
  ASSUME Inv, NEW v \in made, Unused(v), Discard(v),
         draft' # Nil => draft' = draft /\ draft # v,
         caller' # Nil => caller' = caller /\ caller.version # v,
         acks' = acks
  PROVE  Inv'
<1>1. /\ made' = made \ {v}
      /\ UNCHANGED <<base, generation, visible, survivors, anchor, pc, cand, snapshot, uncertain,
                     last_commit, acked, payload, content>>
  BY DEF Discard, disk, memory
<1>2. TypeOK'
  BY <1>1 DEF Inv, LineInv, TypeOK
<1>3. RefsMade' /\ MarkerLine' /\ CallLine'
  BY <1>1 DEF Inv, LineInv, RefsMade, MarkerLine, CallLine, NoStore, OpenStore, Unused
<1>4. DiskInv'
  BY <1>1 DEF Inv, DiskInv, Recoverable, AckedSurvives, CallDisk, Unused
<1>5. Grows'
  BY <1>1 DEF Inv, Grows, Unused
<1>6. RequestsOK'
  <2>1. Nil \notin made
    BY NoneAssumption DEF Inv, LineInv, TypeOK
  <2>2. \A w : w # v /\ Unused(w) => Unused(w)'
    BY <1>1 DEF Unused
  <2>3. (draft # Nil => draft \in made /\ Unused(draft))'
    BY <1>1, <2>2 DEF Inv, RequestsOK
  <2>4. (caller # Nil =>
          /\ caller.version \in made
          /\ caller.version # draft
          /\ pc = "ready" => Unused(caller.version) \/ caller.version = last_commit)'
    BY <1>1, <2>1, <2>2 DEF Inv, RequestsOK
  <2>5. QED
    BY <1>1, <2>3, <2>4 DEF Inv, RequestsOK
<1>7. Settled' /\ AcksSurvive'
  BY <1>1 DEF Inv, Settled, AcksSurvive
<1>8. QED
  BY <1>2, <1>3, <1>4, <1>5, <1>6, <1>7 DEF LineInv, Inv

(* A new candidate: nothing refers to it yet.                              *)
LEMMA SealInv ==
  ASSUME Inv, NEW v \in Versions, NEW p \in Payloads, Idle, Seal(v, p), acks' = acks,
         \/ draft' = v /\ draft = Nil /\ caller' = Nil
         \/ draft' = draft /\ caller'.version = v
  PROVE  Inv'
<1>1. /\ pc = "ready" /\ v \notin made /\ made' = made \cup {v}
      /\ base' = [base EXCEPT ![v] = snapshot]
      /\ UNCHANGED <<visible, survivors, anchor, pc, cand, snapshot, uncertain, last_commit,
                     acked>>
      /\ payload' = [payload EXCEPT ![v] = p]
      /\ content' = [content EXCEPT ![v] = content[snapshot] \cup {p}]
  BY DEF Seal, Stage, disk, memory
<1>2. LineInv' /\ DiskInv'
  BY StoreInv DEF Seal, HostNext, Callers
<1>3. /\ TypeOK /\ RefsMade /\ OpenStore /\ survivors \subseteq made \cup {Nil}
      /\ Grows /\ RequestsOK /\ Settled /\ AcksSurvive
  BY <1>1 DEF Inv, LineInv, DiskInv, CallLine
<1>4. /\ snapshot \in made /\ made \subseteq Versions /\ v # Nil /\ Nil \notin survivors
      /\ v # snapshot
  BY <1>1, <1>3, NoneAssumption DEF TypeOK, RefsMade, OpenStore, Inv, DiskInv, AckedSurvives
<1>5. /\ base'[v] = snapshot /\ payload'[v] = p /\ content'[v] = content[snapshot] \cup {p}
      /\ \A w \in made : base'[w] = base[w] /\ payload'[w] = payload[w] /\ content'[w] = content[w]
  BY <1>1, <1>3, <1>4 DEF TypeOK, RequestsOK
<1>6. Unused(v)'
  BY <1>1, <1>3, <1>4, <1>5 DEF Unused, RefsMade, Grows
<1>7. Grows'
  BY <1>1, <1>3, <1>4, <1>5 DEF Grows
<1>8. \A w \in made : Unused(w) => Unused(w)'
  BY <1>1, <1>3, <1>4, <1>5 DEF Unused, OpenStore
<1>9. RequestsOK'
  <2>1. payload' \in [Versions -> Payloads \cup {Nil}] /\ content' \in [Versions -> SUBSET Payloads]
    BY <1>1, <1>3, <1>4 DEF RequestsOK
  <2>2. (draft # Nil => draft \in made /\ Unused(draft))'
    BY <1>1, <1>3, <1>6, <1>8 DEF RequestsOK
  <2>3. (caller # Nil => /\ caller.version \in made
                         /\ caller.version # draft
                         /\ Unused(caller.version))'
    BY <1>1, <1>3, <1>4, <1>6 DEF RequestsOK
  <2>4. QED
    BY <2>1, <2>2, <2>3 DEF RequestsOK
<1>10. Settled'
  BY <1>1, <1>3, <1>5 DEF Settled, RefsMade
<1>11. AcksSurvive'
  BY <1>1, <1>3, <1>4, <1>5 DEF AcksSurvive
<1>12. QED
  BY <1>2, <1>7, <1>9, <1>10, <1>11 DEF Inv

-----------------------------------------------------------------------------
(* The coordinator and the worker alone.                                   *)
LEMMA QuietInv ==
  ASSUME Inv, UNCHANGED <<archive, payload, content>>, AcksSurvive',
         draft' # Nil => draft' = draft,
         (caller # Nil =>
            /\ caller.version \in made
            /\ caller.version # draft
            /\ pc = "ready" => Unused(caller.version) \/ caller.version = last_commit)'
  PROVE  Inv'
<1>1. UNCHANGED storeVars
  BY DEF archive, storeVars
<1>2. LineInv' /\ DiskInv'
  BY <1>1, StoreInv
<1>3. Grows' /\ Settled'
  BY DEF Inv, Grows, Settled, archive, candidates, disk, memory
<1>4. RequestsOK'
  BY DEF Inv, RequestsOK, Unused, archive, candidates, disk, memory
<1>5. QED
  BY <1>2, <1>3, <1>4 DEF Inv

StoreMoves == CommitCall \/ ConfirmCall \/ OpenCall \/ Exit \/ PowerLoss

(* A step of the store only refers to what it referred to before, and adds *)
(* at most the successor of the acknowledged copy to the disk.             *)
LEMMA Footprint ==
  ASSUME LineInv, DiskInv, acked # Nil, StoreMoves
  PROVE  /\ UNCHANGED candidates
         /\ \A v : v # Nil /\ Unused(v) => Unused(v)'
         /\ \/ survivors' \subseteq survivors
            \/ /\ survivors' = survivors \cup {cand} /\ survivors = {acked}
               /\ cand \in made /\ base[cand] = acked
<1> USE NoneAssumption DEF candidates, disk, memory
<1>1. /\ TypeOK /\ RefsMade /\ CallLine /\ visible \in survivors /\ CallDisk
      /\ anchor.accepted \in Maybe /\ anchor.prepared \in Maybe
  BY MarkerFacts DEF LineInv, DiskInv, TypeOK
<1>2. /\ snapshot \in Maybe /\ cand \in Maybe /\ Nil \in Maybe
      /\ \A a, p \in Maybe : Marker(a, p).accepted = a /\ Marker(a, p).prepared = p
  BY <1>1, MarkerFacts DEF TypeOK, Maybe
<1>3. CASE OpenCall
  BY <1>1, <1>2, <1>3
  DEF OpenCall, OpenRead, OpenSync, OpenRecheck, OpenAck, Opened, Closed, Return, Goto, Sync,
      SaveAnchor, SaveAnchorFails, Unused
<1>4. CASE CommitMark \/ CommitRecheck \/ CommitAck
  BY <1>1, <1>2, <1>4
  DEF CommitMark, CommitRecheck, CommitAck, Return, Goto, SaveAnchor, SaveAnchorFails, Unused
<1>5. CASE CommitPublish
  <2>1. /\ survivors = {acked} /\ cand \in made /\ base[cand] = acked
    BY <1>1, <1>5 DEF CommitPublish, CallLine, CallDisk, OpenStore, CommitCalls, RefsMade
  <2>2. QED
    BY <1>1, <1>5, <2>1 DEF CommitPublish, Rename, Doubt, Return, Goto, Unused
<1>6. CASE CommitSync
  BY <1>1, <1>6 DEF CommitSync, Sync, Doubt, Return, Goto, Unused
<1>7. CASE ConfirmCall
  BY <1>1, <1>2, <1>7
  DEF ConfirmCall, ConfirmSync, ConfirmRecheck, ConfirmAck, ConfirmFinal, Return, Goto, Sync,
      SaveAnchor, SaveAnchorFails, Unused
<1>8. CASE Exit \/ PowerLoss
  BY <1>1, <1>8 DEF Exit, PowerLoss, Closed, Unused
<1>9. QED
  BY <1>3, <1>4, <1>5, <1>6, <1>7, <1>8 DEF StoreMoves, CommitCall

LEMMA SettledStep ==
  ASSUME Inv, StoreMoves PROVE Settled'
<1> USE NoneAssumption DEF candidates, disk, memory
<1>1. /\ TypeOK /\ RefsMade /\ CallLine /\ visible \in survivors /\ CallDisk /\ Settled
  BY DEF Inv, LineInv, DiskInv
<1>2. CASE OpenCall
  BY <1>1, <1>2
  DEF OpenCall, OpenRead, OpenSync, OpenRecheck, OpenAck, Opened, Closed, Return, Goto, Sync,
      Settled, CallLine, NoStore, OpenCalls, ConfirmCalls
<1>3. CASE CommitMark \/ CommitRecheck
  BY <1>1, <1>3
  DEF CommitMark, CommitRecheck, Return, Goto, Settled, CallLine, OpenStore, CommitCalls,
      ConfirmCalls
<1>4. CASE CommitPublish \/ CommitSync
  BY <1>1, <1>4
  DEF CommitPublish, CommitSync, Rename, Sync, Doubt, Return, Goto, Settled, CallLine, OpenStore,
      CommitCalls, ConfirmCalls
<1>5. CASE CommitAck
  BY <1>1, <1>5
  DEF CommitAck, Return, Goto, Settled, CallLine, CallDisk, ConfirmCalls
<1>6. CASE ConfirmCall
  BY <1>1, <1>6
  DEF ConfirmCall, ConfirmSync, ConfirmRecheck, ConfirmAck, ConfirmFinal, Return, Goto, Sync,
      Settled, CallLine, CallDisk, ConfirmCalls
<1>7. CASE Exit \/ PowerLoss
  BY <1>1, <1>7 DEF Exit, PowerLoss, Closed, Goto, Settled, ConfirmCalls
<1>8. QED
  BY <1>2, <1>3, <1>4, <1>5, <1>6, <1>7 DEF StoreMoves, CommitCall

(* A call that reports success has put what it adds on every copy.         *)
LEMMA SuccessSettles ==
  ASSUME Inv, StoreMoves, Succeeds
  PROVE  survivors' = {cand} /\ cand \in made /\ payload[cand] \in content[cand]
<1> USE NoneAssumption DEF candidates, disk, memory
<1>1. /\ TypeOK /\ RefsMade /\ CallLine /\ CallDisk /\ Settled /\ Grows
  BY DEF Inv, LineInv, DiskInv
<1>2. survivors = {cand} /\ cand # Nil /\ base[cand] # Nil
  BY <1>1 DEF Succeeds, CallLine, CallDisk, ConfirmCalls, Settled
<1>3. survivors' \subseteq {cand} /\ survivors' # {}
  BY <1>1, <1>2
  DEF StoreMoves, Succeeds, CommitCall, ConfirmCall, OpenCall, CommitMark, CommitRecheck,
      CommitPublish, CommitSync, CommitAck, ConfirmSync, ConfirmRecheck, ConfirmAck, ConfirmFinal,
      OpenRead, OpenSync, OpenRecheck, OpenAck, Exit, PowerLoss
<1>4. QED
  BY <1>1, <1>2, <1>3 DEF RefsMade, Grows

(* A step of a call, or of the host that ends.                             *)
LEMMA MovesInv ==
  ASSUME Inv, StoreMoves, UNCHANGED <<payload, content>>,
         draft' # Nil => draft' = draft,
         caller' # Nil => caller' = caller /\ pc' # "ready",
         acks' = acks \/ (Succeeds /\ acks' = acks \cup {payload[cand]})
  PROVE  Inv'
<1>1. LineInv' /\ DiskInv'
  BY StoreInv DEF StoreMoves, HostNext
<1>2. /\ UNCHANGED candidates
      /\ \A v : v # Nil /\ Unused(v) => Unused(v)'
      /\ \/ survivors' \subseteq survivors
         \/ /\ survivors' = survivors \cup {cand} /\ survivors = {acked}
            /\ cand \in made /\ base[cand] = acked
  BY Footprint DEF Inv, Settled
<1>3. Grows' /\ Settled'
  BY <1>2, SettledStep DEF Inv, Grows, candidates
<1>4. RequestsOK'
  <2>1. Nil \notin made
    BY NoneAssumption DEF Inv, LineInv, TypeOK
  <2>2. (draft # Nil => draft \in made /\ Unused(draft))'
    BY <1>2 DEF Inv, RequestsOK, candidates
  <2>3. (caller # Nil =>
           /\ caller.version \in made
           /\ caller.version # draft
           /\ pc = "ready" => Unused(caller.version) \/ caller.version = last_commit)'
    BY <1>2, <2>1 DEF Inv, RequestsOK, candidates
  <2>4. QED
    BY <2>2, <2>3 DEF Inv, RequestsOK
<1>5. \A p \in acks, s \in survivors' : p \in content[s]
  BY <1>2 DEF Inv, AcksSurvive, Grows, Settled
<1>6. AcksSurvive'
  <2>1. CASE acks' = acks
    BY <1>5, <2>1 DEF AcksSurvive
  <2>2. CASE Succeeds /\ acks' = acks \cup {payload[cand]}
    BY <1>5, <2>2, SuccessSettles DEF AcksSurvive
  <2>3. QED
    BY <2>1, <2>2
<1>7. QED
  BY <1>1, <1>3, <1>4, <1>6 DEF Inv

(* What the snapshot holds is on every copy.                               *)
LEMMA SnapshotSettled ==
  ASSUME Inv, pc = "ready" PROVE \A s \in survivors : content[snapshot] \subseteq content[s]
<1> SUFFICES ASSUME NEW s \in survivors PROVE content[snapshot] \subseteq content[s]
  OBVIOUS
<1>1. acked # Nil /\ s # Nil /\ s \in made /\ (s = acked \/ base[s] = acked)
  BY DEF Inv, Settled, DiskInv, AckedSurvives
<1>2. CASE snapshot = acked
  BY <1>1, <1>2 DEF Inv, Grows
<1>3. CASE snapshot # acked
  BY <1>3 DEF Inv, Settled
<1>4. QED
  BY <1>2, <1>3

-----------------------------------------------------------------------------
LEMMA RequestSteps ==
  ASSUME Inv, LocalCommit \/ LocalReplay \/ Lock \/ \E o \in Objects : ReceiveAgain(o)
  PROVE  Inv'
<1>1. /\ UNCHANGED <<archive, payload, content, acks>> /\ (draft' # Nil => draft' = draft)
      /\ Nil \notin made /\ RequestsOK /\ RefsMade
  BY NoneAssumption
  DEF LocalCommit, LocalReplay, Lock, ReceiveAgain, Inv, LineInv, TypeOK
<1>2. AcksSurvive'
  BY <1>1 DEF Inv, AcksSurvive, archive, disk
<1>3. (caller # Nil =>
         /\ caller.version \in made
         /\ caller.version # draft
         /\ pc = "ready" => Unused(caller.version) \/ caller.version = last_commit)'
  <2>1. CASE LocalCommit
    BY <1>1, <2>1
    DEF LocalCommit, Request, RequestsOK, Unused, archive, candidates, disk, memory
  <2>2. CASE LocalReplay
    BY <1>1, <2>2
    DEF LocalReplay, Request, RequestsOK, RefsMade, Unused, archive, candidates, disk, memory
  <2>3. CASE Lock
    BY <1>1, <2>3 DEF Lock, Idle, RequestsOK
  <2>4. CASE \E o \in Objects : ReceiveAgain(o)
    BY <1>1, <2>4
    DEF ReceiveAgain, IsRepeat, Request, RequestsOK, RefsMade, Unused, archive, candidates, disk,
        memory
  <2>5. QED
    BY <2>1, <2>2, <2>3, <2>4
<1>4. QED
  BY <1>1, <1>2, <1>3, QuietInv

LEMMA ReceiveKnownInv ==
  ASSUME Inv, NEW o \in Objects, ReceiveKnown(o) PROVE Inv'
<1>1. /\ UNCHANGED <<archive, payload, content, caller, draft>> /\ acks' = acks \cup {o}
      /\ pc = "ready" /\ caller = Nil /\ o \in content[snapshot]
  BY DEF ReceiveKnown, Idle
<1>2. AcksSurvive'
  BY <1>1, SnapshotSettled DEF Inv, AcksSurvive, archive, disk
<1>3. QED
  BY <1>1, <1>2, QuietInv

LEMMA SealSteps ==
  ASSUME Inv, NEW v \in Versions,
         (\E e \in Edits : Prepare(v, e)) \/ (\E o \in Objects : Receive(v, o))
  PROVE  Inv'
<1>1. CASE \E e \in Edits : Prepare(v, e)
  BY <1>1, SealInv DEF Prepare, Idle, Payloads
<1>2. CASE \E o \in Objects : Receive(v, o)
  BY <1>2, SealInv DEF Receive, Idle, Payloads, Request
<1>3. QED
  BY <1>1, <1>2

LEMMA RefusedInv == ASSUME Inv, LocalRefused \/ Refuse PROVE Inv'
<1>1. RequestsOK /\ Nil \notin made
  BY NoneAssumption DEF Inv, LineInv, TypeOK
<1>2. CASE LocalRefused
  <2>1. /\ draft \in made /\ Unused(draft) /\ draft' = Nil /\ caller' = Nil /\ acks' = acks
        /\ Discard(draft) \/ UNCHANGED <<archive, payload, content>>
    BY <1>1, <1>2 DEF LocalRefused, Idle, RequestsOK
  <2>2. CASE Discard(draft)
    BY <2>1, <2>2, DiscardInv
  <2>3. CASE UNCHANGED <<archive, payload, content>>
    <3>1. AcksSurvive'
      BY <2>1, <2>3 DEF Inv, AcksSurvive, archive, disk
    <3>2. QED
      BY <2>1, <2>3, <3>1, QuietInv
  <2>4. QED
    BY <2>1, <2>2, <2>3
<1>3. CASE Refuse
  <2>1. /\ caller.version \in made /\ caller.version # draft /\ Unused(caller.version)
        /\ caller' = Nil /\ UNCHANGED <<draft, acks>>
        /\ Discard(caller.version) \/ UNCHANGED <<archive, payload, content>>
    BY <1>1, <1>3 DEF Refuse, RequestsOK
  <2>2. CASE Discard(caller.version)
    BY <2>1, <2>2, DiscardInv
  <2>3. CASE UNCHANGED <<archive, payload, content>>
    <3>1. AcksSurvive'
      BY <2>1, <2>3 DEF Inv, AcksSurvive, archive, disk
    <3>2. QED
      BY <2>1, <2>3, <3>1, QuietInv
  <2>4. QED
    BY <2>1, <2>2, <2>3
<1>4. QED
  BY <1>2, <1>3

(* ArchiveStore::commit begins: the candidate is in use from here on.      *)
LEMMA CallStoreInv == ASSUME Inv, CallStore PROVE Inv'
<1>1. /\ caller # Nil /\ caller.version \in made /\ caller.version # draft
      /\ made \subseteq Versions /\ Nil \notin made /\ RequestsOK
  BY NoneAssumption DEF CallStore, Inv, RequestsOK, LineInv, TypeOK
<1>2. /\ cand' = caller.version /\ pc' \in {"commit_mark", "confirm_sync"} /\ pc = "ready"
      /\ UNCHANGED <<candidates, disk, anchor, memory, acked, requests>>
  BY DEF CallStore, Commit, Confirm, Goto
<1>3. LineInv' /\ DiskInv'
  <2>1. HostNext
    BY <1>1 DEF CallStore, HostNext, Callers
  <2>2. QED
    BY <2>1, StoreInv
<1>4. Grows' /\ AcksSurvive'
  BY <1>2 DEF Inv, Grows, AcksSurvive, candidates, disk, requests
<1>5. Settled'
  BY <1>2 DEF Inv, Settled, candidates, disk, memory, ConfirmCalls
<1>6. RequestsOK'
  <2>1. \A v : Unused(v) /\ v # caller.version => Unused(v)'
    BY <1>2 DEF Unused, candidates, disk, memory
  <2>2. (draft # Nil => draft \in made /\ Unused(draft))'
    BY <1>1, <1>2, <2>1 DEF RequestsOK, candidates, requests
  <2>3. QED
    BY <1>1, <1>2, <2>2 DEF RequestsOK, candidates, requests
<1>7. QED
  BY <1>3, <1>4, <1>5, <1>6 DEF Inv

LEMMA StoreSteps == ASSUME Inv, StoreStep \/ HostEnds PROVE Inv'
<1>1. StoreMoves /\ UNCHANGED <<payload, content>>
  BY DEF StoreStep, HostEnds, StoreMoves
<1>2. /\ draft' # Nil => draft' = draft
      /\ caller' # Nil => caller' = caller /\ pc' # "ready"
      /\ acks' = acks \/ (Succeeds /\ acks' = acks \cup {payload[cand]})
  BY DEF StoreStep, HostEnds, Drop, Answer, Told, Lost
<1>3. QED
  BY <1>1, <1>2, MovesInv

LEMMA StepInv == ASSUME Inv, [CoordinatorNext]_all PROVE Inv'
<1>1. CASE UNCHANGED all
  <2>1. UNCHANGED <<archive, payload, content, acks, draft, caller, pc, last_commit>>
    BY <1>1 DEF all, archive, requests, memory
  <2>2. AcksSurvive'
    BY <2>1 DEF Inv, AcksSurvive, archive, disk
  <2>3. (caller # Nil =>
           /\ caller.version \in made
           /\ caller.version # draft
           /\ pc = "ready" => Unused(caller.version) \/ caller.version = last_commit)'
    BY <2>1 DEF Inv, RequestsOK, Unused, archive, candidates, disk, memory
  <2>4. QED
    BY <2>1, <2>2, <2>3, QuietInv
<1>2. CASE CoordinatorNext
  BY <1>2, SealSteps, ReceiveKnownInv, RequestSteps, RefusedInv, CallStoreInv, StoreSteps
  DEF CoordinatorNext
<1>3. QED
  BY <1>1, <1>2

(* The coordinator reports a local change or a peer's object as saved only *)
(* when no crash and no power loss can take it away again, also the object *)
(* that is delivered once more while the store is uncertain about it.      *)
THEOREM AcknowledgedIsKept == CoordinatorSpec => []AcksSurvive
<1>1. Inv => AcksSurvive
  BY DEF Inv
<1>2. QED
  BY <1>1, InitInv, StepInv, PTL DEF CoordinatorSpec
=============================================================================
