------------------------- MODULE DdnsTriggerProofs -------------------------
(***************************************************************************)
(* Proofs about DdnsTrigger, for any number of calls and rows.             *)
(***************************************************************************)
EXTENDS DdnsTrigger, TLAPS

LEMMA TypeInit == Init => TypeOK
  <1> SUFFICES ASSUME Init PROVE TypeOK
    OBVIOUS
  <1>1. <<CHOOSE r \in Row : TRUE, 0>> \in Name
    BY RowAssumption, TimeAssumption DEF Name
  <1>2. name \in [Call -> Name]
    BY <1>1 DEF Init
  <1> QED BY <1>2, TimeAssumption DEF Init, TypeOK

LEMMA TypeNext == TypeOK /\ [Next]_vars => TypeOK'
  <1> SUFFICES ASSUME TypeOK, [Next]_vars PROVE TypeOK'
    OBVIOUS
  <1> USE DEF TypeOK
  <1>1. CASE Tick
    BY <1>1, TimeAssumption DEF Tick
  <1>2. ASSUME NEW c \in Call, NEW r \in Row, Trigger(c, r) PROVE TypeOK'
    <2>1. <<r, clock>> \in Name
      BY DEF Name
    <2> QED BY <1>2, <2>1 DEF Trigger
  <1>3. ASSUME NEW c \in Call, Step(c) PROVE TypeOK'
    <2>1. name[c] \in Name
      OBVIOUS
    <2>2. CASE Spawn(c)
      BY <2>1, <2>2 DEF Spawn
    <2>3. CASE SpawnFails(c)
      BY <2>1, <2>3 DEF SpawnFails
    <2>4. CASE WriteFails(c)
      BY <2>1, <2>4 DEF WriteFails
    <2>5. CASE TimeoutFires(c)
      BY <2>5 DEF TimeoutFires
    <2>6. CASE KillTimerFires(c)
      BY <2>6 DEF KillTimerFires
    <2>7. CASE Cleanup(c)
      BY <2>7 DEF Cleanup
    <2> QED BY <1>3, <2>2, <2>3, <2>4, <2>5, <2>6, <2>7 DEF Step
  <1>4. ASSUME NEW c \in Call, ReadConfig(c) PROVE TypeOK'
    BY <1>4 DEF ReadConfig
  <1>5. ASSUME NEW c \in Call, Exits(c) PROVE TypeOK'
    <2>1. (IF pc[c] \in {"running", "terminating"} THEN "cleanup" ELSE pc[c])
             \in {"idle", "writing", "running", "terminating", "cleanup"}
      OBVIOUS
    <2> QED BY <1>5, <2>1 DEF Exits
  <1>6. CASE UNCHANGED vars
    BY <1>6 DEF vars
  <1> QED BY <1>1, <1>2, <1>3, <1>4, <1>5, <1>6 DEF Next

(* The types hold.                                                         *)
THEOREM TypeCorrect == Spec => []TypeOK
  BY TypeInit, TypeNext, PTL DEF Spec

-----------------------------------------------------------------------------
(* Only a call that waits for its child has one that was not killed: in    *)
(* particular not one that is still writing the configuration.             *)
ChildInv ==
    \A c \in Call :
        /\ pc[c] = "writing" => child[c] = "none"
        /\ pc[c] \in {"idle", "cleanup"} => child[c] \in {"none", "doomed"}

FilesInv == \A n \in files : InUse(n) \/ n \in failed

LEMMA LeftInit == Init => ChildInv /\ FilesInv
  BY DEF Init, ChildInv, FilesInv

LEMMA ChildNext == TypeOK /\ ChildInv /\ [Next]_vars => ChildInv'
  <1> SUFFICES ASSUME TypeOK, ChildInv, [Next]_vars PROVE ChildInv'
    OBVIOUS
  <1> USE DEF TypeOK, ChildInv
  <1>1. CASE Tick \/ UNCHANGED vars
    BY <1>1 DEF Tick, vars
  <1>2. ASSUME NEW c \in Call, NEW r \in Row, Trigger(c, r) PROVE ChildInv'
    BY <1>2 DEF Trigger
  <1>3. ASSUME NEW c \in Call, Step(c) PROVE ChildInv'
    BY <1>3 DEF Step, Spawn, SpawnFails, WriteFails, TimeoutFires,
                KillTimerFires, Cleanup
  <1>4. ASSUME NEW c \in Call, ReadConfig(c) PROVE ChildInv'
    BY <1>4 DEF ReadConfig
  <1>5. ASSUME NEW c \in Call, Exits(c) PROVE ChildInv'
    BY <1>5 DEF Exits
  <1> QED BY <1>1, <1>2, <1>3, <1>4, <1>5 DEF Next

(* The calls that use a name still do after a step of another call, or     *)
(* after one that does not answer.                                         *)
LEMMA StillInUse ==
    ASSUME NEW n, InUse(n),
           \A d \in Call : pc[d] # "idle" /\ name[d] = n =>
                              pc'[d] # "idle" /\ name'[d] = n
    PROVE  InUse(n)'
  BY DEF InUse

LEMMA FilesNext == TypeOK /\ FilesInv /\ [Next]_vars => FilesInv'
  <1> SUFFICES ASSUME TypeOK, FilesInv, [Next]_vars,
                      NEW n \in files', n \notin failed'
               PROVE  InUse(n)'
    BY DEF FilesInv
  <1> USE DEF TypeOK
  <1>1. n \in files /\ n \notin failed => InUse(n)
    BY DEF FilesInv
  <1>2. CASE Tick \/ UNCHANGED vars
    BY <1>1, <1>2 DEF Tick, vars, InUse
  <1>3. ASSUME NEW c \in Call, NEW r \in Row, Trigger(c, r) PROVE InUse(n)'
    BY <1>1, <1>3, StillInUse DEF Trigger
  <1>4. ASSUME NEW c \in Call, Spawn(c) \/ SpawnFails(c) PROVE InUse(n)'
    <2>1. CASE n = name[c]
      BY <1>4, <2>1 DEF Spawn, SpawnFails, InUse
    <2>2. CASE n # name[c]
      BY <1>1, <1>4, <2>2, StillInUse DEF Spawn, SpawnFails
    <2> QED BY <2>1, <2>2
  <1>5. ASSUME NEW c \in Call, WriteFails(c) PROVE InUse(n)'
    BY <1>1, <1>5, StillInUse DEF WriteFails
  <1>6. ASSUME NEW c \in Call, Cleanup(c) PROVE InUse(n)'
    BY <1>1, <1>6, StillInUse DEF Cleanup
  <1>7. ASSUME NEW c \in Call, TimeoutFires(c) \/ KillTimerFires(c) \/ ReadConfig(c)
        PROVE  InUse(n)'
    BY <1>1, <1>7, StillInUse DEF TimeoutFires, KillTimerFires, ReadConfig
  <1>8. ASSUME NEW c \in Call, Exits(c) PROVE InUse(n)'
    BY <1>1, <1>8, StillInUse DEF Exits
  <1> QED BY <1>2, <1>3, <1>4, <1>5, <1>6, <1>7, <1>8 DEF Next, Step

(* A call that is answered leaves nothing behind, whichever of the exit,   *)
(* the two timers and the errors of trigger() answers it, and whatever the *)
(* other calls are at.                                                     *)
THEOREM NothingIsLeft == Spec => []NothingLeft
  <1>1. ChildInv /\ FilesInv => NothingLeft
    BY DEF ChildInv, FilesInv, NothingLeft
  <1> QED BY <1>1, LeftInit, ChildNext, FilesNext, TypeCorrect, PTL DEF Spec

-----------------------------------------------------------------------------
(* A child that may still read its configuration finds it, as long as no   *)
(* two calls in progress use one name.                                     *)
NamesInv ==
    \A c, d \in Call :
        c # d /\ pc[c] # "idle" /\ pc[d] # "idle" => name[c] # name[d]

FoundInv ==
    \A c \in Call : /\ pc[c] \in {"running", "terminating"} => name[c] \in files
                    /\ read[c] # "no_file"

LEMMA FoundInit == Init => NamesInv /\ FoundInv
  BY DEF Init, NamesInv, FoundInv

LEMMA NamesNext ==
    ASSUME ~SameInstant, TypeOK, NamesInv, [Next]_vars
    PROVE  NamesInv'
  <1> USE DEF TypeOK, NamesInv
  <1>1. CASE Tick \/ UNCHANGED vars
    BY <1>1 DEF Tick, vars
  <1>2. ASSUME NEW c \in Call, NEW r \in Row, Trigger(c, r) PROVE NamesInv'
    BY <1>2 DEF Trigger, InUse
  <1>3. ASSUME NEW c \in Call, Step(c) \/ ReadConfig(c) \/ Exits(c) PROVE NamesInv'
    <2>1. name' = name /\ \A d \in Call : pc'[d] # "idle" => pc[d] # "idle"
      BY <1>3 DEF Step, Spawn, SpawnFails, WriteFails, TimeoutFires,
                  KillTimerFires, Cleanup, ReadConfig, Exits
    <2> QED BY <2>1
  <1> QED BY <1>1, <1>2, <1>3 DEF Next

LEMMA FoundNext ==
    ASSUME TypeOK, ChildInv, NamesInv, FoundInv, [Next]_vars
    PROVE  FoundInv'
  <1> USE DEF TypeOK, FoundInv
  <1>1. CASE Tick \/ UNCHANGED vars
    BY <1>1 DEF Tick, vars
  <1>2. ASSUME NEW c \in Call, NEW r \in Row, Trigger(c, r) PROVE FoundInv'
    BY <1>2 DEF Trigger
  <1>3. ASSUME NEW c \in Call, Spawn(c) \/ SpawnFails(c) \/ WriteFails(c)
                               \/ TimeoutFires(c) \/ KillTimerFires(c)
        PROVE  FoundInv'
    BY <1>3 DEF Spawn, SpawnFails, WriteFails, TimeoutFires, KillTimerFires
  <1>4. ASSUME NEW c \in Call, Cleanup(c) PROVE FoundInv'
    BY <1>4 DEF Cleanup, NamesInv
  <1>5. ASSUME NEW c \in Call, ReadConfig(c) PROVE FoundInv'
    <2>1. pc[c] \in {"running", "terminating"}
      BY <1>5 DEF ReadConfig, ChildInv
    <2> QED BY <1>5, <2>1 DEF ReadConfig
  <1>6. ASSUME NEW c \in Call, Exits(c) PROVE FoundInv'
    BY <1>6 DEF Exits
  <1> QED BY <1>1, <1>2, <1>3, <1>4, <1>5, <1>6 DEF Next, Step

(* A child always finds the configuration written for it, if no two calls  *)
(* for one row read the same millisecond: no other call, no timer and no   *)
(* failure takes it away before the child has read it.                     *)
THEOREM ConfigIsFound ==
    ASSUME ~SameInstant
    PROVE  Spec => []ChildFindsConfig
  <1>1. TypeOK /\ NamesInv /\ [Next]_vars => NamesInv'
    BY NamesNext
  <1>2. TypeOK /\ ChildInv /\ NamesInv /\ FoundInv /\ [Next]_vars => FoundInv'
    BY FoundNext
  <1>3. FoundInv => ChildFindsConfig
    BY DEF FoundInv, ChildFindsConfig
  <1> QED BY <1>1, <1>2, <1>3, LeftInit, FoundInit, ChildNext, TypeCorrect, PTL
          DEF Spec
=============================================================================
