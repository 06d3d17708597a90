------------------------- MODULE DdnsManagerProofs -------------------------
(***************************************************************************)
(* Theorems about DdnsManager, for every set of activations, every set of  *)
(* child processes, every number of mutations and every kind of fault.     *)
(*                                                                         *)
(* The first four hold however reloads overlap; SerialSingle, SerialQuiet  *)
(* and SerialImplements hold when they do not, and need SerialInv.         *)
(***************************************************************************)
EXTENDS DdnsManager, TLAPS

-----------------------------------------------------------------------------
(* Type correctness.  owed \in Snapshot is not inductive by itself: a      *)
(* handler owes a reload only for a mutation it has committed.             *)
TypeInv == TypeOK /\ owed <= db

(* What a step of stop() may assign, wherever it is called.                *)
LEMMA AfterStopType ==
    \A j \in Job : AfterStop(j) \in {"idle", "writing"}
  BY DEF AfterStop

LEMMA TypeInvInit == Init => TypeInv
  <1> SUFFICES ASSUME Init
               PROVE  TypeInv
    OBVIOUS
  <1> USE DEF Init, ManagerInit
  <1>1. 0 \in Snapshot
    BY BoundAssumption DEF Snapshot
  <1>2. /\ db \in Snapshot /\ owed \in Snapshot /\ owed <= db
        /\ rows \in [Job -> Snapshot]
        /\ configFile \in Snapshot \cup {Absent}
    BY <1>1
  <1>3. /\ target \in [Job -> Proc \cup {NoProc}]
        /\ currentProcess \in Proc \cup {NoProc}
        /\ procState \in [Proc -> {"free", "up", "doomed"}]
        /\ procRows \in [Proc -> Snapshot \cup {Absent}]
    OBVIOUS
  <1>4. pc \in [Job -> PC] /\ binary \in {"checking", "present", "missing"}
    BY DEF PC
  <1>5. /\ refused \in BOOLEAN /\ reloadTimer \in BOOLEAN
        /\ killTimer \in [Job -> BOOLEAN]
        /\ killed \in [Proc -> BOOLEAN]
    OBVIOUS
  <1> QED BY <1>2, <1>3, <1>4, <1>5 DEF TypeInv, TypeOK

LEMMA TypeInvNext == TypeInv /\ [Next]_vars => TypeInv'
  <1> SUFFICES ASSUME TypeInv, [Next]_vars
               PROVE  TypeInv'
    OBVIOUS
  <1> USE BoundAssumption DEF TypeInv, TypeOK, Snapshot, PC, Absent
  <1>1. CASE CheckBinary
    BY <1>1 DEF CheckBinary, requestVars, jobVars, procVars
  <1>2. CASE Mutate
    <2>1. db' \in Snapshot /\ owed' \in Snapshot /\ owed' <= db' /\ refused' = FALSE
      BY <1>2 DEF Mutate
    <2>2. UNCHANGED <<reloadTimer, jobVars, currentProcess, procVars, configFile, binary>>
      BY <1>2 DEF Mutate
    <2> QED BY <2>1, <2>2 DEF jobVars, procVars
  <1>3. CASE Reload
    BY <1>3 DEF Reload, jobVars, procVars
  <1>4. ASSUME NEW j \in Job, TimerFires(j)
        PROVE  TypeInv'
    BY <1>4 DEF TimerFires, requestVars, procVars
  <1>5. ASSUME NEW j \in Job, ReloadStep(j)
        PROVE  TypeInv'
    <2>1. CASE LoadRows(j) \/ LoadFails(j)
      BY <2>1 DEF LoadRows, LoadFails, requestVars, procVars
    <2>2. CASE ReloadStops(j)
      <3>1. CASE StopNothing(j)
        BY <2>2, <3>1, AfterStopType
           DEF ReloadStops, StopNothing, requestVars, procVars
      <3>2. CASE StopCurrent(j)
        BY <2>2, <3>2 DEF ReloadStops, StopCurrent, requestVars
      <3> QED BY <2>2, <3>1, <3>2 DEF ReloadStops, Stop
    <2>3. CASE KillTimerFires(j)
      BY <2>3 DEF KillTimerFires, requestVars
    <2>4. CASE WriteConfig(j)
      BY <2>4 DEF WriteConfig, requestVars, procVars
    <2>5. CASE WriteFails(j)
      BY <2>5 DEF WriteFails, requestVars, procVars
    <2>6. ASSUME NEW p \in Proc, Spawn(j, p)
          PROVE  TypeInv'
      BY <2>6 DEF Spawn, requestVars
    <2>7. CASE SpawnFails(j)
      BY <2>7 DEF SpawnFails, requestVars, procVars
    <2> QED BY <1>5, <2>1, <2>2, <2>3, <2>4, <2>5, <2>6, <2>7 DEF ReloadStep
  <1>6. ASSUME NEW p \in Proc, ProcStep(p)
        PROVE  TypeInv'
    <2>1. CASE Exits(p)
      BY <2>1, AfterStopType DEF Exits, requestVars
    <2>2. CASE ReadConfig(p)
      BY <2>2 DEF ReadConfig, requestVars, jobVars
    <2> QED BY <1>6, <2>1, <2>2 DEF ProcStep, Terminates, Crashes
  <1>7. CASE UNCHANGED vars
    BY <1>7 DEF vars, requestVars, jobVars, procVars
  <1> QED
    BY <1>1, <1>2, <1>3, <1>4, <1>5, <1>6, <1>7 DEF Next, ManagerStep

(* Every variable keeps its type in every reachable state of the manager.  *)
THEOREM TypeCorrect == Spec => []TypeOK
  <1>1. TypeInv => TypeOK
    BY DEF TypeInv
  <1> QED BY <1>1, TypeInvInit, TypeInvNext, PTL DEF Spec

-----------------------------------------------------------------------------
(* Stopping.  What makes StopsAwaitTheirOwnProcess inductive is that       *)
(* `killed` is only ever true of a live process: a slot that start() fills *)
(* is unsignalled, so a later stop() takes a process no one waits for.     *)
StopInv ==
    /\ StopsAwaitTheirOwnProcess
    /\ CurrentIsUnsignalled
    /\ \A p \in Proc : killed[p] => Alive(p)

LEMMA StopInvInit == Init => StopInv
  BY ProcAssumption
     DEF Init, ManagerInit, StopInv, StopsAwaitTheirOwnProcess, Waiting,
         CurrentIsUnsignalled

LEMMA StopInvNext == TypeInv /\ StopInv /\ [Next]_vars => StopInv'
  <1> SUFFICES ASSUME TypeOK, StopInv, [Next]_vars
               PROVE  StopInv'
    BY DEF TypeInv
  <1> USE ProcAssumption DEF TypeOK, StopInv, StopsAwaitTheirOwnProcess,
          CurrentIsUnsignalled, Waiting, Alive
  <1>1. CASE CheckBinary
    BY <1>1 DEF CheckBinary, jobVars, procVars
  <1>2. CASE Mutate
    BY <1>2 DEF Mutate, jobVars, procVars
  <1>3. CASE Reload
    BY <1>3 DEF Reload, jobVars, procVars
  <1>4. ASSUME NEW j \in Job, TimerFires(j)
        PROVE  StopInv'
    BY <1>4 DEF TimerFires, procVars
  <1>5. ASSUME NEW j \in Job, ReloadStep(j)
        PROVE  StopInv'
    <2>1. CASE LoadRows(j) \/ LoadFails(j)
      BY <2>1 DEF LoadRows, LoadFails, procVars
    <2>2. CASE ReloadStops(j)
      <3>1. CASE StopNothing(j)
        BY <3>1, AfterStopType DEF StopNothing, procVars
      <3>2. CASE StopCurrent(j)
        BY <3>2 DEF StopCurrent
      <3> QED BY <2>2, <3>1, <3>2 DEF ReloadStops, Stop
    <2>3. CASE KillTimerFires(j)
      BY <2>3 DEF KillTimerFires
    <2>4. CASE WriteConfig(j)
      BY <2>4 DEF WriteConfig, procVars
    <2>5. CASE WriteFails(j)
      BY <2>5 DEF WriteFails, procVars
    <2>6. ASSUME NEW p \in Proc, Spawn(j, p)
          PROVE  StopInv'
      BY <2>6 DEF Spawn
    <2>7. CASE SpawnFails(j)
      BY <2>7 DEF SpawnFails, procVars
    <2> QED BY <1>5, <2>1, <2>2, <2>3, <2>4, <2>5, <2>6, <2>7 DEF ReloadStep
  <1>6. ASSUME NEW p \in Proc, ProcStep(p)
        PROVE  StopInv'
    <2>1. CASE Exits(p)
      <3>1. \A j \in Job : Waiting(j)' =>
               /\ Waiting(j) /\ target[j] # p /\ target'[j] = target[j]
        BY <2>1, AfterStopType DEF Exits
      <3>2. StopsAwaitTheirOwnProcess'
        BY <2>1, <3>1 DEF Exits
      <3>3. CurrentIsUnsignalled'
        BY <2>1 DEF Exits
      <3>4. \A q \in Proc : killed'[q] => Alive(q)'
        BY <2>1 DEF Exits
      <3> QED BY <3>2, <3>3, <3>4
    <2>2. CASE ReadConfig(p)
      BY <2>2 DEF ReadConfig, jobVars
    <2> QED BY <1>6, <2>1, <2>2 DEF ProcStep, Terminates, Crashes
  <1>7. CASE UNCHANGED vars
    BY <1>7 DEF vars, jobVars, procVars
  <1> QED
    BY <1>1, <1>2, <1>3, <1>4, <1>5, <1>6, <1>7 DEF Next, ManagerStep

(* No call of stop() waits for a process that is already gone, and no two  *)
(* wait for the same one, however many reloads run at once.                *)
THEOREM StopsAwait == Spec => []StopsAwaitTheirOwnProcess
  <1>1. Init => TypeInv /\ StopInv
    BY TypeInvInit, StopInvInit
  <1>2. TypeInv /\ StopInv /\ [Next]_vars => (TypeInv /\ StopInv)'
    BY TypeInvNext, StopInvNext
  <1>3. StopInv => StopsAwaitTheirOwnProcess
    BY DEF StopInv
  <1> QED BY <1>1, <1>2, <1>3, PTL DEF Spec

(* The process that status requests and stop() find is never one that has  *)
(* been asked to exit.                                                     *)
THEOREM CurrentUnsignalled == Spec => []CurrentIsUnsignalled
  <1>1. Init => TypeInv /\ StopInv
    BY TypeInvInit, StopInvInit
  <1>2. TypeInv /\ StopInv /\ [Next]_vars => (TypeInv /\ StopInv)'
    BY TypeInvNext, StopInvNext
  <1>3. StopInv => CurrentIsUnsignalled
    BY DEF StopInv
  <1> QED BY <1>1, <1>2, <1>3, PTL DEF Spec

-----------------------------------------------------------------------------
(* Debouncing.  NoLostReload is inductive: the handler that commits owes a *)
(* reload, the reload arms the timer, the timer starts a query, and the    *)
(* query reads what is committed by then or is refused.                    *)
LEMMA NoLostReloadNext == TypeInv /\ NoLostReload /\ [Next]_vars => NoLostReload'
  <1> SUFFICES ASSUME TypeInv, NoLostReload, [Next]_vars
               PROVE  NoLostReload'
    OBVIOUS
  <1> USE DEF TypeInv, TypeOK, NoLostReload
  <1>1. CASE CheckBinary
    BY <1>1 DEF CheckBinary, requestVars, jobVars
  <1>2. CASE Mutate
    BY <1>2 DEF Mutate, Snapshot
  <1>3. CASE Reload
    BY <1>3 DEF Reload
  <1>4. ASSUME NEW j \in Job, TimerFires(j)
        PROVE  NoLostReload'
    BY <1>4 DEF TimerFires
  <1>5. ASSUME NEW j \in Job, ReloadStep(j)
        PROVE  NoLostReload'
    <2>1. CASE LoadRows(j) \/ LoadFails(j)
      BY <2>1 DEF LoadRows, LoadFails
    <2>2. ASSUME requestVars' = requestVars, reloadTimer' = reloadTimer,
                 rows' = rows,
                 \A k \in Job : pc[k] = "loading" => pc'[k] = "loading"
          PROVE  NoLostReload'
      BY <2>2 DEF requestVars
    <2>3. CASE ReloadStops(j)
      BY <2>2, <2>3 DEF ReloadStops, Stop, StopNothing, StopCurrent
    <2>4. CASE KillTimerFires(j)
      BY <2>2, <2>4 DEF KillTimerFires
    <2>5. CASE WriteConfig(j) \/ WriteFails(j)
      BY <2>2, <2>5 DEF WriteConfig, WriteFails
    <2>6. CASE SpawnFails(j) \/ \E p \in Proc : Spawn(j, p)
      BY <2>2, <2>6 DEF SpawnFails, Spawn
    <2> QED BY <1>5, <2>1, <2>3, <2>4, <2>5, <2>6 DEF ReloadStep
  <1>6. ASSUME NEW p \in Proc, ProcStep(p)
        PROVE  NoLostReload'
    <2>1. CASE Exits(p)
      BY <2>1 DEF Exits, requestVars, Waiting
    <2>2. CASE ReadConfig(p)
      BY <2>2 DEF ReadConfig, requestVars, jobVars
    <2> QED BY <1>6, <2>1, <2>2 DEF ProcStep, Terminates, Crashes
  <1>7. CASE UNCHANGED vars
    BY <1>7 DEF vars, requestVars, jobVars
  <1> QED
    BY <1>1, <1>2, <1>3, <1>4, <1>5, <1>6, <1>7 DEF Next, ManagerStep

(* No committed mutation is ever forgotten by the debounced reload: it is  *)
(* read, or a reload after it was refused its query.                       *)
THEOREM ReloadNeverLost == Spec => []NoLostReload
  <1>1. Init => NoLostReload
    BY JobAssumption DEF Init, ManagerInit, NoLostReload
  <1> QED BY <1>1, TypeInvInit, TypeInvNext, NoLostReloadNext, PTL DEF Spec

-----------------------------------------------------------------------------
(* Reloads that do not overlap.  SingleUpdater says nothing of the reload  *)
(* that is about to spawn; SerialInv adds that there is one activation at  *)
(* a time, that it has taken currentProcess away before it writes, and     *)
(* that a child is current or waited for, so that none is left by then.    *)
SerialInv ==
    /\ pc[Halt] = "idle"
    /\ \A j, k \in Job : pc[j] # "idle" /\ pc[k] # "idle" => j = k
    /\ \A j \in Job :
          pc[j] \in {"waiting", "writing", "written"} => currentProcess = NoProc
    /\ NoOrphan

LEMMA SerialInvInit == Init => SerialInv
  BY JobAssumption DEF Init, ManagerInit, SerialInv, NoOrphan, Alive

LEMMA SerialInvNext ==
    ASSUME ~Overlap, TypeOK, StopInv, SerialInv, [Next]_vars
    PROVE  SerialInv'
  <1> USE ProcAssumption, JobAssumption
      DEF TypeOK, SerialInv, NoOrphan, Waiting, Alive
  <1>1. CASE CheckBinary
    BY <1>1 DEF CheckBinary, jobVars, procVars
  <1>2. CASE Mutate
    BY <1>2 DEF Mutate, jobVars, procVars
  <1>3. CASE Reload
    BY <1>3 DEF Reload, jobVars, procVars
  <1>4. ASSUME NEW j \in Job, TimerFires(j)
        PROVE  SerialInv'
    BY <1>4 DEF TimerFires, procVars
  <1>5. ASSUME NEW j \in Job, ReloadStep(j)
        PROVE  SerialInv'
    <2> \A k \in Job : pc[j] # "idle" /\ k # j => pc[k] = "idle"
      OBVIOUS
    <2>1. CASE LoadRows(j) \/ LoadFails(j)
      BY <2>1 DEF LoadRows, LoadFails, procVars
    <2>2. CASE ReloadStops(j)
      <3>1. CASE StopNothing(j)
        BY <2>2, <3>1, AfterStopType DEF ReloadStops, StopNothing, procVars
      <3>2. CASE StopCurrent(j)
        BY <2>2, <3>2 DEF ReloadStops, StopCurrent
      <3> QED BY <2>2, <3>1, <3>2 DEF ReloadStops, Stop
    <2>3. CASE KillTimerFires(j)
      BY <2>3 DEF KillTimerFires, StopInv, StopsAwaitTheirOwnProcess
    <2>4. CASE WriteConfig(j)
      BY <2>4 DEF WriteConfig, procVars
    <2>5. CASE WriteFails(j)
      BY <2>5 DEF WriteFails, procVars
    <2>6. ASSUME NEW p \in Proc, Spawn(j, p)
          PROVE  SerialInv'
      BY <2>6 DEF Spawn
    <2>7. CASE SpawnFails(j)
      BY <2>7 DEF SpawnFails, procVars
    <2> QED BY <1>5, <2>1, <2>2, <2>3, <2>4, <2>5, <2>6, <2>7 DEF ReloadStep
  <1>6. ASSUME NEW p \in Proc, ProcStep(p)
        PROVE  SerialInv'
    <2>1. CASE Exits(p)
      <3>1. \A j \in Job : /\ pc[j] = "idle" => pc'[j] = "idle"
                           /\ pc'[j] \in {"waiting", "writing", "written"}
                                => pc[j] \in {"waiting", "writing", "written"}
        BY <2>1, AfterStopType DEF Exits
      <3>2. currentProcess = NoProc => currentProcess' = NoProc
        BY <2>1 DEF Exits
      <3>3. NoOrphan'
        <4> SUFFICES ASSUME NEW q \in Proc, Alive(q)'
                     PROVE  \/ currentProcess' = q
                            \/ \E j \in Job : Waiting(j)' /\ target'[j] = q
          OBVIOUS
        <4>1. q # p /\ Alive(q)
          BY <2>1 DEF Exits
        <4>2. CASE currentProcess = q
          BY <2>1, <4>1, <4>2 DEF Exits
        <4>3. ASSUME NEW j \in Job, Waiting(j), target[j] = q
              PROVE  Waiting(j)' /\ target'[j] = q
          BY <2>1, <4>1, <4>3 DEF Exits
        <4> QED BY <4>1, <4>2, <4>3
      <3> QED BY <3>1, <3>2, <3>3
    <2>2. CASE ReadConfig(p)
      BY <2>2 DEF ReadConfig, jobVars
    <2> QED BY <1>6, <2>1, <2>2 DEF ProcStep, Terminates, Crashes
  <1>7. CASE UNCHANGED vars
    BY <1>7 DEF vars, jobVars, procVars
  <1> QED
    BY <1>1, <1>2, <1>3, <1>4, <1>5, <1>6, <1>7 DEF Next, ManagerStep

LEMMA SerialInvSingle == SerialInv => SingleUpdater
  <1> SUFFICES ASSUME SerialInv, NEW p \in Proc, NEW q \in Proc,
                      Alive(p), Alive(q)
               PROVE  p = q
    BY DEF SingleUpdater
  <1>1. CASE currentProcess # NoProc
    <2>1. \A j \in Job : ~Waiting(j)
      BY <1>1 DEF SerialInv, Waiting
    <2> QED BY <2>1 DEF SerialInv, NoOrphan
  <1>2. CASE currentProcess = NoProc
    <2>1. p # currentProcess /\ q # currentProcess
      BY <1>2, ProcAssumption
    <2>2. PICK j \in Job, k \in Job : /\ Waiting(j) /\ target[j] = p
                                     /\ Waiting(k) /\ target[k] = q
      BY <2>1 DEF SerialInv, NoOrphan
    <2>3. pc[j] # "idle" /\ pc[k] # "idle"
      BY <2>2 DEF Waiting
    <2>4. j = k
      BY <2>3 DEF SerialInv
    <2> QED BY <2>2, <2>4
  <1> QED BY <1>1, <1>2

(* "we run exactly one process": true when reloads do not overlap.         *)
THEOREM SerialSingle ==
    ASSUME ~Overlap
    PROVE  Spec => []SingleUpdater
  <1> DEFINE Inv == TypeInv /\ StopInv /\ SerialInv
  <1>1. Init => Inv
    BY TypeInvInit, StopInvInit, SerialInvInit
  <1>2. Inv /\ [Next]_vars => Inv'
    BY TypeInvNext, StopInvNext, SerialInvNext DEF TypeInv
  <1>3. Inv => SingleUpdater
    BY SerialInvSingle
  <1> QED BY <1>1, <1>2, <1>3, PTL DEF Spec

-----------------------------------------------------------------------------
(* The refinement.  config.json is rewritten only with rows read later     *)
(* than those it holds, and only when no child has read anything.          *)
FreshInv ==
    /\ configFile <= db
    /\ \A j \in Job :
          /\ pc[j] \notin {"idle", "loading"} => configFile <= rows[j]
          /\ rows[j] <= db
    /\ \A p \in Proc : procRows[p] # Absent => Alive(p)

LEMMA FreshInvInit == Init => FreshInv
  <1> SUFFICES ASSUME Init
               PROVE  FreshInv
    OBVIOUS
  <1>1. db = 0 /\ configFile = -1 /\ rows = [j \in Job |-> 0]
    BY DEF Init, ManagerInit, Absent
  <1>2. \A p \in Proc : procRows[p] = Absent
    BY DEF Init, ManagerInit
  <1> QED BY <1>1, <1>2 DEF FreshInv

LEMMA FreshInvNext ==
    ASSUME TypeOK, SerialInv, FreshInv, [Next]_vars
    PROVE  FreshInv'
  <1> USE ProcAssumption, BoundAssumption
      DEF TypeOK, FreshInv, Alive, Snapshot, Absent, PC
  <1>1. CASE CheckBinary
    BY <1>1 DEF CheckBinary, requestVars, jobVars, procVars
  <1>2. CASE Mutate
    BY <1>2 DEF Mutate, jobVars, procVars
  <1>3. CASE Reload
    BY <1>3 DEF Reload, jobVars, procVars
  <1>4. ASSUME NEW j \in Job, TimerFires(j)
        PROVE  FreshInv'
    BY <1>4 DEF TimerFires, requestVars, procVars
  <1>5. ASSUME NEW j \in Job, ReloadStep(j)
        PROVE  FreshInv'
    <2>1. CASE LoadRows(j) \/ LoadFails(j)
      BY <2>1 DEF LoadRows, LoadFails, requestVars, procVars
    <2>2. CASE ReloadStops(j)
      <3>1. CASE StopNothing(j)
        BY <2>2, <3>1, AfterStopType
           DEF ReloadStops, StopNothing, requestVars, procVars
      <3>2. CASE StopCurrent(j)
        BY <2>2, <3>2 DEF ReloadStops, StopCurrent, requestVars
      <3> QED BY <2>2, <3>1, <3>2 DEF ReloadStops, Stop
    <2>3. CASE KillTimerFires(j)
      BY <2>3 DEF KillTimerFires, requestVars
    <2>4. CASE WriteConfig(j)
      BY <2>4 DEF WriteConfig, requestVars, procVars, SerialInv
    <2>5. CASE WriteFails(j)
      BY <2>5 DEF WriteFails, requestVars, procVars
    <2>6. ASSUME NEW p \in Proc, Spawn(j, p)
          PROVE  FreshInv'
      BY <2>6 DEF Spawn, requestVars
    <2>7. CASE SpawnFails(j)
      BY <2>7 DEF SpawnFails, requestVars, procVars
    <2> QED BY <1>5, <2>1, <2>2, <2>3, <2>4, <2>5, <2>6, <2>7 DEF ReloadStep
  <1>6. ASSUME NEW p \in Proc, ProcStep(p)
        PROVE  FreshInv'
    <2>1. CASE Exits(p)
      BY <2>1, AfterStopType DEF Exits, requestVars, Waiting
    <2>2. CASE ReadConfig(p)
      BY <2>2 DEF ReadConfig, requestVars, jobVars
    <2> QED BY <1>6, <2>1, <2>2 DEF ProcStep, Terminates, Crashes
  <1>7. CASE UNCHANGED vars
    BY <1>7 DEF vars, requestVars, jobVars, procVars
  <1> QED
    BY <1>1, <1>2, <1>3, <1>4, <1>5, <1>6, <1>7 DEF Next, ManagerStep

(* Before start() writes config.json there is no child left.               *)
LEMMA NoChildAtWrite ==
    ASSUME SerialInv, NEW j \in Job, pc[j] \in {"writing", "written"}
    PROVE  \A p \in Proc : ~Alive(p)
  <1>1. currentProcess = NoProc
    BY DEF SerialInv
  <1>2. \A k \in Job : ~Waiting(k)
    BY DEF SerialInv, Waiting
  <1> QED BY <1>1, <1>2, ProcAssumption DEF SerialInv, NoOrphan

(* What is left to do reaches the child: while nobody is about to read     *)
(* rows, a reload in progress holds the latest, and a child that is not    *)
(* about to be stopped has, or will find, the configuration with them.     *)
Pending == owed > 0 \/ reloadTimer \/ \E j \in Job : pc[j] = "loading"

LatestInv ==
    /\ \A j \in Job : pc[j] \notin {"idle", "loading"} => Pending \/ rows[j] = db
    /\ \A j \in Job : pc[j] = "written" => configFile = rows[j]
    /\ \A p \in Proc : Alive(p) => procRows[p] \in {Absent, configFile}
    /\ (\E p \in Proc : Alive(p)) =>
          \/ Pending \/ configFile = db \/ refused
          \/ \E j \in Job : pc[j] \in {"loaded", "waiting"}

LEMMA LatestInvInit == Init => LatestInv
  BY JobAssumption DEF Init, ManagerInit, LatestInv, Alive

LEMMA LatestInvNext ==
    ASSUME TypeOK, SerialInv, FreshInv, LatestInv, SerialInv', [Next]_vars
    PROVE  LatestInv'
  <1> USE DEF TypeOK, LatestInv, Pending
  <1>1. CASE CheckBinary
    BY <1>1 DEF CheckBinary, requestVars, jobVars, procVars, Alive
  <1>2. CASE Mutate
    <2>1. owed' > 0
      BY <1>2 DEF Mutate, Snapshot
    <2> QED BY <1>2, <2>1 DEF Mutate, jobVars, procVars, Alive
  <1>3. CASE Reload
    BY <1>3 DEF Reload, jobVars, procVars, Alive
  <1>4. ASSUME NEW j \in Job, TimerFires(j)
        PROVE  LatestInv'
    <2>1. pc'[j] = "loading"
      BY <1>4 DEF TimerFires
    <2> QED BY <1>4, <2>1 DEF TimerFires, requestVars, procVars, Alive
  <1>5. ASSUME NEW j \in Job, ReloadStep(j)
        PROVE  LatestInv'
    <2>1. pc[j] # "idle" /\ \A k \in Job \ {j} : pc[k] = "idle"
      BY <1>5 DEF ReloadStep, LoadRows, LoadFails, ReloadStops, KillTimerFires,
                  WriteConfig, WriteFails, Spawn, SpawnFails, Waiting, SerialInv
    <2>2. CASE LoadRows(j) \/ LoadFails(j)
      BY <2>1, <2>2 DEF LoadRows, LoadFails, procVars, Alive
    <2>3. CASE ReloadStops(j) /\ StopNothing(j)
      <3>1. \A p \in Proc : ~Alive(p)
        BY <2>1, <2>3, ProcAssumption
           DEF ReloadStops, StopNothing, SerialInv, NoOrphan, Waiting
      <3> QED BY <2>1, <2>3, <3>1, AfterStopType
              DEF ReloadStops, StopNothing, requestVars, procVars, Alive
    <2>4. CASE ReloadStops(j) /\ StopCurrent(j)
      BY <2>1, <2>4 DEF ReloadStops, StopCurrent, requestVars, Alive
    <2>5. CASE KillTimerFires(j)
      <3>1. \A p \in Proc : Alive(p)' => Alive(p) \/ pc'[j] = "waiting"
        BY <2>5 DEF KillTimerFires, Alive, Waiting
      <3>2. \A p \in Proc : Alive(p)' => procRows'[p] \in {Absent, configFile'}
        <4>1. \A p \in Proc : procRows[p] # Absent => Alive(p)
          BY DEF FreshInv
        <4> QED BY <2>5, <4>1 DEF KillTimerFires
      <3> QED BY <2>1, <2>5, <3>1, <3>2 DEF KillTimerFires, requestVars, Waiting
    <2>6. CASE WriteConfig(j)
      <3>1. \A p \in Proc : ~Alive(p)
        BY <2>6, NoChildAtWrite DEF WriteConfig
      <3> QED BY <2>1, <2>6, <3>1 DEF WriteConfig, requestVars, procVars, Alive
    <2>7. CASE WriteFails(j) \/ SpawnFails(j)
      <3>1. \A p \in Proc : ~Alive(p)
        BY <2>7, NoChildAtWrite DEF WriteFails, SpawnFails
      <3> QED BY <2>1, <2>7, <3>1
              DEF WriteFails, SpawnFails, requestVars, procVars, Alive
    <2>8. ASSUME NEW p \in Proc, Spawn(j, p)
          PROVE  LatestInv'
      <3>1. \A q \in Proc : procRows[q] = Absent
        BY <2>8, NoChildAtWrite DEF Spawn, FreshInv
      <3>2. Pending \/ configFile = db
        BY <2>8 DEF Spawn
      <3>3. Pending => Pending'
        BY <2>8 DEF Spawn, requestVars
      <3> QED BY <2>1, <2>8, <3>1, <3>2, <3>3 DEF Spawn, requestVars
    <2> QED BY <1>5, <2>2, <2>3, <2>4, <2>5, <2>6, <2>7, <2>8
            DEF ReloadStep, ReloadStops, Stop
  <1>6. ASSUME NEW p \in Proc, ProcStep(p)
        PROVE  LatestInv'
    <2>1. CASE Exits(p)
      <3>1. Alive(p)
        BY <1>6 DEF ProcStep, Terminates, Crashes, ReadConfig
      <3>2. \A q \in Proc : ~Alive(q)'
        BY <2>1, <3>1, SerialInvSingle DEF SingleUpdater, Exits, Alive
      <3>3. \A j \in Job : /\ pc[j] = "loading" => pc'[j] = "loading"
                           /\ pc'[j] \notin {"idle", "loading"} =>
                                 pc[j] \notin {"idle", "loading"}
                           /\ pc'[j] = "written" => pc[j] = "written"
        BY <2>1, AfterStopType DEF Exits, Waiting
      <3> QED BY <2>1, <3>2, <3>3 DEF Exits, requestVars
    <2>2. CASE ReadConfig(p)
      BY <2>2 DEF ReadConfig, requestVars, jobVars, Alive
    <2> QED BY <1>6, <2>1, <2>2 DEF ProcStep, Terminates, Crashes
  <1>7. CASE UNCHANGED vars
    BY <1>7 DEF vars, requestVars, jobVars, procVars, Alive
  <1> QED
    BY <1>1, <1>2, <1>3, <1>4, <1>5, <1>6, <1>7 DEF Next, ManagerStep

(* When reloads do not overlap, a child that runs while nothing is left to *)
(* do has the latest rows, whatever failed on the way, unless what failed  *)
(* last is the query that would have read them.                            *)
THEOREM SerialQuiet ==
    ASSUME ~Overlap
    PROVE  Spec => []QuietIsCurrent
  <1> DEFINE Inv == TypeInv /\ StopInv /\ SerialInv /\ FreshInv /\ LatestInv
  <1>1. Init => Inv
    BY TypeInvInit, StopInvInit, SerialInvInit, FreshInvInit, LatestInvInit
  <1>2. Inv /\ [Next]_vars => Inv'
    BY TypeInvNext, StopInvNext, SerialInvNext, FreshInvNext, LatestInvNext
       DEF TypeInv
  <1>3. Inv => QuietIsCurrent
    <2> SUFFICES ASSUME Inv, Quiet, ~refused, NEW p \in Proc, Alive(p)
                 PROVE  Served(p) = db
      BY DEF QuietIsCurrent
    <2>1. ~Pending
      BY DEF Quiet, Idle, Pending, TypeInv, TypeOK, Snapshot
    <2>2. configFile = db
      BY <2>1 DEF LatestInv, Quiet, Idle
    <2> QED BY <2>2 DEF LatestInv, Served
  <1> QED BY <1>1, <1>2, <1>3, PTL DEF Spec

(* What the service serves, by what is alive.                              *)
LEMMA ServedDown ==
    ASSUME \A p \in Proc : procRows[p] = Absent
    PROVE  ServedNow = Absent
  BY DEF ServedNow

(* Each step of the manager is a step of the service or leaves it alone.   *)
LEMMA ServiceStep ==
    ASSUME TypeOK, SerialInv, FreshInv, SerialInv', FreshInv', [Next]_vars
    PROVE  [Service!Next]_(Service!serviceVars)
  <1> USE DEF Service!serviceVars
  <1>1. ASSUME db' = db, configFile' = configFile, procRows' = procRows
        PROVE  UNCHANGED Service!serviceVars
    BY <1>1 DEF ServedNow
  <1>2. CASE Mutate
    <2>1. ServedNow' = ServedNow
      BY <1>2 DEF Mutate, procVars, ServedNow
    <2> QED BY <1>2, <2>1 DEF Mutate, Service!Next, Service!Commit
  <1>3. CASE CheckBinary \/ Reload \/ \E j \in Job : TimerFires(j)
    BY <1>1, <1>3 DEF CheckBinary, Reload, TimerFires, requestVars, procVars
  <1>4. ASSUME NEW j \in Job, ReloadStep(j)
        PROVE  [Service!Next]_(Service!serviceVars)
    <2>1. CASE WriteConfig(j)
      <3>1. \A p \in Proc : procRows[p] = Absent
        BY <2>1, NoChildAtWrite DEF WriteConfig, FreshInv
      <3>2. ServedNow = Absent /\ ServedNow' = Absent
        BY <2>1, <3>1, ServedDown DEF WriteConfig, procVars, ServedNow
      <3>3. rows[j] \in 0..db /\ configFile <= rows[j]
        BY <2>1 DEF WriteConfig, FreshInv, TypeOK, Snapshot
      <3>4. Service!Publish(rows[j])
        BY <2>1, <3>2, <3>3
           DEF WriteConfig, requestVars, Service!Publish, Service!Down, Absent
      <3> QED BY <3>3, <3>4 DEF Service!Next
    <2>2. CASE LoadRows(j) \/ LoadFails(j) \/ WriteFails(j) \/ SpawnFails(j)
               \/ \E p \in Proc : Spawn(j, p)
      BY <1>1, <2>2
         DEF LoadRows, LoadFails, WriteFails, SpawnFails, Spawn, requestVars,
             procVars
    <2>3. CASE ReloadStops(j)
      BY <1>1, <2>3 DEF ReloadStops, Stop, StopNothing, StopCurrent,
                        requestVars, procVars
    <2>4. CASE KillTimerFires(j)
      BY <1>1, <2>4 DEF KillTimerFires, requestVars
    <2> QED BY <1>4, <2>1, <2>2, <2>3, <2>4 DEF ReloadStep
  <1>5. ASSUME NEW p \in Proc, ProcStep(p)
        PROVE  [Service!Next]_(Service!serviceVars)
    <2>1. CASE Exits(p)
      <3>1. Alive(p)
        BY <1>5 DEF ProcStep, Terminates, Crashes, ReadConfig
      <3>2. \A q \in Proc : procRows'[q] = Absent
        BY <2>1, <3>1, SerialInvSingle
           DEF Exits, SingleUpdater, FreshInv, TypeOK
      <3>3. ServedNow' = Absent
        BY <3>2 DEF ServedNow
      <3> QED BY <2>1, <3>3
              DEF Exits, requestVars, Service!Next, Service!Leave,
                  Service!Down, Absent
    <2>2. CASE ReadConfig(p) /\ configFile = Absent
      <3>1. procRows' = procRows
        BY <2>2 DEF ReadConfig, TypeOK
      <3> QED BY <1>1, <2>2, <3>1 DEF ReadConfig, requestVars
    <2>3. CASE ReadConfig(p) /\ configFile # Absent
      <3>1. \A q \in Proc : procRows[q] = Absent
        BY <2>3, SerialInvSingle DEF ReadConfig, SingleUpdater, FreshInv
      <3>2. ServedNow = Absent
        BY <3>1, ServedDown
      <3>3. procRows'[p] = configFile /\ configFile' = configFile
        BY <2>3 DEF ReadConfig, TypeOK
      <3>4. \A q \in Proc : procRows'[q] # Absent => q = p
        BY <2>3, <3>1 DEF ReadConfig, TypeOK
      <3>5. ServedNow' = configFile
        BY <2>3, <3>3, <3>4 DEF ServedNow
      <3> QED BY <2>3, <3>2, <3>3, <3>5
              DEF ReadConfig, requestVars, Service!Next, Service!Serve,
                  Service!Down, Absent
    <2> QED BY <1>5, <2>1, <2>2, <2>3 DEF ProcStep, Terminates, Crashes
  <1>6. CASE UNCHANGED vars
    BY <1>1, <1>6 DEF vars, requestVars, procVars
  <1> QED BY <1>2, <1>3, <1>4, <1>5, <1>6 DEF Next, ManagerStep

(* When reloads do not overlap, the manager implements the service: one    *)
(* updater, which serves what is published, and never older rows.          *)
THEOREM SerialImplements ==
    ASSUME ~Overlap
    PROVE  Spec => ImplementsService
  <1> DEFINE Inv == TypeInv /\ StopInv /\ SerialInv /\ FreshInv
  <1>1. Init => Inv
    BY TypeInvInit, StopInvInit, SerialInvInit, FreshInvInit
  <1>2. Inv /\ [Next]_vars => Inv'
    BY TypeInvNext, StopInvNext, SerialInvNext, FreshInvNext DEF TypeInv
  <1>3. Init => Service!Init
    BY ServedDown DEF Init, ManagerInit, Service!Init, Service!Down, Absent
  <1>4. Inv /\ Inv' /\ [Next]_vars => [Service!Next]_(Service!serviceVars)
    BY ServiceStep DEF TypeInv
  <1> QED BY <1>1, <1>2, <1>3, <1>4, PTL DEF Spec, ImplementsService, Service!Spec
=============================================================================
