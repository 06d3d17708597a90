---------------------------- MODULE BackendProofs ----------------------------
(***************************************************************************)
(* Proofs about Backend, over those about the manager it is composed with. *)
(***************************************************************************)
EXTENDS Backend, DdnsManagerProofs

(* Every step of the backend is one of the manager, leaves it alone, or is *)
(* one of the two calls the manager does not make itself.                  *)
LEMMA BackendSteps ==
    ASSUME [BackendNext]_backendVars
    PROVE  [Next]_vars \/ BootDdns \/ Signal
  <1>1. CASE StartupStep
    BY <1>1 DEF StartupStep, PrepareFails, Retry, Listen
  <1>2. CASE ShutdownStep
    BY <1>2 DEF ShutdownStep, ServerClosed, ForcedExit
  <1>3. CASE Handle \/ Manage
    BY <1>3 DEF Handle, Manage, Next
  <1>4. ASSUME NEW p \in Proc, BackendExits(p) \/ ChildReads(p) PROVE Next
    BY <1>4 DEF BackendExits, ChildReads, Next, ProcStep
  <1>5. CASE UNCHANGED backendVars
    BY <1>5 DEF backendVars
  <1> QED BY <1>1, <1>2, <1>3, <1>4, <1>5 DEF BackendNext

(* Types, and what stop() relies on.                                       *)
ManagerInv == TypeInv /\ StopInv

LEMMA BootIdle == ManagerInit("idle") =>
    /\ ManagerInv
    /\ \A j \in Job : pc[j] = "idle"
    /\ owed = 0 /\ ~reloadTimer /\ currentProcess = NoProc
    /\ \A p \in Proc : ~Alive(p)
  <1> SUFFICES ASSUME ManagerInit("idle")
               PROVE  /\ ManagerInv
                      /\ \A j \in Job : pc[j] = "idle"
                      /\ owed = 0 /\ ~reloadTimer /\ currentProcess = NoProc
                      /\ \A p \in Proc : ~Alive(p)
    OBVIOUS
  <1> USE DEF ManagerInit
  <1>1. \A j \in Job : pc[j] = "idle"
    OBVIOUS
  <1>2. \A p \in Proc : ~Alive(p) /\ ~killed[p]
    BY DEF Alive
  <1>3. StopInv
    BY <1>1, <1>2 DEF StopInv, StopsAwaitTheirOwnProcess, CurrentIsUnsignalled, Waiting
  <1>4. 0 \in Snapshot
    BY BoundAssumption DEF Snapshot
  <1>5. /\ db \in Snapshot /\ owed \in Snapshot /\ owed <= db
        /\ rows \in [Job -> Snapshot]
        /\ configFile \in Snapshot \cup {Absent}
    BY <1>4
  <1>6. /\ target \in [Job -> Proc \cup {NoProc}]
        /\ currentProcess \in Proc \cup {NoProc}
        /\ procState \in [Proc -> {"free", "up", "doomed"}]
        /\ procRows \in [Proc -> Snapshot \cup {Absent}]
    OBVIOUS
  <1>7. pc \in [Job -> PC] /\ binary \in {"checking", "present", "missing"}
    BY DEF PC
  <1>8. /\ reloadTimer \in BOOLEAN
        /\ killTimer \in [Job -> BOOLEAN]
        /\ killed \in [Proc -> BOOLEAN]
    OBVIOUS
  <1>9. TypeInv
    BY <1>5, <1>6, <1>7, <1>8 DEF TypeInv, TypeOK
  <1> QED BY <1>1, <1>2, <1>3, <1>9 DEF ManagerInv

LEMMA BootKeepsManager == ManagerInv /\ BootDdns => ManagerInv'
  <1> SUFFICES ASSUME ManagerInv, BootDdns PROVE ManagerInv'
    OBVIOUS
  <1>1. TypeInv'
    BY DEF ManagerInv, BootDdns, TypeInv, TypeOK, PC, requestVars, procVars
  <1>2. StopInv'
    BY DEF ManagerInv, BootDdns, TypeInv, TypeOK, StopInv,
           StopsAwaitTheirOwnProcess, CurrentIsUnsignalled, Waiting, Alive,
           procVars
  <1> QED BY <1>1, <1>2 DEF ManagerInv

LEMMA SignalKeepsManager == ManagerInv /\ StopAll => ManagerInv'
  <1> SUFFICES ASSUME ManagerInv, StopAll PROVE ManagerInv'
    OBVIOUS
  <1> USE ProcAssumption, JobAssumption DEF ManagerInv
  <1>1. CASE StopNothing(Halt)
    <2>1. TypeInv'
      BY <1>1, AfterStopType DEF StopAll, StopNothing, TypeInv, TypeOK, PC,
                                 requestVars, procVars
    <2>2. StopInv'
      BY <1>1, AfterStopType DEF StopNothing, TypeInv, TypeOK, StopInv,
         StopsAwaitTheirOwnProcess, CurrentIsUnsignalled, Waiting, Alive, procVars
    <2> QED BY <2>1, <2>2
  <1>2. CASE StopCurrent(Halt)
    <2>1. TypeInv'
      BY <1>2 DEF StopAll, StopCurrent, TypeInv, TypeOK, PC, requestVars
    <2>2. StopInv'
      BY <1>2 DEF StopCurrent, TypeInv, TypeOK, StopInv,
         StopsAwaitTheirOwnProcess, CurrentIsUnsignalled, Waiting, Alive
    <2> QED BY <2>1, <2>2
  <1> QED BY <1>1, <1>2 DEF StopAll, Stop

LEMMA ManagerKept == ManagerInv /\ [BackendNext]_backendVars => ManagerInv'
  <1> SUFFICES ASSUME ManagerInv, [BackendNext]_backendVars PROVE ManagerInv'
    OBVIOUS
  <1>1. CASE [Next]_vars
    BY <1>1, TypeInvNext, StopInvNext DEF ManagerInv
  <1>2. CASE BootDdns
    BY <1>2, BootKeepsManager
  <1>3. CASE Signal
    BY <1>3, SignalKeepsManager DEF Signal
  <1> QED BY <1>1, <1>2, <1>3, BackendSteps

-----------------------------------------------------------------------------
LifeOK ==
    /\ startup \in {"preparing", "failed", "booting", "listening"}
    /\ shutdown \in {"no", "stopping", "closing", "exited"}
    /\ calm \in BOOLEAN

LEMMA LifeNext == LifeOK /\ [BackendNext]_backendVars => LifeOK'
  <1> SUFFICES ASSUME LifeOK, [BackendNext]_backendVars PROVE LifeOK'
    OBVIOUS
  <1> USE DEF LifeOK, AfterStopAll
  <1>1. CASE StartupStep
    BY <1>1 DEF StartupStep, PrepareFails, Retry, BootDdns, Listen
  <1>2. CASE Signal
    BY <1>2 DEF Signal, Quiet
  <1>3. CASE ServerClosed \/ ForcedExit
    BY <1>3 DEF ServerClosed, ForcedExit
  <1>4. CASE Handle \/ Manage
    BY <1>4 DEF Handle, Manage, lifeVars
  <1>5. ASSUME NEW p \in Proc, BackendExits(p) \/ ChildReads(p) PROVE LifeOK'
    BY <1>5 DEF BackendExits, ChildReads, lifeVars
  <1>6. CASE UNCHANGED backendVars
    BY <1>6 DEF backendVars, lifeVars
  <1> QED BY <1>1, <1>2, <1>3, <1>4, <1>5, <1>6 DEF BackendNext, ShutdownStep

(* The types hold across start-up and shutdown.                            *)
THEOREM BackendTypeCorrect == BackendSpec => []BackendTypeOK
  <1>1. BackendInit => ManagerInv /\ LifeOK
    BY BootIdle DEF BackendInit, LifeOK
  <1>2. ManagerInv /\ LifeOK => BackendTypeOK
    BY DEF ManagerInv, TypeInv, LifeOK, BackendTypeOK
  <1> QED BY <1>1, <1>2, ManagerKept, LifeNext, PTL DEF BackendSpec

-----------------------------------------------------------------------------
(* Until the chain of start-up starts the manager, it is at rest; from     *)
(* then on, and until a signal, it is as it would be without a backend     *)
(* around it.                                                              *)
BeforeBoot ==
    startup \in {"preparing", "failed"} =>
        /\ \A j \in Job : pc[j] = "idle"
        /\ owed = 0 /\ ~reloadTimer /\ currentProcess = NoProc
        /\ \A p \in Proc : ~Alive(p)

SerialUntilSignal == shutdown = "no" => SerialInv

LEMMA BeforeBootNext == TypeOK /\ BeforeBoot /\ [BackendNext]_backendVars => BeforeBoot'
  <1> SUFFICES ASSUME TypeOK, BeforeBoot, [BackendNext]_backendVars,
                      startup' \in {"preparing", "failed"}
               PROVE  BeforeBoot'
    BY DEF BeforeBoot
  <1>1. startup \in {"preparing", "failed"}
    BY DEF BackendNext, StartupStep, PrepareFails, Retry, BootDdns, Listen,
           ShutdownStep, Signal, ServerClosed, ForcedExit, Handle, Manage,
           BackendExits, ChildReads, lifeVars, backendVars
  <1>2. /\ \A j \in Job : pc[j] = "idle"
        /\ owed = 0 /\ ~reloadTimer /\ currentProcess = NoProc
        /\ \A p \in Proc : ~Alive(p)
    BY <1>1 DEF BeforeBoot
  <1>3. CASE UNCHANGED vars
    BY <1>2, <1>3 DEF vars, requestVars, jobVars, procVars, BeforeBoot, Alive
  <1>4. CASE StartupStep
    BY <1>3, <1>4 DEF StartupStep, PrepareFails, Retry, BootDdns, Listen
  <1>5. CASE Signal
    BY <1>2, <1>5, JobAssumption
       DEF Signal, StopAll, Stop, StopNothing, StopCurrent, AfterStop,
           requestVars, procVars, BeforeBoot, Alive, TypeOK
  <1>6. CASE ServerClosed \/ ForcedExit \/ UNCHANGED backendVars
    BY <1>3, <1>6 DEF ServerClosed, ForcedExit, backendVars
  <1>7. CASE Handle
    BY <1>1, <1>7 DEF Handle
  <1>8. CASE Manage
    <2>1. CheckBinary
      BY <1>2, <1>8 DEF Manage, ManagerStep, Reload, TimerFires, ReloadStep,
         LoadRows, LoadFails, ReloadStops, KillTimerFires, WriteConfig, WriteFails, Spawn,
         SpawnFails, Waiting
    <2> QED BY <1>2, <2>1 DEF CheckBinary, requestVars, jobVars, procVars,
                              BeforeBoot, Alive
  <1>9. ASSUME NEW p \in Proc, BackendExits(p) \/ ChildReads(p) PROVE FALSE
    BY <1>2, <1>9 DEF BackendExits, ChildReads, Terminates, Crashes, ReadConfig
  <1> QED BY <1>4, <1>5, <1>6, <1>7, <1>8, <1>9 DEF BackendNext, ShutdownStep

LEMMA SerialUntilSignalNext ==
    ASSUME ~Overlap, ManagerInv, BeforeBoot, SerialUntilSignal,
           [BackendNext]_backendVars
    PROVE  SerialUntilSignal'
  <1> SUFFICES ASSUME shutdown' = "no" PROVE SerialInv'
    BY DEF SerialUntilSignal
  <1>1. shutdown = "no" /\ ~Signal
    BY DEF BackendNext, StartupStep, PrepareFails, Retry, BootDdns, Listen,
           ShutdownStep, Signal, ServerClosed, ForcedExit, Handle, Manage,
           BackendExits, ChildReads, lifeVars, backendVars, AfterStopAll, Running
  <1>2. SerialInv
    BY <1>1 DEF SerialUntilSignal
  <1>3. CASE [Next]_vars
    BY <1>2, <1>3, SerialInvNext DEF ManagerInv, TypeInv
  <1>4. CASE BootDdns
    <2>1. \A j \in Job : pc[j] = "idle"
      BY <1>4 DEF BootDdns, BeforeBoot
    <2>2. \A j \in Job : pc'[j] = IF j = Boot THEN "loading" ELSE "idle"
      BY <1>4, <2>1 DEF BootDdns, ManagerInv, TypeInv, TypeOK
    <2>3. \A p \in Proc : ~Alive(p)'
      BY <1>4 DEF BootDdns, BeforeBoot, procVars, Alive
    <2> QED BY <2>2, <2>3, JobAssumption DEF SerialInv, NoOrphan
  <1> QED BY <1>1, <1>3, <1>4, BackendSteps

(* Boot and reloads never leave two children, up to the signal, if reloads *)
(* do not overlap: the retried start-up chain starts the manager once.     *)
THEOREM SingleUntilSignal ==
    ASSUME ~Overlap
    PROVE  BackendSpec => []SingleUntilShutdown
  <1> DEFINE Inv == ManagerInv /\ BeforeBoot /\ SerialUntilSignal
  <1>1. BackendInit => Inv
    <2> SUFFICES ASSUME BackendInit PROVE Inv
      OBVIOUS
    <2>1. ManagerInv /\ BeforeBoot
      BY BootIdle DEF BackendInit, BeforeBoot
    <2>2. SerialInv
      BY BootIdle, JobAssumption DEF BackendInit, SerialInv, NoOrphan
    <2> QED BY <2>1, <2>2 DEF SerialUntilSignal
  <1>2. Inv /\ [BackendNext]_backendVars => Inv'
    BY ManagerKept, BeforeBootNext, SerialUntilSignalNext DEF ManagerInv, TypeInv
  <1>3. Inv => SingleUntilShutdown
    BY SerialInvSingle DEF SerialUntilSignal, SingleUntilShutdown
  <1> QED BY <1>1, <1>2, <1>3, PTL DEF BackendSpec

-----------------------------------------------------------------------------
(* The shutdown handler waits exactly while stopAll() does...              *)
HaltInv ==
    /\ pc[Halt] \in {"idle", "waiting"}
    /\ (shutdown = "stopping") <=> Waiting(Halt)

(* ... and after a signal that found no reload pending, only the child it  *)
(* waits for is left, unless a request or the boot has come since.         *)
CalmInv ==
    shutdown # "no" /\ calm =>
        /\ \A j \in Job \ {Halt} : pc[j] = "idle"
        /\ owed = 0 /\ ~reloadTimer /\ currentProcess = NoProc
        /\ \A p \in Proc : Alive(p) => Waiting(Halt) /\ target[Halt] = p

LEMMA HaltNext ==
    ASSUME TypeOK, LifeOK, HaltInv, [BackendNext]_backendVars
    PROVE  HaltInv'
  <1> USE JobAssumption DEF HaltInv, Waiting
  <1>1. CASE StartupStep
    <2>1. pc'[Halt] = pc[Halt] /\ shutdown' = shutdown
      BY <1>1 DEF StartupStep, PrepareFails, Retry, BootDdns, Listen, vars,
                  jobVars, TypeOK
    <2> QED BY <2>1
  <1>2. CASE Signal
    <2>1. CASE StopNothing(Halt)
      <3>1. pc'[Halt] = "idle"
        BY <2>1 DEF StopNothing, AfterStop, TypeOK
      <3>2. shutdown' = AfterStopAll
        BY <1>2, <2>1 DEF Signal, StopNothing
      <3> QED BY <3>1, <3>2 DEF AfterStopAll
    <2>2. CASE StopCurrent(Halt)
      <3>1. pc'[Halt] = "waiting"
        BY <2>2 DEF StopCurrent, TypeOK
      <3>2. shutdown' = "stopping"
        BY <1>2, <2>2 DEF Signal, StopCurrent
      <3> QED BY <3>1, <3>2
    <2> QED BY <1>2, <2>1, <2>2 DEF Signal, StopAll, Stop
  <1>3. CASE ServerClosed \/ ForcedExit
    BY <1>3 DEF ServerClosed, ForcedExit, vars, jobVars
  <1>4. CASE Handle
    BY <1>4 DEF Handle, Mutate, jobVars
  <1>5. CASE Manage
    <2>1. pc'[Halt] = pc[Halt]
      <3>1. CASE CheckBinary \/ Reload
        BY <3>1 DEF CheckBinary, Reload, jobVars
      <3>2. ASSUME NEW j \in Job, TimerFires(j) PROVE pc'[Halt] = pc[Halt]
        BY <3>2 DEF TimerFires, TypeOK
      <3>3. ASSUME NEW j \in Job, ReloadStep(j), j # Halt PROVE pc'[Halt] = pc[Halt]
        BY <3>3 DEF ReloadStep, LoadRows, LoadFails, ReloadStops, Stop, StopNothing,
           StopCurrent, KillTimerFires, WriteConfig, WriteFails, Spawn,
           SpawnFails, TypeOK
      <3>4. ASSUME ReloadStep(Halt) PROVE pc'[Halt] = pc[Halt]
        BY <3>4 DEF ReloadStep, LoadRows, LoadFails, ReloadStops, KillTimerFires,
           WriteConfig, WriteFails, Spawn, SpawnFails
      <3> QED BY <1>5, <3>1, <3>2, <3>3, <3>4 DEF Manage, ManagerStep
    <2> QED BY <1>5, <2>1 DEF Manage, lifeVars
  <1>6. ASSUME NEW p \in Proc, BackendExits(p) PROVE HaltInv'
    <2>1. Exits(p)
      BY <1>6 DEF BackendExits, Terminates, Crashes
    <2>2. CASE Waiting(Halt) /\ target[Halt] = p
      <3>1. pc'[Halt] = "idle"
        BY <2>1, <2>2 DEF Exits, AfterStop
      <3>2. shutdown' = AfterStopAll
        BY <1>6, <2>2 DEF BackendExits, Running
      <3> QED BY <3>1, <3>2 DEF AfterStopAll
    <2>3. CASE ~(Waiting(Halt) /\ target[Halt] = p)
      <3>1. pc'[Halt] = pc[Halt]
        BY <2>1, <2>3 DEF Exits
      <3>2. shutdown' = shutdown
        BY <1>6, <2>3 DEF BackendExits
      <3> QED BY <3>1, <3>2
    <2> QED BY <2>2, <2>3
  <1>7. ASSUME NEW p \in Proc, ChildReads(p) PROVE HaltInv'
    BY <1>7 DEF ChildReads, ReadConfig, jobVars, lifeVars
  <1>8. CASE UNCHANGED backendVars
    BY <1>8 DEF backendVars, vars, jobVars, lifeVars
  <1> QED BY <1>1, <1>2, <1>3, <1>4, <1>5, <1>6, <1>7, <1>8
          DEF BackendNext, ShutdownStep

LEMMA CalmNext ==
    ASSUME ManagerInv, LifeOK, SerialUntilSignal, HaltInv, CalmInv,
           [BackendNext]_backendVars
    PROVE  CalmInv'
  <1> SUFFICES ASSUME shutdown' # "no", calm' PROVE CalmInv'
    BY DEF CalmInv
  <1> USE JobAssumption, ProcAssumption DEF ManagerInv, TypeInv, TypeOK, Waiting
  <1>1. CASE Signal
    <2>1. SerialInv /\ Quiet
      BY <1>1 DEF Signal, SerialUntilSignal
    <2>2. \A j \in Job : pc[j] = "idle"
      BY <2>1 DEF Quiet, Idle
    <2>3. \A p \in Proc : Alive(p) => currentProcess = p
      BY <2>1, <2>2 DEF SerialInv, NoOrphan
    <2>4. CASE StopNothing(Halt)
      BY <1>1, <2>1, <2>2, <2>3, <2>4
         DEF Signal, StopAll, StopNothing, CalmInv, Quiet, requestVars,
             procVars, Alive
    <2>5. CASE StopCurrent(Halt)
      BY <1>1, <2>1, <2>2, <2>3, <2>5
         DEF Signal, StopAll, StopCurrent, CalmInv, Quiet, requestVars, Alive
    <2> QED BY <1>1, <2>4, <2>5 DEF Signal, StopAll, Stop
  <1>2. CASE ~Signal
    <2>1. shutdown # "no" /\ calm
      BY <1>2 DEF BackendNext, StartupStep, PrepareFails, Retry, BootDdns,
         Listen, ShutdownStep, ServerClosed, ForcedExit, Handle, Manage,
         BackendExits, ChildReads, lifeVars, backendVars, HaltInv
    <2>2. /\ \A j \in Job \ {Halt} : pc[j] = "idle"
          /\ owed = 0 /\ ~reloadTimer /\ currentProcess = NoProc
          /\ \A p \in Proc : Alive(p) => Waiting(Halt) /\ target[Halt] = p
      BY <2>1 DEF CalmInv
    <2>3. CASE UNCHANGED vars
      BY <2>2, <2>3 DEF vars, requestVars, jobVars, procVars, CalmInv, Alive
    <2>4. CASE StartupStep
      BY <2>3, <2>4 DEF StartupStep, PrepareFails, Retry, BootDdns, Listen
    <2>5. CASE ServerClosed \/ ForcedExit \/ UNCHANGED backendVars
      BY <2>3, <2>5 DEF ServerClosed, ForcedExit, backendVars
    <2>6. CASE Handle
      BY <2>6 DEF Handle
    <2>7. CASE Manage
      <3>1. CheckBinary \/ KillTimerFires(Halt)
        <4>1. ASSUME NEW j \in Job, TimerFires(j) \/ ReloadStep(j)
              PROVE  KillTimerFires(Halt)
          BY <2>2, <4>1 DEF TimerFires, ReloadStep, LoadRows, LoadFails, ReloadStops,
             KillTimerFires, WriteConfig, WriteFails, Spawn, SpawnFails, HaltInv
        <4> QED BY <2>2, <2>7, <4>1 DEF Manage, ManagerStep, Reload
      <3>2. CASE CheckBinary
        BY <2>2, <3>2 DEF CheckBinary, requestVars, jobVars, procVars, CalmInv, Alive
      <3>3. CASE KillTimerFires(Halt)
        BY <2>2, <3>3 DEF KillTimerFires, requestVars, CalmInv, Alive
      <3> QED BY <3>1, <3>2, <3>3
    <2>8. ASSUME NEW p \in Proc, BackendExits(p) PROVE CalmInv'
      <3>1. Exits(p) /\ Alive(p)
        BY <2>8 DEF BackendExits, Terminates, Crashes
      <3>2. \A q \in Proc : ~Alive(q)'
        BY <2>2, <3>1 DEF Exits, Alive
      <3> QED BY <2>2, <3>1, <3>2 DEF Exits, requestVars, CalmInv
    <2>9. ASSUME NEW p \in Proc, ChildReads(p) PROVE CalmInv'
      BY <2>2, <2>9 DEF ChildReads, ReadConfig, requestVars, jobVars, CalmInv, Alive
    <2> QED BY <1>2, <2>4, <2>5, <2>6, <2>7, <2>8, <2>9 DEF BackendNext, ShutdownStep
  <1> QED BY <1>1, <1>2

ShutdownInv ==
    ManagerInv /\ LifeOK /\ BeforeBoot /\ SerialUntilSignal /\ HaltInv /\ CalmInv

LEMMA ShutdownInvariance ==
    ASSUME ~Overlap
    PROVE  BackendSpec => []ShutdownInv
  <1>1. BackendInit => ShutdownInv
    <2> SUFFICES ASSUME BackendInit PROVE ShutdownInv
      OBVIOUS
    <2>1. ManagerInv /\ BeforeBoot /\ LifeOK
      BY BootIdle DEF BackendInit, BeforeBoot, LifeOK
    <2>2. SerialInv /\ pc[Halt] = "idle"
      BY BootIdle, JobAssumption DEF BackendInit, SerialInv, NoOrphan
    <2>3. shutdown = "no"
      BY DEF BackendInit
    <2> QED BY <2>1, <2>2, <2>3
            DEF ShutdownInv, SerialUntilSignal, HaltInv, CalmInv, Waiting
  <1>2. ShutdownInv /\ [BackendNext]_backendVars => ShutdownInv'
    BY ManagerKept, LifeNext, BeforeBootNext, SerialUntilSignalNext, HaltNext,
       CalmNext DEF ShutdownInv, ManagerInv, TypeInv
  <1> QED BY <1>1, <1>2, PTL DEF BackendSpec

(* gracefulShutdown() goes on exactly when the exit of the child it stops  *)
(* has been seen, whatever start-up, handlers and reloads do meanwhile.    *)
THEOREM StopIsAwaited ==
    ASSUME ~Overlap
    PROVE  BackendSpec => []ExitAwaitsStop
  <1>1. ShutdownInv => ExitAwaitsStop
    BY DEF ShutdownInv, HaltInv, CalmInv, ExitAwaitsStop
  <1> QED BY <1>1, ShutdownInvariance, PTL

(* ... and if no reload was pending at the signal and none was asked for   *)
(* since, no child survives the backend.                                   *)
THEOREM CalmLeavesNoChild ==
    ASSUME ~Overlap
    PROVE  BackendSpec => []CalmExitLeavesNoChild
  <1>1. ShutdownInv => CalmExitLeavesNoChild
    BY DEF ShutdownInv, HaltInv, CalmInv, CalmExitLeavesNoChild
  <1> QED BY <1>1, ShutdownInvariance, PTL
=============================================================================
