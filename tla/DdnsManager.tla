---------------------------- MODULE DdnsManager ----------------------------
(***************************************************************************)
(* The supervisor of the ddns-updater child process                        *)
(* (backend/internal/ddns-manager.js), driven by the row mutations of      *)
(* backend/internal/ddns-config.js.                                        *)
(*                                                                         *)
(* The backend is one JavaScript thread: code between two awaits is one    *)
(* step, and everything else (the query, the file write, the child, the    *)
(* timers) advances between the steps.  The database is abstracted to the  *)
(* number of mutations of the enabled rows committed so far: snapshot n is *)
(* what fetchEnabledRows returns after n of them.                          *)
(***************************************************************************)
EXTENDS Integers

CONSTANTS
    Job,            \* activations of the reload body that can be in flight at once
    Boot,           \* the activation that startAllEnabled runs at boot
    Halt,           \* the activation of stopAll, run by the shutdown handler
    Proc,           \* slots for child processes alive at once
    NoProc,         \* currentProcess === null
    MaxMutations,   \* bound: row mutations committed
    Overlap,        \* may the debounce timer fire while a reload is in flight?
    Stubborn,       \* the child processes that ignore SIGTERM
    Faults          \* the failures the environment may cause

FaultKinds == {"query", "write", "spawn", "crash", "which"}

ASSUME JobAssumption == Boot \in Job /\ Halt \in Job /\ Boot # Halt
ASSUME ProcAssumption == NoProc \notin Proc /\ Stubborn \subseteq Proc
ASSUME BoundAssumption == MaxMutations \in Nat
ASSUME FaultAssumption == Overlap \in BOOLEAN /\ Faults \subseteq FaultKinds

VARIABLES
    db,             \* mutations of the enabled rows committed to the database
    owed,           \* handlers that committed and have not called reload() yet
    refused,        \* history: the database refused the query of a reload, and
                    \* since then no mutation was committed and no rows were read
    reloadTimer,    \* the debounce timer is armed
    pc,             \* where each activation is
    rows,           \* the snapshot each activation holds
    target,         \* the process each activation of stop() waits for
    killTimer,      \* the 5s escalation timer of each activation of stop()
    currentProcess,
    procState,      \* the operating system's view of each process slot
    killed,         \* ChildProcess.killed: a signal was delivered
    procRows,       \* the snapshot each process read from config.json
    configFile,     \* the snapshot config.json holds
    binary          \* the outcome of `which ddns-updater`

requestVars == <<db, owed, refused>>
jobVars     == <<pc, rows, target, killTimer>>
procVars    == <<procState, killed, procRows>>
vars == <<requestVars, reloadTimer, jobVars, currentProcess, procVars,
          configFile, binary>>

Snapshot == 0..MaxMutations
Absent   == -1                   \* no config.json yet; a process that has not read it
PC       == {"idle", "loading", "loaded", "waiting", "writing", "written"}

Alive(p)      == procState[p] # "free"
Waiting(j)    == pc[j] = "waiting"
Idle          == \A j \in Job : pc[j] = "idle"
BootDone      == pc[Boot] = "idle"

TypeOK ==
    /\ db \in Snapshot
    /\ owed \in Snapshot
    /\ refused \in BOOLEAN
    /\ reloadTimer \in BOOLEAN
    /\ pc \in [Job -> PC]
    /\ rows \in [Job -> Snapshot]
    /\ target \in [Job -> Proc \cup {NoProc}]
    /\ killTimer \in [Job -> BOOLEAN]
    /\ currentProcess \in Proc \cup {NoProc}
    /\ procState \in [Proc -> {"free", "up", "doomed"}]
    /\ killed \in [Proc -> BOOLEAN]
    /\ procRows \in [Proc -> Snapshot \cup {Absent}]
    /\ configFile \in Snapshot \cup {Absent}
    /\ binary \in {"checking", "present", "missing"}

(* The module once loaded, with the boot-time activation at `start`.       *)
ManagerInit(start) ==
    /\ db = 0
    /\ owed = 0
    /\ refused = FALSE
    /\ reloadTimer = FALSE
    /\ pc = [j \in Job |-> IF j = Boot THEN start ELSE "idle"]
    /\ rows = [j \in Job |-> 0]
    /\ target = [j \in Job |-> NoProc]
    /\ killTimer = [j \in Job |-> FALSE]
    /\ currentProcess = NoProc
    /\ procState = [p \in Proc |-> "free"]
    /\ killed = [p \in Proc |-> FALSE]
    /\ procRows = [p \in Proc |-> Absent]
    /\ configFile = Absent
    /\ binary = IF "which" \in Faults THEN "checking" ELSE "present"

(* The backend calls startAllEnabled() before it serves requests.          *)
Init == ManagerInit("loading")

-----------------------------------------------------------------------------
(* checkBinary: started when the module is imported, never repeated.       *)
CheckBinary ==
    /\ binary = "checking"
    /\ binary' \in {"present", "missing"}
    /\ UNCHANGED <<requestVars, reloadTimer, jobVars, currentProcess,
                   procVars, configFile>>

(* A handler (create, update, delete, enable, disable) commits its patch.  *)
(* The HTTP server listens only once the boot-time start has returned.     *)
Mutate ==
    /\ BootDone
    /\ db < MaxMutations
    /\ db' = db + 1
    /\ owed' = owed + 1
    /\ refused' = FALSE
    /\ UNCHANGED <<reloadTimer, jobVars, currentProcess, procVars,
                   configFile, binary>>

(* Bug: a reload asked for while another runs is taken to be covered by it.*)
ReloadUnlessBusy ==
    /\ owed > 0
    /\ owed' = owed - 1
    /\ reloadTimer' = (reloadTimer \/ Idle)
    /\ UNCHANGED <<db, refused, jobVars, currentProcess, procVars, configFile,
                   binary>>

(* ... and, resumed after the patch, asks for the debounced reload.        *)
Reload ==
    /\ owed > 0
    /\ owed' = owed - 1
    /\ reloadTimer' = TRUE
    /\ UNCHANGED <<db, refused, jobVars, currentProcess, procVars, configFile,
                   binary>>

(* The debounce timer fires: the reload body starts its query.  Without    *)
(* Overlap the previous body has finished by then, i.e. stopping and       *)
(* starting the child takes less than the debounce delay.                  *)
TimerFires(j) ==
    /\ reloadTimer
    /\ pc[j] = "idle"
    /\ j \notin {Boot, Halt}
    /\ Overlap \/ \A k \in Job \ {Halt} : pc[k] = "idle"
    /\ reloadTimer' = FALSE
    /\ pc' = [pc EXCEPT ![j] = "loading"]
    /\ UNCHANGED <<requestVars, rows, target, killTimer, currentProcess,
                   procVars, configFile, binary>>

(* The database answers loadRows() ...                                     *)
LoadRows(j) ==
    /\ pc[j] = "loading"
    /\ pc' = [pc EXCEPT ![j] = "loaded"]
    /\ rows' = [rows EXCEPT ![j] = db]
    /\ refused' = FALSE
    /\ UNCHANGED <<db, owed, reloadTimer, target, killTimer, currentProcess,
                   procVars, configFile, binary>>

(* ... or refuses: the error is logged and the body is over, with the old  *)
(* child left on its old rows and nothing armed.  At boot it is caught by  *)
(* index.js, which goes on to listen.                                      *)
LoadFails(j) ==
    /\ "query" \in Faults
    /\ pc[j] = "loading"
    /\ pc' = [pc EXCEPT ![j] = "idle"]
    /\ refused' = TRUE
    /\ UNCHANGED <<db, owed, reloadTimer, rows, target, killTimer,
                   currentProcess, procVars, configFile, binary>>

-----------------------------------------------------------------------------
(* Where start() goes up to its first await, for the caller of stop():     *)
(* stopAll ends there, a reload starts writing unless the binary is        *)
(* missing.                                                                *)
AfterStop(j) ==
    IF j # Halt /\ binary = "present" THEN "writing" ELSE "idle"

(* stop() with no process to stop: the caller goes on at once.             *)
StopNothing(j) ==
    /\ currentProcess = NoProc
    /\ pc' = [pc EXCEPT ![j] = AfterStop(j)]
    /\ UNCHANGED <<target, killTimer, currentProcess, procVars>>

(* Bug: currentProcess is left to the exit handler to clear.               *)
StopCurrentKeepsEntry(j) ==
    /\ currentProcess # NoProc
    /\ target' = [target EXCEPT ![j] = currentProcess]
    /\ killed' = [killed EXCEPT ![currentProcess] = TRUE]
    /\ killTimer' = [killTimer EXCEPT ![j] = TRUE]
    /\ pc' = [pc EXCEPT ![j] = "waiting"]
    /\ UNCHANGED <<currentProcess, procState, procRows>>

(* Bug: the caller does not await stop().                                  *)
StopWithoutAwait(j) ==
    /\ currentProcess # NoProc
    /\ currentProcess' = NoProc
    /\ killed' = [killed EXCEPT ![currentProcess] = TRUE]
    /\ pc' = [pc EXCEPT ![j] = AfterStop(j)]
    /\ UNCHANGED <<target, killTimer, procState, procRows>>

(* stop() takes the process out of currentProcess before it signals it.    *)
StopCurrent(j) ==
    /\ currentProcess # NoProc
    /\ currentProcess' = NoProc
    /\ target' = [target EXCEPT ![j] = currentProcess]
    /\ killed' = [killed EXCEPT ![currentProcess] = TRUE]
    /\ killTimer' = [killTimer EXCEPT ![j] = TRUE]
    /\ pc' = [pc EXCEPT ![j] = "waiting"]
    /\ UNCHANGED <<procState, procRows>>

Stop(j) == StopNothing(j) \/ StopCurrent(j)

(* The rows are delivered and the reload body calls stop().                *)
ReloadStops(j) ==
    /\ pc[j] = "loaded"
    /\ Stop(j)
    /\ UNCHANGED <<requestVars, reloadTimer, rows, configFile, binary>>

(* The escalation timer: SIGKILL only while `killed` is still false.       *)
KillTimerFires(j) ==
    /\ Waiting(j)
    /\ killTimer[j]
    /\ killTimer' = [killTimer EXCEPT ![j] = FALSE]
    /\ procState' = IF killed[target[j]] THEN procState
                    ELSE [procState EXCEPT ![target[j]] = "doomed"]
    /\ UNCHANGED <<requestVars, reloadTimer, pc, rows, target, currentProcess,
                   killed, procRows, configFile, binary>>

(* Bug: the exit handler does not clear currentProcess.                    *)
ExitsUnnoticed(p) ==
    /\ procState' = [procState EXCEPT ![p] = "free"]
    /\ killed' = [killed EXCEPT ![p] = FALSE]
    /\ procRows' = [procRows EXCEPT ![p] = Absent]
    /\ pc' = [j \in Job |-> IF Waiting(j) /\ target[j] = p
                            THEN AfterStop(j) ELSE pc[j]]
    /\ target' = [j \in Job |-> IF target[j] = p THEN NoProc ELSE target[j]]
    /\ killTimer' = [j \in Job |-> killTimer[j] /\ target[j] # p]
    /\ UNCHANGED <<requestVars, reloadTimer, rows, currentProcess, configFile,
                   binary>>

(* Bug: stop() never hears of the exit.                                    *)
ExitsUnheard(p) ==
    /\ procState' = [procState EXCEPT ![p] = "free"]
    /\ killed' = [killed EXCEPT ![p] = FALSE]
    /\ procRows' = [procRows EXCEPT ![p] = Absent]
    /\ currentProcess' = IF currentProcess = p THEN NoProc ELSE currentProcess
    /\ UNCHANGED <<requestVars, reloadTimer, jobVars, configFile, binary>>

(* The exit event of a process: the handler start() installed, then the    *)
(* one stop() installed, whose caller resumes in the same turn.            *)
Exits(p) ==
    /\ procState' = [procState EXCEPT ![p] = "free"]
    /\ killed' = [killed EXCEPT ![p] = FALSE]
    /\ procRows' = [procRows EXCEPT ![p] = Absent]
    /\ currentProcess' = IF currentProcess = p THEN NoProc ELSE currentProcess
    /\ pc' = [j \in Job |-> IF Waiting(j) /\ target[j] = p
                            THEN AfterStop(j) ELSE pc[j]]
    /\ target' = [j \in Job |-> IF target[j] = p THEN NoProc ELSE target[j]]
    /\ killTimer' = [j \in Job |-> killTimer[j] /\ target[j] # p]
    /\ UNCHANGED <<requestVars, reloadTimer, rows, configFile, binary>>

(* A signalled process exits, unless it ignores SIGTERM.                   *)
Terminates(p) ==
    /\ Alive(p)
    /\ procState[p] = "doomed" \/ (killed[p] /\ p \notin Stubborn)
    /\ Exits(p)

(* A process exits by itself.                                              *)
Crashes(p) ==
    /\ "crash" \in Faults
    /\ Alive(p)
    /\ Exits(p)

-----------------------------------------------------------------------------
(* Bug: an existing config.json is kept.                                   *)
WriteConfigOnce(j) ==
    /\ pc[j] = "writing"
    /\ configFile' = IF configFile = Absent THEN rows[j] ELSE configFile
    /\ pc' = [pc EXCEPT ![j] = "written"]
    /\ UNCHANGED <<requestVars, reloadTimer, rows, target, killTimer,
                   currentProcess, procVars, binary>>

(* start() writes config.json ...                                          *)
WriteConfig(j) ==
    /\ pc[j] = "writing"
    /\ configFile' = rows[j]
    /\ pc' = [pc EXCEPT ![j] = "written"]
    /\ UNCHANGED <<requestVars, reloadTimer, rows, target, killTimer,
                   currentProcess, procVars, binary>>

(* ... or gives up when the write fails ...                                *)
WriteFails(j) ==
    /\ "write" \in Faults
    /\ pc[j] = "writing"
    /\ pc' = [pc EXCEPT ![j] = "idle"]
    /\ UNCHANGED <<requestVars, reloadTimer, rows, target, killTimer,
                   currentProcess, procVars, configFile, binary>>

(* ... and spawns the child, whatever currentProcess is by now.            *)
Spawn(j, p) ==
    /\ pc[j] = "written"
    /\ procState[p] = "free"
    /\ procState' = [procState EXCEPT ![p] = "up"]
    /\ currentProcess' = p
    /\ pc' = [pc EXCEPT ![j] = "idle"]
    /\ UNCHANGED <<requestVars, reloadTimer, rows, target, killTimer, killed,
                   procRows, configFile, binary>>

(* A failed spawn reports an error event before anything else runs, and    *)
(* that handler clears the entry just stored in currentProcess.            *)
SpawnFails(j) ==
    /\ "spawn" \in Faults
    /\ pc[j] = "written"
    /\ currentProcess' = NoProc
    /\ pc' = [pc EXCEPT ![j] = "idle"]
    /\ UNCHANGED <<requestVars, reloadTimer, rows, target, killTimer,
                   procVars, configFile, binary>>

(* The child reads config.json once, when it comes up.                     *)
ReadConfig(p) ==
    /\ Alive(p)
    /\ procRows[p] = Absent
    /\ procRows' = [procRows EXCEPT ![p] = configFile]
    /\ UNCHANGED <<requestVars, reloadTimer, jobVars, currentProcess,
                   procState, killed, configFile, binary>>

(* stopAll(), called by the shutdown handler of index.js.                  *)
StopAll ==
    /\ pc[Halt] = "idle"
    /\ Stop(Halt)
    /\ UNCHANGED <<requestVars, reloadTimer, rows, configFile, binary>>

-----------------------------------------------------------------------------
ReloadStep(j) ==
    \/ LoadRows(j)
    \/ LoadFails(j)
    \/ ReloadStops(j)
    \/ KillTimerFires(j)
    \/ WriteConfig(j)
    \/ WriteFails(j)
    \/ \E p \in Proc : Spawn(j, p)
    \/ SpawnFails(j)

ProcStep(p) == Terminates(p) \/ Crashes(p) \/ ReadConfig(p)

ManagerStep ==
    \/ CheckBinary
    \/ Reload
    \/ \E j \in Job : TimerFires(j) \/ ReloadStep(j)

Next == Mutate \/ ManagerStep \/ \E p \in Proc : ProcStep(p)

(* The event loop runs every callback that is due, a signalled process     *)
(* that does not ignore the signal exits, a child reads its configuration; *)
(* requests and crashes are not promised.                                  *)
Fairness ==
    /\ WF_vars(CheckBinary)
    /\ WF_vars(Reload)
    /\ WF_vars(\E j \in Job : TimerFires(j))
    /\ \A j \in Job : WF_vars(ReloadStep(j))
    /\ \A p \in Proc : WF_vars(Terminates(p)) /\ WF_vars(ReadConfig(p))

Spec == Init /\ [][Next]_vars

FairSpec == Spec /\ Fairness

-----------------------------------------------------------------------------
(* Every promise of stop() can still be kept: the process it waits for is  *)
(* alive and signalled, so its exit event is yet to come, and no two calls *)
(* wait for the same process.                                              *)
StopsAwaitTheirOwnProcess ==
    \A j \in Job : Waiting(j) =>
        /\ target[j] \in Proc
        /\ Alive(target[j]) /\ killed[target[j]]
        /\ \A k \in Job : Waiting(k) /\ target[k] = target[j] => k = j

(* The process status reported as running is one nobody has signalled:     *)
(* a reload or the shutdown that finds currentProcess set can stop it.     *)
CurrentIsUnsignalled ==
    currentProcess # NoProc => /\ Alive(currentProcess)
                               /\ ~killed[currentProcess]

(* Debouncing never loses a change: while a committed mutation is in no    *)
(* snapshot, a handler is about to call reload(), the timer is armed, a    *)
(* reload has not read the rows yet, or the query of a reload that came    *)
(* after the mutation was refused.                                         *)
NoLostReload ==
    \/ owed > 0
    \/ reloadTimer
    \/ \E j \in Job : pc[j] = "loading" \/ rows[j] = db
    \/ refused

(* "we run exactly one process": no two children are ever alive.           *)
SingleUpdater ==
    \A p, q \in Proc : Alive(p) /\ Alive(q) => p = q

(* No child is left to itself: each is the current one or has a caller of  *)
(* stop() waiting for it.                                                  *)
NoOrphan ==
    \A p \in Proc : Alive(p) =>
        \/ currentProcess = p
        \/ \E j \in Job : Waiting(j) /\ target[j] = p

(* When nothing is left to do, a child that runs has the latest rows (a    *)
(* child that has not read its file yet is about to find them there),      *)
(* unless the last reload was refused its query: then the child keeps the  *)
(* rows it had until the next reload.                                      *)
Quiet == Idle /\ owed = 0 /\ ~reloadTimer
Served(p) == IF procRows[p] = Absent THEN configFile ELSE procRows[p]
QuietIsCurrent ==
    Quiet /\ ~refused => \A p \in Proc : Alive(p) => Served(p) = db

(* Every call of stop() returns, so the reload or the shutdown that made   *)
(* it goes on.                                                             *)
StopReturns == \A j \in Job : Waiting(j) ~> ~Waiting(j)

(* Every committed mutation is read by a reload, or the query of a reload  *)
(* after it is refused.                                                    *)
EventuallyRead ==
    \A n \in Snapshot : (db >= n) ~> (refused \/ \E j \in Job : rows[j] >= n)

(* Every committed mutation is eventually served by the current child,     *)
(* unless a reload after it is refused its query, or a failure leaves no   *)
(* child and nothing to do.                                                *)
EventuallyServed ==
    \A n \in Snapshot : (db >= n) ~>
        \/ refused
        \/ IF currentProcess = NoProc THEN Quiet ELSE procRows[currentProcess] >= n

-----------------------------------------------------------------------------
(* What the manager implements when reloads do not overlap: the service of *)
(* DdnsService, whose published snapshot is config.json and whose served   *)
(* snapshot is the one the live child has read.                            *)
ServedNow ==
    IF \E p \in Proc : procRows[p] # Absent
    THEN procRows[CHOOSE p \in Proc : procRows[p] # Absent]
    ELSE Absent

Service == INSTANCE DdnsService WITH published <- configFile, served <- ServedNow

ImplementsService == Service!Spec
=============================================================================
