------------------------------ MODULE Backend ------------------------------
(***************************************************************************)
(* The life of the backend process (backend/index.js): start-up with its   *)
(* retry, the boot-time start of the DDNS manager, the HTTP server, and    *)
(* the graceful shutdown, composed with DdnsManager.                       *)
(***************************************************************************)
EXTENDS DdnsManager

VARIABLES
    startup,    \* how far appStart() is
    shutdown,   \* how far gracefulShutdown() is
    calm        \* history: no reload was pending at the signal, none asked since

lifeVars    == <<startup, shutdown, calm>>
backendVars == <<vars, lifeVars>>

BackendTypeOK ==
    /\ TypeOK
    /\ startup \in {"preparing", "failed", "booting", "listening"}
    /\ shutdown \in {"no", "stopping", "closing", "exited"}
    /\ calm \in BOOLEAN

BackendInit ==
    /\ ManagerInit("idle")
    /\ startup = "preparing"
    /\ shutdown = "no"
    /\ calm = FALSE

Running == shutdown # "exited"

-----------------------------------------------------------------------------
(* Bug: the failure handler leaves a phase nothing leads out of.           *)
PrepareGivesUp ==
    /\ Running /\ startup = "preparing"
    /\ startup' = "aborted"
    /\ UNCHANGED <<vars, shutdown, calm>>

(* Migrations, setup, schema: any of them may fail and the whole chain is  *)
(* then retried.                                                           *)
PrepareFails ==
    /\ Running /\ startup = "preparing"
    /\ startup' = "failed"
    /\ UNCHANGED <<vars, shutdown, calm>>

Retry ==
    /\ Running /\ startup = "failed"
    /\ startup' = "preparing"
    /\ UNCHANGED <<vars, shutdown, calm>>

(* ... or succeed, and the chain starts the DDNS manager.                  *)
BootDdns ==
    /\ Running /\ startup = "preparing"
    /\ startup' = "booting"
    /\ pc' = [pc EXCEPT ![Boot] = "loading"]
    /\ calm' = FALSE
    /\ UNCHANGED <<requestVars, reloadTimer, rows, target, killTimer,
                   currentProcess, procVars, configFile, binary, shutdown>>

Listen ==
    /\ Running /\ startup = "booting" /\ BootDone
    /\ startup' = "listening"
    /\ UNCHANGED <<vars, shutdown, calm>>

-----------------------------------------------------------------------------
(* What gracefulShutdown() does once stopAll() has returned: close the     *)
(* HTTP server, or exit at once when there is none yet.                    *)
AfterStopAll == IF startup = "listening" THEN "closing" ELSE "exited"

(* Bug: gracefulShutdown() does not await stopAll().                       *)
SignalWithoutAwait ==
    /\ shutdown = "no"
    /\ StopAll
    /\ shutdown' = AfterStopAll
    /\ calm' = Quiet
    /\ UNCHANGED startup

(* Bug: gracefulShutdown() does not call stopAll().                        *)
SignalWithoutStop ==
    /\ shutdown = "no"
    /\ shutdown' = AfterStopAll
    /\ calm' = Quiet
    /\ UNCHANGED <<vars, startup>>

(* SIGTERM or SIGINT: the handler runs up to stopAll() in one turn.        *)
Signal ==
    /\ shutdown = "no"
    /\ StopAll
    /\ shutdown' = IF currentProcess = NoProc THEN AfterStopAll ELSE "stopping"
    /\ calm' = Quiet
    /\ UNCHANGED startup

(* Bug: stopAll() never hears of the exit.                                 *)
BackendExitsUnheard(p) ==
    /\ Terminates(p) \/ Crashes(p)
    /\ UNCHANGED lifeVars

(* The process stopAll() waits for exits.                                  *)
BackendExits(p) ==
    /\ Terminates(p) \/ Crashes(p)
    /\ shutdown' = IF Running /\ Waiting(Halt) /\ target[Halt] = p
                   THEN AfterStopAll ELSE shutdown
    /\ UNCHANGED <<startup, calm>>

(* The server has closed: no handler is still running.                     *)
ServerClosed ==
    /\ shutdown = "closing"
    /\ owed = 0
    /\ shutdown' = "exited"
    /\ UNCHANGED <<vars, startup, calm>>

(* Ten seconds have passed and it has not.                                 *)
ForcedExit ==
    /\ shutdown = "closing"
    /\ shutdown' = "exited"
    /\ UNCHANGED <<vars, startup, calm>>

-----------------------------------------------------------------------------
(* Handlers run while the server listens, and those under way while it     *)
(* closes.                                                                 *)
Handle ==
    /\ Running /\ startup = "listening"
    /\ Mutate
    /\ calm' = FALSE
    /\ UNCHANGED <<startup, shutdown>>

Manage ==
    /\ Running
    /\ ManagerStep
    /\ UNCHANGED lifeVars

(* A child outlives the backend, and reads the file it was started with.   *)
ChildReads(p) ==
    /\ ReadConfig(p)
    /\ UNCHANGED lifeVars

ShutdownStep == Signal \/ ServerClosed \/ ForcedExit

StartupStep == PrepareFails \/ Retry \/ BootDdns \/ Listen

BackendNext ==
    \/ StartupStep
    \/ ShutdownStep
    \/ Handle
    \/ Manage
    \/ \E p \in Proc : BackendExits(p) \/ ChildReads(p)

BackendSpec == BackendInit /\ [][BackendNext]_backendVars

(* Signalled children exit and the ten seconds of the closing phase pass;  *)
(* nothing else is needed for the shutdown to end.                         *)
BackendFairSpec ==
    /\ BackendSpec
    /\ WF_backendVars(ServerClosed \/ ForcedExit)
    /\ \A p \in Proc : WF_backendVars(Terminates(p) /\ BackendExits(p))

-----------------------------------------------------------------------------
(* Until the shutdown begins, boot and reloads never leave two children.   *)
SingleUntilShutdown == shutdown = "no" => SingleUpdater

(* The shutdown does not go past stopAll() while the child it stops lives, *)
(* whatever reloads do meanwhile.                                          *)
ExitAwaitsStop ==
    /\ (shutdown = "stopping") <=> Waiting(Halt)
    /\ shutdown # "no" => currentProcess = NoProc \/ ~calm

(* A shutdown that finds no reload pending, and is followed by none,       *)
(* leaves no child behind when the backend exits.                          *)
CalmExitLeavesNoChild ==
    shutdown = "exited" /\ calm => \A p \in Proc : ~Alive(p)

(* "Stop the ddns-updater child process first so it doesn't get SIGKILLed  *)
(* by the init system": no child that nobody asked to stop is left at exit.*)
ExitLeavesNoChild ==
    shutdown = "exited" => \A p \in Proc : Alive(p) => killed[p]

(* Once signalled, the backend exits.                                      *)
ShutdownCompletes == shutdown # "no" ~> shutdown = "exited"
=============================================================================
