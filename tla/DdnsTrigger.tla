---------------------------- MODULE DdnsTrigger ----------------------------
(***************************************************************************)
(* The one-shot run of a single row: trigger() of                          *)
(* backend/internal/ddns-manager.js, from the write of its temporary       *)
(* configuration to its removal, with the two timers that bound the wait   *)
(* for the child.                                                          *)
(***************************************************************************)
EXTENDS Integers

CONSTANTS
    Call,       \* calls of trigger() in progress at once
    Row,        \* rows of ddns_configs
    MaxTime,    \* bound: the last instant the clock reads
    SameInstant,\* may two calls for one row read the same instant?
    Faults      \* what may fail

ASSUME TimeAssumption == MaxTime \in Nat
ASSUME RowAssumption == Row # {}
ASSUME FaultAssumption ==
    SameInstant \in BOOLEAN /\ Faults \subseteq {"write", "spawn"}

(* trigger-<row>-<milliseconds>.json                                       *)
Name == Row \X (0..MaxTime)

VARIABLES
    clock,      \* Date.now()
    pc,         \* where each call is
    name,       \* tmpConfig of each call
    files,      \* the temporary configurations on disk
    child,      \* the child of each call
    read,       \* what that child found when it read its configuration
    failed      \* history: the names whose write has failed

vars == <<clock, pc, name, files, child, read, failed>>

TypeOK ==
    /\ clock \in 0..MaxTime
    /\ pc \in [Call -> {"idle", "writing", "running", "terminating", "cleanup"}]
    /\ name \in [Call -> Name]
    /\ files \subseteq Name
    /\ child \in [Call -> {"none", "up", "terminated", "doomed"}]
    /\ read \in [Call -> {"nothing", "config", "no_file"}]
    /\ failed \subseteq Name

Init ==
    /\ clock = 0
    /\ pc = [c \in Call |-> "idle"]
    /\ name = [c \in Call |-> <<CHOOSE r \in Row : TRUE, 0>>]
    /\ files = {}
    /\ child = [c \in Call |-> "none"]
    /\ read = [c \in Call |-> "nothing"]
    /\ failed = {}

-----------------------------------------------------------------------------
Tick ==
    /\ clock < MaxTime
    /\ clock' = clock + 1
    /\ UNCHANGED <<pc, name, files, child, read, failed>>

InUse(n) == \E c \in Call : pc[c] # "idle" /\ name[c] = n

(* Bug: the name of the file leaves the row out.                           *)
TriggerByInstant(c, r) ==
    /\ pc[c] = "idle"
    /\ child[c] = "none"
    /\ SameInstant \/ ~InUse(<<r, clock>>)
    /\ pc' = [pc EXCEPT ![c] = "writing"]
    /\ name' = [name EXCEPT ![c] = <<CHOOSE k \in Row : TRUE, clock>>]
    /\ read' = [read EXCEPT ![c] = "nothing"]
    /\ UNCHANGED <<clock, files, child, failed>>

(* trigger(row), with the binary present: the name of the temporary file   *)
(* is fixed and the directory is made.                                     *)
Trigger(c, r) ==
    /\ pc[c] = "idle"
    /\ child[c] = "none"
    /\ SameInstant \/ ~InUse(<<r, clock>>)
    /\ pc' = [pc EXCEPT ![c] = "writing"]
    /\ name' = [name EXCEPT ![c] = <<r, clock>>]
    /\ read' = [read EXCEPT ![c] = "nothing"]
    /\ UNCHANGED <<clock, files, child, failed>>

(* The file is written; the child is spawned and the 60 s timer set in the *)
(* same turn.                                                              *)
Spawn(c) ==
    /\ pc[c] = "writing"
    /\ files' = files \cup {name[c]}
    /\ child' = [child EXCEPT ![c] = "up"]
    /\ pc' = [pc EXCEPT ![c] = "running"]
    /\ UNCHANGED <<clock, name, read, failed>>

(* The spawn fails: its error event answers the call.                      *)
SpawnFails(c) ==
    /\ "spawn" \in Faults
    /\ pc[c] = "writing"
    /\ files' = files \cup {name[c]}
    /\ pc' = [pc EXCEPT ![c] = "cleanup"]
    /\ UNCHANGED <<clock, name, child, read, failed>>

(* The write fails, before or after it has created the file: trigger()     *)
(* returns at once.                                                        *)
WriteFails(c) ==
    /\ "write" \in Faults
    /\ pc[c] = "writing"
    /\ files' \in {files, files \cup {name[c]}}
    /\ pc' = [pc EXCEPT ![c] = "idle"]
    /\ failed' = failed \cup {name[c]}
    /\ UNCHANGED <<clock, name, child, read>>

(* After 60 s: SIGTERM, and the 5 s timer is set.                          *)
TimeoutFires(c) ==
    /\ pc[c] = "running"
    /\ pc' = [pc EXCEPT ![c] = "terminating"]
    /\ child' = [child EXCEPT ![c] = "terminated"]
    /\ UNCHANGED <<clock, name, files, read, failed>>

(* Bug: the escalation answers the call without a SIGKILL.                 *)
KillTimerGivesUp(c) ==
    /\ pc[c] = "terminating"
    /\ pc' = [pc EXCEPT ![c] = "cleanup"]
    /\ UNCHANGED <<clock, name, files, child, read, failed>>

(* Bug: as in stop(), the escalation spares a child already signalled.     *)
KillTimerUnlessKilled(c) ==
    /\ pc[c] = "terminating"
    /\ child[c] = "up"
    /\ child' = [child EXCEPT ![c] = "doomed"]
    /\ pc' = [pc EXCEPT ![c] = "cleanup"]
    /\ UNCHANGED <<clock, name, files, read, failed>>

(* 5 s later: SIGKILL, and the call is answered as timed out, before the   *)
(* child is gone.                                                          *)
KillTimerFires(c) ==
    /\ pc[c] = "terminating"
    /\ child' = [child EXCEPT ![c] = "doomed"]
    /\ pc' = [pc EXCEPT ![c] = "cleanup"]
    /\ UNCHANGED <<clock, name, files, read, failed>>

(* The answered call removes the file, if it is there, and returns.        *)
Cleanup(c) ==
    /\ pc[c] = "cleanup"
    /\ files' = files \ {name[c]}
    /\ pc' = [pc EXCEPT ![c] = "idle"]
    /\ UNCHANGED <<clock, name, child, read, failed>>

(* The child reads its configuration, once.                                *)
ReadConfig(c) ==
    /\ child[c] \in {"up", "terminated"}
    /\ read[c] = "nothing"
    /\ read' = [read EXCEPT ![c] = IF name[c] \in files THEN "config" ELSE "no_file"]
    /\ UNCHANGED <<clock, pc, name, files, child, failed>>

(* Bug: the handle of a child that exits is kept as it is.                 *)
ExitsUnreaped(c) ==
    /\ child[c] # "none"
    /\ child' = [child EXCEPT ![c] = "exited"]
    /\ pc' = [pc EXCEPT ![c] =
                 IF @ \in {"running", "terminating"} THEN "cleanup" ELSE @]
    /\ UNCHANGED <<clock, name, files, read, failed>>

(* The child exits, by itself or by a signal; the exit event answers the   *)
(* call unless the timer has.                                              *)
Exits(c) ==
    /\ child[c] # "none"
    /\ child' = [child EXCEPT ![c] = "none"]
    /\ pc' = [pc EXCEPT ![c] =
                 IF @ \in {"running", "terminating"} THEN "cleanup" ELSE @]
    /\ UNCHANGED <<clock, name, files, read, failed>>

Step(c) ==
    \/ Spawn(c)
    \/ SpawnFails(c)
    \/ WriteFails(c)
    \/ TimeoutFires(c)
    \/ KillTimerFires(c)
    \/ Cleanup(c)

Next ==
    \/ Tick
    \/ \E c \in Call :
          \/ \E r \in Row : Trigger(c, r)
          \/ Step(c)
          \/ ReadConfig(c)
          \/ Exits(c)

Spec == Init /\ [][Next]_vars

(* File operations return and timers fire; nothing is promised of the      *)
(* child, which may ignore SIGTERM and never exit.                         *)
FairSpec == Spec /\ \A c \in Call : WF_vars(Step(c))

-----------------------------------------------------------------------------
(* A call of trigger() always answers, whatever its child does.            *)
TriggerAnswers == \A c \in Call : pc[c] # "idle" ~> pc[c] = "idle"

(* An answered call leaves nothing behind: no child that has not been      *)
(* killed, and no temporary configuration, except that of a failed write.  *)
NothingLeft ==
    /\ \A c \in Call :
          pc[c] \in {"idle", "cleanup"} => child[c] \in {"none", "doomed"}
    /\ \A n \in files : InUse(n) \/ n \in failed

(* "reads a temporary config.json with only that row's settings": a child  *)
(* that looks for its configuration finds it.                              *)
ChildFindsConfig == \A c \in Call : read[c] # "no_file"
=============================================================================
