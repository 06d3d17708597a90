----------------------------- MODULE DdnsStatus -----------------------------
(***************************************************************************)
(* The runtime state of the DDNS rows: the map lastRunData of              *)
(* backend/internal/ddns-manager.js, what is persisted of it in the        *)
(* columns of ddns_configs, and the state the interface is given, across   *)
(* reloads, one-shot runs, exits of the child and restarts of the backend. *)
(*                                                                         *)
(* Reloads do not overlap here and a stopped child exits (DdnsManager      *)
(* explores the rest); a one-shot run is its request and its answer        *)
(* (DdnsTrigger explores what is between).                                 *)
(***************************************************************************)
EXTENDS Integers, SequencesExt

CONSTANTS
    Entry,            \* rows of ddns_configs
    NoEntry,          \* no row, for a call not in progress
    Run,           \* calls of trigger() in progress at once
    MaxTriggers,    \* bound: answers of trigger(), which number the instants
    MaxWrites,      \* bound: patches of a row in flight before another is sent
    Faults          \* what may fail

ASSUME EntryAssumption == NoEntry \notin Entry
ASSUME StatusBoundAssumption == MaxTriggers \in Nat /\ MaxWrites \in Nat
ASSUME StatusFaultAssumption ==
    Faults \subseteq {"preload", "query", "persist", "start"}

Never == 0          \* an instant that is null

(* The runtime columns of a row, and the cached copy of them; the instant  *)
(* of the last scheduled run matters only as null or not.                  *)
Runtime == [runAt: BOOLEAN, runOk: BOOLEAN,
            trigAt: Never..MaxTriggers, trigOk: BOOLEAN,
            error: {"none", "missing", "stderr"}]

(* The instant of a one-shot run is the place of its answer in `answers`;  *)
(* the other patch records a missing binary.                               *)
Patch == [kind: {"trigger"}, at: 1..MaxTriggers, ok: BOOLEAN] \cup [kind: {"missing"}]
Missing == [kind |-> "missing"]

VARIABLES
    ordered,    \* the database applies patches in the order they are sent (it
                \* is reached through one connection: SQLite)
    refused,    \* history: the rows of which it has refused a patch
    rows,       \* the runtime columns in the database
    lastRunData,\* the cache; an absent entry is one with nothing in it
    writes,     \* patches of each row sent to the database, not applied yet
    patcher,    \* dbPatcher has been injected
    available,  \* binaryAvailable
    child,      \* the updater this process started: its state and the rows it
                \* was started with
    pc,         \* where the reload is
    loaded,     \* the rows the reload has fetched, with their columns
    serving,    \* the HTTP server listens
    call,       \* the row of each one-shot run in progress
    answers     \* the rows and outcomes of the one-shot runs, in order

dbVars == <<ordered, refused, rows>>
statusVars == <<dbVars, lastRunData, writes, patcher, available, child, pc,
                loaded, serving, call, answers>>

NoRuntime == [runAt |-> FALSE, runOk |-> FALSE, trigAt |-> Never, trigOk |-> FALSE,
          error |-> "none"]

Down == [state |-> "none", rows |-> {}]

StatusTypeOK ==
    /\ rows \in [Entry -> Runtime]
    /\ lastRunData \in [Entry -> Runtime]
    /\ writes \in [Entry -> Seq(Patch)]
    /\ refused \subseteq Entry
    /\ \A b \in {ordered, patcher, available, serving} : b \in BOOLEAN
    /\ child \in [state: {"none", "up", "stopping"}, rows: SUBSET Entry]
    /\ pc \in {"idle", "loading", "loaded", "stopping", "writing"}
    /\ DOMAIN loaded \subseteq Entry
    /\ call \in [Run -> Entry \cup {NoEntry}]
    /\ answers \in Seq([row: Entry, ok: BOOLEAN])

(* Bug: the outcome is taken from the row even where its instant is null.  *)
SeedOutcomeAnyway(prev, row) ==
    [runAt  |-> row.runAt \/ prev.runAt,
     runOk  |-> IF row.runAt THEN row.runOk ELSE prev.runOk,
     trigAt |-> IF row.trigAt # Never THEN row.trigAt ELSE prev.trigAt,
     trigOk |-> row.trigOk,
     error  |-> IF row.error # "none" THEN row.error ELSE prev.error]

(* seedCacheFromRow: what the row has wins over what the cache has.        *)
Seed(prev, row) ==
    [runAt  |-> row.runAt \/ prev.runAt,
     runOk  |-> IF row.runAt THEN row.runOk ELSE prev.runOk,
     trigAt |-> IF row.trigAt # Never THEN row.trigAt ELSE prev.trigAt,
     trigOk |-> IF row.trigAt # Never THEN row.trigOk ELSE prev.trigOk,
     error  |-> IF row.error # "none" THEN row.error ELSE prev.error]

(* A boot: preloadFromDatabase, which also injects the patcher, then       *)
(* startAllEnabled.                                                        *)
Preload(columns, ok) ==
    IF ok THEN [r \in Entry |-> Seed(NoRuntime, columns[r])] ELSE [r \in Entry |-> NoRuntime]

StatusInit ==
    /\ ordered \in BOOLEAN
    /\ refused = {}
    /\ rows \in [Entry -> {row \in Runtime : row.trigAt = Never /\ ~row.trigOk
                                          /\ (row.runOk => row.runAt)
                                          /\ row.error # "missing"}]
    /\ lastRunData = Preload(rows, TRUE)
    /\ writes = [r \in Entry |-> << >>]
    /\ patcher = TRUE
    /\ available = FALSE
    /\ child = Down
    /\ pc = "loading"
    /\ loaded = << >>
    /\ serving = FALSE
    /\ call = [c \in Run |-> NoEntry]
    /\ answers = << >>

-----------------------------------------------------------------------------
(* persistRow, of a patch of each of some rows: sent and not waited for.   *)
Persist(some, patch) ==
    writes' = [r \in Entry |-> IF patcher /\ r \in some
                             THEN Append(writes[r], patch) ELSE writes[r]]

Applied(row, patch) ==
    IF patch.kind = "trigger"
    THEN [row EXCEPT !.trigAt = patch.at, !.trigOk = patch.ok]
    ELSE [row EXCEPT !.error = "missing", !.runOk = FALSE]

(* The database applies a patch, or refuses it, which is only logged.      *)
ApplyPatch(r) ==
    /\ \E i \in DOMAIN writes[r] :
          /\ ordered => i = 1
          /\ \/ /\ rows' = [rows EXCEPT ![r] = Applied(@, writes[r][i])]
                /\ UNCHANGED refused
             \/ /\ "persist" \in Faults
                /\ refused' = refused \cup {r}
                /\ UNCHANGED rows
          /\ writes' = [writes EXCEPT ![r] = RemoveAt(@, i)]
    /\ UNCHANGED <<ordered, lastRunData, patcher, available, child, pc,
                   loaded, serving, call, answers>>

(* checkBinary succeeds.                                                   *)
CheckBinary ==
    /\ ~available
    /\ available' = TRUE
    /\ UNCHANGED <<dbVars, lastRunData, writes, patcher, child, pc, loaded,
                   serving, call, answers>>

(* The debounced reload, with any rows enabled.                            *)
ReloadRows ==
    /\ serving
    /\ pc = "idle"
    /\ \A r \in Entry : Len(writes[r]) < MaxWrites
    /\ pc' = "loading"
    /\ UNCHANGED <<dbVars, lastRunData, writes, patcher, available, child,
                   loaded, serving, call, answers>>

LoadRows ==
    /\ pc = "loading"
    /\ \E enabled \in SUBSET Entry : loaded' = [r \in enabled |-> rows[r]]
    /\ pc' = "loaded"
    /\ UNCHANGED <<dbVars, lastRunData, writes, patcher, available, child,
                   serving, call, answers>>

(* The query is refused: the reload is over.                               *)
LoadFails ==
    /\ "query" \in Faults
    /\ pc = "loading"
    /\ pc' = "idle"
    /\ serving' = TRUE
    /\ UNCHANGED <<dbVars, lastRunData, writes, patcher, available, child,
                   loaded, call, answers>>

(* Bug: start() does not look at binaryAvailable.                          *)
StartUnchecked(cache) ==
    /\ lastRunData' = [r \in Entry |-> IF r \in DOMAIN loaded
                                     THEN Seed(cache[r], loaded[r]) ELSE cache[r]]
    /\ pc' = "writing"
    /\ UNCHANGED <<writes, serving, loaded>>

(* start() up to its first await, on a cache: the cache is seeded from the *)
(* rows; a missing binary is recorded on each of them, and start() returns.*)
Start(cache) ==
    LET Seeded(r) == IF r \in DOMAIN loaded
                     THEN Seed(cache[r], loaded[r]) ELSE cache[r]
    IN  IF available
        THEN /\ lastRunData' = [r \in Entry |-> Seeded(r)]
             /\ pc' = "writing"
             /\ UNCHANGED <<writes, serving, loaded>>
        ELSE /\ lastRunData' =
                   [r \in Entry |-> IF r \in DOMAIN loaded
                                  THEN [Seeded(r) EXCEPT !.error = "missing",
                                                         !.runOk = FALSE]
                                  ELSE cache[r]]
             /\ Persist(DOMAIN loaded, Missing)
             /\ pc' = "idle"
             /\ serving' = TRUE
             /\ loaded' = << >>

(* The reload stops the child, if there is one, and waits.                 *)
Stop ==
    /\ pc = "loaded"
    /\ IF child.state = "up"
       THEN /\ child' = [child EXCEPT !.state = "stopping"]
            /\ pc' = "stopping"
            /\ UNCHANGED <<lastRunData, writes, serving, loaded>>
       ELSE Start(lastRunData) /\ UNCHANGED child
    /\ UNCHANGED <<dbVars, patcher, available, call, answers>>

(* The exit handler of a child marks the rows it was started with; with a  *)
(* code other than 0 and something on stderr, the last line of it is their *)
(* error.                                                                  *)
Marked(stderr) ==
    [r \in Entry |->
        IF r \in child.rows
        THEN [lastRunData[r] EXCEPT !.runOk = FALSE,
                                    !.error = IF stderr THEN "stderr" ELSE @]
        ELSE lastRunData[r]]

(* The child exits, by itself or stopped; a reload that waits resumes.     *)
Exits ==
    /\ child.state # "none"
    /\ child' = Down
    /\ \E stderr \in BOOLEAN :
          IF child.state = "stopping"
          THEN Start(Marked(stderr))
          ELSE /\ lastRunData' = Marked(stderr)
               /\ UNCHANGED <<writes, pc, serving, loaded>>
    /\ UNCHANGED <<dbVars, patcher, available, call, answers>>

(* config.json is written and the child spawned, or one of them fails.     *)
Spawn ==
    /\ pc = "writing"
    /\ \/ child' = [state |-> "up", rows |-> DOMAIN loaded]
       \/ "start" \in Faults /\ child' = Down
    /\ pc' = "idle"
    /\ serving' = TRUE
    /\ loaded' = << >>
    /\ UNCHANGED <<dbVars, lastRunData, writes, patcher, available, call,
                   answers>>

-----------------------------------------------------------------------------
RunOnce(c, r) ==
    /\ serving
    /\ call[c] = NoEntry
    /\ call' = [call EXCEPT ![c] = r]
    /\ UNCHANGED <<dbVars, lastRunData, writes, patcher, available, child,
                   pc, loaded, serving, answers>>

(* Bug: the answer is cached and not persisted.                            *)
AnswerInMemory(c) ==
    /\ call[c] # NoEntry
    /\ Len(answers) < MaxTriggers /\ Len(writes[call[c]]) < MaxWrites
    /\ \E ok \in BOOLEAN :
          /\ answers' = Append(answers, [row |-> call[c], ok |-> ok])
          /\ lastRunData' = [lastRunData EXCEPT ![call[c]].trigAt = Len(answers'),
                                                ![call[c]].trigOk = ok]
    /\ call' = [call EXCEPT ![c] = NoEntry]
    /\ UNCHANGED <<dbVars, writes, patcher, available, child, pc, loaded,
                   serving>>

(* The run is over: updateLastTrigger.                                     *)
Answer(c) ==
    /\ call[c] # NoEntry
    /\ Len(answers) < MaxTriggers /\ Len(writes[call[c]]) < MaxWrites
    /\ \E ok \in BOOLEAN :
          /\ answers' = Append(answers, [row |-> call[c], ok |-> ok])
          /\ lastRunData' = [lastRunData EXCEPT ![call[c]].trigAt = Len(answers'),
                                                ![call[c]].trigOk = ok]
          /\ Persist({call[c]}, [kind |-> "trigger", at |-> Len(answers'), ok |-> ok])
    /\ call' = [call EXCEPT ![c] = NoEntry]
    /\ UNCHANGED <<dbVars, patcher, available, child, pc, loaded, serving>>

(* The backend ends and boots again, with no child of its own.  One that   *)
(* the old process left alive (see Backend) is outside this model: the new *)
(* process has no handle on it, hears nothing of it and never shows it.    *)
Restart ==
    /\ \E ok \in {TRUE} \cup (IF "preload" \in Faults THEN {FALSE} ELSE {}) :
          /\ lastRunData' = Preload(rows, ok)
          /\ patcher' = ok
    /\ writes' = [r \in Entry |-> << >>]
    /\ available' = FALSE
    /\ child' = Down
    /\ pc' = "loading"
    /\ loaded' = << >>
    /\ serving' = FALSE
    /\ call' = [c \in Run |-> NoEntry]
    /\ UNCHANGED <<dbVars, answers>>

System ==
    \/ \E r \in Entry : ApplyPatch(r)
    \/ CheckBinary \/ LoadRows \/ LoadFails \/ Stop \/ Exits \/ Spawn

StatusNext ==
    \/ System
    \/ ReloadRows
    \/ \E c \in Run : Answer(c) \/ \E r \in Entry : RunOnce(c, r)
    \/ Restart

StatusSpec == StatusInit /\ [][StatusNext]_statusVars

-----------------------------------------------------------------------------
(* deriveState; a child being stopped is no longer currentProcess.         *)
Shown(r) ==
    CASE ~available -> "missing-binary"
      [] available /\ child.state = "up" ->
            IF ~lastRunData[r].runAt THEN "running-pending"
            ELSE IF lastRunData[r].runOk THEN "running-ok" ELSE "running-failed"
      [] OTHER ->
            IF lastRunData[r].error # "none" THEN "broken"
            ELSE IF lastRunData[r].runAt THEN "stopped" ELSE "never-started"

(* Once the patches sent for a row have been applied, and none refused, a  *)
(* restart does not blank the last one-shot run shown for it; where        *)
(* patches are applied in order, it does not put an earlier run back.      *)
ShownIsStored ==
    \A r \in Entry \ refused :
        patcher /\ writes[r] = << >> /\ lastRunData[r].trigAt # Never =>
            /\ rows[r].trigAt # Never
            /\ ordered => rows[r].trigAt >= lastRunData[r].trigAt

(* The last one-shot run shown or stored for a row is a run of that row,   *)
(* with the outcome that run had, whatever was lost or reordered.          *)
OutcomeMatchesInstant ==
    \A r \in Entry : \A shown \in {lastRunData[r], rows[r]} :
        shown.trigAt # Never =>
            answers[shown.trigAt] = [row |-> r, ok |-> shown.trigOk]

(* While the interface says the binary is missing, this process runs no    *)
(* updater and is not about to start one; what an earlier process left     *)
(* behind it cannot see.                                                   *)
MissingMeansDown ==
    (\E r \in Entry : Shown(r) = "missing-binary") => child = Down /\ pc # "writing"
=============================================================================
