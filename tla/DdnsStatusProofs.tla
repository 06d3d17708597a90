------------------------- MODULE DdnsStatusProofs -------------------------
(***************************************************************************)
(* Proofs about DdnsStatus, for any number of rows, one-shot runs and      *)
(* patches in flight, whatever the database refuses or reorders.           *)
(***************************************************************************)
EXTENDS DdnsStatus, SequenceTheorems, TLAPS

(* This process has an updater, or is about to, only where it has found    *)
(* the binary.                                                             *)
DownInv ==
    /\ child = Down \/ available
    /\ pc = "writing" => available

LEMMA DownInit == StatusInit => DownInv
  BY DEF StatusInit, DownInv

LEMMA DownNext == DownInv /\ [StatusNext]_statusVars => DownInv'
  <1> SUFFICES ASSUME DownInv, [StatusNext]_statusVars PROVE DownInv'
    OBVIOUS
  <1> USE DEF DownInv
  <1>0. Down.state = "none"
    BY DEF Down
  <1>1. ASSUME NEW r \in Entry, ApplyPatch(r) PROVE DownInv'
    BY <1>1 DEF ApplyPatch
  <1>2. CASE CheckBinary \/ LoadRows \/ LoadFails \/ ReloadRows
    BY <1>2 DEF CheckBinary, LoadRows, LoadFails, ReloadRows
  <1>3. CASE Stop
    BY <1>0, <1>3 DEF Stop, Start
  <1>4. CASE Exits
    BY <1>0, <1>4 DEF Exits, Start
  <1>5. CASE Spawn
    BY <1>5 DEF Spawn
  <1>6. ASSUME NEW c \in Run, Answer(c) PROVE DownInv'
    BY <1>6 DEF Answer
  <1>7. ASSUME NEW c \in Run, NEW r \in Entry, RunOnce(c, r) PROVE DownInv'
    BY <1>7 DEF RunOnce
  <1>8. CASE Restart
    BY <1>8 DEF Restart
  <1>9. CASE UNCHANGED statusVars
    BY <1>9 DEF statusVars
  <1> QED BY <1>1, <1>2, <1>3, <1>4, <1>5, <1>6, <1>7, <1>8, <1>9
          DEF StatusNext, System

LEMMA DownImplies == DownInv => MissingMeansDown
  <1> SUFFICES ASSUME DownInv, NEW r \in Entry, Shown(r) = "missing-binary"
               PROVE  child = Down /\ pc # "writing"
    BY DEF MissingMeansDown
  <1>1. CASE available
    <2>1. Shown(r) # "missing-binary"
      BY <1>1 DEF Shown
    <2> QED BY <2>1
  <1> QED BY <1>1 DEF DownInv

(* While the interface reports a missing binary, this process runs no      *)
(* updater and no reload is about to start one.                            *)
THEOREM MissingIsDown == StatusSpec => []MissingMeansDown
  BY DownInit, DownNext, DownImplies, PTL DEF StatusSpec

-----------------------------------------------------------------------------
(* Type correctness; what a reload has fetched are runtime columns.        *)
StatusTypeInv ==
    StatusTypeOK /\ \A r \in DOMAIN loaded : loaded[r] \in Runtime

LEMMA SeedType ==
    ASSUME NEW prev \in Runtime, NEW row \in Runtime
    PROVE  Seed(prev, row) \in Runtime
  <1>1. (IF row.trigAt # Never THEN row.trigAt ELSE prev.trigAt) \in Never..MaxTriggers
    BY DEF Runtime
  <1>2. (IF row.error # "none" THEN row.error ELSE prev.error)
           \in {"none", "missing", "stderr"}
    BY DEF Runtime
  <1>3. /\ (row.runAt \/ prev.runAt) \in BOOLEAN
        /\ (IF row.runAt THEN row.runOk ELSE prev.runOk) \in BOOLEAN
        /\ (IF row.trigAt # Never THEN row.trigOk ELSE prev.trigOk) \in BOOLEAN
    BY DEF Runtime
  <1> QED BY <1>1, <1>2, <1>3 DEF Seed, Runtime

LEMMA NoRuntimeType == NoRuntime \in Runtime
  BY StatusBoundAssumption DEF NoRuntime, Runtime, Never

LEMMA PreloadType ==
    ASSUME NEW columns \in [Entry -> Runtime], NEW ok \in BOOLEAN
    PROVE  Preload(columns, ok) \in [Entry -> Runtime]
  BY SeedType, NoRuntimeType DEF Preload

LEMMA MissingType ==
    ASSUME NEW row \in Runtime
    PROVE  [row EXCEPT !.error = "missing", !.runOk = FALSE] \in Runtime
  BY DEF Runtime

LEMMA ToldType ==
    ASSUME NEW row \in Runtime, NEW at \in Never..MaxTriggers, NEW ok \in BOOLEAN
    PROVE  [row EXCEPT !.trigAt = at, !.trigOk = ok] \in Runtime
  BY DEF Runtime

LEMMA AppliedType ==
    ASSUME NEW row \in Runtime, NEW patch \in Patch
    PROVE  Applied(row, patch) \in Runtime
  <1>1. CASE patch.kind = "trigger"
    <2>1. patch.at \in Never..MaxTriggers /\ patch.ok \in BOOLEAN
      BY <1>1, StatusBoundAssumption DEF Patch, Never
    <2>2. [row EXCEPT !.trigAt = patch.at, !.trigOk = patch.ok] \in Runtime
      BY <2>1, ToldType
    <2> QED BY <1>1, <2>2 DEF Applied
  <1>2. CASE patch.kind # "trigger"
    BY <1>2, MissingType DEF Applied
  <1> QED BY <1>1, <1>2

(* A sequence without one of its elements: those after it move up.         *)
LEMMA RemoveAtIs ==
    ASSUME NEW S, NEW s \in Seq(S), NEW i \in DOMAIN s
    PROVE  /\ RemoveAt(s, i) \in Seq(S)
           /\ Len(RemoveAt(s, i)) = Len(s) - 1
           /\ \A j \in 1..(Len(s) - 1) :
                 RemoveAt(s, i)[j] = IF j < i THEN s[j] ELSE s[j + 1]
  <1> DEFINE front == SubSeq(s, 1, i - 1)
             back  == SubSeq(s, i + 1, Len(s))
  <1>1. i \in 1..Len(s)
    OBVIOUS
  <1>2. /\ front \in Seq(S) /\ Len(front) = i - 1
        /\ \A j \in 1..(i - 1) : front[j] = s[j]
    BY <1>1
  <1>3. /\ back \in Seq(S) /\ Len(back) = Len(s) - i
        /\ \A j \in 1..(Len(s) - i) : back[j] = s[i + j]
    BY <1>1
  <1>4. RemoveAt(s, i) = front \o back
    BY DEF RemoveAt
  <1> HIDE DEF front, back
  <1>5. /\ front \o back \in Seq(S)
        /\ Len(front \o back) = Len(s) - 1
        /\ \A j \in 1..(Len(s) - 1) :
              (front \o back)[j] = IF j <= i - 1 THEN front[j] ELSE back[j - (i - 1)]
    <2>1. Len(front) + Len(back) = Len(s) - 1
      BY <1>1, <1>2, <1>3
    <2>2. /\ front \o back \in Seq(S) /\ Len(front \o back) = Len(front) + Len(back)
          /\ \A j \in 1..(Len(front) + Len(back)) :
                (front \o back)[j] = IF j <= Len(front) THEN front[j]
                                     ELSE back[j - Len(front)]
      BY <1>2, <1>3, ConcatProperties
    <2> QED BY <1>2, <2>1, <2>2
  <1>6. ASSUME NEW j \in 1..(Len(s) - 1)
        PROVE  (front \o back)[j] = IF j < i THEN s[j] ELSE s[j + 1]
    <2>1. CASE j < i
      <3>1. j \in 1..(i - 1) /\ j <= i - 1
        BY <1>1, <1>6, <2>1
      <3>2. (front \o back)[j] = front[j]
        BY <1>5, <1>6, <3>1
      <3>3. front[j] = s[j]
        BY <1>2, <3>1
      <3> QED BY <2>1, <3>2, <3>3
    <2>2. CASE ~(j < i)
      <3>1. j - (i - 1) \in 1..(Len(s) - i) /\ ~(j <= i - 1)
        BY <1>1, <1>6, <2>2
      <3>2. (front \o back)[j] = s[i + (j - (i - 1))]
        BY <1>3, <1>5, <1>6, <3>1
      <3>3. i + (j - (i - 1)) = j + 1
        BY <1>1, <1>6
      <3> QED BY <2>2, <3>2, <3>3
    <2> QED BY <2>1, <2>2
  <1> QED BY <1>4, <1>5, <1>6

(* ... and there is no other in it.                                        *)
LEMMA RemoveAtKeeps ==
    ASSUME NEW S, NEW s \in Seq(S), NEW i \in DOMAIN s
    PROVE  /\ RemoveAt(s, i) \in Seq(S)
           /\ \A j \in DOMAIN RemoveAt(s, i) :
                 \E k \in DOMAIN s : RemoveAt(s, i)[j] = s[k]
  <1> DEFINE left == RemoveAt(s, i)
  <1>1. /\ left \in Seq(S) /\ Len(left) = Len(s) - 1
        /\ \A j \in 1..(Len(s) - 1) : left[j] = IF j < i THEN s[j] ELSE s[j + 1]
    BY RemoveAtIs
  <1> HIDE DEF left
  <1>2. ASSUME NEW j \in DOMAIN left PROVE \E k \in DOMAIN s : left[j] = s[k]
    <2>1. j \in 1..(Len(s) - 1) /\ j \in DOMAIN s /\ j + 1 \in DOMAIN s
      BY <1>1
    <2> QED BY <1>1, <2>1
  <1> QED BY <1>1, <1>2 DEF left

LEMMA StatusTypeInit == StatusInit => StatusTypeInv
  <1> SUFFICES ASSUME StatusInit PROVE StatusTypeInv
    OBVIOUS
  <1>1. rows \in [Entry -> Runtime]
    BY DEF StatusInit
  <1>2. lastRunData \in [Entry -> Runtime]
    BY <1>1, PreloadType DEF StatusInit
  <1>3. writes \in [Entry -> Seq(Patch)] /\ answers \in Seq([row: Entry, ok: BOOLEAN])
    BY DEF StatusInit
  <1>4. child \in [state: {"none", "up", "stopping"}, rows: SUBSET Entry]
    BY DEF StatusInit, Down
  <1>5. DOMAIN loaded = {}
    BY DEF StatusInit
  <1> QED BY <1>1, <1>2, <1>3, <1>4, <1>5 DEF StatusInit, StatusTypeInv, StatusTypeOK

LEMMA PersistType ==
    ASSUME NEW some, NEW patch \in Patch, writes \in [Entry -> Seq(Patch)],
           Persist(some, patch)
    PROVE  writes' \in [Entry -> Seq(Patch)]
  BY DEF Persist

LEMMA StartType ==
    ASSUME StatusTypeInv, NEW cache \in [Entry -> Runtime], Start(cache)
    PROVE  /\ lastRunData' \in [Entry -> Runtime]
           /\ writes' \in [Entry -> Seq(Patch)]
           /\ pc' \in {"idle", "writing"}
           /\ serving' \in BOOLEAN
           /\ DOMAIN loaded' \subseteq Entry
           /\ \A r \in DOMAIN loaded' : loaded'[r] \in Runtime
  <1> USE DEF StatusTypeInv, StatusTypeOK
  <1> DEFINE Seeded(r) == IF r \in DOMAIN loaded
                          THEN Seed(cache[r], loaded[r]) ELSE cache[r]
  <1>1. \A r \in Entry : Seeded(r) \in Runtime
    BY SeedType
  <1>2. CASE available
    BY <1>1, <1>2 DEF Start
  <1>3. CASE ~available
    <2>1. Missing \in Patch
      BY DEF Missing, Patch
    <2>2. /\ lastRunData' = [r \in Entry |->
                               IF r \in DOMAIN loaded
                               THEN [Seeded(r) EXCEPT !.error = "missing", !.runOk = FALSE]
                               ELSE cache[r]]
          /\ Persist(DOMAIN loaded, Missing)
          /\ pc' = "idle" /\ serving' = TRUE /\ loaded' = << >>
      BY <1>3 DEF Start
    <2>3. \A r \in Entry :
             [Seeded(r) EXCEPT !.error = "missing", !.runOk = FALSE] \in Runtime
      BY <1>1, MissingType
    <2> HIDE DEF Seeded
    <2>4. lastRunData' \in [Entry -> Runtime]
      BY <2>2, <2>3, Zenon
    <2>5. writes' \in [Entry -> Seq(Patch)]
      BY <2>1, <2>2, PersistType
    <2>6. pc' = "idle" /\ serving' = TRUE /\ loaded' = << >>
      BY <2>2
    <2>7. DOMAIN << >> = {}
      OBVIOUS
    <2> QED BY <2>4, <2>5, <2>6, <2>7
  <1> QED BY <1>2, <1>3

LEMMA MarkedType ==
    ASSUME StatusTypeInv, NEW stderr \in BOOLEAN
    PROVE  Marked(stderr) \in [Entry -> Runtime]
  <1>1. ASSUME NEW r \in Entry
        PROVE  [lastRunData[r] EXCEPT !.runOk = FALSE,
                                      !.error = IF stderr THEN "stderr" ELSE @] \in Runtime
    <2>1. lastRunData[r] \in Runtime
      BY DEF StatusTypeInv, StatusTypeOK
    <2> QED BY <2>1 DEF Runtime
  <1> QED BY <1>1 DEF Marked, StatusTypeInv, StatusTypeOK

LEMMA StatusTypeNext == StatusTypeInv /\ [StatusNext]_statusVars => StatusTypeInv'
  <1> SUFFICES ASSUME StatusTypeInv, [StatusNext]_statusVars PROVE StatusTypeInv'
    OBVIOUS
  <1> USE DEF StatusTypeInv, StatusTypeOK
  <1>1. ASSUME NEW r \in Entry, ApplyPatch(r) PROVE StatusTypeInv'
    <2>1. PICK i \in DOMAIN writes[r] :
             /\ \/ rows' = [rows EXCEPT ![r] = Applied(@, writes[r][i])]
                   /\ UNCHANGED refused
                \/ refused' = refused \cup {r} /\ UNCHANGED rows
             /\ writes' = [writes EXCEPT ![r] = RemoveAt(@, i)]
      BY <1>1 DEF ApplyPatch
    <2>2. writes[r] \in Seq(Patch) /\ writes[r][i] \in Patch
      OBVIOUS
    <2>3. RemoveAt(writes[r], i) \in Seq(Patch)
      BY <2>2, RemoveAtKeeps
    <2>4. Applied(rows[r], writes[r][i]) \in Runtime
      BY <2>2, AppliedType
    <2>5. rows' \in [Entry -> Runtime] /\ refused' \subseteq Entry
      BY <2>1, <2>4
    <2>6. writes' \in [Entry -> Seq(Patch)]
      BY <2>1, <2>3
    <2> QED BY <1>1, <2>5, <2>6 DEF ApplyPatch
  <1>2. CASE CheckBinary \/ ReloadRows \/ LoadFails
    BY <1>2 DEF CheckBinary, ReloadRows, LoadFails, dbVars
  <1>3. CASE LoadRows
    BY <1>3 DEF LoadRows, dbVars
  <1>4. CASE Stop
    <2>1. CASE child.state = "up"
      <3>1. [child EXCEPT !.state = "stopping"]
               \in [state: {"none", "up", "stopping"}, rows: SUBSET Entry]
        OBVIOUS
      <3> QED BY <1>4, <2>1, <3>1 DEF Stop, dbVars
    <2>2. CASE child.state # "up"
      <3>1. Start(lastRunData) /\ UNCHANGED <<child, dbVars, patcher, available, call, answers>>
        BY <1>4, <2>2 DEF Stop
      <3> QED BY <3>1, StartType DEF dbVars
    <2> QED BY <2>1, <2>2
  <1>5. CASE Exits
    <2>1. Down \in [state: {"none", "up", "stopping"}, rows: SUBSET Entry]
      BY DEF Down
    <2>2. PICK stderr \in BOOLEAN :
             IF child.state = "stopping"
             THEN Start(Marked(stderr))
             ELSE /\ lastRunData' = Marked(stderr)
                  /\ UNCHANGED <<writes, pc, serving, loaded>>
      BY <1>5 DEF Exits
    <2>3. Marked(stderr) \in [Entry -> Runtime]
      BY MarkedType
    <2>4. CASE child.state = "stopping"
      BY <1>5, <2>1, <2>2, <2>3, <2>4, StartType DEF Exits, dbVars
    <2>5. CASE child.state # "stopping"
      BY <1>5, <2>1, <2>2, <2>3, <2>5 DEF Exits, dbVars
    <2> QED BY <2>4, <2>5
  <1>6. CASE Spawn
    BY <1>6 DEF Spawn, Down, dbVars
  <1>7. ASSUME NEW c \in Run, NEW r \in Entry, RunOnce(c, r) PROVE StatusTypeInv'
    BY <1>7 DEF RunOnce, dbVars
  <1>8. ASSUME NEW c \in Run, Answer(c) PROVE StatusTypeInv'
    <2>1. PICK ok \in BOOLEAN :
             /\ answers' = Append(answers, [row |-> call[c], ok |-> ok])
             /\ lastRunData' = [lastRunData EXCEPT ![call[c]].trigAt = Len(answers'),
                                                   ![call[c]].trigOk = ok]
             /\ Persist({call[c]}, [kind |-> "trigger", at |-> Len(answers'), ok |-> ok])
      BY <1>8 DEF Answer
    <2>2. call[c] \in Entry /\ Len(answers) < MaxTriggers
      BY <1>8 DEF Answer
    <2>3. /\ answers' \in Seq([row: Entry, ok: BOOLEAN])
          /\ Len(answers') = Len(answers) + 1
      BY <2>1, <2>2
    <2>4. Len(answers') \in 1..MaxTriggers /\ Len(answers') \in Never..MaxTriggers
      BY <2>2, <2>3, StatusBoundAssumption DEF Never
    <2>5. [lastRunData[call[c]] EXCEPT !.trigAt = Len(answers'), !.trigOk = ok] \in Runtime
      BY <2>2, <2>4, ToldType
    <2> DEFINE told == [lastRunData[call[c]] EXCEPT !.trigAt = Len(answers'), !.trigOk = ok]
    <2>10. lastRunData' = [lastRunData EXCEPT ![call[c]] = told]
      BY <2>1
    <2> HIDE DEF told
    <2>11. told \in Runtime
      BY <2>5 DEF told
    <2>6. lastRunData' \in [Entry -> Runtime]
      BY <2>2, <2>10, <2>11
    <2>7. [kind |-> "trigger", at |-> Len(answers'), ok |-> ok] \in Patch
      BY <2>4 DEF Patch
    <2>8. writes' \in [Entry -> Seq(Patch)]
      BY <2>1, <2>7, PersistType
    <2> QED BY <1>8, <2>3, <2>6, <2>8 DEF Answer, dbVars
  <1>9. CASE Restart
    <2>1. lastRunData' \in [Entry -> Runtime] /\ patcher' \in BOOLEAN
      BY <1>9, PreloadType DEF Restart
    <2>2. writes' \in [Entry -> Seq(Patch)] /\ DOMAIN loaded' = {}
      BY <1>9 DEF Restart
    <2> QED BY <1>9, <2>1, <2>2 DEF Restart, Down, dbVars
  <1>10. CASE UNCHANGED statusVars
    BY <1>10 DEF statusVars, dbVars
  <1> QED BY <1>1, <1>2, <1>3, <1>4, <1>5, <1>6, <1>7, <1>8, <1>9, <1>10
          DEF StatusNext, System

(* The types hold.                                                         *)
THEOREM StatusTypeCorrect == StatusSpec => []StatusTypeOK
  <1>1. StatusTypeInv => StatusTypeOK
    BY DEF StatusTypeInv
  <1> QED BY <1>1, StatusTypeInit, StatusTypeNext, PTL DEF StatusSpec

-----------------------------------------------------------------------------
(* The outcomes are in `log`: that of a run of r, at an instant; and those *)
(* that runtime columns or a patch show.                                   *)
Happened(log, r, instant, ok) ==
    instant \in DOMAIN log /\ log[instant] = [row |-> r, ok |-> ok]
Truthful(log, r, columns) ==
    columns.trigAt # Never => Happened(log, r, columns.trigAt, columns.trigOk)
TruthfulPatch(log, r, patch) ==
    patch.kind = "trigger" => Happened(log, r, patch.at, patch.ok)

(* Whatever holds an outcome holds one that happened: the database, the    *)
(* cache, the rows a reload has fetched, and the patches in flight.        *)
OutcomeInv ==
    /\ \A r \in Entry : Truthful(answers, r, rows[r]) /\ Truthful(answers, r, lastRunData[r])
    /\ \A r \in DOMAIN loaded : Truthful(answers, r, loaded[r])
    /\ \A r \in Entry : \A i \in DOMAIN writes[r] : TruthfulPatch(answers, r, writes[r][i])

LEMMA SeedTrue ==
    ASSUME NEW log, NEW r, NEW prev, NEW row, Truthful(log, r, prev), Truthful(log, r, row)
    PROVE  Truthful(log, r, Seed(prev, row))
  <1>1. CASE row.trigAt # Never
    BY <1>1 DEF Truthful, Seed
  <1>2. CASE row.trigAt = Never
    BY <1>2 DEF Truthful, Seed
  <1> QED BY <1>1, <1>2

LEMMA PreloadTrue ==
    ASSUME NEW log, NEW columns, NEW ok \in BOOLEAN,
           \A r \in Entry : Truthful(log, r, columns[r])
    PROVE  \A r \in Entry : Truthful(log, r, Preload(columns, ok)[r])
  <1>1. \A r \in Entry : Truthful(log, r, NoRuntime)
    BY DEF Truthful, NoRuntime
  <1>2. CASE ok
    BY <1>1, <1>2, SeedTrue DEF Preload
  <1>3. CASE ~ok
    BY <1>1, <1>3 DEF Preload
  <1> QED BY <1>2, <1>3

(* Only the instant and the outcome of a one-shot run count.               *)
LEMMA SameTrue ==
    ASSUME NEW log, NEW r, NEW old, NEW new, Truthful(log, r, old),
           new.trigAt = old.trigAt, new.trigOk = old.trigOk
    PROVE  Truthful(log, r, new)
  BY DEF Truthful

LEMMA AppendTruthful ==
    ASSUME NEW log, NEW some, NEW patch \in Patch, NEW old \in [Entry -> Seq(Patch)],
           \A r \in Entry : \A i \in DOMAIN old[r] : TruthfulPatch(log, r, old[r][i]),
           \A r \in some : TruthfulPatch(log, r, patch),
           NEW r \in Entry, NEW new,
           new = IF r \in some THEN Append(old[r], patch) ELSE old[r]
    PROVE  \A i \in DOMAIN new : TruthfulPatch(log, r, new[i])
  <1> SUFFICES ASSUME NEW i \in DOMAIN new PROVE TruthfulPatch(log, r, new[i])
    OBVIOUS
  <1>1. CASE r \in some
    <2>1. new = Append(old[r], patch) /\ old[r] \in Seq(Patch)
      BY <1>1
    <2>2. CASE i \in DOMAIN old[r]
      <3>1. new[i] = old[r][i]
        BY <2>1, <2>2
      <3> QED BY <2>2, <3>1
    <2>3. CASE i \notin DOMAIN old[r]
      <3>1. new[i] = patch
        BY <2>1, <2>3
      <3> QED BY <1>1, <3>1
    <2> QED BY <2>2, <2>3
  <1>2. CASE r \notin some
    BY <1>2
  <1> QED BY <1>1, <1>2

LEMMA StartTrue ==
    ASSUME StatusTypeInv, OutcomeInv, NEW cache \in [Entry -> Runtime], Start(cache),
           \A r \in Entry : Truthful(answers, r, cache[r])
    PROVE  /\ \A r \in Entry : Truthful(answers, r, lastRunData'[r])
           /\ \A r \in DOMAIN loaded' : Truthful(answers, r, loaded'[r])
           /\ \A r \in Entry : \A i \in DOMAIN writes'[r] :
                 TruthfulPatch(answers, r, writes'[r][i])
  <1> DEFINE Seeded(r) == IF r \in DOMAIN loaded
                          THEN Seed(cache[r], loaded[r]) ELSE cache[r]
  <1>1. \A r \in Entry : Seeded(r) \in Runtime /\ Truthful(answers, r, Seeded(r))
    BY SeedType, SeedTrue DEF StatusTypeInv, StatusTypeOK, OutcomeInv
  <1>2. CASE available
    <2>1. /\ lastRunData' = [r \in Entry |-> Seeded(r)]
          /\ writes' = writes /\ loaded' = loaded
      BY <1>2 DEF Start
    <2> HIDE DEF Seeded
    <2> QED BY <1>1, <2>1 DEF OutcomeInv
  <1>3. CASE ~available
    <2>1. /\ lastRunData' = [r \in Entry |->
                               IF r \in DOMAIN loaded
                               THEN [Seeded(r) EXCEPT !.error = "missing", !.runOk = FALSE]
                               ELSE cache[r]]
          /\ Persist(DOMAIN loaded, Missing) /\ loaded' = << >>
      BY <1>3 DEF Start
    <2> HIDE DEF Seeded
    <2>2. ASSUME NEW r \in Entry
          PROVE  Truthful(answers, r, [Seeded(r) EXCEPT !.error = "missing", !.runOk = FALSE])
      BY <1>1, SameTrue DEF Runtime
    <2>3. \A r \in Entry : Truthful(answers, r, lastRunData'[r])
      BY <2>1, <2>2
    <2>4. Missing \in Patch /\ \A r : TruthfulPatch(answers, r, Missing)
      BY DEF Missing, Patch, TruthfulPatch
    <2> DEFINE some == IF patcher THEN DOMAIN loaded ELSE {}
    <2>7. /\ writes \in [Entry -> Seq(Patch)]
          /\ \A r \in Entry : \A i \in DOMAIN writes[r] :
                TruthfulPatch(answers, r, writes[r][i])
          /\ \A r \in some : TruthfulPatch(answers, r, Missing)
      BY <2>4 DEF StatusTypeInv, StatusTypeOK, OutcomeInv
    <2>8. \A r \in Entry : writes'[r] = IF r \in some THEN Append(writes[r], Missing)
                                        ELSE writes[r]
      BY <2>1 DEF Persist
    <2> HIDE DEF some
    <2>5. \A r \in Entry : \A i \in DOMAIN writes'[r] : TruthfulPatch(answers, r, writes'[r][i])
      BY <2>4, <2>7, <2>8, AppendTruthful
    <2>6. DOMAIN << >> = {}
      OBVIOUS
    <2> QED BY <2>1, <2>3, <2>5, <2>6
  <1> QED BY <1>2, <1>3

LEMMA MarkedTrue ==
    ASSUME StatusTypeInv, OutcomeInv, NEW stderr \in BOOLEAN
    PROVE  \A r \in Entry : Truthful(answers, r, Marked(stderr)[r])
  <1> SUFFICES ASSUME NEW r \in Entry PROVE Truthful(answers, r, Marked(stderr)[r])
    OBVIOUS
  <1>1. lastRunData[r] \in Runtime /\ Truthful(answers, r, lastRunData[r])
    BY DEF StatusTypeInv, StatusTypeOK, OutcomeInv
  <1>2. /\ Marked(stderr)[r].trigAt = lastRunData[r].trigAt
        /\ Marked(stderr)[r].trigOk = lastRunData[r].trigOk
    BY <1>1 DEF Marked, Runtime
  <1> QED BY <1>1, <1>2, SameTrue

LEMMA OutcomeInit == StatusInit => OutcomeInv
  <1> SUFFICES ASSUME StatusInit PROVE OutcomeInv
    OBVIOUS
  <1>1. \A r \in Entry : Truthful(answers, r, rows[r])
    BY DEF StatusInit, Truthful
  <1>2. \A r \in Entry : Truthful(answers, r, lastRunData[r])
    BY <1>1, PreloadTrue DEF StatusInit
  <1>3. DOMAIN loaded = {} /\ \A r \in Entry : DOMAIN writes[r] = {}
    BY DEF StatusInit
  <1> QED BY <1>1, <1>2, <1>3 DEF OutcomeInv

(* One more run changes nothing of those before it.                        *)
LEMMA HappenedBefore ==
    ASSUME NEW S, NEW log \in Seq(S), NEW e \in S, NEW r, NEW instant, NEW ok,
           Happened(log, r, instant, ok)
    PROVE  Happened(Append(log, e), r, instant, ok)
  <1>1. /\ DOMAIN log = 1..Len(log) /\ DOMAIN Append(log, e) = 1..(Len(log) + 1)
        /\ Len(log) \in Nat
    OBVIOUS
  <1>2. instant \in 1..Len(log) /\ instant \in 1..(Len(log) + 1)
    BY <1>1 DEF Happened
  <1>3. Append(log, e)[instant] = log[instant]
    BY <1>2
  <1> QED BY <1>1, <1>2, <1>3 DEF Happened

LEMMA OutcomeNext ==
    StatusTypeInv /\ OutcomeInv /\ [StatusNext]_statusVars => OutcomeInv'
  <1> SUFFICES ASSUME StatusTypeInv, OutcomeInv, [StatusNext]_statusVars
               PROVE  OutcomeInv'
    OBVIOUS
  <1>0. /\ rows \in [Entry -> Runtime] /\ lastRunData \in [Entry -> Runtime]
        /\ writes \in [Entry -> Seq(Patch)]
    BY DEF StatusTypeInv, StatusTypeOK
  <1>1. ASSUME NEW r \in Entry, ApplyPatch(r) PROVE OutcomeInv'
    <2>1. PICK i \in DOMAIN writes[r] :
             /\ \/ rows' = [rows EXCEPT ![r] = Applied(@, writes[r][i])]
                \/ UNCHANGED rows
             /\ writes' = [writes EXCEPT ![r] = RemoveAt(@, i)]
      BY <1>1 DEF ApplyPatch
    <2>2. UNCHANGED <<lastRunData, loaded, answers>>
      BY <1>1 DEF ApplyPatch
    <2>3. /\ writes[r] \in Seq(Patch) /\ writes[r][i] \in Patch /\ rows[r] \in Runtime
          /\ TruthfulPatch(answers, r, writes[r][i]) /\ Truthful(answers, r, rows[r])
      BY <1>0 DEF OutcomeInv
    <2>4. Truthful(answers, r, Applied(rows[r], writes[r][i]))
      <3>1. CASE writes[r][i].kind = "trigger"
        BY <2>3, <3>1 DEF Applied, Truthful, TruthfulPatch, Runtime
      <3>2. CASE writes[r][i].kind # "trigger"
        <4>1. Applied(rows[r], writes[r][i])
                 = [rows[r] EXCEPT !.error = "missing", !.runOk = FALSE]
          BY <3>2 DEF Applied
        <4> QED BY <2>3, <4>1, SameTrue DEF Runtime
      <3> QED BY <3>1, <3>2
    <2>5. \A s \in Entry : Truthful(answers, s, rows'[s])
      BY <1>0, <2>1, <2>4 DEF OutcomeInv
    <2>6. \A j \in DOMAIN RemoveAt(writes[r], i) :
             TruthfulPatch(answers, r, RemoveAt(writes[r], i)[j])
      BY <2>3, RemoveAtKeeps DEF OutcomeInv
    <2>7. \A s \in Entry : \A j \in DOMAIN writes'[s] :
             TruthfulPatch(answers, s, writes'[s][j])
      BY <1>0, <2>1, <2>6 DEF OutcomeInv
    <2> QED BY <2>2, <2>5, <2>7 DEF OutcomeInv
  <1>2. CASE CheckBinary \/ ReloadRows \/ LoadFails \/ UNCHANGED statusVars
    BY <1>2 DEF CheckBinary, ReloadRows, LoadFails, statusVars, dbVars, OutcomeInv
  <1>3. CASE LoadRows
    <2>1. PICK enabled \in SUBSET Entry : loaded' = [r \in enabled |-> rows[r]]
      BY <1>3 DEF LoadRows
    <2>2. \A r \in DOMAIN loaded' : Truthful(answers, r, loaded'[r])
      BY <2>1 DEF OutcomeInv
    <2> QED BY <1>3, <2>2 DEF LoadRows, dbVars, OutcomeInv
  <1>4. CASE Stop
    <2>1. CASE child.state = "up"
      BY <1>4, <2>1 DEF Stop, dbVars, OutcomeInv
    <2>2. CASE child.state # "up"
      <3>1. Start(lastRunData) /\ UNCHANGED <<rows, answers>>
        BY <1>4, <2>2 DEF Stop, dbVars
      <3>2. \A r \in Entry : Truthful(answers, r, lastRunData[r])
        BY DEF OutcomeInv
      <3> QED BY <1>0, <3>1, <3>2, StartTrue DEF OutcomeInv
    <2> QED BY <2>1, <2>2
  <1>5. CASE Exits
    <2>1. PICK stderr \in BOOLEAN :
             IF child.state = "stopping"
             THEN Start(Marked(stderr))
             ELSE /\ lastRunData' = Marked(stderr)
                  /\ UNCHANGED <<writes, pc, serving, loaded>>
      BY <1>5 DEF Exits
    <2>2. UNCHANGED <<rows, answers>>
      BY <1>5 DEF Exits, dbVars
    <2>3. CASE child.state = "stopping"
      <3>1. Start(Marked(stderr))
        BY <2>1, <2>3
      <3> QED BY <2>2, <3>1, MarkedType, MarkedTrue, StartTrue DEF OutcomeInv
    <2>4. CASE child.state # "stopping"
      BY <2>1, <2>2, <2>4, MarkedTrue DEF OutcomeInv
    <2> QED BY <2>3, <2>4
  <1>6. CASE Spawn
    <2>1. DOMAIN << >> = {}
      OBVIOUS
    <2>2. loaded' = << >> /\ UNCHANGED <<rows, lastRunData, writes, answers>>
      BY <1>6 DEF Spawn, dbVars
    <2> QED BY <2>1, <2>2 DEF OutcomeInv
  <1>7. ASSUME NEW c \in Run, NEW r \in Entry, RunOnce(c, r) PROVE OutcomeInv'
    BY <1>7 DEF RunOnce, dbVars, OutcomeInv
  <1>8. ASSUME NEW c \in Run, Answer(c) PROVE OutcomeInv'
    <2>1. PICK ok \in BOOLEAN :
             /\ answers' = Append(answers, [row |-> call[c], ok |-> ok])
             /\ lastRunData' = [lastRunData EXCEPT ![call[c]].trigAt = Len(answers'),
                                                   ![call[c]].trigOk = ok]
             /\ Persist({call[c]}, [kind |-> "trigger", at |-> Len(answers'), ok |-> ok])
      BY <1>8 DEF Answer
    <2>2. /\ call[c] \in Entry /\ Len(answers) < MaxTriggers
          /\ answers \in Seq([row: Entry, ok: BOOLEAN])
      BY <1>8 DEF Answer, StatusTypeInv, StatusTypeOK
    <2> DEFINE e == [row |-> call[c], ok |-> ok]
    <2>3. e \in [row: Entry, ok: BOOLEAN]
      BY <2>2
    <2>4. /\ Len(answers') \in DOMAIN answers' /\ Len(answers') \in 1..MaxTriggers
          /\ answers'[Len(answers')] = e
      BY <2>1, <2>2, <2>3, StatusBoundAssumption
    <2>5. Happened(answers', call[c], Len(answers'), ok)
      BY <2>4 DEF Happened
    <2>6. \A s, instant, good : Happened(answers, s, instant, good)
                                  => Happened(answers', s, instant, good)
      BY <2>1, <2>2, <2>3, HappenedBefore
    <2>7. /\ \A s, columns : Truthful(answers, s, columns) => Truthful(answers', s, columns)
          /\ \A s, patch : TruthfulPatch(answers, s, patch)
                              => TruthfulPatch(answers', s, patch)
      BY <2>6 DEF Truthful, TruthfulPatch
    <2>8. UNCHANGED <<rows, loaded>>
      BY <1>8 DEF Answer, dbVars
    <2>9. \A s \in Entry : Truthful(answers', s, lastRunData'[s])
      <3>1. SUFFICES ASSUME NEW s \in Entry PROVE Truthful(answers', s, lastRunData'[s])
        OBVIOUS
      <3>2. CASE s = call[c]
        <4>1. lastRunData'[s].trigAt = Len(answers') /\ lastRunData'[s].trigOk = ok
          BY <1>0, <2>1, <3>2 DEF Runtime
        <4> QED BY <2>5, <3>2, <4>1 DEF Truthful
      <3>3. CASE s # call[c]
        <4>1. lastRunData'[s] = lastRunData[s]
          BY <1>0, <2>1, <3>3
        <4> QED BY <2>7, <4>1 DEF OutcomeInv
      <3> QED BY <3>2, <3>3
    <2> DEFINE patch == [kind |-> "trigger", at |-> Len(answers'), ok |-> ok]
    <2>10. patch \in Patch /\ TruthfulPatch(answers', call[c], patch)
      BY <2>4, <2>5 DEF Patch, TruthfulPatch
    <2> DEFINE some == IF patcher THEN {call[c]} ELSE {}
    <2>11. \A s \in Entry : writes'[s] = IF s \in some THEN Append(writes[s], patch)
                                         ELSE writes[s]
      BY <2>1 DEF Persist
    <2> HIDE DEF patch, e
    <2>12. \A s \in Entry : \A i \in DOMAIN writes[s] :
              TruthfulPatch(answers', s, writes[s][i])
      BY <2>7 DEF OutcomeInv
    <2>13. \A s \in some : TruthfulPatch(answers', s, patch)
      BY <2>10
    <2> HIDE DEF some
    <2>14. \A s \in Entry : \A i \in DOMAIN writes'[s] :
              TruthfulPatch(answers', s, writes'[s][i])
      BY <1>0, <2>10, <2>11, <2>12, <2>13, AppendTruthful
    <2> QED BY <2>7, <2>8, <2>9, <2>14 DEF OutcomeInv
  <1>9. CASE Restart
    <2>1. PICK ok \in BOOLEAN : lastRunData' = Preload(rows, ok)
      BY <1>9 DEF Restart
    <2>2. \A r \in Entry : Truthful(answers, r, lastRunData'[r])
      BY <2>1, PreloadTrue DEF OutcomeInv
    <2>3. /\ DOMAIN loaded' = {} /\ \A r \in Entry : DOMAIN writes'[r] = {}
          /\ UNCHANGED <<rows, answers>>
      BY <1>9 DEF Restart, dbVars
    <2> QED BY <2>2, <2>3 DEF OutcomeInv
  <1> QED BY <1>1, <1>2, <1>3, <1>4, <1>5, <1>6, <1>7, <1>8, <1>9
          DEF StatusNext, System

(* The one-shot run shown or stored for a row is a run of that row, with   *)
(* the outcome it had, whatever is lost, refused or reordered.             *)
THEOREM OutcomeIsItsOwn == StatusSpec => []OutcomeMatchesInstant
  <1>1. OutcomeInv => OutcomeMatchesInstant
    BY DEF OutcomeInv, OutcomeMatchesInstant, Truthful, Happened
  <1> QED BY <1>1, StatusTypeInit, StatusTypeNext, OutcomeInit, OutcomeNext, PTL
          DEF StatusSpec

-----------------------------------------------------------------------------
(* The one-shot runs among the patches of a row that are in flight.        *)
RunsIn(w) == {i \in DOMAIN w : w[i].kind = "trigger"}

(* A row whose patches are applied in order has runs no later than those   *)
(* still to be applied.                                                    *)
InOrder(w, stored, now) ==
    /\ stored <= now
    /\ \A i \in RunsIn(w) : stored <= w[i].at /\ w[i].at <= now
    /\ \A i, j \in RunsIn(w) : i <= j => w[i].at <= w[j].at

(* What is shown is stored, or is on its way.                              *)
Kept(w, stored, shown) ==
    shown # Never => stored # Never \/ RunsIn(w) # {}
KeptInOrder(w, stored, shown) ==
    shown <= stored \/ \E i \in RunsIn(w) : shown <= w[i].at

(* ShownIsStored is inductive with the order of the patches, and with what *)
(* a reload has fetched, which it will put back into the cache.            *)
RowInv(r) ==
    /\ ordered => InOrder(writes[r], rows[r].trigAt, Len(answers))
    /\ r \in DOMAIN loaded =>
          /\ loaded[r].trigAt # Never => rows[r].trigAt # Never
          /\ ordered => loaded[r].trigAt <= rows[r].trigAt
    /\ r \notin refused /\ patcher =>
          /\ Kept(writes[r], rows[r].trigAt, lastRunData[r].trigAt)
          /\ ordered => KeptInOrder(writes[r], rows[r].trigAt, lastRunData[r].trigAt)

StoredInv == \A r \in Entry : RowInv(r)

LEMMA AppendIs ==
    ASSUME NEW w \in Seq(Patch), NEW patch \in Patch
    PROVE  /\ DOMAIN Append(w, patch) = DOMAIN w \cup {Len(w) + 1}
           /\ \A i \in DOMAIN w : Append(w, patch)[i] = w[i]
           /\ Append(w, patch)[Len(w) + 1] = patch
           /\ \A i \in DOMAIN w : i \in Nat /\ i < Len(w) + 1
           /\ Len(w) + 1 \in Nat
  OBVIOUS

(* A patch that is sent leaves what was kept.                              *)
LEMMA AppendKept ==
    ASSUME NEW w \in Seq(Patch), NEW patch \in Patch, NEW stored, NEW shown
    PROVE  /\ Kept(w, stored, shown) => Kept(Append(w, patch), stored, shown)
           /\ KeptInOrder(w, stored, shown) => KeptInOrder(Append(w, patch), stored, shown)
  <1> DEFINE new == Append(w, patch)
  <1>1. /\ DOMAIN w \subseteq DOMAIN new
        /\ \A i \in DOMAIN w : new[i] = w[i]
    BY AppendIs
  <1> HIDE DEF new
  <1>2. /\ RunsIn(w) \subseteq RunsIn(new)
        /\ \A i \in RunsIn(w) : new[i] = w[i]
    BY <1>1 DEF RunsIn
  <1>3. Kept(w, stored, shown) => Kept(new, stored, shown)
    BY <1>2 DEF Kept
  <1>4. KeptInOrder(w, stored, shown) => KeptInOrder(new, stored, shown)
    BY <1>2 DEF KeptInOrder
  <1> QED BY <1>3, <1>4 DEF new

LEMMA AppendInOrder ==
    ASSUME NEW w \in Seq(Patch), NEW patch \in Patch, NEW stored \in Nat, NEW now \in Nat,
           NEW later \in Nat, now <= later, InOrder(w, stored, now),
           patch.kind = "trigger" => patch.at = later
    PROVE  InOrder(Append(w, patch), stored, later)
  <1> DEFINE new  == Append(w, patch)
             last == Len(w) + 1
  <1>1. /\ DOMAIN new = DOMAIN w \cup {last}
        /\ \A i \in DOMAIN w : new[i] = w[i]
        /\ new[last] = patch
        /\ \A i \in DOMAIN w : i \in Nat /\ i < last
        /\ last \in Nat
    BY AppendIs
  <1> HIDE DEF new, last
  <1>2. /\ \A i \in RunsIn(new) : i \in RunsIn(w) \/ (i = last /\ new[i].at = later)
        /\ \A i \in RunsIn(w) : new[i] = w[i] /\ i \in Nat /\ i < last
    BY <1>1 DEF RunsIn
  <1>3. \A i \in RunsIn(w) : w[i].at \in Nat
    BY DEF RunsIn, Patch
  <1>4. stored <= later /\ \A i \in RunsIn(new) : stored <= new[i].at /\ new[i].at <= later
    BY <1>2, <1>3 DEF InOrder
  <1>5. ASSUME NEW i \in RunsIn(new), NEW j \in RunsIn(new), i <= j
        PROVE  new[i].at <= new[j].at
    <2>1. CASE j = last /\ new[j].at = later
      BY <1>4, <2>1
    <2>2. CASE j \in RunsIn(w) /\ i \in RunsIn(w)
      BY <1>2, <1>5, <2>2 DEF InOrder
    <2>3. CASE j \in RunsIn(w) /\ i = last
      BY <1>1, <1>2, <1>5, <2>3
    <2> QED BY <1>2, <2>1, <2>2, <2>3
  <1> QED BY <1>4, <1>5 DEF InOrder, new

LEMMA RunAppended ==
    ASSUME NEW w \in Seq(Patch), NEW patch \in Patch, patch.kind = "trigger",
           NEW stored, NEW shown
    PROVE  /\ Kept(Append(w, patch), stored, shown)
           /\ shown = patch.at => KeptInOrder(Append(w, patch), stored, shown)
  <1> DEFINE new  == Append(w, patch)
             last == Len(w) + 1
  <1>1. last \in DOMAIN new /\ new[last] = patch
    BY AppendIs
  <1>2. patch.at \in Nat
    BY DEF Patch
  <1> HIDE DEF new, last
  <1>3. last \in RunsIn(new)
    BY <1>1 DEF RunsIn
  <1>4. Kept(new, stored, shown)
    BY <1>3 DEF Kept
  <1>5. shown = patch.at => KeptInOrder(new, stored, shown)
    BY <1>1, <1>2, <1>3 DEF KeptInOrder
  <1> QED BY <1>4, <1>5 DEF new

(* A patch that is applied stores what it carries.                         *)
LEMMA AppliedRun ==
    ASSUME NEW row \in Runtime, NEW patch \in Patch
    PROVE  /\ patch.kind = "trigger" =>
                 Applied(row, patch).trigAt = patch.at /\ patch.at # Never
           /\ patch.kind # "trigger" => Applied(row, patch).trigAt = row.trigAt
  BY StatusBoundAssumption DEF Applied, Runtime, Patch, Never

LEMMA AppliedKept ==
    ASSUME NEW w \in Seq(Patch), NEW i \in DOMAIN w, NEW row \in Runtime, NEW shown,
           Kept(w, row.trigAt, shown)
    PROVE  Kept(RemoveAt(w, i), Applied(row, w[i]).trigAt, shown)
  <1> DEFINE left == RemoveAt(w, i)
             next == Applied(row, w[i]).trigAt
  <1>1. w[i] \in Patch /\ i \in 1..Len(w) /\ Len(w) \in Nat /\ DOMAIN w = 1..Len(w)
    OBVIOUS
  <1>2. /\ DOMAIN left = 1..(Len(w) - 1)
        /\ \A j \in 1..(Len(w) - 1) : left[j] = IF j < i THEN w[j] ELSE w[j + 1]
    BY RemoveAtIs
  <1>3. /\ w[i].kind = "trigger" => next # Never
        /\ w[i].kind # "trigger" => next = row.trigAt
    BY <1>1, AppliedRun
  <1> HIDE DEF left, next
  <1>4. SUFFICES ASSUME w[i].kind # "trigger", RunsIn(w) # {} PROVE RunsIn(left) # {}
    BY <1>3 DEF Kept, left, next
  <1>5. PICK k \in 1..Len(w) : w[k].kind = "trigger" /\ k # i
    BY <1>1, <1>4 DEF RunsIn
  <1>6. CASE k < i
    <2>1. k \in 1..(Len(w) - 1) /\ left[k] = w[k]
      BY <1>1, <1>2, <1>5, <1>6
    <2> QED BY <1>2, <1>5, <2>1 DEF RunsIn
  <1>7. CASE k > i
    <2>1. k - 1 \in 1..(Len(w) - 1) /\ left[k - 1] = w[k]
      BY <1>1, <1>2, <1>5, <1>7
    <2> QED BY <1>2, <1>5, <2>1 DEF RunsIn
  <1> QED BY <1>1, <1>5, <1>6, <1>7

(* The first of patches that are in order is applied, or refused.          *)
LEMMA AppliedInOrder ==
    ASSUME NEW w \in Seq(Patch), 1 \in DOMAIN w, NEW row \in Runtime, NEW now \in Nat,
           InOrder(w, row.trigAt, now)
    PROVE  /\ row.trigAt <= Applied(row, w[1]).trigAt
           /\ InOrder(RemoveAt(w, 1), row.trigAt, now)
           /\ InOrder(RemoveAt(w, 1), Applied(row, w[1]).trigAt, now)
           /\ \A shown \in Nat : KeptInOrder(w, row.trigAt, shown) =>
                 KeptInOrder(RemoveAt(w, 1), Applied(row, w[1]).trigAt, shown)
  <1> DEFINE left == RemoveAt(w, 1)
             next == Applied(row, w[1]).trigAt
             old  == row.trigAt
  <1>1. w[1] \in Patch /\ Len(w) \in Nat /\ DOMAIN w = 1..Len(w) /\ Len(w) >= 1
    OBVIOUS
  <1>2. /\ DOMAIN left = 1..(Len(w) - 1)
        /\ \A j \in 1..(Len(w) - 1) : left[j] = w[j + 1]
    <2>1. /\ left \in Seq(Patch) /\ Len(left) = Len(w) - 1
          /\ \A j \in 1..(Len(w) - 1) : left[j] = IF j < 1 THEN w[j] ELSE w[j + 1]
      BY RemoveAtIs
    <2>2. \A j \in 1..(Len(w) - 1) : ~(j < 1)
      BY <1>1
    <2> QED BY <1>1, <2>1, <2>2
  <1>3. /\ w[1].kind = "trigger" => next = w[1].at
        /\ w[1].kind # "trigger" => next = old
    BY <1>1, AppliedRun
  <1>4. old \in Nat
    BY StatusBoundAssumption DEF Runtime, Never
  <1>5. \A i \in RunsIn(w) : w[i].at \in Nat /\ i \in 1..Len(w)
    BY <1>1 DEF RunsIn, Patch
  <1>6. \A j \in RunsIn(left) : j + 1 \in RunsIn(w) /\ left[j] = w[j + 1] /\ j \in Nat /\ j >= 1
    BY <1>1, <1>2 DEF RunsIn
  <1>7. \A i \in RunsIn(w) : i = 1 \/ (i - 1 \in RunsIn(left) /\ left[i - 1] = w[i])
    <2> SUFFICES ASSUME NEW i \in RunsIn(w), i # 1
                 PROVE  i - 1 \in RunsIn(left) /\ left[i - 1] = w[i]
      OBVIOUS
    <2>1. i - 1 \in 1..(Len(w) - 1) /\ (i - 1) + 1 = i
      BY <1>1, <1>5
    <2>2. left[i - 1] = w[i]
      BY <1>2, <2>1
    <2> QED BY <1>2, <2>1, <2>2 DEF RunsIn
  <1>8. /\ old <= now
        /\ \A i \in RunsIn(w) : old <= w[i].at /\ w[i].at <= now
        /\ \A i, j \in RunsIn(w) : i <= j => w[i].at <= w[j].at
    BY DEF InOrder
  <1>9. w[1].kind = "trigger" => 1 \in RunsIn(w)
    BY <1>1 DEF RunsIn
  <1> HIDE DEF left, next, old
  <1>10. next \in Nat /\ old <= next /\ next <= now
    BY <1>3, <1>4, <1>5, <1>8, <1>9
  <1>11. \A j \in RunsIn(left) : next <= left[j].at
    <2> SUFFICES ASSUME NEW j \in RunsIn(left) PROVE next <= left[j].at
      OBVIOUS
    <2>1. j + 1 \in RunsIn(w) /\ left[j] = w[j + 1] /\ 1 <= j + 1
      BY <1>6
    <2> QED BY <1>3, <1>8, <1>9, <2>1
  <1>12. /\ \A j \in RunsIn(left) : old <= left[j].at /\ left[j].at <= now
         /\ \A i, j \in RunsIn(left) : i <= j => left[i].at <= left[j].at
    BY <1>6, <1>8
  <1>13. InOrder(left, old, now) /\ InOrder(left, next, now)
    BY <1>8, <1>10, <1>11, <1>12 DEF InOrder
  <1>14. ASSUME NEW shown \in Nat, KeptInOrder(w, old, shown)
         PROVE  KeptInOrder(left, next, shown)
    <2>1. CASE shown <= old
      BY <1>4, <1>10, <2>1 DEF KeptInOrder
    <2>2. ASSUME NEW i \in RunsIn(w), shown <= w[i].at PROVE KeptInOrder(left, next, shown)
      <3>1. CASE i = 1
        <4>1. next = w[1].at
          BY <1>3, <3>1 DEF RunsIn
        <4> QED BY <2>2, <3>1, <4>1 DEF KeptInOrder
      <3>2. CASE i # 1
        BY <1>7, <2>2, <3>2 DEF KeptInOrder
      <3> QED BY <3>1, <3>2
    <2> QED BY <1>14, <2>1, <2>2 DEF KeptInOrder
  <1> QED BY <1>10, <1>13, <1>14 DEF left, next, old

(* ShownIsStored is what is left when no patch is in flight.               *)
LEMMA StoredImplies == StatusTypeInv /\ StoredInv => ShownIsStored
  <1> SUFFICES ASSUME StatusTypeInv, StoredInv, NEW r \in Entry \ refused, patcher,
                      writes[r] = << >>, lastRunData[r].trigAt # Never
               PROVE  /\ rows[r].trigAt # Never
                      /\ ordered => rows[r].trigAt >= lastRunData[r].trigAt
    BY DEF ShownIsStored
  <1>1. RunsIn(writes[r]) = {}
    BY DEF RunsIn
  <1>2. rows[r].trigAt \in Nat /\ lastRunData[r].trigAt \in Nat
    BY StatusBoundAssumption DEF StatusTypeInv, StatusTypeOK, Runtime, Never
  <1>3. RowInv(r)
    BY DEF StoredInv
  <1> QED BY <1>1, <1>2, <1>3 DEF RowInv, Kept, KeptInOrder

LEMMA PreloadStored ==
    ASSUME NEW columns \in [Entry -> Runtime], NEW r \in Entry
    PROVE  Preload(columns, TRUE)[r].trigAt = columns[r].trigAt
  BY DEF Preload, Seed, NoRuntime

LEMMA StoredInit == StatusInit => StoredInv
  <1> SUFFICES ASSUME StatusInit, NEW r \in Entry PROVE RowInv(r)
    BY DEF StoredInv
  <1>1. rows \in [Entry -> Runtime] /\ rows[r].trigAt = Never
    BY DEF StatusInit
  <1>2. lastRunData[r].trigAt = Never
    BY <1>1, PreloadStored DEF StatusInit
  <1>3. writes[r] = << >> /\ DOMAIN loaded = {} /\ Len(answers) = 0
    BY DEF StatusInit
  <1>4. RunsIn(writes[r]) = {}
    BY <1>3 DEF RunsIn
  <1> QED BY <1>1, <1>2, <1>3, <1>4 DEF RowInv, InOrder, Kept, KeptInOrder, Never

(* What start() puts into the cache was there, or is in the database.      *)
LEMMA StartStored ==
    ASSUME StatusTypeInv, StoredInv, NEW cache \in [Entry -> Runtime], Start(cache),
           \A r \in Entry : cache[r].trigAt = lastRunData[r].trigAt,
           UNCHANGED <<dbVars, patcher, answers>>
    PROVE  StoredInv'
  <1> SUFFICES ASSUME NEW r \in Entry PROVE RowInv(r)'
    BY DEF StoredInv
  <1> DEFINE Seeded(s) == IF s \in DOMAIN loaded THEN Seed(cache[s], loaded[s]) ELSE cache[s]
  <1>0. /\ UNCHANGED <<rows, ordered, refused, patcher, answers>>
        /\ writes[r] \in Seq(Patch) /\ Len(answers) \in Nat
        /\ rows[r].trigAt \in Nat /\ lastRunData[r].trigAt \in Nat
        /\ r \in DOMAIN loaded => loaded[r].trigAt \in Nat
    BY StatusBoundAssumption DEF dbVars, StatusTypeInv, StatusTypeOK, Runtime, Never
  <1>1. RowInv(r)
    BY DEF StoredInv
  <1>2. \/ Seeded(r).trigAt = lastRunData[r].trigAt
        \/ /\ r \in DOMAIN loaded
           /\ loaded[r].trigAt # Never /\ Seeded(r).trigAt = loaded[r].trigAt
    BY DEF Seed
  <1>3. Seeded(r) \in Runtime
    BY SeedType DEF StatusTypeInv, StatusTypeOK
  <1>4. lastRunData'[r].trigAt = Seeded(r).trigAt
    <2>1. CASE available
      BY <2>1 DEF Start
    <2>2. CASE ~available
      <3>1. lastRunData' = [s \in Entry |->
                              IF s \in DOMAIN loaded
                              THEN [Seeded(s) EXCEPT !.error = "missing", !.runOk = FALSE]
                              ELSE cache[s]]
        BY <2>2 DEF Start
      <3>2. r \notin DOMAIN loaded => Seeded(r) = cache[r]
        OBVIOUS
      <3> HIDE DEF Seeded
      <3> QED BY <1>3, <3>1, <3>2 DEF Runtime
    <2> QED BY <2>1, <2>2
  <1> HIDE DEF Seeded
  <1>5. \/ writes'[r] = writes[r]
        \/ writes'[r] = Append(writes[r], Missing)
    <2>1. CASE available
      BY <2>1 DEF Start
    <2>2. CASE ~available
      BY <2>2 DEF Start, Persist
    <2> QED BY <2>1, <2>2
  <1>6. loaded' = loaded \/ DOMAIN loaded' = {}
    <2>1. DOMAIN << >> = {}
      OBVIOUS
    <2> QED BY <2>1 DEF Start
  <1>7. Missing \in Patch /\ Missing.kind # "trigger"
    BY DEF Missing, Patch
  <1>8. ordered => InOrder(writes'[r], rows[r].trigAt, Len(answers))
    <2> DEFINE now == Len(answers)
    <2>1. ordered => InOrder(writes[r], rows[r].trigAt, now)
      BY <1>1 DEF RowInv
    <2>2. now \in Nat /\ now <= now
      BY <1>0
    <2> HIDE DEF now
    <2>3. ordered => InOrder(Append(writes[r], Missing), rows[r].trigAt, now)
      BY <1>0, <1>7, <2>1, <2>2, AppendInOrder
    <2> QED BY <1>5, <2>1, <2>3 DEF now
  <1>9. ASSUME r \notin refused, patcher
        PROVE  /\ Kept(writes'[r], rows[r].trigAt, lastRunData'[r].trigAt)
               /\ ordered => KeptInOrder(writes'[r], rows[r].trigAt, lastRunData'[r].trigAt)
    <2>1. /\ Kept(writes[r], rows[r].trigAt, lastRunData[r].trigAt)
          /\ ordered => KeptInOrder(writes[r], rows[r].trigAt, lastRunData[r].trigAt)
      BY <1>1, <1>9 DEF RowInv
    <2>2. /\ Kept(writes[r], rows[r].trigAt, lastRunData'[r].trigAt)
          /\ ordered => KeptInOrder(writes[r], rows[r].trigAt, lastRunData'[r].trigAt)
      BY <1>1, <1>2, <1>4, <2>1 DEF RowInv, Kept, KeptInOrder
    <2> QED BY <1>0, <1>5, <1>7, <2>2, AppendKept
  <1> QED BY <1>0, <1>1, <1>6, <1>8, <1>9 DEF RowInv

LEMMA ApplyStored ==
    ASSUME StatusTypeInv, StoredInv, NEW r \in Entry, ApplyPatch(r)
    PROVE  StoredInv'
  <1> SUFFICES ASSUME NEW s \in Entry PROVE RowInv(s)'
    BY DEF StoredInv
  <1>0. /\ UNCHANGED <<ordered, lastRunData, patcher, loaded, answers>>
        /\ refused \subseteq refused'
    BY DEF ApplyPatch
  <1>1. RowInv(s)
    BY DEF StoredInv
  <1>2. PICK i \in DOMAIN writes[r] :
           /\ ordered => i = 1
           /\ \/ rows' = [rows EXCEPT ![r] = Applied(@, writes[r][i])]
              \/ refused' = refused \cup {r} /\ UNCHANGED rows
           /\ writes' = [writes EXCEPT ![r] = RemoveAt(@, i)]
    BY DEF ApplyPatch
  <1>3. rows \in [Entry -> Runtime] /\ writes \in [Entry -> Seq(Patch)] /\ Len(answers) \in Nat
    BY DEF StatusTypeInv, StatusTypeOK
  <1>4. CASE s # r
    <2>1. writes'[s] = writes[s] /\ rows'[s] = rows[s]
      BY <1>2, <1>3, <1>4
    <2> QED BY <1>0, <1>1, <2>1 DEF RowInv
  <1>5. CASE s = r
    <2> DEFINE w == writes[s]
               next == Applied(rows[s], w[i])
    <2>1. /\ w \in Seq(Patch) /\ rows[s] \in Runtime /\ i \in DOMAIN w
          /\ writes'[s] = RemoveAt(w, i)
          /\ rows'[s] = next \/ (rows'[s] = rows[s] /\ s \in refused')
      BY <1>2, <1>3, <1>5
    <2>2. /\ rows[s].trigAt \in Nat /\ next.trigAt \in Nat /\ lastRunData[s].trigAt \in Nat
          /\ s \in DOMAIN loaded => loaded[s].trigAt \in Nat
      <3>1. next \in Runtime
        BY <2>1, AppliedType
      <3> QED BY <2>1, <3>1, StatusBoundAssumption
              DEF StatusTypeInv, StatusTypeOK, Runtime, Never
    <2>3. rows[s].trigAt # Never => next.trigAt # Never
      BY <2>1, AppliedRun
    <2> HIDE DEF w, next
    <2>4. ordered => /\ rows[s].trigAt <= next.trigAt
                     /\ InOrder(RemoveAt(w, i), rows[s].trigAt, Len(answers))
                     /\ InOrder(RemoveAt(w, i), next.trigAt, Len(answers))
                     /\ KeptInOrder(w, rows[s].trigAt, lastRunData[s].trigAt) =>
                          KeptInOrder(RemoveAt(w, i), next.trigAt, lastRunData[s].trigAt)
      <3> SUFFICES ASSUME ordered
                   PROVE  /\ rows[s].trigAt <= next.trigAt
                          /\ InOrder(RemoveAt(w, 1), rows[s].trigAt, Len(answers))
                          /\ InOrder(RemoveAt(w, 1), next.trigAt, Len(answers))
                          /\ KeptInOrder(w, rows[s].trigAt, lastRunData[s].trigAt) =>
                               KeptInOrder(RemoveAt(w, 1), next.trigAt, lastRunData[s].trigAt)
        BY <1>2
      <3>1. i = 1 /\ next = Applied(rows[s], w[1])
        BY <1>2 DEF next
      <3>2. InOrder(w, rows[s].trigAt, Len(answers))
        BY <1>1 DEF RowInv, w
      <3> QED BY <1>3, <2>1, <2>2, <3>1, <3>2, AppliedInOrder
    <2>5. Kept(w, rows[s].trigAt, lastRunData[s].trigAt) =>
             Kept(RemoveAt(w, i), next.trigAt, lastRunData[s].trigAt)
      BY <2>1, AppliedKept DEF next
    <2>6. ordered' => InOrder(writes'[s], rows'[s].trigAt, Len(answers'))
      BY <1>0, <2>1, <2>4
    <2>7. s \in DOMAIN loaded =>
             /\ loaded[s].trigAt # Never => rows'[s].trigAt # Never
             /\ ordered => loaded[s].trigAt <= rows'[s].trigAt
      BY <1>1, <2>1, <2>2, <2>3, <2>4 DEF RowInv
    <2>8. ASSUME s \notin refused', patcher
          PROVE  /\ Kept(writes'[s], rows'[s].trigAt, lastRunData[s].trigAt)
                 /\ ordered => KeptInOrder(writes'[s], rows'[s].trigAt, lastRunData[s].trigAt)
      <3>1. s \notin refused /\ rows'[s] = next
        BY <1>0, <2>1, <2>8
      <3>2. /\ Kept(w, rows[s].trigAt, lastRunData[s].trigAt)
            /\ ordered => KeptInOrder(w, rows[s].trigAt, lastRunData[s].trigAt)
        BY <1>1, <2>8, <3>1 DEF RowInv, w
      <3> QED BY <2>1, <2>4, <2>5, <3>1, <3>2
    <2> QED BY <1>0, <2>6, <2>7, <2>8 DEF RowInv
  <1> QED BY <1>4, <1>5

LEMMA AnswerStored ==
    ASSUME StatusTypeInv, StoredInv, NEW c \in Run, Answer(c)
    PROVE  StoredInv'
  <1> SUFFICES ASSUME NEW s \in Entry PROVE RowInv(s)'
    BY DEF StoredInv
  <1>0. /\ UNCHANGED <<ordered, rows, refused, patcher, loaded>>
        /\ rows[s].trigAt \in Nat /\ lastRunData \in [Entry -> Runtime]
        /\ writes[s] \in Seq(Patch) /\ call[c] \in Entry
    BY StatusBoundAssumption DEF Answer, dbVars, StatusTypeInv, StatusTypeOK, Runtime, Never
  <1>1. RowInv(s)
    BY DEF StoredInv
  <1>2. PICK ok \in BOOLEAN :
           /\ answers' = Append(answers, [row |-> call[c], ok |-> ok])
           /\ lastRunData' = [lastRunData EXCEPT ![call[c]].trigAt = Len(answers'),
                                                 ![call[c]].trigOk = ok]
           /\ Persist({call[c]}, [kind |-> "trigger", at |-> Len(answers'), ok |-> ok])
    BY DEF Answer
  <1> DEFINE now   == Len(answers)
             later == Len(answers')
             patch == [kind |-> "trigger", at |-> later, ok |-> ok]
  <1>3. now \in Nat /\ later = now + 1 /\ later \in 1..MaxTriggers
    <2>1. answers \in Seq([row: Entry, ok: BOOLEAN]) /\ now < MaxTriggers
      BY DEF Answer, StatusTypeInv, StatusTypeOK
    <2> QED BY <1>2, <2>1, StatusBoundAssumption
  <1>4. patch \in Patch /\ patch.kind = "trigger" /\ patch.at = later
    BY <1>3 DEF Patch
  <1>5. IF s = call[c] THEN lastRunData'[s].trigAt = later
        ELSE lastRunData'[s] = lastRunData[s]
    BY <1>0, <1>2 DEF Runtime
  <1>6. writes'[s] = IF patcher /\ s = call[c] THEN Append(writes[s], patch) ELSE writes[s]
    BY <1>2 DEF Persist
  <1> HIDE DEF now, later, patch
  <1>7. ordered => InOrder(writes'[s], rows[s].trigAt, later)
    <2> SUFFICES ASSUME ordered PROVE InOrder(writes'[s], rows[s].trigAt, later)
      OBVIOUS
    <2>1. InOrder(writes[s], rows[s].trigAt, now)
      BY <1>1 DEF RowInv, now
    <2>2. CASE writes'[s] = Append(writes[s], patch)
      BY <1>0, <1>3, <1>4, <2>1, <2>2, AppendInOrder
    <2>3. CASE writes'[s] = writes[s]
      <3>1. \A i \in RunsIn(writes[s]) : writes[s][i].at \in Nat
        BY <1>0 DEF RunsIn, Patch
      <3> QED BY <1>0, <1>3, <2>1, <2>3, <3>1 DEF InOrder
    <2> QED BY <1>6, <2>2, <2>3
  <1>8. ASSUME s \notin refused, patcher
        PROVE  /\ Kept(writes'[s], rows[s].trigAt, lastRunData'[s].trigAt)
               /\ ordered => KeptInOrder(writes'[s], rows[s].trigAt, lastRunData'[s].trigAt)
    <2>1. CASE s = call[c]
      BY <1>0, <1>4, <1>5, <1>6, <1>8, <2>1, RunAppended
    <2>2. CASE s # call[c]
      BY <1>1, <1>5, <1>6, <1>8, <2>2 DEF RowInv
    <2> QED BY <2>1, <2>2
  <1> QED BY <1>0, <1>1, <1>7, <1>8 DEF RowInv, later

LEMMA StoredNext ==
    StatusTypeInv /\ StoredInv /\ [StatusNext]_statusVars => StoredInv'
  <1> SUFFICES ASSUME StatusTypeInv, StoredInv, [StatusNext]_statusVars PROVE StoredInv'
    OBVIOUS
  <1>0. /\ rows \in [Entry -> Runtime] /\ lastRunData \in [Entry -> Runtime]
        /\ answers \in Seq([row: Entry, ok: BOOLEAN])
    BY DEF StatusTypeInv, StatusTypeOK
  <1>1. ASSUME NEW r \in Entry, ApplyPatch(r) PROVE StoredInv'
    BY <1>1, ApplyStored
  <1>2. CASE CheckBinary \/ ReloadRows \/ LoadFails \/ UNCHANGED statusVars
    BY <1>2 DEF CheckBinary, ReloadRows, LoadFails, statusVars, dbVars, StoredInv, RowInv
  <1>3. CASE LoadRows
    <2>1. PICK enabled \in SUBSET Entry : loaded' = [r \in enabled |-> rows[r]]
      BY <1>3 DEF LoadRows
    <2>2. \A r \in Entry : rows[r].trigAt \in Nat
      BY <1>0, StatusBoundAssumption DEF Runtime, Never
    <2>3. UNCHANGED <<ordered, refused, rows, lastRunData, writes, patcher, answers>>
      BY <1>3 DEF LoadRows, dbVars
    <2> QED BY <2>1, <2>2, <2>3 DEF StoredInv, RowInv
  <1>4. CASE Stop
    <2>1. CASE child.state = "up"
      BY <1>4, <2>1 DEF Stop, dbVars, StoredInv, RowInv
    <2>2. CASE child.state # "up"
      BY <1>0, <1>4, <2>2, StartStored DEF Stop
    <2> QED BY <2>1, <2>2
  <1>5. CASE Exits
    <2>1. PICK stderr \in BOOLEAN :
             IF child.state = "stopping"
             THEN Start(Marked(stderr))
             ELSE /\ lastRunData' = Marked(stderr)
                  /\ UNCHANGED <<writes, pc, serving, loaded>>
      BY <1>5 DEF Exits
    <2>2. UNCHANGED <<dbVars, patcher, answers>>
      BY <1>5 DEF Exits
    <2>3. \A r \in Entry : Marked(stderr)[r].trigAt = lastRunData[r].trigAt
      BY <1>0 DEF Marked, Runtime
    <2>4. CASE child.state = "stopping"
      <3>1. Start(Marked(stderr))
        BY <2>1, <2>4
      <3>2. Marked(stderr) \in [Entry -> Runtime]
        BY MarkedType
      <3> QED BY <2>2, <2>3, <3>1, <3>2, StartStored
    <2>5. CASE child.state # "stopping"
      BY <2>1, <2>2, <2>3, <2>5 DEF dbVars, StoredInv, RowInv
    <2> QED BY <2>4, <2>5
  <1>6. CASE Spawn
    <2>1. DOMAIN << >> = {}
      OBVIOUS
    <2>2. loaded' = << >> /\ UNCHANGED <<dbVars, lastRunData, writes, patcher, answers>>
      BY <1>6 DEF Spawn
    <2> QED BY <2>1, <2>2 DEF dbVars, StoredInv, RowInv
  <1>7. ASSUME NEW c \in Run, NEW r \in Entry, RunOnce(c, r) PROVE StoredInv'
    BY <1>7 DEF RunOnce, dbVars, StoredInv, RowInv
  <1>8. ASSUME NEW c \in Run, Answer(c) PROVE StoredInv'
    BY <1>8, AnswerStored
  <1>9. CASE Restart
    <2>1. PICK ok \in BOOLEAN : lastRunData' = Preload(rows, ok) /\ patcher' = ok
      BY <1>9 DEF Restart
    <2>2. UNCHANGED <<ordered, refused, rows, answers>>
      BY <1>9 DEF Restart, dbVars
    <2>3. \A r \in Entry : writes'[r] = << >> /\ RunsIn(writes'[r]) = {}
      BY <1>9 DEF Restart, RunsIn
    <2>4. DOMAIN loaded' = {}
      BY <1>9 DEF Restart
    <2>5. \A r \in Entry : patcher' => lastRunData'[r].trigAt = rows[r].trigAt
      BY <1>0, <2>1, PreloadStored
    <2>6. \A r \in Entry : rows[r].trigAt \in Nat
      BY <1>0, StatusBoundAssumption DEF Runtime, Never
    <2>7. \A r \in Entry : RowInv(r)'
      BY <2>2, <2>3, <2>4, <2>5, <2>6 DEF StoredInv, RowInv, InOrder, Kept, KeptInOrder
    <2> QED BY <2>7 DEF StoredInv
  <1> QED BY <1>1, <1>2, <1>3, <1>4, <1>5, <1>6, <1>7, <1>8, <1>9
          DEF StatusNext, System

(* A restart does not blank the one-shot run shown for a row whose patches *)
(* have all been applied, nor, where they are applied in order, put an     *)
(* earlier one back, however reloads and exits touch the cache meanwhile.  *)
THEOREM ShownStaysStored == StatusSpec => []ShownIsStored
  BY StatusTypeInit, StatusTypeNext, StoredInit, StoredNext, StoredImplies, PTL
     DEF StatusSpec
=============================================================================
