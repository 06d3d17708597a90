--------------------------- MODULE RecordsProofs ---------------------------
(***************************************************************************)
(* Proofs about Records and the three smaller of its parts: DdnsConfig,    *)
(* for any rows, any number of handlers and any values; IpRanges and       *)
(* LegacyMigration, for any number of fetches, rows and domains.  Those    *)
(* about the other two are in DdnsStatusProofs and AccountsProofs.         *)
(***************************************************************************)
EXTENDS Records, DdnsStatusProofs, AccountsProofs, FiniteSetTheorems, TLAPS

-----------------------------------------------------------------------------
(* The configuration of the DDNS rows (DdnsConfig).                        *)

(* As much of the types as the handlers' steps need.                       *)
Shape ==
    /\ table \in [Id -> Row]
    /\ at \in [Handler -> Op \cup {"idle", "patched"}]
    /\ id \in [Handler -> Id]
    /\ seen \in [Handler -> Row]

(* The operators that build a row return one.                              *)
LEMMA NoRowType == NoRow \in Row
  BY DEF NoRow, Row, Cfg, Provider, Field

LEMMA ParsedType == \A row \in Row : Parsed(row) \in Row
  BY DEF Parsed, Row, Cfg, Field

LEMMA MergeType == \A a, b \in Cfg : Merge(a, b) \in Cfg
  BY DEF Merge, Cfg

LEMMA ShapeInit == ConfigInit => Shape
  BY NoRowType, IdAssumption DEF ConfigInit, Shape, Op

(* A patch of one row, by the handler that works on it.                    *)
LEMMA PatchShape ==
    ASSUME Shape, NEW h \in Handler, NEW row \in Row,
           NEW next \in Op \cup {"idle", "patched"}, Continue(h, next),
           table' = table \/ table' = [table EXCEPT ![id[h]] = row],
           id' = id
    PROVE  Shape'
  BY NoRowType DEF Shape, Continue

(* The row an update leaves.                                               *)
Updated(h, data) ==
    [table[id[h]] EXCEPT
       !.cfg = Merge(seen[h].cfg, data.cfg),
       !.provider = Given(data.provider, @),
       !.enabled = IF data.enabled = Blank THEN @ ELSE data.enabled = "on"]

LEMMA UpdatedType ==
    ASSUME Shape, NEW h \in Handler, NEW data \in Payload
    PROVE  /\ Updated(h, data) \in Row
           /\ Updated(h, data).state = table[id[h]].state
  <1>1. table[id[h]] \in Row /\ seen[h].cfg \in Cfg /\ data.cfg \in Cfg
    BY DEF Shape, Row, Payload
  <1>2. Merge(seen[h].cfg, data.cfg) \in Cfg
    BY <1>1, MergeType
  <1>3. Given(data.provider, table[id[h]].provider) \in Provider
    BY <1>1 DEF Given, Payload, Row
  <1>4. (IF data.enabled = Blank THEN table[id[h]].enabled
         ELSE data.enabled = "on") \in BOOLEAN
    BY <1>1 DEF Row
  <1> QED BY <1>1, <1>2, <1>3, <1>4 DEF Updated, Row

LEMMA PatchUpdateStep ==
    ASSUME Shape, NEW h \in Handler, PatchUpdate(h)
    PROVE  /\ at[h] = "update" /\ UNCHANGED <<id, reloading, gaveUp, configJson>>
           /\ \/ /\ Continue(h, "patched")
                 /\ \E data \in Payload :
                       /\ Valid(Given(data.provider, seen[h].provider),
                                Merge(seen[h].cfg, data.cfg))
                       /\ table' = [table EXCEPT ![id[h]] = Updated(h, data)]
              \/ table' = table /\ Continue(h, "idle")
  <1>1. at[h] = "update" /\ UNCHANGED <<id, reloading, gaveUp, configJson>>
    BY DEF PatchUpdate
  <1> DEFINE ok(data) == Valid(Given(data.provider, seen[h].provider),
                               Merge(seen[h].cfg, data.cfg))
  <1>2. PICK data \in Payload :
          /\ table' = IF ok(data)
                      THEN [table EXCEPT
                              ![id[h]].cfg = Merge(seen[h].cfg, data.cfg),
                              ![id[h]].provider = Given(data.provider, @),
                              ![id[h]].enabled =
                                  IF data.enabled = Blank THEN @
                                  ELSE data.enabled = "on"]
                      ELSE table
          /\ Continue(h, IF ok(data) THEN "patched" ELSE "idle")
    BY DEF PatchUpdate
  <1> HIDE DEF ok
  <1>3. CASE ok(data)
    <2>1. table' = [table EXCEPT ![id[h]] = Updated(h, data)]
      BY <1>2, <1>3 DEF Updated, Shape, Row
    <2>2. Valid(Given(data.provider, seen[h].provider), Merge(seen[h].cfg, data.cfg))
      BY <1>3 DEF ok
    <2> QED BY <1>1, <1>2, <1>3, <2>1, <2>2
  <1>4. CASE ~ok(data)
    BY <1>1, <1>2, <1>4
  <1> QED BY <1>3, <1>4

LEMMA CreateStep ==
    ASSUME Shape, NEW h \in Handler, NEW i \in Id, Create(h, i)
    PROVE  \E row \in Row :
              /\ at[h] = "idle" /\ table[i].state = "none" /\ row.state = "live"
              /\ table' = [table EXCEPT ![i] = row]
              /\ at' = [at EXCEPT ![h] = IF row.enabled THEN "patched" ELSE "idle"]
              /\ id' = [id EXCEPT ![h] = i]
              /\ UNCHANGED <<seen, reloading, gaveUp, configJson>>
  <1>1. PICK p \in Provider, c \in Cfg, e \in BOOLEAN :
          /\ table' = [table EXCEPT ![i] = [state |-> "live", enabled |-> e,
                                            provider |-> p, cfg |-> c]]
          /\ at' = [at EXCEPT ![h] = IF e THEN "patched" ELSE "idle"]
    BY DEF Create
  <1> DEFINE row == [state |-> "live", enabled |-> e, provider |-> p, cfg |-> c]
  <1>2. row \in Row /\ row.state = "live" /\ row.enabled = e
    BY DEF Row
  <1> HIDE DEF row
  <1> QED BY <1>1, <1>2 DEF Create, row

LEMMA ShapeNext == Shape /\ [ConfigNext]_configVars => Shape'
  <1> SUFFICES ASSUME Shape, [ConfigNext]_configVars PROVE Shape'
    OBVIOUS
  <1>1. ASSUME NEW h \in Handler, Handle(h) PROVE Shape'
    <2>1. CASE \E i \in Id : Create(h, i)
      BY <2>1, CreateStep DEF Shape
    <2>2. CASE \E i \in Id : \E op \in Op : Get(h, op, i)
      BY <2>2, ParsedType DEF Get, Shape
    <2>3. CASE PatchUpdate(h)
      BY <2>3, PatchUpdateStep, PatchShape, UpdatedType, NoRowType
    <2>4. CASE PatchDelete(h)
      <3>1. [table[id[h]] EXCEPT !.state = "deleted"] \in Row
        BY DEF Shape, Row
      <3>2. table' = [table EXCEPT ![id[h]] = [table[id[h]] EXCEPT !.state = "deleted"]]
        BY <2>4 DEF PatchDelete, Shape
      <3> QED BY <2>4, <3>1, <3>2, PatchShape DEF PatchDelete
    <2>5. CASE PatchEnabled(h)
      <3> DEFINE on == at[h] = "enable"
      <3>1. [table[id[h]] EXCEPT !.enabled = on] \in Row
        BY DEF Shape, Row
      <3>2. table' = [table EXCEPT ![id[h]] = [table[id[h]] EXCEPT !.enabled = on]]
        BY <2>5 DEF PatchEnabled, Shape
      <3> HIDE DEF on
      <3> QED BY <2>5, <3>1, <3>2, PatchShape DEF PatchEnabled
    <2>6. CASE AskReload(h)
      BY <2>6 DEF AskReload, Shape
    <2> QED BY <1>1, <2>1, <2>2, <2>3, <2>4, <2>5, <2>6 DEF Handle
  <1>2. CASE Reload \/ ReloadFails
    BY <1>2 DEF Reload, ReloadFails, Shape
  <1>3. CASE UNCHANGED configVars
    BY <1>3 DEF configVars, Shape
  <1> QED BY <1>1, <1>2, <1>3 DEF ConfigNext

LEMMA ShapeInvariance == ConfigSpec => []Shape
  BY ShapeInit, ShapeNext, PTL DEF ConfigSpec

(* config.json has, of each provider, the fields the builder emits.        *)
SettingsOK(settings) ==
    \A s \in settings :
        /\ s.id \in Id /\ s.provider \in Provider
        /\ s.cfg \in [Emitted(s.provider) -> Value \cup {Blank}]

LEMMA SettingsType ==
    ASSUME NEW t \in [Id -> Row]
    PROVE  SettingsOK(Settings(t))
  <1> SUFFICES ASSUME NEW i \in Id
               PROVE  /\ t[i].provider \in Provider
                      /\ [f \in Emitted(t[i].provider) |-> Parsed(t[i]).cfg[f]]
                           \in [Emitted(t[i].provider) -> Value \cup {Blank}]
    BY DEF SettingsOK, Settings
  <1>1. t[i] \in Row /\ Parsed(t[i]) \in Row
    BY ParsedType
  <1>2. Parsed(t[i]).cfg \in [Field -> Value \cup {Blank}]
    BY <1>1 DEF Row, Cfg
  <1>3. Emitted(t[i].provider) \subseteq Field
    BY DEF Emitted, Field
  <1> QED BY <1>1, <1>2, <1>3 DEF Row

ConfigTypeInv ==
    /\ Shape
    /\ reloading \in BOOLEAN /\ gaveUp \in BOOLEAN
    /\ SettingsOK(configJson)

LEMMA ConfigTypeInit == ConfigInit => ConfigTypeInv
  BY ShapeInit DEF ConfigInit, ConfigTypeInv, SettingsOK

LEMMA ConfigTypeNext == ConfigTypeInv /\ [ConfigNext]_configVars => ConfigTypeInv'
  <1> SUFFICES ASSUME ConfigTypeInv, [ConfigNext]_configVars PROVE ConfigTypeInv'
    OBVIOUS
  <1>0. Shape'
    BY ShapeNext DEF ConfigTypeInv
  <1>1. ASSUME NEW h \in Handler, Handle(h)
        PROVE  /\ reloading' \in BOOLEAN /\ gaveUp' \in BOOLEAN
               /\ configJson' = configJson
    BY <1>1 DEF ConfigTypeInv, Handle, Create, Get, PatchUpdate, PatchDelete,
                PatchEnabled, AskReload
  <1>2. CASE Reload
    <2>1. reloading' = FALSE /\ configJson' = Settings(table)
      BY <1>2 DEF Reload
    <2>2. SettingsOK(Settings(table))
      BY SettingsType DEF ConfigTypeInv, Shape
    <2> QED BY <1>0, <1>2, <2>1, <2>2 DEF Reload, ConfigTypeInv, SettingsOK
  <1>3. CASE ReloadFails
    BY <1>0, <1>3 DEF ReloadFails, ConfigTypeInv, SettingsOK
  <1>4. CASE UNCHANGED configVars
    BY <1>0, <1>4 DEF configVars, ConfigTypeInv, SettingsOK
  <1> QED BY <1>0, <1>1, <1>2, <1>3, <1>4 DEF ConfigNext, ConfigTypeInv, SettingsOK

(* Type correctness; config.json has of each provider the emitted fields.  *)
THEOREM ConfigTypeCorrect == ConfigSpec => []ConfigTypeOK
  <1>1. ConfigTypeInv => ConfigTypeOK
    BY DEF ConfigTypeInv, Shape, SettingsOK, ConfigTypeOK
  <1> QED BY <1>1, ConfigTypeInit, ConfigTypeNext, PTL DEF ConfigSpec

-----------------------------------------------------------------------------
(* A row that is not enabled has no settings, so creating one changes none.*)
LEMMA DisabledAddsNothing ==
    ASSUME Shape, NEW i \in Id, NEW row \in Row, ~row.enabled,
           table[i].state = "none"
    PROVE  Settings([table EXCEPT ![i] = row]) = Settings(table)
  <1> DEFINE new == [table EXCEPT ![i] = row]
             On(t) == {k \in Id : t[k].state = "live" /\ t[k].enabled}
             Setting(t, k) == [id |-> k, provider |-> t[k].provider,
                               cfg |-> [f \in Emitted(t[k].provider) |->
                                          Parsed(t[k]).cfg[f]]]
  <1>1. \A k \in Id : k # i => new[k] = table[k]
    BY DEF Shape
  <1>2. new[i] = row
    BY DEF Shape
  <1>3. On(new) = On(table) /\ i \notin On(table)
    BY <1>1, <1>2
  <1>4. \A k \in On(table) : Setting(new, k) = Setting(table, k)
    BY <1>1, <1>3
  <1>5. Settings(new) = {Setting(new, k) : k \in On(new)}
    BY DEF Settings
  <1>6. Settings(table) = {Setting(table, k) : k \in On(table)}
    BY DEF Settings
  <1> HIDE DEF new, On, Setting
  <1>7. Settings(new) = Settings(table)
    BY <1>3, <1>4, <1>5, <1>6
  <1> QED BY <1>7 DEF new

LEMMA FollowsInit == ConfigInit => ConfigFollowsTable
  BY DEF ConfigInit, ConfigFollowsTable, Settings, NoRow

LEMMA FollowsNext ==
    Shape /\ ConfigFollowsTable /\ [ConfigNext]_configVars => ConfigFollowsTable'
  <1> SUFFICES ASSUME Shape, ConfigFollowsTable, [ConfigNext]_configVars
               PROVE  ConfigFollowsTable'
    OBVIOUS
  <1> DEFINE Pending == \E h \in Handler : at[h] = "patched"
             Same == configJson = Settings(table)
  <1>1. Same \/ reloading \/ Pending \/ gaveUp
    BY DEF ConfigFollowsTable
  (* A handler that has just patched a row is about to ask for a reload.   *)
  <1>2. ASSUME NEW h \in Handler, Continue(h, "patched")
        PROVE  ConfigFollowsTable'
    BY <1>2 DEF Continue, Shape, ConfigFollowsTable
  (* One that has not patched, and was not about to ask, changes nothing.  *)
  <1>3. ASSUME NEW h \in Handler, at[h] # "patched", NEW next,
               at' = [at EXCEPT ![h] = next],
               Settings(table)' = Settings(table), UNCHANGED <<reloading, gaveUp, configJson>>
        PROVE  ConfigFollowsTable'
    BY <1>1, <1>3 DEF Shape, ConfigFollowsTable
  <1>4. ASSUME NEW h \in Handler, Handle(h) PROVE ConfigFollowsTable'
    <2>1. ASSUME NEW i \in Id, Create(h, i) PROVE ConfigFollowsTable'
      <3>1. PICK row \in Row :
              /\ at[h] = "idle" /\ table[i].state = "none"
              /\ table' = [table EXCEPT ![i] = row]
              /\ at' = [at EXCEPT ![h] = IF row.enabled THEN "patched" ELSE "idle"]
              /\ UNCHANGED <<seen, reloading, gaveUp, configJson>>
        BY <2>1, CreateStep
      <3>2. CASE row.enabled
        BY <3>1, <3>2 DEF Shape, ConfigFollowsTable
      <3>3. CASE ~row.enabled
        <4>1. Settings([table EXCEPT ![i] = row]) = Settings(table)
          BY <3>1, <3>3, DisabledAddsNothing
        <4>2. Settings(table') = Settings(table)
          BY <3>1, <4>1
        <4>3. at[h] # "patched" /\ at' = [at EXCEPT ![h] = "idle"]
          BY <3>1, <3>3
        <4> QED BY <1>3, <3>1, <4>2, <4>3
      <3> QED BY <3>2, <3>3
    <2>2. CASE \E i \in Id : \E op \in Op : Get(h, op, i)
      <3>1. PICK op \in Op : at' = [at EXCEPT ![h] = op]
        BY <2>2 DEF Get
      <3>2. at[h] # "patched" /\ UNCHANGED <<table, reloading, gaveUp, configJson>>
        BY <2>2 DEF Get
      <3>3. Settings(table)' = Settings(table)
        BY <3>2 DEF Settings, Parsed
      <3> QED BY <1>3, <3>1, <3>2, <3>3
    <2>3. CASE PatchUpdate(h)
      <3>1. CASE Continue(h, "patched")
        BY <1>2, <3>1
      <3>2. CASE table' = table /\ Continue(h, "idle")
        <4>1. at[h] # "patched" /\ at' = [at EXCEPT ![h] = "idle"]
          BY <2>3, <3>2, PatchUpdateStep DEF Continue
        <4>2. Settings(table') = Settings(table)
          BY <3>2
        <4>3. UNCHANGED <<reloading, gaveUp, configJson>>
          BY <2>3, PatchUpdateStep
        <4> QED BY <1>3, <4>1, <4>2, <4>3
      <3> QED BY <2>3, <3>1, <3>2, PatchUpdateStep
    <2>4. CASE PatchDelete(h) \/ PatchEnabled(h)
      BY <1>2, <2>4 DEF PatchDelete, PatchEnabled
    <2>5. CASE AskReload(h)
      BY <2>5 DEF AskReload, ConfigFollowsTable
    <2> QED BY <1>4, <2>1, <2>2, <2>3, <2>4, <2>5 DEF Handle
  <1>5. CASE Reload
    <2>1. configJson' = Settings(table) /\ table' = table
      BY <1>5 DEF Reload
    <2>2. configJson' = Settings(table')
      BY <2>1
    <2> QED BY <2>2 DEF ConfigFollowsTable
  <1>6. CASE UNCHANGED configVars
    <2>1. UNCHANGED <<table, at, reloading, gaveUp, configJson>>
      BY <1>6 DEF configVars
    <2>2. Settings(table') = Settings(table)
      BY <2>1
    <2> QED BY <1>1, <2>1, <2>2 DEF ConfigFollowsTable
  <1>7. CASE ReloadFails
    BY <1>7 DEF ReloadFails, ConfigFollowsTable
  <1> QED BY <1>4, <1>5, <1>6, <1>7 DEF ConfigNext

(* Whatever handlers run at once, config.json differs from what the rows   *)
(* call for only while a reload is armed or about to be asked for, or when *)
(* the last one asked for has failed: every change of a row that matters   *)
(* to it is followed by a reload.                                          *)
THEOREM ConfigFollows == ConfigSpec => []ConfigFollowsTable
  BY FollowsInit, FollowsNext, ShapeInvariance, PTL DEF ConfigSpec

-----------------------------------------------------------------------------
(* A step leaves the state of a deleted row alone.                         *)
LEMMA DeletedStep ==
    ASSUME Shape, [ConfigNext]_configVars, NEW i \in Id, table[i].state = "deleted"
    PROVE  /\ table'[i].state = "deleted"
           /\ (\E s \in configJson' : s.id = i) => \E s \in configJson : s.id = i
  <1>1. ASSUME NEW h \in Handler, Handle(h)
        PROVE  table'[i].state = "deleted" /\ configJson' = configJson
    <2>1. CASE \E k \in Id : Create(h, k)
      BY <2>1, CreateStep DEF Shape
    <2>2. CASE \E k \in Id : \E op \in Op : Get(h, op, k)
      BY <2>2 DEF Get
    <2>3. CASE PatchUpdate(h)
      <3>1. configJson' = configJson
        BY <2>3, PatchUpdateStep
      <3>2. CASE table' = table
        BY <3>1, <3>2
      <3>3. ASSUME NEW data \in Payload,
                   table' = [table EXCEPT ![id[h]] = Updated(h, data)]
            PROVE  table'[i].state = "deleted"
        BY <3>3, UpdatedType DEF Shape
      <3> QED BY <2>3, <3>1, <3>2, <3>3, PatchUpdateStep
    <2>4. CASE PatchDelete(h)
      BY <2>4 DEF PatchDelete, Shape, Row
    <2>5. CASE PatchEnabled(h)
      BY <2>5 DEF PatchEnabled, Shape, Row
    <2>6. CASE AskReload(h)
      BY <2>6 DEF AskReload
    <2> QED BY <1>1, <2>1, <2>2, <2>3, <2>4, <2>5, <2>6 DEF Handle
  <1>2. CASE Reload
    <2>1. table' = table /\ configJson' = Settings(table)
      BY <1>2 DEF Reload
    <2>2. \A s \in Settings(table) : s.id # i
      BY DEF Settings
    <2> QED BY <2>1, <2>2
  <1>3. CASE ReloadFails \/ UNCHANGED configVars
    BY <1>3 DEF ReloadFails, configVars
  <1> QED BY <1>1, <1>2, <1>3 DEF ConfigNext

(* A row that is deleted stays deleted, and once out of config.json stays  *)
(* out, however many handlers had read it before (update, enable and       *)
(* disable patch by id, with no look at is_deleted).                       *)
THEOREM DeletedForGood == ConfigSpec => DeletedStaysDeleted
  <1>1. Shape /\ [ConfigNext]_configVars =>
          [\A i \in Id : table[i].state = "deleted" =>
             /\ table'[i].state = "deleted"
             /\ (\E s \in configJson' : s.id = i) => \E s \in configJson : s.id = i]_configVars
    BY DeletedStep
  <1> QED BY <1>1, ShapeInvariance, PTL DEF ConfigSpec, DeletedStaysDeleted

-----------------------------------------------------------------------------
(* The address ranges of the content networks (IpRanges).                  *)

FetchStep == [at: 0..ToReload, from: SUBSET Service]

RangesTyped ==
    /\ fetch \in FetchStep
    /\ rangesFile \in RangesList /\ rangesServed \in RangesList
    /\ fetches \in 0..MaxFetches
    /\ interval_processing \in BOOLEAN /\ (interval_processing <=> fetch.at # 0)
    /\ excuse \in {"none", "first", "refused", "unwritten", "crash"}

(* A fetch in flight has not counted yet, nor, before its last step, has   *)
(* it written.                                                             *)
FetchesCount ==
    /\ iteration_count \in Nat /\ writes_since_boot \in Nat
    /\ iteration_count <= fetches /\ writes_since_boot <= fetches
    /\ fetch.at # 0 => iteration_count < fetches
    /\ fetch.at \in 1..4 => writes_since_boot < fetches
    /\ fetch.at = 5 => iteration_count # 0
    /\ (iteration_count = 0 <=> writes_since_boot = 0)

(* But before the reload of a file, nginx serves it or there is an excuse. *)
ServedOrExcused ==
    excuse = "none" /\ fetch.at # 5 => rangesServed = rangesFile

RangesInv == RangesTyped /\ FetchesCount /\ ServedOrExcused

LEMMA FetchSteps ==
    /\ ToWrite = 4 /\ ToReload = 5 /\ DOMAIN Services = 1..3
    /\ \A i \in 1..3 : Services[i] \in Service
    /\ NoFetch \in FetchStep /\ NoFetch.at = 0
    /\ EmptyFile \in RangesList
  <1>1. Len(Services) = 3 /\ DOMAIN Services = 1..3
    BY DEF Services
  <1>2. EmptyFile \in RangesList
    BY FetchAssumption DEF EmptyFile, RangesList
  <1> QED BY <1>1, <1>2 DEF ToWrite, ToReload, Service, NoFetch, FetchStep

LEMMA RangesInvInit == RangesInit => RangesInv
  <1> SUFFICES ASSUME RangesInit PROVE RangesInv
    OBVIOUS
  <1>1. rangesFile \in RangesList /\ rangesServed \in RangesList /\ rangesServed = rangesFile
    BY FetchSteps DEF RangesInit
  <1>2. fetch \in FetchStep /\ fetch.at = 0
    BY FetchSteps DEF RangesInit
  <1>3. RangesTyped
    <2>1. interval_processing = FALSE /\ fetches \in 0..MaxFetches
      BY FetchAssumption DEF RangesInit
    <2>2. excuse = "none"
      BY DEF RangesInit
    <2> QED BY <1>1, <1>2, <2>1, <2>2 DEF RangesTyped
  <1>4. FetchesCount
    BY <1>2 DEF RangesInit, FetchesCount
  <1>5. ServedOrExcused
    BY <1>1 DEF ServedOrExcused
  <1> QED BY <1>3, <1>4, <1>5 DEF RangesInv

LEMMA RangesTypedNext == RangesInv /\ [RangesNext]_rangesVars => RangesTyped'
  <1> SUFFICES ASSUME RangesInv, [RangesNext]_rangesVars PROVE RangesTyped'
    OBVIOUS
  <1> USE FetchSteps, FetchAssumption DEF RangesInv, RangesTyped
  <1>1. CASE FetchRanges
    <2>1. fetch' \in FetchStep /\ fetch'.at = 1
      BY <1>1 DEF FetchRanges, FetchStep
    <2> QED BY <1>1, <2>1 DEF FetchRanges
  <1>2. CASE ServiceAnswers
    <2>1. PICK got \in {{}, {Services[fetch.at]}} :
             fetch' = [at |-> fetch.at + 1, from |-> fetch.from \cup got]
      BY <1>2 DEF ServiceAnswers
    <2>2. fetch.at \in 1..3 /\ fetch.from \subseteq Service
      BY <1>2 DEF ServiceAnswers, FetchStep
    <2>3. fetch'.at # 0 /\ fetch' \in FetchStep
      BY <2>1, <2>2 DEF FetchStep
    <2> QED BY <1>2, <2>2, <2>3 DEF ServiceAnswers
  <1>3. CASE FetchFails \/ WriteRangesFails
    BY <1>3 DEF FetchFails, WriteRangesFails, EndFetch
  <1>4. CASE GenerateRanges
    <2>1. /\ rangesFile' \in RangesList /\ UNCHANGED <<fetches, rangesServed>>
      BY <1>4 DEF GenerateRanges, RangesList, FetchStep
    <2>2. excuse' \in {"none", "first"} /\ fetch.at = 4
      BY <1>4 DEF GenerateRanges
    <2>3. CASE iteration_count = 0
      BY <1>4, <2>1, <2>2, <2>3 DEF GenerateRanges, EndFetch
    <2>4. CASE iteration_count # 0
      <3>1. fetch' = [fetch EXCEPT !.at = 5] /\ UNCHANGED interval_processing
        BY <1>4, <2>4 DEF GenerateRanges
      <3>2. fetch' \in FetchStep /\ fetch'.at = 5
        BY <3>1 DEF FetchStep
      <3> QED BY <2>1, <2>2, <3>1, <3>2
    <2> QED BY <2>3, <2>4
  <1>5. CASE ReloadRanges
    BY <1>5 DEF ReloadRanges, EndFetch
  <1>6. CASE OtherReload
    BY <1>6 DEF OtherReload
  <1>7. CASE BackendRestarts
    BY <1>7 DEF BackendRestarts
  <1>8. CASE UNCHANGED rangesVars
    BY <1>8 DEF rangesVars
  <1> QED BY <1>1, <1>2, <1>3, <1>4, <1>5, <1>6, <1>7, <1>8 DEF RangesNext

LEMMA FetchesCountNext == RangesInv /\ [RangesNext]_rangesVars => FetchesCount'
  <1> SUFFICES ASSUME RangesInv, [RangesNext]_rangesVars PROVE FetchesCount'
    OBVIOUS
  <1> USE FetchSteps DEF FetchesCount
  <1>1. /\ fetches \in Nat /\ iteration_count \in Nat /\ writes_since_boot \in Nat
        /\ (interval_processing <=> fetch.at # 0) /\ fetch.at \in 0..5
    BY FetchAssumption DEF RangesInv, RangesTyped, FetchStep
  <1>2. CASE FetchRanges
    <2>1. fetch'.at = 1
      BY <1>2 DEF FetchRanges
    <2> QED BY <1>1, <1>2, <2>1 DEF FetchRanges, RangesInv
  <1>3. CASE ServiceAnswers
    <2>1. fetch.at \in 1..3 /\ fetch'.at = fetch.at + 1
      BY <1>3 DEF ServiceAnswers
    <2> QED BY <1>1, <1>3, <2>1 DEF ServiceAnswers, RangesInv
  <1>4. CASE FetchFails \/ WriteRangesFails
    BY <1>1, <1>4 DEF FetchFails, WriteRangesFails, EndFetch, RangesInv
  <1>5. CASE GenerateRanges
    <2>1. /\ fetch.at = 4 /\ UNCHANGED fetches
          /\ writes_since_boot' = writes_since_boot + 1
      BY <1>5 DEF GenerateRanges
    <2>2. CASE iteration_count = 0
      BY <1>1, <1>5, <2>1, <2>2 DEF GenerateRanges, EndFetch, RangesInv
    <2>3. CASE iteration_count # 0
      <3>1. fetch'.at = 5 /\ UNCHANGED iteration_count
        BY <1>5, <2>3 DEF GenerateRanges, RangesInv, RangesTyped, FetchStep
      <3> QED BY <1>1, <2>1, <2>3, <3>1 DEF RangesInv
    <2> QED BY <2>2, <2>3
  <1>6. CASE ReloadRanges
    <2>1. fetch.at = 5 /\ fetch'.at = 0 /\ UNCHANGED <<fetches, writes_since_boot>>
      BY <1>6 DEF ReloadRanges, EndFetch
    <2>2. iteration_count' \in {iteration_count, iteration_count + 1}
      BY <1>6 DEF ReloadRanges
    <2> QED BY <1>1, <2>1, <2>2 DEF RangesInv
  <1>7. CASE OtherReload
    BY <1>7 DEF OtherReload, RangesInv
  <1>8. CASE BackendRestarts
    BY <1>1, <1>8 DEF BackendRestarts
  <1>9. CASE UNCHANGED rangesVars
    BY <1>9 DEF rangesVars, RangesInv
  <1> QED BY <1>2, <1>3, <1>4, <1>5, <1>6, <1>7, <1>8, <1>9 DEF RangesNext

LEMMA ServedOrExcusedNext == RangesInv /\ [RangesNext]_rangesVars => ServedOrExcused'
  <1> SUFFICES ASSUME RangesInv, [RangesNext]_rangesVars PROVE ServedOrExcused'
    OBVIOUS
  <1> USE FetchSteps DEF ServedOrExcused
  <1>1. ServedOrExcused /\ fetch \in FetchStep /\ (~interval_processing => fetch.at = 0)
    BY DEF RangesInv, RangesTyped
  <1>2. CASE FetchRanges
    BY <1>1, <1>2 DEF FetchRanges
  <1>3. CASE ServiceAnswers
    <2>1. fetch.at # 5
      BY <1>3 DEF ServiceAnswers
    <2> QED BY <1>1, <1>3, <2>1 DEF ServiceAnswers
  <1>4. CASE FetchFails \/ WriteRangesFails
    BY <1>1, <1>4 DEF FetchFails, WriteRangesFails
  <1>5. CASE GenerateRanges
    <2>1. CASE iteration_count = 0
      <3>1. writes_since_boot = 0
        BY <2>1 DEF RangesInv, FetchesCount
      <3> QED BY <1>5, <3>1 DEF GenerateRanges
    <2>2. CASE iteration_count # 0
      <3>1. fetch'.at = 5
        BY <1>1, <1>5, <2>2 DEF GenerateRanges, FetchStep
      <3> QED BY <3>1
    <2> QED BY <2>1, <2>2
  <1>6. CASE ReloadRanges
    BY <1>6 DEF ReloadRanges
  <1>7. CASE OtherReload
    BY <1>7 DEF OtherReload
  <1>8. CASE BackendRestarts
    BY <1>1, <1>8 DEF BackendRestarts
  <1>9. CASE UNCHANGED rangesVars
    BY <1>1, <1>9 DEF rangesVars
  <1> QED BY <1>2, <1>3, <1>4, <1>5, <1>6, <1>7, <1>8, <1>9 DEF RangesNext

LEMMA RangesInvAlways == RangesSpec => []RangesInv
  <1>1. RangesInv /\ [RangesNext]_rangesVars => RangesInv'
    BY RangesTypedNext, FetchesCountNext, ServedOrExcusedNext DEF RangesInv
  <1> QED BY <1>1, RangesInvInit, PTL DEF RangesSpec

(* Type correctness; each fetch counts, and is written, at most once.      *)
THEOREM RangesTypeCorrect == RangesSpec => []RangesTypeOK
  <1>1. RangesInv => RangesTypeOK
    BY FetchAssumption DEF RangesInv, RangesTyped, FetchesCount, RangesTypeOK, FetchStep
  <1> QED BY <1>1, RangesInvAlways, PTL

(* Between fetches nginx has the ranges of the file, with the exceptions   *)
(* that `excuse` records, whichever services fail.                         *)
THEOREM RangesAreApplied == RangesSpec => []RangesApplied
  <1>1. RangesInv => RangesApplied
    BY DEF RangesInv, RangesTyped, ServedOrExcused, RangesApplied
  <1> QED BY <1>1, RangesInvAlways, PTL

-----------------------------------------------------------------------------
(* The migration to the table of DDNS rows (LegacyMigration).              *)

(* The rows the new table is to have, named by their row and domain.       *)
Due == {due \in LiveRows \X Domain : due[2] \in AllDomains(due[1])}

MigrationTyped ==
    /\ transactional \in BOOLEAN /\ migrated \in BOOLEAN /\ failed \in BOOLEAN
    /\ legacy \in [Legacy -> [lists: SUBSET (Column \X Domain), is_deleted: BOOLEAN]]
    /\ ddns_configs \in Seq(Config)
    /\ migrating \in {"start", "copying", "copied", "done"}
    /\ todo \subseteq Due

(* Exactly what is due and not left to be inserted is there, once.         *)
OneEach ==
    \A r \in Legacy, d \in Domain :
        IF <<r, d>> \in Due \ todo
        THEN \E i \in DOMAIN ddns_configs : Copies(r, d) = {i}
        ELSE Copies(r, d) = {}

(* An attempt that starts finds nothing, unless statements of an earlier   *)
(* one are still there; from then on every due row is in the new table or  *)
(* among those left.                                                       *)
CleanCopy ==
    transactional \/ ~failed =>
        IF migrating = "start" THEN ~migrated /\ ddns_configs = << >> ELSE OneEach

MigrationInv ==
    /\ MigrationTyped
    /\ dropped \in BOOLEAN /\ (dropped <=> migrating = "done")
    /\ migrating # "copying" => todo = {}
    /\ CleanCopy

LEMMA DueOrNot ==
    /\ Due \subseteq Legacy \X Domain
    /\ \A r \in Legacy, d \in Domain :
          <<r, d>> \in Due <=>
              ~legacy[r].is_deleted /\ (\E c \in Column : Lists(r, c, d))
  BY DEF Due, LiveRows, AllDomains

LEMMA MigratedTyped ==
    ASSUME NEW r \in Legacy, NEW d \in Domain
    PROVE  /\ Migrated(r, d) \in Config
           /\ Migrated(r, d).row = r /\ Migrated(r, d).domain = d
  <1> DEFINE proxied == Lists(r, "domains", d)
             ip_version == IF Lists(r, "ip6_domains", d) /\ ~Lists(r, "ip4_domains", d)
                           THEN "ipv6" ELSE "ipv4"
  <1>1. proxied \in BOOLEAN
    BY DEF Lists
  <1>2. ip_version \in {"ipv4", "ipv6"}
    OBVIOUS
  <1>3. Migrated(r, d) = [row |-> r, domain |-> d, ip_version |-> ip_version,
                          proxied |-> proxied]
    BY DEF Migrated
  <1> HIDE DEF proxied, ip_version
  <1> QED BY <1>1, <1>2, <1>3 DEF Config

LEMMA MigrationInvInit == MigrationInit => MigrationInv
  <1> SUFFICES ASSUME MigrationInit PROVE MigrationInv
    OBVIOUS
  <1>1. legacy \in [Legacy -> [lists: SUBSET (Column \X Domain), is_deleted: BOOLEAN]]
    <2>1. PICK some \in {s \in SUBSET Listings : Cardinality(s) <= MaxListings},
               gone \in SUBSET Legacy :
             legacy = [r \in Legacy |->
                         [lists |-> {l \in Column \X Domain : <<r, l[1], l[2]>> \in some},
                          is_deleted |-> r \in gone]]
      BY DEF MigrationInit
    <2>2. ASSUME NEW r \in Legacy
          PROVE  [lists |-> {l \in Column \X Domain : <<r, l[1], l[2]>> \in some},
                  is_deleted |-> r \in gone]
                     \in [lists: SUBSET (Column \X Domain), is_deleted: BOOLEAN]
      <3> DEFINE lists == {l \in Column \X Domain : <<r, l[1], l[2]>> \in some}
                 dead == r \in gone
      <3>1. lists \in SUBSET (Column \X Domain) /\ dead \in BOOLEAN
        OBVIOUS
      <3> HIDE DEF lists, dead
      <3>2. [lists |-> lists, is_deleted |-> dead]
               \in [lists: SUBSET (Column \X Domain), is_deleted: BOOLEAN]
        BY <3>1
      <3> QED BY <3>2 DEF lists, dead
    <2> QED BY <2>1, <2>2
  <1>2. /\ transactional \in BOOLEAN /\ migrated = FALSE /\ failed = FALSE
        /\ migrating = "start" /\ todo = {} /\ ddns_configs = << >>
    BY DEF MigrationInit
  <1>3. MigrationTyped
    <2>1. ddns_configs \in Seq(Config)
      BY <1>2
    <2>2. todo \subseteq Due
      BY <1>2
    <2> QED BY <1>1, <1>2, <2>1, <2>2 DEF MigrationTyped
  <1> QED BY <1>2, <1>3 DEF MigrationInit, MigrationInv, CleanCopy

LEMMA StartMigrationStep == MigrationInv /\ StartMigration => MigrationInv'
  <1> SUFFICES ASSUME MigrationInv, StartMigration PROVE MigrationInv'
    OBVIOUS
  <1>1. /\ migrating = "start" /\ todo = {}
        /\ UNCHANGED <<transactional, legacy, dropped, ddns_configs, failed>>
    BY DEF StartMigration, MigrationInv
  <1>2. Due' = Due
    BY <1>1 DEF Due, LiveRows, AllDomains, Lists
  <1>3. CASE migrated \/ ddns_configs # << >>
    <2>1. migrated' = TRUE /\ migrating' = "copied" /\ todo' = {}
      BY <1>1, <1>3 DEF StartMigration
    <2>2. ~(transactional \/ ~failed)
      BY <1>1, <1>3 DEF MigrationInv, CleanCopy
    <2> QED BY <1>1, <2>1, <2>2 DEF MigrationInv, MigrationTyped, CleanCopy
  <1>4. CASE ~(migrated \/ ddns_configs # << >>)
    <2>1. migrated' = migrated /\ migrating' = "copying" /\ todo' = Due
      BY <1>1, <1>4 DEF StartMigration, Due
    <2>2. OneEach'
      BY <1>1, <1>2, <1>4, <2>1 DEF OneEach, Copies
    <2>3. MigrationTyped'
      BY <1>1, <1>2, <2>1 DEF MigrationInv, MigrationTyped
    <2> QED BY <1>1, <2>1, <2>2, <2>3 DEF MigrationInv, CleanCopy
  <1> QED BY <1>3, <1>4

LEMMA InsertConfigStep == MigrationInv /\ InsertConfig => MigrationInv'
  <1> SUFFICES ASSUME MigrationInv, InsertConfig PROVE MigrationInv'
    OBVIOUS
  <1>1. /\ migrating = "copying"
        /\ UNCHANGED <<transactional, legacy, dropped, migrated, migrating, failed>>
    BY DEF InsertConfig
  <1>2. PICK next \in todo :
           /\ ddns_configs' = Append(ddns_configs, Migrated(next[1], next[2]))
           /\ todo' = todo \ {next}
    BY DEF InsertConfig
  <1>3. Due' = Due
    BY <1>1 DEF Due, LiveRows, AllDomains, Lists
  <1>4. next \in Due /\ next \in Legacy \X Domain
    BY DueOrNot DEF MigrationInv, MigrationTyped
  <1>5. PICK row \in Legacy, domain \in Domain : next = <<row, domain>>
    BY <1>4
  <1> DEFINE new == Migrated(row, domain)
  <1>6. new \in Config /\ new.row = row /\ new.domain = domain
    BY MigratedTyped
  <1>7. ddns_configs' = Append(ddns_configs, new)
    BY <1>2, <1>5
  <1> HIDE DEF new
  <1>8. MigrationTyped'
    BY <1>1, <1>2, <1>3, <1>6, <1>7 DEF MigrationInv, MigrationTyped
  <1>9. ASSUME OneEach PROVE OneEach'
    <2> SUFFICES ASSUME NEW r \in Legacy, NEW d \in Domain
                 PROVE  IF <<r, d>> \in Due \ todo'
                        THEN \E i \in DOMAIN ddns_configs' : Copies(r, d)' = {i}
                        ELSE Copies(r, d)' = {}
      BY <1>3 DEF OneEach
    <2>1. /\ ddns_configs \in Seq(Config) /\ DOMAIN ddns_configs = 1..Len(ddns_configs)
          /\ Len(ddns_configs) \in Nat
          /\ DOMAIN ddns_configs' = 1..(Len(ddns_configs) + 1)
          /\ ddns_configs'[Len(ddns_configs) + 1] = new
          /\ \A i \in DOMAIN ddns_configs : ddns_configs'[i] = ddns_configs[i]
      BY <1>6, <1>7 DEF MigrationInv, MigrationTyped
    <2>2. CASE <<r, d>> = next
      <3>1. r = row /\ d = domain /\ <<r, d>> \in Due \ todo' /\ <<r, d>> \notin Due \ todo
        BY <2>2, <1>2, <1>4, <1>5
      <3>2. Copies(r, d) = {}
        BY <3>1, <1>9 DEF OneEach
      <3>3. Copies(r, d)' = {Len(ddns_configs) + 1}
        BY <2>1, <3>1, <3>2, <1>6 DEF Copies
      <3> QED BY <2>1, <3>1, <3>3
    <2>3. CASE <<r, d>> # next
      <3>1. r # row \/ d # domain
        BY <2>3, <1>5
      <3>2. Copies(r, d)' = Copies(r, d)
        BY <2>1, <3>1, <1>6 DEF Copies
      <3>3. <<r, d>> \in Due \ todo' <=> <<r, d>> \in Due \ todo
        BY <2>3, <1>2
      <3> QED BY <2>1, <3>2, <3>3, <1>9 DEF OneEach
    <2> QED BY <2>2, <2>3
  <1> QED BY <1>1, <1>8, <1>9 DEF MigrationInv, CleanCopy

LEMMA OtherMigrationSteps ==
    MigrationInv /\ (RecordMigration \/ DropLegacy \/ UNCHANGED migrationVars)
        => MigrationInv'
  <1> SUFFICES ASSUME MigrationInv,
                      RecordMigration \/ DropLegacy \/ UNCHANGED migrationVars
               PROVE  MigrationInv'
    OBVIOUS
  <1>1. UNCHANGED <<transactional, legacy, ddns_configs, failed, todo>>
    BY DEF RecordMigration, DropLegacy, migrationVars
  <1>2. Due' = Due /\ OneEach' = OneEach
    BY <1>1 DEF Due, LiveRows, AllDomains, Lists, OneEach, Copies
  <1>3. CASE RecordMigration
    BY <1>1, <1>2, <1>3 DEF RecordMigration, MigrationInv, MigrationTyped, CleanCopy
  <1>4. CASE DropLegacy
    BY <1>1, <1>2, <1>4 DEF DropLegacy, MigrationInv, MigrationTyped, CleanCopy
  <1>5. CASE UNCHANGED migrationVars
    BY <1>1, <1>2, <1>5 DEF migrationVars, MigrationInv, MigrationTyped, CleanCopy
  <1> QED BY <1>3, <1>4, <1>5

LEMMA MigrationFailsStep == MigrationInv /\ MigrationFails => MigrationInv'
  <1> SUFFICES ASSUME MigrationInv, MigrationFails PROVE MigrationInv'
    OBVIOUS
  <1>1. /\ migrating' = "start" /\ todo' = {} /\ failed' = TRUE
        /\ UNCHANGED <<transactional, legacy, dropped>>
        /\ migrating \in {"copying", "copied"}
    BY DEF MigrationFails
  <1>2. CASE transactional
    <2>1. ddns_configs' = << >> /\ migrated' = FALSE
      BY <1>2 DEF MigrationFails
    <2>2. ddns_configs' \in Seq(Config) /\ todo' \subseteq Due'
      BY <1>1, <2>1
    <2>3. MigrationTyped'
      BY <1>1, <2>1, <2>2 DEF MigrationInv, MigrationTyped
    <2> QED BY <1>1, <2>1, <2>3 DEF MigrationInv, CleanCopy
  <1>3. CASE ~transactional
    BY <1>1, <1>3 DEF MigrationFails, MigrationInv, MigrationTyped, CleanCopy
  <1> QED BY <1>2, <1>3

LEMMA MigrationInvAlways == MigrationSpec => []MigrationInv
  <1>1. MigrationInv /\ [MigrationNext]_migrationVars => MigrationInv'
    BY StartMigrationStep, InsertConfigStep, OtherMigrationSteps, MigrationFailsStep
       DEF MigrationNext
  <1> QED BY <1>1, MigrationInvInit, PTL DEF MigrationSpec

(* Type correctness: only domains of the old rows are ever inserted.       *)
THEOREM MigrationTypeCorrect == MigrationSpec => []MigrationTypeOK
  <1>1. MigrationInv => MigrationTypeOK
    BY DueOrNot DEF MigrationInv, MigrationTyped, MigrationTypeOK
  <1> QED BY <1>1, MigrationInvAlways, PTL

(* When the old table is dropped, every domain of each of its live rows    *)
(* has exactly one row in the new one and no other domain has, after any   *)
(* number of attempts that the database takes back.                        *)
THEOREM LegacyIsPreserved == MigrationSpec => []LegacyPreserved
  <1>1. MigrationInv => LegacyPreserved
    <2> SUFFICES ASSUME MigrationInv, dropped, transactional \/ ~failed,
                        NEW r \in Legacy, NEW d \in Domain
                 PROVE  Cardinality(Copies(r, d)) =
                          IF ~legacy[r].is_deleted /\ (\E c \in Column : Lists(r, c, d))
                          THEN 1 ELSE 0
      BY DEF LegacyPreserved
    <2>1. OneEach /\ todo = {}
      BY DEF MigrationInv, CleanCopy
    <2>2. CASE <<r, d>> \in Due
      <3>1. \E i \in DOMAIN ddns_configs : Copies(r, d) = {i}
        BY <2>1, <2>2 DEF OneEach
      <3> QED BY <2>2, <3>1, DueOrNot, FS_Singleton
    <2>3. CASE <<r, d>> \notin Due
      <3>1. Copies(r, d) = {}
        BY <2>1, <2>3 DEF OneEach
      <3> QED BY <2>3, <3>1, DueOrNot, FS_EmptySet
    <2> QED BY <2>2, <2>3
  <1> QED BY <1>1, MigrationInvAlways, PTL

-----------------------------------------------------------------------------
(* The five parts together (Records).                                      *)

(* A behaviour of any part is, for each of the five, one of its own or one *)
(* at rest, so what is proved of the parts holds of what is checked.       *)
THEOREM PartsAreKept ==
    Spec => /\ ConfigSpec /\ StatusSpec /\ AccountSpec /\ MigrationSpec /\ RangesSpec
  <1>1. Init => ConfigInit /\ StatusInit /\ AccountInit /\ MigrationInit /\ RangesInit
    BY DEF Init
  <1>2. [Next]_vars =>
           /\ [ConfigNext]_configVars /\ [StatusNext]_statusVars
           /\ [AccountNext]_accountVars /\ [MigrationNext]_migrationVars
           /\ [RangesNext]_rangesVars
    BY DEF Next, vars
  <1> QED BY <1>1, <1>2, PTL
          DEF Spec, ConfigSpec, StatusSpec, AccountSpec, MigrationSpec, RangesSpec

(* Whatever the part, every record keeps its type.                         *)
THEOREM RecordsTypeCorrect == Spec => []TypeOK
  <1>1. ConfigTypeOK /\ StatusTypeOK /\ AccountTypeOK /\ MigrationTypeOK /\ RangesTypeOK
          => TypeOK
    BY DEF TypeOK
  <1> QED BY <1>1, PartsAreKept, ConfigTypeCorrect, StatusTypeCorrect, AccountTypeCorrect,
             MigrationTypeCorrect, RangesTypeCorrect, PTL
=============================================================================
