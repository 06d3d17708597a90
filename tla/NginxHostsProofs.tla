-------------------------- MODULE NginxHostsProofs --------------------------
(***************************************************************************)
(* Proofs about NginxHosts, for any hosts, handlers and configurations.    *)
(***************************************************************************)
EXTENDS NginxHosts, TLAPS

(* A row asks for a configuration exactly while it is live.                *)
RowOK(row) == row \in Row /\ (row.state = "live" <=> row.config # NoFile)

(* A request that is about to write a file holds what to write; enable and *)
(* the update of a dead host hold it from their first step on.             *)
Early(op, i) == op = "enable" \/ (op = "update" /\ i \in Dead)

JobOK(j) ==
    /\ j \in Job
    /\ j.at \in {"test", "write", "retest", "online", "offline"} =>
          j.seen \in Content
    /\ j.at \in {"patch", "refetch"} /\ Early(j.op, j.host) => j.seen \in Content

TypeInv ==
    /\ table \in [Host -> Row] /\ \A i \in Host : RowOK(table[i])
    /\ files \in [Host -> Content \cup {NoFile}]
    /\ loaded \in [Host -> Content \cup {NoFile}]
    /\ signalled \in BOOLEAN
    /\ erasing \in [Host -> 0..2]
    /\ job \in [Handler -> Job] /\ \A h \in Handler : JobOK(job[h])
    /\ answer \in [Host -> Op \cup {"none"}]
    /\ requests \in 0..MaxRequests

LEMMA TypeInvImplies == TypeInv => TypeOK
  BY DEF TypeInv, TypeOK, RowOK, JobOK, Holds

(* What a request leaves behind when it is answered.                       *)
LEMMA IdleJob == JobOK(Idle) /\ Idle.at = "idle"
  BY HostsAssumption DEF Idle, JobOK, Job, Step, Op, Early

LEMMA FixedRows == RowOK(NoRow) /\ RowOK(Deleted) /\ RowOK(Congratulations)
  BY HostsAssumption DEF NoRow, Deleted, Congratulations, RowOK, Row, Content

LEMMA TypeInit == Init => TypeInv
  <1> SUFFICES ASSUME Init PROVE TypeInv
    OBVIOUS
  <1> USE DEF Init
  <1>1. table \in [Host -> Row] /\ \A i \in Host : RowOK(table[i])
    BY FixedRows DEF RowOK
  <1>2. job \in [Handler -> Job] /\ \A h \in Handler : JobOK(job[h])
    BY IdleJob DEF JobOK
  <1>3. requests \in 0..MaxRequests
    BY HostsAssumption
  <1>4. files \in [Host -> Content \cup {NoFile}] /\ loaded \in [Host -> Content \cup {NoFile}]
    OBVIOUS
  <1>5. erasing \in [Host -> 0..2] /\ answer \in [Host -> Op \cup {"none"}]
    OBVIOUS
  <1> QED BY <1>1, <1>2, <1>3, <1>4, <1>5 DEF TypeInv

-----------------------------------------------------------------------------
(* The types a step keeps in the request's own state...                    *)
JobTypes ==
    /\ job \in [Handler -> Job] /\ \A h \in Handler : JobOK(job[h])
    /\ answer \in [Host -> Op \cup {"none"}]
    /\ requests \in 0..MaxRequests

(* A request keeps its operation, its host and what it holds as it goes on.*)
LEMMA GotoTypes ==
    ASSUME TypeInv, NEW h \in Handler, NEW at \in Step, Goto(h, at),
           at \in {"test", "write", "retest", "online", "offline"} =>
               job[h].seen \in Content,
           at \in {"patch", "refetch"} =>
               job[h].at = "patch" /\ job[h].op # "enable"
    PROVE  JobTypes'
  <1>1. job' = [job EXCEPT ![h] = [job[h] EXCEPT !.at = at]]
    BY DEF Goto, TypeInv
  <1>2. JobOK([job[h] EXCEPT !.at = at])
    BY DEF TypeInv, JobOK, Job, Early
  <1>3. job' \in [Handler -> Job]
    BY <1>1, <1>2 DEF TypeInv, JobOK
  <1>4. \A k \in Handler : JobOK(job'[k])
    BY <1>1, <1>2 DEF TypeInv
  <1> QED BY <1>3, <1>4 DEF JobTypes, TypeInv, Goto

LEMMA AnsweredTypes ==
    ASSUME TypeInv, NEW h \in Handler, Succeed(h) \/ End(h)
    PROVE  JobTypes'
  <1>1. job' = [job EXCEPT ![h] = Idle] /\ requests' = requests
    BY DEF Succeed, End
  <1>2. job' \in [Handler -> Job] /\ \A k \in Handler : JobOK(job'[k])
    BY <1>1, IdleJob DEF TypeInv, JobOK
  <1>3. job[h].op \in Op
    BY DEF TypeInv, Job
  <1>4. answer' \in [Host -> Op \cup {"none"}]
    BY <1>3 DEF Succeed, End, TypeInv
  <1> QED BY <1>1, <1>2, <1>4 DEF JobTypes, TypeInv

LEMMA OneJobTypes ==
    ASSUME TypeInv, NEW h \in Handler, NEW new, JobOK(new),
           job' = [job EXCEPT ![h] = new], UNCHANGED <<answer, requests>>
    PROVE  JobTypes'
  BY DEF TypeInv, JobTypes, JobOK

(* A request is given what it is to write ...                              *)
LEMMA GivenTypes ==
    ASSUME TypeInv, NEW h \in Handler, NEW at \in {"test", "write"},
           NEW seen \in Content,
           job' = [job EXCEPT ![h].at = at, ![h].seen = seen],
           UNCHANGED <<answer, requests>>
    PROVE  JobTypes'
  <1> DEFINE new == [job[h] EXCEPT !.at = at, !.seen = seen]
  <1>1. job[h] \in Job
    BY DEF TypeInv
  <1>2. new \in Job /\ new.at = at /\ new.seen = seen
    BY <1>1 DEF Job, Step
  <1>3. job' = [job EXCEPT ![h] = new]
    BY DEF TypeInv
  <1> HIDE DEF new
  <1>4. JobOK(new)
    BY <1>2 DEF JobOK
  <1> QED BY <1>3, <1>4, OneJobTypes

(* ... or gives up, as the update of the default site does in its own way. *)
LEMMA GiveUpTypes ==
    ASSUME TypeInv, NEW h \in Handler, GiveUp(h)
    PROVE  JobTypes' /\ files' \in [Host -> Content \cup {NoFile}]
  <1> DEFINE new == [job[h] EXCEPT !.at = "undo", !.op = "undo"]
  <1>1. job[h] \in Job
    BY DEF TypeInv
  <1>2. new \in Job /\ new.at = "undo"
    BY <1>1 DEF Job, Step, Op
  <1>3. job' = [job EXCEPT ![h] = new]
    BY DEF GiveUp, TypeInv
  <1>4. files' \in [Host -> Content \cup {NoFile}]
    BY <1>1 DEF GiveUp, TypeInv, Job
  <1> HIDE DEF new
  <1>5. JobOK(new)
    BY <1>2 DEF JobOK
  <1>6. UNCHANGED <<answer, requests>>
    BY DEF GiveUp
  <1> QED BY <1>3, <1>4, <1>5, <1>6, OneJobTypes

LEMMA FailsTypes ==
    ASSUME TypeInv, NEW h \in Handler, Fails(h)
    PROVE  JobTypes' /\ files' \in [Host -> Content \cup {NoFile}]
  <1>1. CASE GiveUp(h)
    BY <1>1, GiveUpTypes
  <1>2. CASE End(h) /\ UNCHANGED files
    <2>1. files' \in [Host -> Content \cup {NoFile}]
      BY <1>2 DEF TypeInv
    <2> QED BY <1>2, <2>1, AnsweredTypes
  <1> QED BY <1>1, <1>2 DEF Fails

LEMMA BeginTypes ==
    ASSUME TypeInv, NEW h \in Handler, NEW op \in Op, NEW i \in Host,
           NEW at \in {"patch", "refetch"}, NEW seen \in Content \cup {NoFile},
           Early(op, i) => seen \in Content,
           Begin(h, op, i, at, seen)
    PROVE  JobTypes'
  <1> DEFINE new == [at |-> at, op |-> op, host |-> i, seen |-> seen,
                     met |-> BusyOn(i)]
  <1>1. JobOK(new)
    <2>1. BusyOn(i) \in SUBSET Handler
      BY DEF BusyOn
    <2> QED BY <2>1 DEF JobOK, Job, Step, Early
  <1>2. ASSUME NEW k \in Handler PROVE JobOK([job[k] EXCEPT !.met = @ \cup {h}])
    BY <1>2 DEF TypeInv, JobOK, Job, Early
  <1>3. \A k \in Handler : JobOK(job[k])
    BY DEF TypeInv
  <1>4. ASSUME NEW k \in Handler PROVE JobOK(job'[k])
    <2>1. job'[k] = CASE k = h -> new
                      [] k \in BusyOn(i) -> [job[k] EXCEPT !.met = @ \cup {h}]
                      [] OTHER -> job[k]
      BY DEF Begin
    <2>2. job'[k] \in {new, [job[k] EXCEPT !.met = @ \cup {h}], job[k]}
      BY <2>1
    <2> HIDE DEF new
    <2> QED BY <2>2, <1>1, <1>2, <1>3
  <1>5. job' \in [Handler -> Job]
    <2> DEFINE f(k) == CASE k = h -> new
                         [] k \in BusyOn(i) -> [job[k] EXCEPT !.met = @ \cup {h}]
                         [] OTHER -> job[k]
    <2>1. job' = [k \in Handler |-> f(k)]
      BY DEF Begin
    <2>2. \A k \in Handler : job'[k] \in Job
      BY <1>4 DEF JobOK
    <2> HIDE DEF f
    <2> QED BY <2>1, <2>2
  <1>6. requests' \in 0..MaxRequests /\ answer' \in [Host -> Op \cup {"none"}]
    BY HostsAssumption DEF Begin, TypeInv
  <1> QED BY <1>4, <1>5, <1>6 DEF JobTypes

(* ... and in the table.                                                   *)
LEMMA PatchedTypes ==
    ASSUME TypeInv, NEW i \in Host, NEW row, Live(i) => RowOK(row),
           table' = Patched(i, row)
    PROVE  table' \in [Host -> Row] /\ \A k \in Host : RowOK(table'[k])
  BY DEF Patched, TypeInv, RowOK

(* The types of the variables that no request holds.                       *)
SystemTypes ==
    /\ table \in [Host -> Row] /\ \A i \in Host : RowOK(table[i])
    /\ files \in [Host -> Content \cup {NoFile}]
    /\ loaded \in [Host -> Content \cup {NoFile}]
    /\ signalled \in BOOLEAN
    /\ erasing \in [Host -> 0..2]

LEMMA TypeParts ==
    /\ TypeInv <=> JobTypes /\ SystemTypes
    /\ TypeInv' <=> JobTypes' /\ SystemTypes'
  BY DEF TypeInv, JobTypes, SystemTypes

LEMMA JobFields ==
    ASSUME TypeInv, NEW h \in Handler
    PROVE  /\ job[h].host \in Host /\ job[h].op \in Op
           /\ RowOK(table[job[h].host])
           /\ (At(h, "patch") \/ At(h, "refetch")) /\ Early(job[h].op, job[h].host) =>
                 job[h].seen \in Content
           /\ Holds(h) => job[h].seen \in Content
  BY DEF TypeInv, JobOK, Job, At, Holds

LEMMA PatchTypes ==
    ASSUME TypeInv, NEW h \in Handler,
           PatchUpdate(h) \/ PatchEnable(h) \/ PatchDisable(h)
    PROVE  TypeInv'
  <1> DEFINE i == job[h].host
             Typed == table' \in [Host -> Row] /\ \A k \in Host : RowOK(table'[k])
  <1>1. i \in Host /\ RowOK(table[i])
    BY JobFields
  <1>2. CASE PatchUpdate(h)
    <2>1. PICK c \in Content, e \in BOOLEAN :
              table' = Patched(i, [table[i] EXCEPT !.config = c, !.enabled = e])
      BY <1>2 DEF PatchUpdate
    <2>2. Live(i) => RowOK([table[i] EXCEPT !.config = c, !.enabled = e])
      BY <1>1, HostsAssumption DEF Live, RowOK, Row, Content
    <2>3. Typed
      BY <1>1, <2>1, <2>2, PatchedTypes
    <2>4. JobTypes'
      BY <1>2, GotoTypes DEF PatchUpdate, Step, At
    <2> QED BY <1>2, <2>3, <2>4, TypeParts DEF PatchUpdate, SystemTypes
  <1>3. CASE PatchEnable(h)
    <2>1. Live(i) => RowOK([table[i] EXCEPT !.enabled = TRUE])
      BY <1>1 DEF RowOK, Row
    <2>2. Typed
      BY <1>1, <1>3, <2>1, PatchedTypes DEF PatchEnable
    <2>3. JobTypes'
      BY <1>3, GotoTypes, JobFields DEF PatchEnable, Step, Early
    <2> QED BY <1>3, <2>2, <2>3, TypeParts DEF PatchEnable, SystemTypes
  <1>4. CASE PatchDisable(h)
    <2>1. RowOK([table[i] EXCEPT !.enabled = FALSE])
      BY <1>1 DEF RowOK, Row
    <2>2. Typed
      BY <1>1, <1>4, <2>1, FixedRows, PatchedTypes DEF PatchDisable
    <2>3. JobTypes'
      BY <1>4, GotoTypes DEF PatchDisable, Step
    <2> QED BY <1>4, <2>2, <2>3, TypeParts DEF PatchDisable, SystemTypes
  <1> QED BY <1>2, <1>3, <1>4

LEMMA RequestTypes ==
    ASSUME TypeInv, NEW h \in Handler, NEW i \in Host
    PROVE  /\ Create(h, i) => TypeInv'
           /\ \A op \in Op \ {"create", "undo"} : Get(h, op, i) => TypeInv'
  <1>1. ASSUME Create(h, i) PROVE TypeInv'
    <2>1. PICK c \in Config, e \in BOOLEAN :
              table' = [table EXCEPT ![i] = [state |-> "live", enabled |-> e,
                                             online |-> FALSE, config |-> c]]
      BY <1>1 DEF Create
    <2>2. RowOK([state |-> "live", enabled |-> e, online |-> FALSE, config |-> c])
      BY HostsAssumption DEF RowOK, Row, Content
    <2>3. table' \in [Host -> Row] /\ \A k \in Host : RowOK(table'[k])
      BY <2>1, <2>2 DEF TypeInv, RowOK
    <2>4. JobTypes'
      BY <1>1, BeginTypes DEF Create, Op, Early
    <2> QED BY <1>1, <2>3, <2>4, TypeParts DEF Create, SystemTypes
  <1>2. ASSUME NEW op \in Op \ {"create", "undo"}, Get(h, op, i) PROVE TypeInv'
    <2> DEFINE seen == CASE op = "enable" -> table[i].config
                         [] op = "update" /\ i \in Dead -> Rendered(table[i])
                         [] OTHER -> NoFile
    <2>1. table[i].config \in Content
      BY <1>2 DEF Get, Live, TypeInv, RowOK, Row
    <2>2. seen \in Content \cup {NoFile} /\ (Early(op, i) => seen \in Content)
      BY <2>1 DEF Content, Rendered, Early
    <2>3. Begin(h, op, i, "patch", seen)
      BY <1>2 DEF Get
    <2> HIDE DEF seen
    <2>4. JobTypes'
      BY <2>2, <2>3, BeginTypes
    <2> QED BY <1>2, <2>4, TypeParts DEF Get, SystemTypes
  <1> QED BY <1>1, <1>2

(* The actions that read the row again.                                    *)
Fetch(h) == Gone(h) \/ Refetch(h) \/ RefetchProxy(h) \/ RefetchDead(h) \/ RefetchSite(h)

LEMMA FetchTypes ==
    ASSUME TypeInv, NEW h \in Handler, Fetch(h)
    PROVE  TypeInv'
  <1> DEFINE row  == table[job[h].host]
             Kept == UNCHANGED <<table, files, loaded, signalled, erasing>>
  <1>1. Live(job[h].host) => Rendered(row) \in Content
    BY JobFields DEF Live, Rendered, RowOK, Row, Content
  <1>2. CASE End(h) /\ Kept
    BY <1>2, AnsweredTypes, TypeParts DEF SystemTypes
  <1>3. CASE \E seen \in Content : ConfigureWith(h, seen)
    <2>1. JobTypes'
      BY <1>3, GivenTypes DEF ConfigureWith
    <2> QED BY <1>3, <2>1, TypeParts DEF ConfigureWith, SystemTypes
  <1>4. CASE Gone(h) \/ Refetch(h) \/ RefetchProxy(h)
    BY <1>1, <1>2, <1>3, <1>4 DEF Gone, Refetch, RefetchProxy, Fetched
  <1>5. CASE RefetchDead(h)
    <2>1. job[h].seen \in Content
      BY <1>5, JobFields DEF RefetchDead, Fetched, Early
    <2> QED BY <1>3, <1>5, <2>1 DEF RefetchDead
  <1>6. CASE RefetchSite(h)
    <2>1. CASE End(h)
      BY <1>2, <1>6, <2>1, AnsweredTypes, TypeParts DEF RefetchSite, SystemTypes
    <2>2. CASE /\ job' = [job EXCEPT ![h].at = "write", ![h].seen = Rendered(row)]
               /\ files' = [files EXCEPT ![job[h].host] = NoFile]
               /\ UNCHANGED <<answer, requests>>
      <3>1. Rendered(row) \in Content
        BY <1>1, <1>6 DEF RefetchSite, Fetched
      <3>2. JobTypes'
        BY <2>2, <3>1, GivenTypes
      <3>3. files' \in [Host -> Content \cup {NoFile}]
        BY <2>2, JobFields DEF TypeInv
      <3> QED BY <1>6, <3>2, <3>3, TypeParts DEF RefetchSite, SystemTypes
    <2> QED BY <1>6, <2>1, <2>2 DEF RefetchSite
  <1> QED BY <1>4, <1>5, <1>6 DEF Fetch

LEMMA ConfigureTypes ==
    ASSUME TypeInv, NEW h \in Handler, Configure(h)
    PROVE  TypeInv'
  <1> DEFINE i == job[h].host
             Typed == table' \in [Host -> Row] /\ \A k \in Host : RowOK(table'[k])
  <1>1. i \in Host /\ RowOK(table[i]) /\ (Holds(h) => job[h].seen \in Content)
    BY JobFields
  <1>2. CASE Test(h)
    <2>1. JobTypes'
      BY <1>1, <1>2, GotoTypes, AnsweredTypes DEF Test, Step, At, Holds
    <2> QED BY <1>1, <1>2, <2>1, TypeParts DEF Test, SystemTypes
  <1>3. CASE Write(h)
    <2>1. JobTypes'
      BY <1>1, <1>3, GotoTypes DEF Write, Step, At, Holds
    <2> QED BY <1>1, <1>3, <2>1, TypeParts DEF Write, SystemTypes, At, Holds
  <1>4. CASE WriteFails(h)
    BY <1>4, FailsTypes, TypeParts DEF WriteFails, SystemTypes
  <1>5. CASE Retest(h)
    <2>1. JobTypes'
      BY <1>1, <1>5, GotoTypes DEF Retest, Step, At, Holds
    <2> QED BY <1>5, <2>1, TypeParts DEF Retest, SystemTypes
  <1>8. CASE TestSite(h)
    <2>1. CASE Goto(h, "reload") /\ UNCHANGED files
      <3>1. JobTypes'
        BY <2>1, GotoTypes DEF Step
      <3> QED BY <1>8, <2>1, <3>1, TypeParts DEF TestSite, SystemTypes
    <2>2. CASE GiveUp(h)
      BY <1>8, <2>2, GiveUpTypes, TypeParts DEF TestSite, SystemTypes
    <2> QED BY <1>8, <2>1, <2>2 DEF TestSite
  <1>9. CASE TestUndone(h)
    <2>1. JobTypes'
      BY <1>9, GotoTypes, AnsweredTypes DEF TestUndone, Step
    <2> QED BY <1>9, <2>1, TypeParts DEF TestUndone, SystemTypes
  <1>6. CASE MarkOnline(h)
    <2>1. Live(i) => RowOK([table[i] EXCEPT !.online = TRUE])
      BY <1>1 DEF RowOK, Row
    <2>2. Typed
      BY <1>1, <1>6, <2>1, PatchedTypes DEF MarkOnline
    <2>3. JobTypes'
      BY <1>6, GotoTypes DEF MarkOnline, Step
    <2> QED BY <1>6, <2>2, <2>3, TypeParts DEF MarkOnline, SystemTypes
  <1>7. CASE MarkOffline(h)
    <2>1. Live(i) => RowOK([table[i] EXCEPT !.online = FALSE])
      BY <1>1 DEF RowOK, Row
    <2>2. Typed
      BY <1>1, <1>7, <2>1, PatchedTypes DEF MarkOffline
    <2>3. JobTypes'
      BY <1>7, GotoTypes DEF MarkOffline, Step
    <2>4. files' \in [Host -> Content \cup {NoFile}]
      BY <1>1, <1>7 DEF MarkOffline, TypeInv
    <2>5. erasing' \in [Host -> 0..2]
      BY <1>1, <1>7 DEF MarkOffline, TypeInv
    <2> QED BY <1>1, <1>7, <2>2, <2>3, <2>4, <2>5, TypeParts DEF MarkOffline, SystemTypes
  <1> QED BY <1>2, <1>3, <1>4, <1>5, <1>6, <1>7, <1>8, <1>9 DEF Configure

LEMMA TypeNext == TypeInv /\ [Next]_vars => TypeInv'
  <1> SUFFICES ASSUME TypeInv, [Next]_vars PROVE TypeInv'
    OBVIOUS
  <1>1. ASSUME NEW h \in Handler, Handle(h) PROVE TypeInv'
    <2>1. CASE Remove(h)
      <3>1. JobTypes'
        BY <2>1, GotoTypes DEF Remove, Step
      <3> QED BY <2>1, <3>1, JobFields, TypeParts DEF Remove, SystemTypes
    <2>2. CASE Reload(h)
      <3>1. CASE Goto(h, "signal") /\ UNCHANGED files
        <4>1. JobTypes'
          BY <3>1, GotoTypes DEF Step
        <4> QED BY <2>2, <3>1, <4>1, TypeParts DEF Reload, SystemTypes
      <3>2. CASE Fails(h)
        BY <2>2, <3>2, FailsTypes, TypeParts DEF Reload, SystemTypes
      <3> QED BY <2>2, <3>1, <3>2 DEF Reload
    <2>3. CASE Signal(h)
      <3>1. CASE signalled' = TRUE /\ Succeed(h) /\ UNCHANGED files
        BY <2>3, <3>1, AnsweredTypes, TypeParts DEF Signal, SystemTypes
      <3>2. CASE signalled' = signalled /\ Fails(h)
        BY <2>3, <3>2, FailsTypes, TypeParts DEF Signal, SystemTypes
      <3> QED BY <2>3, <3>1, <3>2 DEF Signal
    <2>4. CASE Abort(h)
      <3>1. job' \in [Handler -> Job] /\ \A k \in Handler : JobOK(job'[k])
        BY <2>4, IdleJob DEF Abort, JobOK
      <3>2. JobTypes'
        BY <2>4, <3>1 DEF Abort, JobTypes, TypeInv
      <3>3. erasing' \in [Host -> 0..2]
        BY <2>4 DEF Abort
      <3> QED BY <2>4, <3>2, <3>3, TypeParts DEF Abort, SystemTypes
    <2> QED BY <1>1, <2>1, <2>2, <2>3, <2>4, RequestTypes, PatchTypes, FetchTypes,
               ConfigureTypes DEF Handle, Fetch
  <1>2. ASSUME NEW i \in Host, Erase(i) PROVE TypeInv'
    <2>1. JobTypes'
      BY <1>2, TypeParts DEF Erase, JobTypes
    <2>2. erasing[i] \in 0..2 /\ erasing[i] > 0
      BY <1>2 DEF Erase, TypeInv
    <2>3. erasing[i] - 1 \in 0..2
      BY <2>2
    <2> QED BY <1>2, <2>1, <2>3, TypeParts DEF Erase, SystemTypes
  <1>3. CASE NginxReloads
    BY <1>3, TypeParts DEF NginxReloads, JobTypes, SystemTypes
  <1>4. CASE UNCHANGED vars
    BY <1>4, TypeParts DEF vars, JobTypes, SystemTypes
  <1> QED BY <1>1, <1>2, <1>3, <1>4 DEF Next

LEMMA TypeInvariance == Spec => []TypeInv
  BY TypeInit, TypeNext, PTL DEF Spec

(* The types hold: in particular a request that is about to write a file   *)
(* always holds the configuration of a row, whoever deleted the row since. *)
THEOREM TypeCorrect == Spec => []TypeOK
  BY TypeInvariance, TypeInvImplies, PTL

-----------------------------------------------------------------------------
(* What a step of one request does to the requests.                        *)
LEMMA GotoJobs ==
    ASSUME TypeInv, NEW h \in Handler, NEW at, Goto(h, at)
    PROVE  /\ \A k \in Handler \ {h} : job'[k] = job[k]
           /\ job'[h].at = at /\ job'[h].host = job[h].host
           /\ job'[h].met = job[h].met
  BY DEF Goto, TypeInv, Job

LEMMA AnsweredJobs ==
    ASSUME TypeInv, NEW h \in Handler, Succeed(h) \/ End(h)
    PROVE  /\ \A k \in Handler \ {h} : job'[k] = job[k]
           /\ job'[h].at = "idle"
  BY IdleJob DEF Succeed, End, TypeInv

LEMMA GivenJobs ==
    ASSUME TypeInv, NEW h \in Handler, NEW at, NEW seen,
           job' = [job EXCEPT ![h].at = at, ![h].seen = seen]
    PROVE  /\ \A k \in Handler \ {h} : job'[k] = job[k]
           /\ job'[h].at = at /\ job'[h].host = job[h].host
           /\ job'[h].met = job[h].met
  BY DEF TypeInv, Job

LEMMA GiveUpJobs ==
    ASSUME TypeInv, NEW h \in Handler, GiveUp(h)
    PROVE  /\ \A k \in Handler \ {h} : job'[k] = job[k]
           /\ job'[h].at = "undo" /\ job'[h].host = job[h].host
           /\ job'[h].met = job[h].met
           /\ files'[job[h].host] = NoFile
           /\ \A i \in Host \ {job[h].host} : files'[i] = files[i]
  <1>1. job[h].host \in Host
    BY JobFields
  <1> QED BY <1>1 DEF GiveUp, TypeInv, Job

(* Whichever way it fails, a request breaks no file.                       *)
LEMMA FailsJobs ==
    ASSUME TypeInv, NEW h \in Handler, Fails(h)
    PROVE  /\ \A k \in Handler \ {h} : job'[k] = job[k]
           /\ \A i \in Host : files'[i] \in {files[i], NoFile}
           /\ \A i \in Host \ {job[h].host} : files'[i] = files[i]
  BY GiveUpJobs, AnsweredJobs DEF Fails

LEMMA BegunJobs ==
    ASSUME TypeInv, NEW h \in Handler, NEW op, NEW i, NEW at, NEW seen,
           Begin(h, op, i, at, seen)
    PROVE  /\ job[h].at = "idle"
           /\ \A k \in Handler \ {h} :
                 /\ job'[k].at = job[k].at /\ job'[k].host = job[k].host
                 /\ job'[k].met = (IF k \in BusyOn(i) THEN job[k].met \cup {h} ELSE job[k].met)
           /\ job'[h].at = at /\ job'[h].host = i
           /\ job'[h].met = BusyOn(i)
  <1>1. job[h].at = "idle"
    BY DEF Begin
  <1> DEFINE new == [at |-> at, op |-> op, host |-> i, seen |-> seen,
                     met |-> BusyOn(i)]
  <1>2. job'[h] = new
    <2>1. job'[h] = CASE h = h -> new
                      [] h \in BusyOn(i) -> [job[h] EXCEPT !.met = @ \cup {h}]
                      [] OTHER -> job[h]
      BY DEF Begin
    <2>2. h \notin BusyOn(i)
      BY <1>1 DEF BusyOn
    <2> HIDE DEF new
    <2> QED BY <2>1, <2>2
  <1>3. ASSUME NEW k \in Handler \ {h}
        PROVE  /\ job'[k].at = job[k].at /\ job'[k].host = job[k].host
               /\ job'[k].met = (IF k \in BusyOn(i) THEN job[k].met \cup {h} ELSE job[k].met)
    <2>1. job'[k] = IF k \in BusyOn(i) THEN [job[k] EXCEPT !.met = @ \cup {h}]
                    ELSE job[k]
      BY DEF Begin
    <2>2. job[k] \in Job
      BY DEF TypeInv
    <2> QED BY <2>1, <2>2 DEF Job
  <1> QED BY <1>1, <1>2, <1>3

LEMMA BegunKeeps ==
    ASSUME TypeInv, NEW h \in Handler, NEW op, NEW i, NEW at, NEW seen,
           Begin(h, op, i, at, seen)
    PROVE  /\ job'[h] = [at |-> at, op |-> op, host |-> i, seen |-> seen,
                         met |-> BusyOn(i)]
           /\ \A k \in Handler \ {h} :
                 /\ job'[k].at = job[k].at /\ job'[k].op = job[k].op
                 /\ job'[k].host = job[k].host
                 /\ k \notin BusyOn(i) => job'[k] = job[k]
                 /\ k \in BusyOn(i) => job'[k].met # {}
  <1> DEFINE new == [at |-> at, op |-> op, host |-> i, seen |-> seen,
                     met |-> BusyOn(i)]
  <1>1. job'[h] = new
    <2>1. job'[h] = CASE h = h -> new
                      [] h \in BusyOn(i) -> [job[h] EXCEPT !.met = @ \cup {h}]
                      [] OTHER -> job[h]
      BY DEF Begin
    <2>2. h \notin BusyOn(i)
      BY DEF Begin, BusyOn
    <2> HIDE DEF new
    <2> QED BY <2>1, <2>2
  <1>2. ASSUME NEW k \in Handler \ {h}
        PROVE  /\ job'[k].at = job[k].at /\ job'[k].op = job[k].op
               /\ job'[k].host = job[k].host
               /\ k \notin BusyOn(i) => job'[k] = job[k]
               /\ k \in BusyOn(i) => job'[k].met # {}
    <2>1. job'[k] = IF k \in BusyOn(i) THEN [job[k] EXCEPT !.met = @ \cup {h}]
                    ELSE job[k]
      BY DEF Begin
    <2>2. job[k] \in Job
      BY DEF TypeInv
    <2> QED BY <2>1, <2>2 DEF Job
  <1> QED BY <1>1, <1>2

(* A step makes no broken file stray when it breaks none and takes no      *)
(* owner away.                                                             *)
LEMMA OwnersKept ==
    ASSUME \A i \in Host : files'[i] \in Broken => files[i] \in Broken,
           \A i \in Host : \A k \in Handler :
              files'[i] \in Broken /\ job[k].host = i /\ Wrote(k) =>
                 job'[k].host = i /\ job'[k].at \in {"retest", "offline"}
    PROVE  \A i \in Host : Stray(i)' => Stray(i)
  BY DEF Stray, Wrote

LEMMA BrokenNext ==
    ASSUME TypeInv, [Next]_vars
    PROVE  \A i \in Host : Stray(i)' => Stray(i) \/ \E h \in Handler : Abort(h)
  <1> DEFINE Kept == \A i \in Host : Stray(i)' => Stray(i)
  <1> SUFFICES ASSUME ~ \E h \in Handler : Abort(h) PROVE Kept
    OBVIOUS
  <1>1. NoFile \notin Broken
    BY HostsAssumption
  <1>2. ASSUME NEW h \in Handler, Handle(h) PROVE Kept
    <2>1. CASE \E i \in Host : Create(h, i) \/ \E op \in Op \ {"create", "undo"} : Get(h, op, i)
      <3>1. PICK op, i, at, seen : Begin(h, op, i, at, seen)
        BY <2>1 DEF Create, Get
      <3>2. files' = files
        BY <2>1 DEF Create, Get
      <3> QED BY <3>1, <3>2, BegunJobs, OwnersKept DEF Wrote
    <2>2. CASE PatchUpdate(h) \/ PatchEnable(h) \/ PatchDisable(h)
      <3>1. job[h].at = "patch" /\ files' = files
        BY <2>2 DEF PatchUpdate, PatchEnable, PatchDisable, At
      <3>2. \A k \in Handler \ {h} : job'[k] = job[k]
        BY <2>2, GotoJobs DEF PatchUpdate, PatchEnable, PatchDisable
      <3> QED BY <3>1, <3>2, OwnersKept DEF Wrote
    <2>3. CASE Fetch(h)
      <3>1. job[h].at = "refetch"
        BY <2>3 DEF Fetch, Gone, Refetch, RefetchProxy, RefetchDead, RefetchSite,
                    Fetched, At
      <3>2. \A k \in Handler \ {h} : job'[k] = job[k]
        BY <2>3, AnsweredJobs, GivenJobs DEF Fetch, Gone, Refetch, RefetchProxy,
           RefetchDead, RefetchSite, ConfigureWith
      <3>3. \A i \in Host : files'[i] \in {files[i], NoFile}
        BY <2>3 DEF Fetch, Gone, Refetch, RefetchProxy, RefetchDead, RefetchSite,
                    ConfigureWith, TypeInv
      <3> QED BY <1>1, <3>1, <3>2, <3>3, OwnersKept DEF Wrote
    <2>4. CASE Test(h)
      <3>1. job[h].at = "test"
        BY <2>4 DEF Test, At
      <3>2. \A k \in Handler \ {h} : job'[k] = job[k]
        BY <2>4, GotoJobs, AnsweredJobs DEF Test
      <3>3. \A i \in Host : files'[i] \in Broken => files[i] \in Broken
        BY <1>1, <2>4 DEF Test, TypeInv
      <3> QED BY <3>1, <3>2, <3>3, OwnersKept DEF Wrote
    <2>5. CASE Write(h)
      <3>1. \A k \in Handler \ {h} : job'[k] = job[k]
        BY <2>5, GotoJobs DEF Write
      <3>2. job'[h].at = "retest" /\ job'[h].host = job[h].host
        BY <2>5, GotoJobs DEF Write
      <3>3. job[h].at = "write"
        BY <2>5 DEF Write, At
      <3>4. \A i \in Host \ {job[h].host} : files'[i] = files[i]
        BY <2>5 DEF Write, TypeInv
      <3> QED BY <3>1, <3>2, <3>3, <3>4 DEF Stray, Wrote
    <2>6. CASE WriteFails(h)
      <3>1. job[h].at = "write" /\ Fails(h)
        BY <2>6 DEF WriteFails, At
      <3> QED BY <1>1, <3>1, FailsJobs, OwnersKept DEF Wrote
    <2>7. CASE Retest(h)
      <3>1. CASE TestPasses
        BY <2>7, <3>1 DEF Retest, TestPasses, Stray
      <3>2. CASE ~TestPasses
        <4>1. Goto(h, "offline") /\ files' = files
          BY <2>7, <3>2 DEF Retest
        <4> QED BY <4>1, GotoJobs, OwnersKept DEF Wrote
      <3> QED BY <3>1, <3>2
    <2>8. CASE MarkOnline(h)
      <3>1. job[h].at = "online" /\ files' = files
        BY <2>8 DEF MarkOnline, At
      <3> QED BY <2>8, <3>1, GotoJobs, OwnersKept DEF MarkOnline, Wrote
    <2>9. CASE MarkOffline(h)
      <3>1. \A k \in Handler \ {h} : job'[k] = job[k]
        BY <2>9, GotoJobs DEF MarkOffline
      <3>2. files' = [files EXCEPT ![job[h].host] = NoFile]
        BY <2>9 DEF MarkOffline
      <3>3. \A i \in Host : files'[i] \in Broken => files[i] \in Broken /\ job[h].host # i
        BY <1>1, <3>2, JobFields DEF TypeInv
      <3> QED BY <3>1, <3>3, OwnersKept DEF Wrote
    <2>10. CASE Remove(h) \/ Reload(h) \/ Signal(h) \/ TestUndone(h)
      <3>1. job[h].at \in {"remove", "reload", "signal", "undo"}
        BY <2>10 DEF Remove, Reload, Signal, TestUndone, At
      <3>2. \A k \in Handler \ {h} : job'[k] = job[k]
        BY <2>10, GotoJobs, AnsweredJobs, FailsJobs DEF Remove, Reload, Signal, TestUndone
      <3>3. \A i \in Host : files'[i] \in {files[i], NoFile}
        BY <2>10, FailsJobs DEF Remove, Reload, Signal, TestUndone, TypeInv
      <3> QED BY <1>1, <3>1, <3>2, <3>3, OwnersKept DEF Wrote
    <2>11. CASE TestSite(h)
      <3>1. CASE TestPasses
        BY <2>11, <3>1 DEF TestSite, TestPasses, Stray
      <3>2. CASE ~TestPasses
        <4>1. GiveUp(h)
          BY <2>11, <3>2 DEF TestSite
        <4>2. \A i \in Host : files'[i] \in Broken => files[i] \in Broken /\ job[h].host # i
          BY <1>1, <4>1, GiveUpJobs
        <4> QED BY <4>1, <4>2, GiveUpJobs, OwnersKept DEF Wrote
      <3> QED BY <3>1, <3>2
    <2> QED BY <1>2, <2>1, <2>2, <2>3, <2>4, <2>5, <2>6, <2>7, <2>8, <2>9,
               <2>10, <2>11 DEF Handle, Configure, Fetch
  <1>3. ASSUME NEW i \in Host, Erase(i) PROVE Kept
    <2>1. \A k \in Host : files'[k] \in Broken => files[k] \in Broken
      BY <1>1, <1>3 DEF Erase, TypeInv
    <2> QED BY <1>3, <2>1, OwnersKept DEF Erase, Wrote
  <1>4. CASE NginxReloads
    BY <1>4, OwnersKept DEF NginxReloads, Wrote
  <1>5. CASE UNCHANGED vars
    BY <1>5, OwnersKept DEF vars, Wrote
  <1> QED BY <1>2, <1>3, <1>4, <1>5 DEF Next

(* However requests interleave, and whichever of them fail, a broken file  *)
(* keeps the request that wrote it, which is about to test it or to take   *)
(* it away (nginx.js, configure), until the backend aborts.                *)
THEOREM BrokenOwned == Spec => BrokenHasOwner
  <1>1. TypeInv /\ [Next]_vars =>
          [\A i \in Host : Stray(i)' => Stray(i) \/ \E h \in Handler : Abort(h)]_vars
    BY BrokenNext
  <1> QED BY <1>1, TypeInvariance, PTL DEF Spec, BrokenHasOwner

-----------------------------------------------------------------------------
(* What it takes for nginx to serve the files.  Requests for one host know *)
(* of each other...                                                        *)
MetInv ==
    \A g, h \in Handler :
        /\ g # h /\ job[g].host = job[h].host
        /\ job[g].at # "idle" /\ job[h].at # "idle"
        => job[h].met # {}

(* ... nothing is claimed of a host that has one in flight ...             *)
AnswerInv ==
    \A h \in Handler : job[h].at # "idle" => answer[job[h].host] = "none"

(* ... an erasure is over before the request that caused it is ...         *)
EraseInv ==
    \A i \in Host : erasing[i] > 0 =>
        \E h \in Handler : job[h].host = i /\ job[h].at = "reload"

(* ... and as long as a file is not served as it is, a reload is to come,  *)
(* or there is a broken file: whoever takes that away reloads nginx, be it *)
(* the request that wrote it or, after an abort, a later one.              *)
Reloads(h) ==
    \/ job[h].at \in {"retest", "online", "offline", "undo", "reload", "signal"}
    \/ job[h].at = "write" /\ job[h].host \in Site /\ job[h].op = "update"

ReloadDue == signalled \/ \E h \in Handler : Reloads(h)

LoadInv ==
    \A i \in Host : answer[i] # "none" /\ loaded[i] # files[i] =>
        ReloadDue \/ ~TestPasses

ServeInv == MetInv /\ AnswerInv /\ EraseInv /\ LoadInv

LEMMA ServeInit == Init => ServeInv
  BY IdleJob DEF Init, ServeInv, MetInv, AnswerInv, EraseInv, LoadInv

LEMMA ServeImplies == TypeInv /\ ServeInv => ServesFiles
  BY DEF ServeInv, LoadInv, ReloadDue, Reloads, ServesFiles, AtRest, At

(* A request in flight makes a step.                                       *)
Steps(h) ==
    \/ PatchUpdate(h) \/ PatchEnable(h) \/ PatchDisable(h) \/ Fetch(h)
    \/ Configure(h)
    \/ Remove(h) \/ Reload(h) \/ Signal(h)

(* What it does to its own state: it is answered, goes on, or gives up.    *)
LEMMA StepForms ==
    ASSUME TypeInv, NEW h \in Handler, Steps(h)
    PROVE  \/ Succeed(h) \/ End(h) \/ GiveUp(h)
           \/ \E at \in Step : Goto(h, at)
           \/ /\ \E at \in {"test", "write"} : \E c :
                    job' = [job EXCEPT ![h].at = at, ![h].seen = c]
              /\ UNCHANGED <<answer, requests>>
  <1>1. CASE Fetch(h)
    BY <1>1 DEF Fetch, Gone, Refetch, RefetchProxy, RefetchDead, RefetchSite, ConfigureWith
  <1>2. CASE ~Fetch(h)
    BY <1>2 DEF Steps, Configure, PatchUpdate, PatchEnable, PatchDisable, Test,
           Write, WriteFails, Retest, TestSite, TestUndone, MarkOnline,
           MarkOffline, Remove, Reload, Signal, Fails, Step
  <1> QED BY <1>1, <1>2

LEMMA StepJobs ==
    ASSUME TypeInv, NEW h \in Handler, Steps(h)
    PROVE  /\ job[h].at # "idle"
           /\ \A k \in Handler \ {h} : job'[k] = job[k]
           /\ job'[h].at # "idle" =>
                 job'[h].host = job[h].host /\ job'[h].met = job[h].met
           /\ \A i \in Host : answer'[i] = answer[i]
                 \/ (job[h].met = {} /\ job'[h].at = "idle" /\ i = job[h].host)
  <1>1. job[h].at # "idle"
    BY DEF Steps, Configure, PatchUpdate, PatchEnable, PatchDisable, Fetch, Gone,
           Refetch, RefetchProxy, RefetchDead, RefetchSite, Fetched,
           Test, Write, WriteFails, Retest, TestSite, TestUndone, MarkOnline,
           MarkOffline, Remove, Reload, Signal, At
  <1>2. CASE Succeed(h) \/ End(h)
    <2>1. job'[h].at = "idle" /\ \A k \in Handler \ {h} : job'[k] = job[k]
      BY <1>2, AnsweredJobs
    <2>2. CASE answer' = answer
      BY <1>1, <2>1, <2>2
    <2>3. CASE job[h].met = {} /\ answer' = [answer EXCEPT ![job[h].host] = job[h].op]
      BY <1>1, <2>1, <2>3 DEF TypeInv
    <2> QED BY <1>2, <2>2, <2>3 DEF Succeed, End
  <1>3. CASE \E at \in Step : Goto(h, at)
    <2>1. PICK at \in Step : Goto(h, at)
      BY <1>3
    <2>2. answer' = answer
      BY <2>1 DEF Goto
    <2> QED BY <1>1, <2>1, <2>2, GotoJobs
  <1>4. CASE /\ \E at \in {"test", "write"} : \E c :
                  job' = [job EXCEPT ![h].at = at, ![h].seen = c]
             /\ UNCHANGED <<answer, requests>>
    <2>0. PICK at \in {"test", "write"} :
              \E c : job' = [job EXCEPT ![h].at = at, ![h].seen = c]
      BY <1>4
    <2>1. PICK c : job' = [job EXCEPT ![h].at = at, ![h].seen = c]
      BY <2>0
    <2>2. /\ \A k \in Handler \ {h} : job'[k] = job[k]
          /\ job'[h].host = job[h].host /\ job'[h].met = job[h].met
      BY <2>1, GivenJobs
    <2> QED BY <1>1, <1>4, <2>2
  <1>5. CASE GiveUp(h)
    <2>1. answer' = answer
      BY <1>5 DEF GiveUp
    <2> QED BY <1>1, <1>5, <2>1, GiveUpJobs
  <1> QED BY <1>2, <1>3, <1>4, <1>5, StepForms

LEMMA StepKeepsMet ==
    ASSUME TypeInv, MetInv, AnswerInv, NEW h \in Handler, Steps(h)
    PROVE  MetInv' /\ AnswerInv'
  <1>1. MetInv'
    BY StepJobs DEF MetInv
  <1>2. ASSUME NEW k \in Handler, job'[k].at # "idle"
        PROVE  answer'[job'[k].host] = "none"
    <2>1. job'[k].host = job[k].host /\ job[k].at # "idle"
      BY <1>2, StepJobs
    <2>2. answer[job[k].host] = "none" /\ job[k].host \in Host
      BY <2>1, JobFields DEF AnswerInv
    <2>3. CASE k = h
      BY <1>2, <2>1, <2>2, <2>3, StepJobs
    <2>4. CASE k # h
      <3>1. job[h].at # "idle"
        BY StepJobs
      <3>2. job[k].host = job[h].host => job[h].met # {}
        BY <2>1, <2>4, <3>1 DEF MetInv
      <3> QED BY <2>1, <2>2, <3>2, StepJobs
    <2> QED BY <2>3, <2>4
  <1> QED BY <1>1, <1>2 DEF AnswerInv

(* A request that takes a file away is one that reloads nginx afterwards.  *)
LEMMA StepReloads ==
    ASSUME TypeInv, NEW h \in Handler, Steps(h), Reloads(h) \/ ~TestPasses
    PROVE  Reloads(h)' \/ signalled' \/ ~TestPasses'
  <1>1. job[h].host \in Host /\ job[h].at # "idle"
    BY JobFields, StepJobs
  <1>2. ASSUME NEW at \in {"retest", "online", "offline", "undo", "reload", "signal"},
               Goto(h, at)
        PROVE  Reloads(h)'
    BY <1>2, GotoJobs DEF Reloads
  <1>3. GiveUp(h) => Reloads(h)'
    BY GiveUpJobs DEF Reloads
  <1>4. ~TestPasses /\ UNCHANGED files => ~TestPasses'
    BY DEF TestPasses
  <1>5. CASE PatchUpdate(h) \/ PatchEnable(h) \/ PatchDisable(h)
    <2>1. ~Reloads(h) /\ UNCHANGED files
      BY <1>5 DEF PatchUpdate, PatchEnable, PatchDisable, At, Reloads
    <2> QED BY <1>4, <2>1
  <1>6. CASE Fetch(h)
    <2>1. ~Reloads(h)
      BY <1>6 DEF Fetch, Gone, Refetch, RefetchProxy, RefetchDead, RefetchSite,
                  Fetched, At, Reloads
    <2>2. CASE UNCHANGED files
      BY <1>4, <2>1, <2>2
    <2>3. CASE ~UNCHANGED files
      <3>1. /\ RefetchSite(h)
            /\ job' = [job EXCEPT ![h].at = "write",
                                  ![h].seen = Rendered(table[job[h].host])]
        BY <1>6, <2>3 DEF Fetch, Gone, Refetch, RefetchProxy, RefetchDead, RefetchSite,
                          ConfigureWith
      <3>2. PICK c : job' = [job EXCEPT ![h].at = "write", ![h].seen = c]
        BY <3>1
      <3>3. /\ job'[h].at = "write" /\ job'[h].host = job[h].host
            /\ job'[h].op = job[h].op
        BY <3>2 DEF TypeInv, Job
      <3>4. job[h].host \in Site /\ job[h].op = "update"
        BY <3>1 DEF RefetchSite
      <3> QED BY <3>3, <3>4 DEF Reloads
    <2> QED BY <2>2, <2>3
  <1>7. CASE Test(h)
    <2>1. ~Reloads(h)
      BY <1>7 DEF Test, At, Reloads
    <2> QED BY <1>4, <1>7, <2>1 DEF Test
  <1>8. CASE Write(h)
    BY <1>2, <1>8 DEF Write
  <1>9. CASE WriteFails(h)
    <2>1. CASE GiveUp(h)
      BY <1>3, <2>1
    <2>2. CASE ~GiveUp(h)
      <3>1. ~Reloads(h) /\ UNCHANGED files
        BY <1>9, <2>2 DEF WriteFails, Fails, At, Reloads
      <3> QED BY <1>4, <3>1
    <2> QED BY <2>1, <2>2
  <1>10. CASE Retest(h)
    <2>1. PICK at \in {"online", "offline"} : Goto(h, at)
      BY <1>10 DEF Retest
    <2> QED BY <1>2, <2>1
  <1>11. CASE TestSite(h)
    BY <1>2, <1>3, <1>11 DEF TestSite
  <1>12. CASE TestUndone(h) \/ MarkOnline(h) \/ MarkOffline(h) \/ Remove(h)
    BY <1>2, <1>12 DEF TestUndone, MarkOnline, MarkOffline, Remove
  <1>13. CASE Reload(h) \/ Signal(h)
    <2>1. CASE TestPasses
      <3>1. Goto(h, "signal") \/ signalled'
        BY <1>13, <2>1 DEF Reload, Signal
      <3> QED BY <1>2, <3>1
    <2>2. CASE ~TestPasses
      <3>1. GiveUp(h) \/ UNCHANGED files
        BY <1>13, <2>2 DEF Reload, Signal, Fails
      <3> QED BY <1>3, <1>4, <2>2, <3>1
    <2> QED BY <2>1, <2>2
  <1> QED BY <1>5, <1>6, <1>7, <1>8, <1>9, <1>10, <1>11, <1>12, <1>13
          DEF Steps, Configure

LEMMA StepKeepsLoad ==
    ASSUME TypeInv, ServeInv, NEW h \in Handler, Steps(h)
    PROVE  LoadInv'
  <1>1. /\ \A k \in Handler \ {h} : job'[k] = job[k]
        /\ job[h].at # "idle"
    BY StepJobs
  <1>2. loaded' = loaded
    BY DEF Steps, Configure, PatchUpdate, PatchEnable, PatchDisable, Fetch, Gone,
           Refetch, RefetchProxy, RefetchDead, RefetchSite, ConfigureWith,
           Test, Write, WriteFails, Retest, TestSite, TestUndone, MarkOnline,
           MarkOffline, Remove, Reload, Signal
  <1>3. answer[job[h].host] = "none" /\ job[h].host \in Host
    BY <1>1, JobFields DEF ServeInv, AnswerInv
  <1>4. \A i \in Host \ {job[h].host} : files'[i] = files[i]
    <2>1. CASE Fails(h) \/ GiveUp(h)
      BY <2>1, FailsJobs, GiveUpJobs
    <2>2. CASE ~Fails(h) /\ ~GiveUp(h)
      BY <2>2 DEF Steps, Configure, PatchUpdate, PatchEnable, PatchDisable, Fetch, Gone,
           Refetch, RefetchProxy, RefetchDead, RefetchSite, ConfigureWith,
           Test, Write, WriteFails, Retest, TestSite, TestUndone, MarkOnline,
           MarkOffline, Remove, Reload, Signal, TypeInv
    <2> QED BY <2>1, <2>2
  <1>5. SUFFICES ASSUME answer' = answer, ReloadDue \/ ~TestPasses
                 PROVE  ReloadDue' \/ ~TestPasses'
    <2>1. answer' = answer \/ signalled'
      BY DEF Steps, Configure, PatchUpdate, PatchEnable, PatchDisable, Fetch, Gone,
           Refetch, RefetchProxy, RefetchDead, RefetchSite, ConfigureWith,
           Test, Write, WriteFails, Retest, TestSite, TestUndone, MarkOnline,
           MarkOffline, Remove, Reload, Signal,
             Goto, End, Fails, GiveUp
    <2> QED BY <1>2, <1>3, <1>4, <1>5, <2>1 DEF ServeInv, LoadInv, ReloadDue
  <1>6. signalled => signalled'
    BY DEF Steps, Configure, PatchUpdate, PatchEnable, PatchDisable, Fetch, Gone,
           Refetch, RefetchProxy, RefetchDead, RefetchSite, ConfigureWith,
           Test, Write, WriteFails, Retest, TestSite, TestUndone, MarkOnline,
           MarkOffline, Remove, Reload, Signal
  <1>7. CASE signalled
    BY <1>6, <1>7 DEF ReloadDue
  <1>8. CASE \E k \in Handler \ {h} : Reloads(k)
    <2>1. PICK k \in Handler \ {h} : Reloads(k)
      BY <1>8
    <2>2. Reloads(k)'
      BY <1>1, <2>1 DEF Reloads
    <2> QED BY <2>2 DEF ReloadDue
  <1>9. CASE Reloads(h) \/ ~TestPasses
    <2>1. Reloads(h)' \/ signalled' \/ ~TestPasses'
      BY <1>9, StepReloads
    <2> QED BY <2>1 DEF ReloadDue
  <1> QED BY <1>5, <1>7, <1>8, <1>9 DEF ReloadDue

LEMMA StepKeepsErase ==
    ASSUME ~LateErase, TypeInv, EraseInv, NEW h \in Handler, Steps(h)
    PROVE  EraseInv'
  <1>1. \A k \in Handler \ {h} : job'[k] = job[k]
    BY StepJobs
  <1>2. CASE MarkOffline(h)
    <2>1. job'[h].at = "reload" /\ job'[h].host = job[h].host
      BY <1>2, GotoJobs DEF MarkOffline
    <2>2. job[h].at = "offline"
      BY <1>2 DEF MarkOffline, At
    <2>3. \A i \in Host \ {job[h].host} : erasing'[i] = erasing[i]
      BY <1>2 DEF MarkOffline, TypeInv
    <2> QED BY <1>1, <2>1, <2>2, <2>3 DEF EraseInv
  <1>3. CASE Reload(h)
    <2>1. erasing' = erasing /\ erasing[job[h].host] = 0
      BY <1>3 DEF Reload
    <2>2. ASSUME NEW i \in Host, erasing[i] > 0
          PROVE  \E k \in Handler : job'[k].host = i /\ job'[k].at = "reload"
      <3>1. PICK k \in Handler : job[k].host = i /\ job[k].at = "reload"
        BY <2>2 DEF EraseInv
      <3>2. k # h
        BY <2>1, <2>2, <3>1
      <3> QED BY <1>1, <3>1, <3>2
    <2> QED BY <2>1, <2>2 DEF EraseInv
  <1>4. CASE ~MarkOffline(h) /\ ~Reload(h)
    <2>1. erasing' = erasing /\ job[h].at # "reload"
      BY <1>4 DEF Steps, Configure, PatchUpdate, PatchEnable, PatchDisable,
             Fetch, Gone, Refetch, RefetchProxy, RefetchDead, RefetchSite,
             Fetched, ConfigureWith, Test, Write, WriteFails, Retest, TestSite,
             TestUndone, MarkOnline, Remove, Signal, At
    <2> QED BY <1>1, <2>1 DEF EraseInv
  <1> QED BY <1>2, <1>3, <1>4

LEMMA BeginKeepsServe ==
    ASSUME TypeInv, ServeInv, NEW h \in Handler, NEW i \in Host, NEW op, NEW at,
           NEW seen, at # "idle", at \in {"patch", "refetch"},
           Begin(h, op, i, at, seen),
           UNCHANGED <<files, loaded, signalled, erasing>>
    PROVE  ServeInv'
  <1>1. /\ job[h].at = "idle"
        /\ \A k \in Handler \ {h} :
              /\ job'[k].at = job[k].at /\ job'[k].host = job[k].host
              /\ job'[k].met = (IF k \in BusyOn(i) THEN job[k].met \cup {h} ELSE job[k].met)
        /\ job'[h].at = at /\ job'[h].host = i
        /\ job'[h].met = BusyOn(i)
    BY BegunJobs
  <1>2. answer'[i] = "none" /\ \A k \in Host \ {i} : answer'[k] = answer[k]
    BY DEF Begin, TypeInv
  <1>3. ASSUME NEW g \in Handler, NEW k \in Handler, g # k,
               job'[g].host = job'[k].host, job'[g].at # "idle", job'[k].at # "idle"
        PROVE  job'[k].met # {}
    <2>1. CASE k = h
      BY <1>1, <1>3, <2>1 DEF BusyOn
    <2>2. CASE k # h /\ g = h
      <3>1. k \in BusyOn(i)
        BY <1>1, <1>3, <2>2 DEF BusyOn
      <3>2. job'[k].met = job[k].met \cup {h}
        BY <1>1, <2>2, <3>1
      <3> QED BY <3>2
    <2>3. CASE k # h /\ g # h
      BY <1>1, <1>3, <2>3 DEF ServeInv, MetInv
    <2> QED BY <2>1, <2>2, <2>3
  <1>4. ASSUME NEW k \in Handler, job'[k].at # "idle"
        PROVE  answer'[job'[k].host] = "none"
    <2>1. CASE k = h
      BY <1>1, <1>2, <2>1
    <2>2. CASE k # h
      <3>1. job'[k].host = job[k].host /\ job[k].at # "idle"
        BY <1>1, <1>4, <2>2
      <3>2. answer[job[k].host] = "none" /\ job[k].host \in Host
        BY <3>1, JobFields DEF ServeInv, AnswerInv
      <3> QED BY <1>2, <3>1, <3>2
    <2> QED BY <2>1, <2>2
  <1>5. ASSUME NEW k \in Host, erasing'[k] > 0
        PROVE  \E g \in Handler : job'[g].host = k /\ job'[g].at = "reload"
    <2>1. PICK g \in Handler : job[g].host = k /\ job[g].at = "reload"
      BY <1>5 DEF ServeInv, EraseInv
    <2>2. g # h
      BY <1>1, <2>1
    <2> QED BY <1>1, <2>1, <2>2
  <1>6. ReloadDue => ReloadDue'
    <2>1. \A k \in Handler \ {h} : job'[k].op = job[k].op
      BY BegunKeeps
    <2> QED BY <1>1, <2>1 DEF ReloadDue, Reloads
  <1>7. LoadInv'
    BY <1>2, <1>6 DEF ServeInv, LoadInv, TestPasses
  <1> QED BY <1>3, <1>4, <1>5, <1>7 DEF ServeInv, MetInv, AnswerInv, EraseInv

LEMMA ServeNext ==
    ASSUME ~LateErase, TypeInv, ServeInv, [Next]_vars
    PROVE  ServeInv'
  <1>1. ASSUME NEW h \in Handler, Handle(h) PROVE ServeInv'
    <2>1. CASE \E i \in Host : Create(h, i)
      BY <2>1, BeginKeepsServe DEF Create
    <2>2. CASE \E i \in Host : \E op \in Op \ {"create", "undo"} : Get(h, op, i)
      BY <2>2, BeginKeepsServe DEF Get
    <2>3. CASE Steps(h)
      BY <2>3, StepKeepsMet, StepKeepsLoad, StepKeepsErase DEF ServeInv
    <2>4. CASE Abort(h)
      <3>1. \A k \in Handler : job'[k].at = "idle"
        BY <2>4, IdleJob DEF Abort
      <3>2. \A i \in Host : erasing'[i] = 0
        BY <2>4 DEF Abort
      <3>3. LoadInv'
        <4>1. signalled' \/ ~TestPasses'
          BY <2>4 DEF Abort, TestPasses
        <4> QED BY <4>1 DEF LoadInv, ReloadDue
      <3> QED BY <3>1, <3>2, <3>3 DEF ServeInv, MetInv, AnswerInv, EraseInv
    <2> QED BY <1>1, <2>1, <2>2, <2>3, <2>4 DEF Handle, Steps, Fetch
  <1>2. ASSUME NEW i \in Host, Erase(i) PROVE ServeInv'
    <2>1. /\ UNCHANGED <<loaded, signalled, job, answer>>
          /\ \A k \in Host \ {i} : files'[k] = files[k] /\ erasing'[k] = erasing[k]
          /\ erasing[i] > 0
      BY <1>2 DEF Erase, TypeInv
    <2>2. answer[i] = "none"
      BY <2>1 DEF ServeInv, EraseInv, AnswerInv
    <2>3. MetInv' /\ AnswerInv'
      BY <2>1 DEF ServeInv, MetInv, AnswerInv
    <2>4. EraseInv'
      BY <2>1 DEF ServeInv, EraseInv
    <2>5. LoadInv'
      <3>1. \E h \in Handler : job[h].at = "reload"
        BY <2>1 DEF ServeInv, EraseInv
      <3> QED BY <2>1, <3>1 DEF LoadInv, ReloadDue, Reloads
    <2> QED BY <2>3, <2>4, <2>5 DEF ServeInv
  <1>3. CASE NginxReloads
    <2>1. UNCHANGED <<files, erasing, job, answer>>
      BY <1>3 DEF NginxReloads
    <2>2. MetInv' /\ AnswerInv' /\ EraseInv'
      BY <2>1 DEF ServeInv, MetInv, AnswerInv, EraseInv
    <2>3. CASE TestPasses
      <3>1. loaded' = files'
        BY <1>3, <2>3 DEF NginxReloads
      <3>2. LoadInv'
        BY <3>1 DEF LoadInv
      <3> QED BY <2>2, <3>2 DEF ServeInv
    <2>4. CASE ~TestPasses
      <3>1. ~TestPasses'
        BY <2>1, <2>4 DEF TestPasses
      <3>2. LoadInv'
        BY <3>1 DEF LoadInv
      <3> QED BY <2>2, <3>2 DEF ServeInv
    <2> QED BY <2>3, <2>4
  <1>4. CASE UNCHANGED vars
    BY <1>4 DEF vars, ServeInv, MetInv, AnswerInv, EraseInv, LoadInv, ReloadDue,
                Reloads, TestPasses
  <1> QED BY <1>1, <1>2, <1>3, <1>4 DEF Next

(* If the erasure that configure() does not await is over before the       *)
(* reload that follows it, nginx serves the files on disk once nothing is  *)
(* in flight and no abort has left a broken file: whatever reloads are     *)
(* refused on the way, the one that follows the last broken file is not.   *)
THEOREM FilesServed ==
    ASSUME ~LateErase
    PROVE  Spec => []ServesFiles
  <1>1. TypeInv /\ ServeInv /\ [Next]_vars => ServeInv'
    BY ServeNext
  <1> QED BY <1>1, ServeInit, ServeImplies, TypeInvariance, PTL DEF Spec

-----------------------------------------------------------------------------
(* What it takes for an answer to hold.  The steps of each operation...    *)
OpOK(j) ==
    /\ j.host \in Site => j.op \in {"update", "undo"}
    /\ j.at = "refetch" => j.op \in {"create", "update"}
    /\ j.at \in {"test", "write", "retest", "online", "offline"} =>
          j.op \in {"create", "update", "enable"}
    /\ j.at \in {"online", "offline"} => j.host \notin Site
    /\ j.at = "remove" => j.op \in {"delete", "disable"}
    /\ j.at = "undo" => j.op = "undo"

OpInv == \A h \in Handler : job[h].at # "idle" => OpOK(job[h])

(* ... the default site's row, which is never deleted...                   *)
SiteInv == \A i \in Site : Live(i)

Configures(op, i) == op \in {"create", "enable"} \/ (op = "update" /\ i \notin Dead)

DoneFor(op, i, row, file) ==
    /\ op \in {"delete", "disable"} => file = NoFile
    /\ Configures(op, i) =>
          file = IF row.online \/ i \in Site THEN Rendered(row) ELSE NoFile

(* ... and how far a request has come that meets no other for its host: it *)
(* holds what the row calls for, has written what it holds, and has done   *)
(* what it will answer before it reloads nginx.                            *)
ProgressOf(j, row, file, calls) ==
    /\ j.at = "patch" /\ j.op = "enable" => row.state = "live" /\ j.seen = row.config
    /\ j.at \in {"test", "write", "retest", "online", "offline"}
          /\ Configures(j.op, j.host) => row.state = "live" /\ j.seen = Rendered(row)
    /\ j.at \in {"retest", "online", "offline"} => file = j.seen
    /\ j.at \in {"reload", "signal"} => DoneFor(j.op, j.host, row, file)
    /\ calls > 0 => file = NoFile

Progress(h) ==
    ProgressOf(job[h], table[job[h].host], files[job[h].host], erasing[job[h].host])

AloneInv == \A h \in Handler : job[h].at # "idle" /\ job[h].met = {} => Progress(h)

DoneInv == OpInv /\ SiteInv /\ AloneInv /\ AnswerHolds

LEMMA AnswersDone ==
    AnswerHolds <=>
        \A i \in Host : BusyOn(i) = {} => DoneFor(answer[i], i, table[i], files[i])
  BY DEF AnswerHolds, DoneFor, HasItsFile, Configures

LEMMA DoneInit == Init => DoneInv
  <1> SUFFICES ASSUME Init PROVE DoneInv
    OBVIOUS
  <1>1. \A h \in Handler : job[h].at = "idle"
    BY IdleJob DEF Init
  <1>2. \A i \in Host : answer[i] = "none"
    BY DEF Init
  <1>3. SiteInv
    BY HostsAssumption DEF Init, SiteInv, Live, Congratulations
  <1> QED BY <1>1, <1>2, <1>3 DEF DoneInv, OpInv, AloneInv, AnswerHolds

(* What a step does to the request that makes it...                        *)
LEMMA GotoKeeps ==
    ASSUME TypeInv, NEW h \in Handler, NEW at, Goto(h, at)
    PROVE  /\ job'[h].at = at /\ job'[h].op = job[h].op /\ job'[h].host = job[h].host
           /\ job'[h].seen = job[h].seen /\ job'[h].met = job[h].met
  BY DEF Goto, TypeInv, Job

LEMMA GivenKeeps ==
    ASSUME TypeInv, NEW h \in Handler, NEW at, NEW seen,
           job' = [job EXCEPT ![h].at = at, ![h].seen = seen]
    PROVE  /\ job'[h].at = at /\ job'[h].op = job[h].op /\ job'[h].host = job[h].host
           /\ job'[h].seen = seen /\ job'[h].met = job[h].met
  BY DEF TypeInv, Job

LEMMA GiveUpKeeps ==
    ASSUME TypeInv, NEW h \in Handler, GiveUp(h)
    PROVE  /\ job'[h].at = "undo" /\ job'[h].op = "undo" /\ job'[h].host = job[h].host
           /\ files'[job[h].host] = NoFile
  <1>1. job[h].host \in Host
    BY JobFields
  <1> QED BY <1>1 DEF GiveUp, TypeInv, Job

(* ... and to the row and the file of its host, and of the others.         *)
LEMMA PatchedRow ==
    ASSUME TypeInv, NEW i \in Host, NEW row, table' = Patched(i, row)
    PROVE  /\ Live(i) => table'[i] = row
           /\ ~Live(i) => table'[i] = table[i]
           /\ \A k \in Host \ {i} : table'[k] = table[k]
  BY DEF Patched, TypeInv

LEMMA StepHere ==
    ASSUME TypeInv, NEW h \in Handler, Steps(h)
    PROVE  \A i \in Host \ {job[h].host} :
              files'[i] = files[i] /\ table'[i] = table[i] /\ erasing'[i] = erasing[i]
  <1>1. job[h].host \in Host
    BY JobFields
  <1>2. \A i \in Host \ {job[h].host} : files'[i] = files[i]
    <2>1. CASE Fails(h) \/ GiveUp(h)
      BY <2>1, FailsJobs, GiveUpJobs
    <2>2. CASE ~Fails(h) /\ ~GiveUp(h)
      BY <2>2 DEF Steps, Configure, PatchUpdate, PatchEnable, PatchDisable, Fetch, Gone,
           Refetch, RefetchProxy, RefetchDead, RefetchSite, ConfigureWith,
           Test, Write, WriteFails, Retest, TestSite, TestUndone, MarkOnline,
           MarkOffline, Remove, Reload, Signal, TypeInv
    <2> QED BY <2>1, <2>2
  <1>3. \A i \in Host \ {job[h].host} : erasing'[i] = erasing[i]
    BY DEF Steps, Configure, PatchUpdate, PatchEnable, PatchDisable, Fetch, Gone,
           Refetch, RefetchProxy, RefetchDead, RefetchSite, ConfigureWith,
           Test, Write, WriteFails, Retest, TestSite, TestUndone, MarkOnline,
           MarkOffline, Remove, Reload, Signal, TypeInv
  <1>4. table' = table \/ \E row : table' = Patched(job[h].host, row)
    BY DEF Steps, Configure, PatchUpdate, PatchEnable, PatchDisable, Fetch, Gone,
           Refetch, RefetchProxy, RefetchDead, RefetchSite, ConfigureWith,
           Test, Write, WriteFails, Retest, TestSite, TestUndone, MarkOnline,
           MarkOffline, Remove, Reload, Signal
  <1>5. \A i \in Host \ {job[h].host} : table'[i] = table[i]
    BY <1>1, <1>4, PatchedRow
  <1> QED BY <1>2, <1>3, <1>5

(* The request that makes the step is where its operation goes.            *)
LEMMA StepKeepsOp ==
    ASSUME TypeInv, OpInv, NEW h \in Handler, Steps(h), job'[h].at # "idle"
    PROVE  OpOK(job'[h])
  <1>1. OpOK(job[h])
    BY StepJobs DEF OpInv
  <1>2. CASE PatchUpdate(h) \/ PatchEnable(h) \/ PatchDisable(h)
    <2>1. \/ Goto(h, "refetch") /\ job[h].op = "update"
          \/ Goto(h, "test") /\ job[h].op = "enable"
          \/ Goto(h, "remove") /\ job[h].op \in {"delete", "disable"}
      BY <1>2 DEF PatchUpdate, PatchEnable, PatchDisable
    <2> QED BY <1>1, <2>1, GotoKeeps DEF OpOK
  <1>3. CASE Fetch(h)
    <2>1. job[h].at = "refetch"
      BY <1>3 DEF Fetch, Gone, Refetch, RefetchProxy, RefetchDead, RefetchSite, Fetched, At
    <2>2. \/ job'[h].at = "idle"
          \/ \E at \in {"test", "write"} : \E seen :
                job' = [job EXCEPT ![h].at = at, ![h].seen = seen]
      BY <1>3, AnsweredJobs DEF Fetch, Gone, Refetch, RefetchProxy, RefetchDead,
         RefetchSite, ConfigureWith
    <2>3. PICK at \in {"test", "write"} :
              \E seen : job' = [job EXCEPT ![h].at = at, ![h].seen = seen]
      BY <2>2
    <2>4. PICK seen : job' = [job EXCEPT ![h].at = at, ![h].seen = seen]
      BY <2>3
    <2> QED BY <1>1, <2>1, <2>4, GivenKeeps DEF OpOK
  <1>4. CASE Succeed(h) \/ End(h)
    BY <1>4, AnsweredJobs
  <1>5. CASE GiveUp(h)
    BY <1>1, <1>5, GiveUpKeeps DEF OpOK
  <1>6. CASE Test(h) \/ Write(h)
    BY <1>1, <1>4, <1>6, GotoKeeps DEF Test, Write, At, OpOK
  <1>7. CASE Retest(h)
    <2>1. PICK at \in {"online", "offline"} : Goto(h, at)
      BY <1>7 DEF Retest
    <2> QED BY <1>1, <1>7, <2>1, GotoKeeps DEF Retest, At, OpOK
  <1>8. CASE WriteFails(h)
    BY <1>4, <1>5, <1>8 DEF WriteFails, Fails
  <1>9. CASE MarkOnline(h) \/ MarkOffline(h) \/ Remove(h)
    BY <1>1, <1>9, GotoKeeps DEF MarkOnline, MarkOffline, Remove, OpOK
  <1>10. CASE TestSite(h) \/ TestUndone(h)
    BY <1>1, <1>4, <1>5, <1>10, GotoKeeps DEF TestSite, TestUndone, OpOK
  <1>11. CASE Reload(h) \/ Signal(h)
    BY <1>1, <1>4, <1>5, <1>11, GotoKeeps DEF Reload, Signal, Fails, OpOK
  <1> QED BY <1>2, <1>3, <1>6, <1>7, <1>8, <1>9, <1>10, <1>11 DEF Steps, Configure

(* The erasures of a host whose only request is not about to reload are    *)
(* over.                                                                   *)
LEMMA AloneErased ==
    ASSUME TypeInv, MetInv, EraseInv, NEW h \in Handler, job[h].at # "idle",
           job[h].met = {}, erasing[job[h].host] > 0
    PROVE  job[h].at = "reload"
  <1>1. PICK k \in Handler : job[k].host = job[h].host /\ job[k].at = "reload"
    BY JobFields DEF EraseInv
  <1>2. k = h
    BY <1>1 DEF MetInv
  <1> QED BY <1>1, <1>2

(* Before it configures, a request patches its row and reads it again.     *)
LEMMA PatchProgress ==
    ASSUME TypeInv, OpInv, NEW h \in Handler, job[h].at # "idle", Progress(h),
           PatchUpdate(h) \/ PatchEnable(h) \/ PatchDisable(h) \/ Fetch(h),
           job'[h].at # "idle"
    PROVE  Progress(h)'
  <1> DEFINE i == job[h].host
  <1>1. i \in Host /\ OpOK(job[h]) /\ table[i] \in Row /\ files \in [Host -> Content \cup {NoFile}]
    BY JobFields DEF OpInv, TypeInv
  <1>2. /\ At(h, "patch") /\ job[h].op = "enable" =>
              table[i].state = "live" /\ job[h].seen = table[i].config
        /\ erasing[i] > 0 => files[i] = NoFile
    BY DEF Progress, ProgressOf, At
  <1>3. CASE PatchUpdate(h) \/ PatchDisable(h)
    <2>1. /\ \E at \in {"refetch", "remove"} : Goto(h, at)
          /\ UNCHANGED <<files, erasing>>
      BY <1>3 DEF PatchUpdate, PatchDisable
    <2>2. job'[h].at \in {"refetch", "remove"} /\ job'[h].host = i
      BY <2>1, GotoKeeps
    <2> QED BY <1>2, <2>1, <2>2 DEF Progress, ProgressOf
  <1>4. CASE PatchEnable(h)
    <2>1. /\ Goto(h, "test") /\ UNCHANGED <<files, erasing>>
          /\ job[h].at = "patch" /\ job[h].op = "enable"
          /\ table' = Patched(i, [table[i] EXCEPT !.enabled = TRUE])
      BY <1>4 DEF PatchEnable, At
    <2>2. table'[i] = [table[i] EXCEPT !.enabled = TRUE]
      BY <1>1, <1>2, <2>1, PatchedRow DEF At, Live
    <2>3. /\ table'[i].state = "live" /\ table'[i].enabled = TRUE
          /\ table'[i].config = table[i].config
      BY <1>1, <1>2, <2>1, <2>2 DEF At, Row
    <2>4. Rendered(table'[i]) = job[h].seen
      BY <1>2, <2>1, <2>3 DEF At, Rendered
    <2>5. /\ job'[h].at = "test" /\ job'[h].host = i /\ job'[h].seen = job[h].seen
      BY <2>1, GotoKeeps
    <2> HIDE DEF i
    <2>6. Progress(h)'
      BY <1>2, <2>1, <2>3, <2>4, <2>5 DEF Progress, ProgressOf
    <2> QED BY <2>6
  <1>5. CASE Fetch(h)
    <2>1. Live(i) /\ UNCHANGED <<table, erasing>> /\ job[h].at = "refetch"
      BY <1>5, AnsweredJobs DEF Fetch, Gone, Refetch, RefetchProxy, RefetchDead,
         RefetchSite, Fetched, ConfigureWith, At
    <2>2. \/ ConfigureWith(h, Rendered(table[i]))
          \/ ConfigureWith(h, job[h].seen) /\ ~Configures(job[h].op, i)
          \/ /\ job' = [job EXCEPT ![h].at = "write", ![h].seen = Rendered(table[i])]
             /\ files' = [files EXCEPT ![i] = NoFile]
      BY <1>5, AnsweredJobs DEF Fetch, Gone, Refetch, RefetchProxy, RefetchDead,
         RefetchSite, Configures
    <2>3. /\ job'[h].at \in {"test", "write"} /\ job'[h].host = i
          /\ job'[h].op = job[h].op
          /\ Configures(job[h].op, i) => job'[h].seen = Rendered(table[i])
          /\ files'[i] \in {files[i], NoFile}
      <3> DEFINE what == Rendered(table[i])
      <3>1. CASE ConfigureWith(h, what)
        <4>1. job' = [job EXCEPT ![h].at = "test", ![h].seen = what] /\ UNCHANGED files
          BY <3>1 DEF ConfigureWith
        <4> HIDE DEF what
        <4>2. /\ job'[h].at = "test" /\ job'[h].op = job[h].op
              /\ job'[h].host = job[h].host /\ job'[h].seen = what
          BY <4>1 DEF TypeInv, Job
        <4> QED BY <4>1, <4>2 DEF what
      <3>2. CASE ConfigureWith(h, job[h].seen) /\ ~Configures(job[h].op, i)
        BY <3>2, GivenKeeps DEF ConfigureWith
      <3>3. CASE /\ job' = [job EXCEPT ![h].at = "write", ![h].seen = what]
                 /\ files' = [files EXCEPT ![i] = NoFile]
        <4>1. files'[i] = NoFile
          BY <1>1, <3>3
        <4> HIDE DEF what
        <4>2. /\ job'[h].at = "write" /\ job'[h].op = job[h].op
              /\ job'[h].host = job[h].host /\ job'[h].seen = what
          BY <3>3 DEF TypeInv, Job
        <4> QED BY <4>1, <4>2 DEF what
      <3> QED BY <2>2, <3>1, <3>2, <3>3
    <2>4. table'[i].state = "live" /\ table'[i] = table[i] /\ erasing'[i] = erasing[i]
      BY <2>1 DEF Live
    <2> HIDE DEF i
    <2>5. Progress(h)'
      BY <1>2, <2>3, <2>4 DEF Progress, ProgressOf
    <2> QED BY <2>5
  <1> QED BY <1>3, <1>4, <1>5

(* Then it writes the file, tests and marks it.                            *)
LEMMA ConfigureProgress ==
    ASSUME TypeInv, OpInv, NEW h \in Handler, job[h].at # "idle", Progress(h),
           job[h].at # "reload" => ~(erasing[job[h].host] > 0),
           Configure(h), job'[h].at # "idle"
    PROVE  Progress(h)'
  <1> DEFINE i == job[h].host
             op == job[h].op
             seen == job[h].seen
  <1>1. i \in Host /\ OpOK(job[h]) /\ table[i] \in Row /\ files \in [Host -> Content \cup {NoFile}]
    BY JobFields DEF OpInv, TypeInv
  <1>2. /\ job[h].at \in {"test", "write", "retest", "online", "offline"}
              /\ Configures(op, i) => table[i].state = "live" /\ seen = Rendered(table[i])
        /\ job[h].at \in {"retest", "online", "offline"} => files[i] = seen
        /\ erasing[i] > 0 => files[i] = NoFile
    BY DEF Progress, ProgressOf
  <1>3. CASE GiveUp(h) /\ UNCHANGED <<table, erasing>>
    <2>1. job'[h].at = "undo" /\ job'[h].host = i /\ files'[i] = NoFile
      BY <1>3, GiveUpKeeps
    <2> QED BY <2>1 DEF Progress, ProgressOf
  <1>4. ASSUME NEW at, Goto(h, at)
        PROVE  /\ job'[h].at = at /\ job'[h].op = op /\ job'[h].host = i
               /\ job'[h].seen = seen
    BY <1>4, GotoKeeps
  <1>5. CASE Test(h)
    <2>1. /\ job[h].at = "test" /\ UNCHANGED <<table, erasing>>
          /\ Goto(h, "write") /\ files' = [files EXCEPT ![i] = NoFile]
      BY <1>5, AnsweredJobs DEF Test, At
    <2>2. files'[i] = NoFile
      BY <1>1, <2>1
    <2>3. job'[h].at = "write" /\ job'[h].op = op /\ job'[h].host = i /\ job'[h].seen = seen
      BY <1>4, <2>1
    <2> HIDE DEF i, op, seen
    <2> QED BY <1>2, <2>1, <2>2, <2>3 DEF Progress, ProgressOf
  <1>6. CASE Write(h)
    <2>1. /\ job[h].at = "write" /\ UNCHANGED <<table, erasing>>
          /\ Goto(h, "retest") /\ files' = [files EXCEPT ![i] = seen]
      BY <1>6 DEF Write, At
    <2>2. files'[i] = seen /\ ~(erasing[i] > 0)
      BY <1>1, <2>1
    <2>3. job'[h].at = "retest" /\ job'[h].op = op /\ job'[h].host = i /\ job'[h].seen = seen
      BY <1>4, <2>1
    <2> HIDE DEF i, op, seen
    <2> QED BY <1>2, <2>1, <2>2, <2>3 DEF Progress, ProgressOf
  <1>7. CASE WriteFails(h)
    <2>1. GiveUp(h) /\ UNCHANGED <<table, erasing>>
      BY <1>7, AnsweredJobs DEF WriteFails, Fails
    <2> QED BY <1>3, <2>1
  <1>8. CASE Retest(h)
    <2>1. /\ job[h].at = "retest" /\ UNCHANGED <<table, files, erasing>>
          /\ \E at \in {"online", "offline"} : Goto(h, at)
      BY <1>8 DEF Retest, At
    <2>2. /\ job'[h].at \in {"online", "offline"} /\ job'[h].op = op
          /\ job'[h].host = i /\ job'[h].seen = seen
      BY <1>4, <2>1
    <2> HIDE DEF i, op, seen
    <2> QED BY <1>2, <2>1, <2>2 DEF Progress, ProgressOf
  <1>9. CASE TestSite(h)
    <2>1. CASE ~TestPasses
      BY <1>3, <1>9, <2>1 DEF TestSite
    <2>2. CASE TestPasses
      <3>1. /\ job[h].at = "retest" /\ i \in Site /\ Goto(h, "reload")
            /\ UNCHANGED <<table, files, erasing>>
        BY <1>9, <2>2 DEF TestSite, At
      <3>2. DoneFor(op, i, table[i], files[i])
        BY <1>1, <1>2, <3>1 DEF DoneFor, OpOK
      <3>3. job'[h].at = "reload" /\ job'[h].op = op /\ job'[h].host = i
        BY <1>4, <3>1
      <3> HIDE DEF i, op, seen
      <3> QED BY <1>2, <3>1, <3>2, <3>3 DEF Progress, ProgressOf
    <2> QED BY <2>1, <2>2
  <1>10. CASE TestUndone(h)
    <2>1. job[h].at = "undo" /\ Goto(h, "reload") /\ UNCHANGED <<table, files, erasing>>
      BY <1>10, AnsweredJobs DEF TestUndone, At
    <2>2. DoneFor(op, i, table[i], files[i])
      BY <1>1, <2>1 DEF DoneFor, OpOK, Configures
    <2>3. job'[h].at = "reload" /\ job'[h].op = op /\ job'[h].host = i
      BY <1>4, <2>1
    <2> HIDE DEF i, op, seen
    <2> QED BY <1>2, <2>1, <2>2, <2>3 DEF Progress, ProgressOf
  <1>11. CASE MarkOnline(h)
    <2>1. /\ job[h].at = "online" /\ Goto(h, "reload") /\ UNCHANGED <<files, erasing>>
          /\ table' = Patched(i, [table[i] EXCEPT !.online = TRUE])
      BY <1>11 DEF MarkOnline, At
    <2>2. DoneFor(op, i, table'[i], files[i])
      <3>1. op \in {"create", "update", "enable"} /\ i \notin Site
        BY <1>1, <2>1 DEF OpOK
      <3>2. ASSUME Configures(op, i)
            PROVE  files[i] = IF table'[i].online \/ i \in Site
                              THEN Rendered(table'[i]) ELSE NoFile
        <4>1. table'[i] = [table[i] EXCEPT !.online = TRUE]
          BY <1>1, <1>2, <2>1, <3>2, PatchedRow DEF Live
        <4>2. /\ table'[i].online = TRUE /\ table'[i].enabled = table[i].enabled
              /\ table'[i].config = table[i].config
          BY <1>1, <4>1 DEF Row
        <4> QED BY <1>2, <2>1, <3>2, <4>2 DEF Rendered
      <3> QED BY <3>1, <3>2 DEF DoneFor
    <2>3. job'[h].at = "reload" /\ job'[h].op = op /\ job'[h].host = i
      BY <1>4, <2>1
    <2> HIDE DEF i, op, seen
    <2> QED BY <1>2, <2>1, <2>2, <2>3 DEF Progress, ProgressOf
  <1>12. CASE MarkOffline(h)
    <2>1. /\ job[h].at = "offline" /\ Goto(h, "reload")
          /\ files' = [files EXCEPT ![i] = NoFile]
          /\ table' = Patched(i, [table[i] EXCEPT !.online = FALSE])
      BY <1>12 DEF MarkOffline, At
    <2>2. files'[i] = NoFile
      BY <1>1, <2>1
    <2>3. DoneFor(op, i, table'[i], files'[i])
      <3>1. op \in {"create", "update", "enable"} /\ i \notin Site
        BY <1>1, <2>1 DEF OpOK
      <3>2. ASSUME Configures(op, i) PROVE ~table'[i].online
        <4>1. table'[i] = [table[i] EXCEPT !.online = FALSE]
          BY <1>1, <1>2, <2>1, <3>2, PatchedRow DEF Live
        <4> QED BY <1>1, <4>1 DEF Row
      <3> QED BY <2>2, <3>1, <3>2 DEF DoneFor
    <2>4. job'[h].at = "reload" /\ job'[h].op = op /\ job'[h].host = i
      BY <1>4, <2>1
    <2> HIDE DEF i, op, seen
    <2> QED BY <2>2, <2>3, <2>4 DEF Progress, ProgressOf
  <1> QED BY <1>5, <1>6, <1>7, <1>8, <1>9, <1>10, <1>11, <1>12 DEF Configure

(* Last, nginx is reloaded.                                                *)
LEMMA ReloadProgress ==
    ASSUME TypeInv, OpInv, NEW h \in Handler, job[h].at # "idle", Progress(h),
           Remove(h) \/ Reload(h) \/ Signal(h), job'[h].at # "idle"
    PROVE  Progress(h)'
  <1> DEFINE i == job[h].host
             op == job[h].op
  <1>1. i \in Host /\ OpOK(job[h]) /\ files \in [Host -> Content \cup {NoFile}]
    BY JobFields DEF OpInv, TypeInv
  <1>2. /\ job[h].at \in {"reload", "signal"} => DoneFor(op, i, table[i], files[i])
        /\ erasing[i] > 0 => files[i] = NoFile
    BY DEF Progress, ProgressOf
  <1>3. UNCHANGED <<table, erasing>>
    BY DEF Remove, Reload, Signal
  <1>4. CASE GiveUp(h)
    <2>1. job'[h].at = "undo" /\ job'[h].host = i /\ files'[i] = NoFile
      BY <1>4, GiveUpKeeps
    <2> QED BY <2>1 DEF Progress, ProgressOf
  <1>5. CASE Remove(h)
    <2>1. /\ job[h].at = "remove" /\ Goto(h, "reload")
          /\ files' = [files EXCEPT ![i] = NoFile]
      BY <1>5 DEF Remove, At
    <2>2. files'[i] = NoFile
      BY <1>1, <2>1
    <2>3. DoneFor(op, i, table[i], files'[i])
      BY <1>1, <2>1, <2>2 DEF DoneFor, OpOK, Configures
    <2>4. job'[h].at = "reload" /\ job'[h].op = op /\ job'[h].host = i
      BY <2>1, GotoKeeps
    <2> HIDE DEF i, op
    <2> QED BY <1>3, <2>2, <2>3, <2>4 DEF Progress, ProgressOf
  <1>6. CASE ~GiveUp(h) /\ (Reload(h) \/ Signal(h))
    <2>1. Goto(h, "signal") /\ UNCHANGED files /\ job[h].at = "reload"
      BY <1>6, AnsweredJobs DEF Reload, Signal, Fails, At
    <2>2. job'[h].at = "signal" /\ job'[h].op = op /\ job'[h].host = i
      BY <2>1, GotoKeeps
    <2> HIDE DEF i, op
    <2> QED BY <1>2, <1>3, <2>1, <2>2 DEF Progress, ProgressOf
  <1> QED BY <1>4, <1>5, <1>6

(* A step of a request for another host leaves what this one has done.     *)
LEMMA StepKeepsAlone ==
    ASSUME TypeInv, ServeInv, DoneInv, NEW h \in Handler, Steps(h)
    PROVE  AloneInv'
  <1> SUFFICES ASSUME NEW k \in Handler, job'[k].at # "idle", job'[k].met = {}
               PROVE  Progress(k)'
    BY DEF AloneInv
  <1>1. job[h].at # "idle"
    BY StepJobs
  <1>2. CASE k = h
    <2>1. job[h].met = {}
      BY <1>2, StepJobs
    <2>2. Progress(h)
      BY <1>1, <2>1 DEF DoneInv, AloneInv
    <2>3. job[h].at # "reload" => ~(erasing[job[h].host] > 0)
      BY <1>1, <2>1, AloneErased DEF ServeInv
    <2> QED BY <1>1, <1>2, <2>2, <2>3, PatchProgress, ConfigureProgress, ReloadProgress
            DEF Steps, DoneInv
  <1>3. CASE k # h
    <2>1. job'[k] = job[k]
      BY <1>3, StepJobs
    <2>2. job[k].host # job[h].host /\ job[k].host \in Host
      BY <1>1, <1>3, <2>1, JobFields DEF ServeInv, MetInv
    <2>3. Progress(k)
      BY <2>1 DEF DoneInv, AloneInv
    <2> QED BY <2>1, <2>2, <2>3, StepHere DEF Progress
  <1> QED BY <1>2, <1>3

(* A request that is answered says what it has done.                       *)
LEMMA StepAnswers ==
    ASSUME TypeInv, ServeInv, DoneInv, NEW h \in Handler, Steps(h)
    PROVE  AnswerHolds'
  <1>1. /\ job[h].at # "idle" /\ job[h].host \in Host
        /\ \A k \in Handler \ {h} : job'[k] = job[k]
        /\ job'[h].at # "idle" => job'[h].host = job[h].host
        /\ \A i \in Host : answer'[i] = answer[i]
              \/ (job[h].met = {} /\ job'[h].at = "idle" /\ i = job[h].host)
    BY StepJobs, JobFields
  <1> SUFFICES ASSUME NEW i \in Host, BusyOn(i)' = {}
               PROVE  DoneFor(answer'[i], i, table'[i], files'[i])
    BY DEF AnswerHolds, DoneFor, HasItsFile, Configures
  <1>2. CASE i # job[h].host
    <2>1. BusyOn(i) = {}
      BY <1>1, <1>2 DEF BusyOn
    <2>2. answer'[i] = answer[i] /\ table'[i] = table[i] /\ files'[i] = files[i]
      BY <1>1, <1>2, StepHere
    <2> QED BY <2>1, <2>2, AnswersDone DEF DoneInv
  <1>3. CASE i = job[h].host
    <2>1. answer[i] = "none"
      BY <1>1, <1>3 DEF ServeInv, AnswerInv
    <2>2. CASE answer'[i] = "none"
      BY <2>2 DEF DoneFor, Configures
    <2>3. CASE answer'[i] # "none"
      <3>1. answer' # answer
        BY <2>1, <2>3
      <3>2. Signal(h) /\ Succeed(h) /\ UNCHANGED <<table, files>>
        BY <3>1 DEF Steps, Configure, PatchUpdate, PatchEnable, PatchDisable, Fetch, Gone,
           Refetch, RefetchProxy, RefetchDead, RefetchSite, ConfigureWith,
           Test, Write, WriteFails, Retest, TestSite, TestUndone, MarkOnline,
           MarkOffline, Remove, Reload, Signal, Goto, End, Fails, GiveUp
      <3>3. job[h].met = {} /\ answer'[i] = job[h].op /\ job[h].at = "signal"
        BY <1>1, <1>3, <3>1, <3>2 DEF Succeed, TypeInv, Signal, At
      <3>4. DoneFor(job[h].op, i, table[i], files[i])
        BY <1>1, <1>3, <3>3 DEF DoneInv, AloneInv, Progress, ProgressOf
      <3> QED BY <3>2, <3>3, <3>4
    <2> QED BY <2>2, <2>3
  <1> QED BY <1>2, <1>3

(* Only a deletion takes a row away, and the default site has none.        *)
LEMMA StepKeepsSite ==
    ASSUME TypeInv, DoneInv, NEW h \in Handler, Steps(h)
    PROVE  SiteInv'
  <1>1. job[h].at # "idle" /\ job[h].host \in Host /\ OpOK(job[h])
    BY StepJobs, JobFields DEF DoneInv, OpInv
  <1>2. SUFFICES ASSUME job[h].host \in Site PROVE table'[job[h].host].state = "live"
    BY <1>1, StepHere, HostsAssumption DEF DoneInv, SiteInv, Live
  <1> DEFINE row == table[job[h].host]
  <1>3. row \in Row /\ row.state = "live"
    BY <1>1, <1>2 DEF TypeInv, DoneInv, SiteInv, Live
  <1>4. CASE UNCHANGED table
    BY <1>3, <1>4
  <1>5. ASSUME NEW new, table' = Patched(job[h].host, new), new.state = "live"
        PROVE  table'[job[h].host].state = "live"
    BY <1>1, <1>3, <1>5, PatchedRow DEF Live
  <1>6. CASE PatchUpdate(h)
    <2>1. PICK c \in Content, e \in BOOLEAN :
              table' = Patched(job[h].host, [row EXCEPT !.config = c, !.enabled = e])
      BY <1>6 DEF PatchUpdate
    <2> DEFINE new == [row EXCEPT !.config = c, !.enabled = e]
    <2>2. table' = Patched(job[h].host, new) /\ new.state = "live"
      BY <1>3, <2>1 DEF Row
    <2> HIDE DEF new
    <2> QED BY <1>5, <2>2
  <1>7. CASE PatchEnable(h)
    <2> DEFINE new == [row EXCEPT !.enabled = TRUE]
    <2>1. table' = Patched(job[h].host, new)
      BY <1>7 DEF PatchEnable
    <2>2. new.state = "live"
      BY <1>3 DEF Row
    <2> HIDE DEF new
    <2> QED BY <1>5, <2>1, <2>2
  <1>8. ~PatchDisable(h)
    BY <1>1, <1>2 DEF PatchDisable, OpOK
  <1>9. ASSUME NEW b \in BOOLEAN, table' = Patched(job[h].host, [row EXCEPT !.online = b])
        PROVE  table'[job[h].host].state = "live"
    <2> DEFINE new == [row EXCEPT !.online = b]
    <2>1. table' = Patched(job[h].host, new) /\ new.state = "live"
      BY <1>3, <1>9 DEF Row
    <2> HIDE DEF new
    <2> QED BY <1>5, <2>1
  <1>10. CASE MarkOnline(h) \/ MarkOffline(h)
    BY <1>9, <1>10 DEF MarkOnline, MarkOffline
  <1>11. UNCHANGED table \/ PatchUpdate(h) \/ PatchEnable(h) \/ MarkOnline(h) \/ MarkOffline(h)
    BY <1>8 DEF Steps, Configure, Fetch, Gone,
           Refetch, RefetchProxy, RefetchDead, RefetchSite, ConfigureWith,
           Test, Write, WriteFails, Retest, TestSite, TestUndone, Remove, Reload, Signal
  <1> QED BY <1>4, <1>6, <1>7, <1>10, <1>11

LEMMA StepKeepsDone ==
    ASSUME TypeInv, ServeInv, DoneInv, NEW h \in Handler, Steps(h)
    PROVE  DoneInv'
  <1>1. OpInv'
    BY StepKeepsOp, StepJobs DEF DoneInv, OpInv
  <1> QED BY <1>1, StepKeepsAlone, StepAnswers, StepKeepsSite DEF DoneInv

(* A request that begins has done nothing yet, and those it meets are not  *)
(* spoken of any more.                                                     *)
LEMMA BeginKeepsDone ==
    ASSUME TypeInv, ServeInv, DoneInv, NEW h \in Handler, NEW i \in Host, NEW op,
           NEW at, NEW seen, at \in {"patch", "refetch"},
           Begin(h, op, i, at, seen), UNCHANGED <<files, erasing>>,
           \A k \in Host \ {i} : table'[k] = table[k],
           Live(i) => table'[i] = table[i],
           at = "refetch" => op = "create",
           i \in Site => op = "update",
           at = "patch" /\ op = "enable" => Live(i) /\ seen = table[i].config
    PROVE  DoneInv'
  <1> DEFINE new == [at |-> at, op |-> op, host |-> i, seen |-> seen,
                     met |-> BusyOn(i)]
  <1>1. /\ job'[h] = new
        /\ \A k \in Handler \ {h} :
              /\ job'[k].at = job[k].at /\ job'[k].op = job[k].op
              /\ job'[k].host = job[k].host
              /\ k \notin BusyOn(i) => job'[k] = job[k]
              /\ k \in BusyOn(i) => job'[k].met # {}
    BY BegunKeeps
  <1>2. /\ new.at = at /\ new.op = op /\ new.host = i /\ new.seen = seen
        /\ new.met = BusyOn(i)
    OBVIOUS
  <1> HIDE DEF new
  <1>3. OpInv'
    <2>1. OpOK(job'[h])
      BY <1>1, <1>2 DEF OpOK
    <2>2. ASSUME NEW k \in Handler \ {h}, job'[k].at # "idle" PROVE OpOK(job'[k])
      <3>1. OpOK(job[k])
        BY <1>1, <2>2 DEF DoneInv, OpInv
      <3> QED BY <1>1, <3>1 DEF OpOK
    <2> QED BY <2>1, <2>2 DEF OpInv
  <1>4. SiteInv'
    BY HostsAssumption DEF DoneInv, SiteInv, Live
  <1>5. ASSUME NEW k \in Handler, job'[k].at # "idle", job'[k].met = {}
        PROVE  Progress(k)'
    <2>1. CASE k = h
      <3>1. ~(erasing[i] > 0)
        <4>1. BusyOn(i) = {}
          BY <1>1, <1>2, <1>5, <2>1
        <4> QED BY <4>1 DEF ServeInv, EraseInv, BusyOn
      <3>2. at = "patch" /\ op = "enable" =>
               table'[i].state = "live" /\ seen = table'[i].config
        BY DEF Live
      <3> QED BY <1>1, <1>2, <2>1, <3>1, <3>2 DEF Progress, ProgressOf
    <2>2. CASE k # h
      <3>1. k \notin BusyOn(i)
        BY <1>1, <1>5, <2>2
      <3>2. job'[k] = job[k]
        BY <1>1, <2>2, <3>1
      <3>3. job[k].host # i /\ job[k].host \in Host
        BY <1>5, <3>1, <3>2, JobFields DEF BusyOn
      <3>4. Progress(k)
        BY <1>5, <3>2 DEF DoneInv, AloneInv
      <3> QED BY <3>2, <3>3, <3>4 DEF Progress
    <2> QED BY <2>1, <2>2
  <1>6. AnswerHolds'
    <2> SUFFICES ASSUME NEW k \in Host, BusyOn(k)' = {}
                 PROVE  DoneFor(answer'[k], k, table'[k], files'[k])
      BY DEF AnswerHolds, DoneFor, HasItsFile, Configures
    <2>1. k # i
      BY <1>1, <1>2 DEF BusyOn
    <2>2. BusyOn(k) = {}
      <3>1. h \notin BusyOn(k)
        BY DEF Begin, BusyOn
      <3> QED BY <1>1, <3>1 DEF BusyOn
    <2>3. answer'[k] = answer[k]
      BY <2>1 DEF Begin, TypeInv
    <2> QED BY <2>1, <2>2, <2>3, AnswersDone DEF DoneInv
  <1> QED BY <1>3, <1>4, <1>5, <1>6 DEF DoneInv, AloneInv

LEMMA DoneNext ==
    ASSUME TypeInv, ServeInv, DoneInv, [Next]_vars
    PROVE  DoneInv'
  <1>1. ASSUME NEW h \in Handler, Handle(h) PROVE DoneInv'
    <2>1. CASE \E i \in Host : Create(h, i)
      <3>1. PICK i \in Host : Create(h, i)
        BY <2>1
      <3>2. /\ table[i].state = "none" /\ Begin(h, "create", i, "refetch", NoFile)
            /\ UNCHANGED <<files, erasing>>
        BY <3>1 DEF Create
      <3>3. \A k \in Host \ {i} : table'[k] = table[k]
        BY <3>1 DEF Create, TypeInv
      <3>4. ~Live(i) /\ i \notin Site
        BY <3>2 DEF Live, DoneInv, SiteInv
      <3> QED BY <3>2, <3>3, <3>4, BeginKeepsDone
    <2>2. CASE \E i \in Host : \E op \in Op \ {"create", "undo"} : Get(h, op, i)
      <3>1. PICK i \in Host, op \in Op \ {"create", "undo"} : Get(h, op, i)
        BY <2>2
      <3> DEFINE seen == CASE op = "enable" -> table[i].config
                           [] op = "update" /\ i \in Dead -> Rendered(table[i])
                           [] OTHER -> NoFile
      <3>2. /\ Live(i) /\ (i \in Site => op = "update")
            /\ Begin(h, op, i, "patch", seen) /\ UNCHANGED <<table, files, erasing>>
        BY <3>1 DEF Get
      <3>3. op = "enable" => seen = table[i].config
        OBVIOUS
      <3> HIDE DEF seen
      <3> QED BY <3>2, <3>3, BeginKeepsDone
    <2>3. CASE Steps(h)
      BY <2>3, StepKeepsDone
    <2>4. CASE Abort(h)
      <3>1. /\ \A k \in Handler : job'[k].at = "idle"
            /\ UNCHANGED <<table, files, answer>>
        BY <2>4, IdleJob DEF Abort
      <3>2. AnswerHolds'
        <4> SUFFICES ASSUME NEW i \in Host
                     PROVE  DoneFor(answer[i], i, table[i], files[i])
          BY <3>1 DEF AnswerHolds, DoneFor, HasItsFile, Configures
        <4>1. CASE BusyOn(i) = {}
          BY <4>1, AnswersDone DEF DoneInv
        <4>2. CASE BusyOn(i) # {}
          <5>1. answer[i] = "none"
            BY <4>2 DEF BusyOn, ServeInv, AnswerInv
          <5> QED BY <5>1 DEF DoneFor, Configures
        <4> QED BY <4>1, <4>2
      <3> QED BY <3>1, <3>2 DEF DoneInv, OpInv, AloneInv, SiteInv, Live
    <2> QED BY <1>1, <2>1, <2>2, <2>3, <2>4 DEF Handle, Steps, Fetch
  <1>2. ASSUME NEW i \in Host, Erase(i) PROVE DoneInv'
    <2>1. /\ UNCHANGED <<table, job, answer>>
          /\ files'[i] = NoFile /\ erasing[i] > 0
          /\ \A k \in Host \ {i} : files'[k] = files[k] /\ erasing'[k] = erasing[k]
      BY <1>2 DEF Erase, TypeInv
    <2>2. OpInv' /\ SiteInv'
      BY <2>1 DEF DoneInv, OpInv, SiteInv, Live
    <2>3. ASSUME NEW h \in Handler, job[h].at # "idle", job[h].met = {}
          PROVE  Progress(h)'
      <3>1. Progress(h) /\ job[h].host \in Host
        BY <2>3, JobFields DEF DoneInv, AloneInv
      <3>2. files'[job[h].host] = files[job[h].host]
        BY <2>1, <3>1 DEF Progress, ProgressOf
      <3>3. CASE job[h].host = i
        BY <2>1, <3>1, <3>2, <3>3 DEF Progress, ProgressOf
      <3>4. CASE job[h].host # i
        BY <2>1, <3>1, <3>4 DEF Progress
      <3> QED BY <3>3, <3>4
    <2>4. AnswerHolds'
      <3>1. BusyOn(i) # {}
        BY <2>1 DEF ServeInv, EraseInv, BusyOn
      <3> SUFFICES ASSUME NEW k \in Host, BusyOn(k) = {}
                   PROVE  DoneFor(answer[k], k, table[k], files'[k])
        BY <2>1 DEF AnswerHolds, DoneFor, HasItsFile, Configures, BusyOn
      <3> QED BY <2>1, <3>1, AnswersDone DEF DoneInv
    <2> QED BY <2>1, <2>2, <2>3, <2>4 DEF DoneInv, AloneInv
  <1>3. CASE NginxReloads \/ UNCHANGED vars
    <2>1. UNCHANGED <<table, files, erasing, job, answer>>
      BY <1>3 DEF NginxReloads, vars
    <2> QED BY <2>1 DEF DoneInv, OpInv, SiteInv, Live, AloneInv, Progress, AnswerHolds,
               BusyOn, HasItsFile
  <1> QED BY <1>1, <1>2, <1>3 DEF Next

(* If the erasure that configure() does not await is over before the       *)
(* reload that follows it, a request that goes through and meets no other  *)
(* for its host has done what it answered, for any number of hosts and     *)
(* requests, and however many of those for other hosts fail.               *)
THEOREM AnswersHold ==
    ASSUME ~LateErase
    PROVE  Spec => []AnswerHolds
  <1>1. TypeInv /\ ServeInv /\ [Next]_vars => ServeInv'
    BY ServeNext
  <1>2. TypeInv /\ ServeInv /\ DoneInv /\ [Next]_vars => DoneInv'
    BY DoneNext
  <1>3. DoneInv => AnswerHolds
    BY DEF DoneInv
  <1> QED BY <1>1, <1>2, <1>3, ServeInit, DoneInit, TypeInvariance, PTL
          DEF Spec
=============================================================================
