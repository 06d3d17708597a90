----------------------------- MODULE NginxHosts -----------------------------
(***************************************************************************)
(* The hosts, their nginx configuration files, and the nginx that serves   *)
(* them: the handlers of backend/internal/proxy-host.js, of                *)
(* redirection-host.js and stream.js, which take the same steps but for    *)
(* one guard, and of dead-host.js, where an update configures the row it   *)
(* has read before it patched it; over configure(), deleteConfig() and     *)
(* reload() of backend/internal/nginx.js.  The default site of             *)
(* backend/internal/setting.js is one more host, that is only updated.     *)
(*                                                                         *)
(* `nginx -t` reads the files of all hosts: what one handler has written   *)
(* decides whether another's test passes.  Hostnames, certificates, access *)
(* lists and page passwords are left out; a request that is refused before *)
(* it changes anything is a stutter.                                       *)
(***************************************************************************)
EXTENDS Integers

CONSTANTS
    Host,           \* ids of hosts
    Proxy,          \* those that are proxy hosts
    Dead,           \* those that are dead hosts (404 hosts)
    Site,           \* the default site
    Handler,        \* requests in flight at once
    Config,         \* what a host's row can ask for
    Broken,         \* what nginx refuses of it
    NoFile,         \* the absence of a file
    Empty,          \* a file without a server, which is that of a disabled host
    LateErase,      \* may the erasure that configure() does not await be late?
    MaxRequests     \* bound: the requests accepted in a run

ASSUME HostsAssumption ==
    /\ Host # {}
    /\ Proxy \subseteq Host /\ Dead \subseteq Host \ Proxy
    /\ Site \subseteq Host \ (Proxy \cup Dead)
    /\ Broken \subseteq Config
    /\ NoFile \notin Config /\ Empty \notin Config \cup {NoFile}
    /\ LateErase \in BOOLEAN
    /\ MaxRequests \in Nat

(* "undo" is what is left of an update of the default site that has failed.*)
Op == {"create", "update", "delete", "enable", "disable", "undo"}

Step == {"idle", "patch", "refetch", "test", "write", "retest", "online",
         "offline", "remove", "undo", "reload", "signal"}

(* What a request writes to a file.                                        *)
Content == Config \cup {Empty}

Row == [state: {"none", "live", "deleted"}, enabled: BOOLEAN, online: BOOLEAN,
        config: Content \cup {NoFile}]

(* A request: where it is, its operation and host, what it would render    *)
(* the row it holds to, and the others for the same host it has met.       *)
Job == [at: Step, op: Op, host: Host, seen: Content \cup {NoFile},
        met: SUBSET Handler]

VARIABLES
    table,      \* the rows
    files,      \* /data/nginx/<type>/<id>.conf
    loaded,     \* what the running nginx serves
    signalled,  \* a reload has been asked of it and is not done
    erasing,    \* by host, the file-system calls renameConfigAsError has to make
    job,        \* the request each handler works on
    answer,     \* history: the last request for each host, if it went through
                \* the reload and met no other request for that host
    requests    \* the number of requests accepted

vars == <<table, files, loaded, signalled, erasing, job, answer, requests>>

NoRow   == [state |-> "none", enabled |-> FALSE, online |-> FALSE,
            config |-> NoFile]
Deleted == [NoRow EXCEPT !.state = "deleted"]

(* The value of a new default site is "congratulations", which asks for no *)
(* server.                                                                 *)
Congratulations ==
    [state |-> "live", enabled |-> TRUE, online |-> FALSE, config |-> Empty]

(* Steps at which a request holds a row to write, and has written it.      *)
Holds(h)  == job[h].at \in {"test", "write", "retest", "online", "offline"}
Wrote(h)  == job[h].at \in {"retest", "offline"}

TypeOK ==
    /\ table \in [Host -> Row]
    /\ \A i \in Host : table[i].state = "live" <=> table[i].config # NoFile
    /\ files \in [Host -> Content \cup {NoFile}]
    /\ loaded \in [Host -> Content \cup {NoFile}]
    /\ signalled \in BOOLEAN
    /\ erasing \in [Host -> 0..2]
    /\ job \in [Handler -> Job]
    /\ \A h \in Handler : Holds(h) => job[h].seen \in Content
    /\ answer \in [Host -> Op \cup {"none"}]
    /\ requests \in 0..MaxRequests

Idle == [at |-> "idle", op |-> "create", host |-> CHOOSE i \in Host : TRUE,
         seen |-> NoFile, met |-> {}]

Init ==
    /\ table = [i \in Host |-> IF i \in Site THEN Congratulations ELSE NoRow]
    /\ files = [i \in Host |-> NoFile]
    /\ loaded = files
    /\ signalled = FALSE
    /\ erasing = [i \in Host |-> 0]
    /\ job = [h \in Handler |-> Idle]
    /\ answer = [i \in Host |-> "none"]
    /\ requests = 0

-----------------------------------------------------------------------------
(* nginx -t: every file is in its configuration.                           *)
TestPasses == \A i \in Host : files[i] \notin Broken

Live(i) == table[i].state = "live"

BusyOn(i) == {h \in Handler : job[h].at # "idle" /\ job[h].host = i}

(* Handler h accepts a request for host i, and is next at step `at`.       *)
Begin(h, op, i, at, seen) ==
    /\ job[h].at = "idle"
    /\ requests < MaxRequests
    /\ requests' = requests + 1
    /\ job' = [k \in Handler |->
                 CASE k = h -> [at |-> at, op |-> op, host |-> i,
                                seen |-> seen, met |-> BusyOn(i)]
                   [] k \in BusyOn(i) -> [job[k] EXCEPT !.met = @ \cup {h}]
                   [] OTHER -> job[k]]
    /\ answer' = [answer EXCEPT ![i] = "none"]

Goto(h, at) ==
    /\ job' = [job EXCEPT ![h].at = at]
    /\ UNCHANGED <<answer, requests>>

(* The request is answered: having gone all the way through the reload ... *)
Succeed(h) ==
    /\ job' = [job EXCEPT ![h] = Idle]
    /\ answer' = IF job[h].met # {} THEN answer
                 ELSE [answer EXCEPT ![job[h].host] = job[h].op]
    /\ UNCHANGED requests

(* ... or with an error, or with nothing to configure.                     *)
End(h) ==
    /\ job' = [job EXCEPT ![h] = Idle]
    /\ UNCHANGED <<answer, requests>>

(* setting.update, when any of its steps fails: the file goes in the same  *)
(* turn, and a test and a reload follow that nobody waits for (Abort).     *)
GiveUp(h) ==
    /\ files' = [files EXCEPT ![job[h].host] = NoFile]
    /\ job' = [job EXCEPT ![h].at = "undo", ![h].op = "undo"]
    /\ UNCHANGED <<answer, requests>>

Fails(h) ==
    IF job[h].host \in Site /\ job[h].op = "update" THEN GiveUp(h)
    ELSE End(h) /\ UNCHANGED files

At(h, step) == job[h].at = step

-----------------------------------------------------------------------------
(* create: insert the row, enabled or not.                                 *)
Create(h, i) ==
    /\ table[i].state = "none"
    /\ Begin(h, "create", i, "refetch", NoFile)
    /\ \E c \in Config, e \in BOOLEAN :
          table' = [table EXCEPT ![i] =
                      [state |-> "live", enabled |-> e, online |-> FALSE,
                       config |-> c]]
    /\ UNCHANGED <<files, loaded, signalled, erasing>>

(* generateConfig: every template puts its servers in `if enabled`.        *)
Rendered(row) == IF row.enabled THEN row.config ELSE Empty

(* The others read the row.  Enable configures from the row it reads here, *)
(* which it takes for enabled, and so does the update of a dead host.      *)
Get(h, op, i) ==
    /\ Live(i)
    /\ i \in Site => op = "update"
    /\ op = "enable" => ~table[i].enabled
    /\ op = "disable" => table[i].enabled
    /\ Begin(h, op, i, "patch",
             CASE op = "enable" -> table[i].config
               [] op = "update" /\ i \in Dead -> Rendered(table[i])
               [] OTHER -> NoFile)
    /\ UNCHANGED <<table, files, loaded, signalled, erasing>>

(* A patch by id; what it leaves in a deleted row is never read again.     *)
Patched(i, row) == IF Live(i) THEN [table EXCEPT ![i] = row] ELSE table

PatchUpdate(h) ==
    /\ At(h, "patch") /\ job[h].op = "update"
    /\ \E c \in Content, e \in BOOLEAN :
          /\ IF job[h].host \in Site THEN e = TRUE ELSE c \in Config
          /\ table' = Patched(job[h].host, [table[job[h].host] EXCEPT
                                               !.config = c, !.enabled = e])
    /\ Goto(h, "refetch")
    /\ UNCHANGED <<files, loaded, signalled, erasing>>

PatchEnable(h) ==
    /\ At(h, "patch") /\ job[h].op = "enable"
    /\ table' = Patched(job[h].host, [table[job[h].host] EXCEPT !.enabled = TRUE])
    /\ Goto(h, "test")
    /\ UNCHANGED <<files, loaded, signalled, erasing>>

PatchDisable(h) ==
    /\ At(h, "patch") /\ job[h].op \in {"delete", "disable"}
    /\ table' = Patched(job[h].host,
                        IF job[h].op = "delete" THEN Deleted
                        ELSE [table[job[h].host] EXCEPT !.enabled = FALSE])
    /\ Goto(h, "remove")
    /\ UNCHANGED <<files, loaded, signalled, erasing>>

(* Bug: the row is configured although it has been deleted meanwhile.      *)
RefetchAnyState(h) ==
    /\ At(h, "refetch")
    /\ job' = [job EXCEPT ![h].at = "test", ![h].seen = table[job[h].host].config]
    /\ UNCHANGED <<table, files, loaded, signalled, erasing, answer, requests>>

(* create and update read the row again: it may be gone.                   *)
Fetched(h) == At(h, "refetch") /\ Live(job[h].host)

Gone(h) ==
    /\ At(h, "refetch") /\ ~Live(job[h].host)
    /\ End(h)
    /\ UNCHANGED <<table, files, loaded, signalled, erasing>>

ConfigureWith(h, seen) ==
    /\ job' = [job EXCEPT ![h].at = "test", ![h].seen = seen]
    /\ UNCHANGED <<table, files, loaded, signalled, erasing, answer, requests>>

(* create, and the update of a redirection host or a stream, configure     *)
(* what they have read, enabled or not...                                  *)
Refetch(h) ==
    /\ Fetched(h)
    /\ job[h].op = "update" => job[h].host \notin Proxy \cup Dead \cup Site
    /\ ConfigureWith(h, Rendered(table[job[h].host]))

(* ... the update of a proxy host leaves a disabled one alone...           *)
RefetchProxy(h) ==
    /\ Fetched(h)
    /\ job[h].op = "update" /\ job[h].host \in Proxy
    /\ IF table[job[h].host].enabled
       THEN ConfigureWith(h, Rendered(table[job[h].host]))
       ELSE End(h) /\ UNCHANGED <<table, files, loaded, signalled, erasing>>

(* ... and that of a dead host does not use what it reads here.            *)
RefetchDead(h) ==
    /\ Fetched(h)
    /\ job[h].op = "update" /\ job[h].host \in Dead
    /\ ConfigureWith(h, job[h].seen)

(* The default site is not tested first; its page is written, or cannot    *)
(* be, before the old file goes.                                           *)
RefetchSite(h) ==
    /\ Fetched(h)
    /\ job[h].op = "update" /\ job[h].host \in Site
    /\ \/ /\ job' = [job EXCEPT ![h].at = "write",
                               ![h].seen = Rendered(table[job[h].host])]
          /\ files' = [files EXCEPT ![job[h].host] = NoFile]
          /\ UNCHANGED <<answer, requests>>
       \/ End(h) /\ UNCHANGED files
    /\ UNCHANGED <<table, loaded, signalled, erasing>>

-----------------------------------------------------------------------------
(* configure: a first test, then the old file goes...                      *)
Test(h) ==
    /\ At(h, "test")
    /\ IF TestPasses
       THEN /\ files' = [files EXCEPT ![job[h].host] = NoFile]
            /\ Goto(h, "write")
       ELSE /\ End(h)
            /\ UNCHANGED files
    /\ UNCHANGED <<table, loaded, signalled, erasing>>

(* ... and the new one is rendered and written, or cannot be.              *)
Write(h) ==
    /\ At(h, "write")
    /\ files' = [files EXCEPT ![job[h].host] = job[h].seen]
    /\ Goto(h, "retest")
    /\ UNCHANGED <<table, loaded, signalled, erasing>>

WriteFails(h) ==
    /\ At(h, "write")
    /\ Fails(h)
    /\ UNCHANGED <<table, loaded, signalled, erasing>>

(* The second test decides what becomes of the file.                       *)
Retest(h) ==
    /\ At(h, "retest") /\ job[h].host \notin Site
    /\ Goto(h, IF TestPasses THEN "online" ELSE "offline")
    /\ UNCHANGED <<table, files, loaded, signalled, erasing>>

TestSite(h) ==
    /\ At(h, "retest") /\ job[h].host \in Site
    /\ IF TestPasses THEN Goto(h, "reload") /\ UNCHANGED files ELSE GiveUp(h)
    /\ UNCHANGED <<table, loaded, signalled, erasing>>

TestUndone(h) ==
    /\ At(h, "undo") /\ TestPasses
    /\ Goto(h, "reload")
    /\ UNCHANGED <<table, files, loaded, signalled, erasing>>

(* Bug: a host that was offline is not marked online again.                *)
MarkOnlineOnce(h) ==
    /\ At(h, "online")
    /\ table' = Patched(job[h].host, [table[job[h].host] EXCEPT
                                         !.online = @ \/ job[h].op = "create"])
    /\ Goto(h, "reload")
    /\ UNCHANGED <<files, loaded, signalled, erasing>>

(* The file is good.                                                       *)
MarkOnline(h) ==
    /\ At(h, "online")
    /\ table' = Patched(job[h].host, [table[job[h].host] EXCEPT !.online = TRUE])
    /\ Goto(h, "reload")
    /\ UNCHANGED <<files, loaded, signalled, erasing>>

(* Bug: the file is left for renameConfigAsError to take away.             *)
MarkOfflineOnly(h) ==
    /\ At(h, "offline")
    /\ table' = Patched(job[h].host, [table[job[h].host] EXCEPT !.online = FALSE])
    /\ erasing' = [erasing EXCEPT ![job[h].host] = 2]
    /\ Goto(h, "reload")
    /\ UNCHANGED <<files, loaded, signalled>>

(* Bug: nginx is not reloaded once the file is gone.                       *)
MarkOfflineAndAnswer(h) ==
    /\ At(h, "offline")
    /\ table' = Patched(job[h].host, [table[job[h].host] EXCEPT !.online = FALSE])
    /\ files' = [files EXCEPT ![job[h].host] = NoFile]
    /\ erasing' = [erasing EXCEPT ![job[h].host] = 2]
    /\ Succeed(h)
    /\ UNCHANGED <<loaded, signalled>>

(* The failure is recorded, renameConfigAsError is started and not awaited *)
(* (it unlinks the file, then renames it), and the file is deleted.        *)
MarkOffline(h) ==
    /\ At(h, "offline")
    /\ table' = Patched(job[h].host, [table[job[h].host] EXCEPT !.online = FALSE])
    /\ files' = [files EXCEPT ![job[h].host] = NoFile]
    /\ erasing' = [erasing EXCEPT ![job[h].host] = 2]
    /\ Goto(h, "reload")
    /\ UNCHANGED <<loaded, signalled>>

(* Unlink, then rename: either takes away a file that is there.            *)
Erase(i) ==
    /\ erasing[i] > 0
    /\ erasing' = [erasing EXCEPT ![i] = @ - 1]
    /\ files' = [files EXCEPT ![i] = NoFile]
    /\ UNCHANGED <<table, loaded, signalled, job, answer, requests>>

(* delete and disable: the file goes.                                      *)
Remove(h) ==
    /\ At(h, "remove")
    /\ files' = [files EXCEPT ![job[h].host] = NoFile]
    /\ Goto(h, "reload")
    /\ UNCHANGED <<table, loaded, signalled, erasing>>

(* reload: another test; where LateErase is FALSE it takes longer than the *)
(* calls of renameConfigAsError.                                           *)
Reload(h) ==
    /\ At(h, "reload")
    /\ LateErase \/ erasing[job[h].host] = 0
    /\ IF TestPasses THEN Goto(h, "signal") /\ UNCHANGED files
       ELSE job[h].op # "undo" /\ Fails(h)
    /\ UNCHANGED <<table, loaded, signalled, erasing>>

(* nginx -s reload reads the configuration too before it sends the signal. *)
Signal(h) ==
    /\ At(h, "signal") /\ job[h].op # "undo"
    /\ IF TestPasses
       THEN signalled' = TRUE /\ Succeed(h) /\ UNCHANGED files
       ELSE signalled' = signalled /\ Fails(h)
    /\ UNCHANGED <<table, loaded, erasing>>

(* An undo ends with an error in any case, that of its test or of its      *)
(* reload or the one thrown after them, of a promise nobody waits for: the *)
(* backend aborts, and no other request goes on once it is started again.  *)
Abort(h) ==
    /\ job[h].op = "undo"
    /\ \/ ~TestPasses /\ UNCHANGED signalled
       \/ At(h, "signal") /\ TestPasses /\ signalled' = TRUE
    /\ job' = [k \in Handler |-> Idle]
    /\ erasing' = [i \in Host |-> 0]
    /\ UNCHANGED <<table, files, loaded, answer, requests>>

(* The nginx master reads the files, and keeps what it serves if one is    *)
(* broken.                                                                 *)
NginxReloads ==
    /\ signalled
    /\ signalled' = FALSE
    /\ loaded' = IF TestPasses THEN files ELSE loaded
    /\ UNCHANGED <<table, files, erasing, job, answer, requests>>

Configure(h) ==
    \/ Test(h) \/ Write(h) \/ WriteFails(h) \/ Retest(h)
    \/ TestSite(h) \/ TestUndone(h) \/ MarkOnline(h) \/ MarkOffline(h)

Handle(h) ==
    \/ \E i \in Host : Create(h, i) \/ \E op \in Op \ {"create", "undo"} : Get(h, op, i)
    \/ PatchUpdate(h) \/ PatchEnable(h) \/ PatchDisable(h)
    \/ Gone(h) \/ Refetch(h) \/ RefetchProxy(h) \/ RefetchDead(h) \/ RefetchSite(h)
    \/ Configure(h)
    \/ Remove(h) \/ Reload(h) \/ Signal(h) \/ Abort(h)

Next ==
    \/ \E h \in Handler : Handle(h)
    \/ \E i \in Host : Erase(i)
    \/ NginxReloads

Spec == Init /\ [][Next]_vars

-----------------------------------------------------------------------------
AtRest == ~signalled /\ \A h \in Handler : At(h, "idle")

(* A file that nginx refuses has its writer, which is about to test it or  *)
(* to take it away: it never loses that writer, whatever the requests are  *)
(* and however they interleave, except when the backend aborts.  So a host *)
(* that cannot be configured stops the others from being configured for as *)
(* long as its own request runs, and for good only by an abort.            *)
Stray(i) ==
    /\ files[i] \in Broken
    /\ ~ \E h \in Handler : job[h].host = i /\ Wrote(h)

BrokenHasOwner ==
    [][\A i \in Host : Stray(i)' => Stray(i) \/ \E h \in Handler : Abort(h)]_vars

(* A request that goes through, and meets no other for its host, has done  *)
(* what it was asked whatever happens to other hosts meanwhile: the file   *)
(* of a host that was disabled or deleted is gone, and any other host has  *)
(* the file that its row calls for exactly when the row is marked online   *)
(* (and none otherwise), or is the default site.  Not so for the update of *)
(* a dead host.                                                            *)
HasItsFile(i) ==
    files[i] = IF table[i].online \/ i \in Site THEN Rendered(table[i]) ELSE NoFile

AnswerHolds ==
    \A i \in Host : BusyOn(i) = {} =>
        /\ answer[i] \in {"delete", "disable"} => files[i] = NoFile
        /\ answer[i] \in {"create", "enable"} => HasItsFile(i)
        /\ answer[i] = "update" /\ i \notin Dead => HasItsFile(i)

(* When nothing is in flight, and no abort has left a broken file, nginx   *)
(* serves the files on disk, for each host whose last request went         *)
(* through: a reload lost to another's broken file is made up for by the   *)
(* one that takes the file away, also when an abort came in between.       *)
ServesFiles ==
    AtRest /\ TestPasses => \A i \in Host : answer[i] # "none" => loaded[i] = files[i]

(* "create / recreate the config for the host": once a request that has    *)
(* configured a host is answered, the host has the file its row calls for. *)
RecreatesConfig ==
    \A i \in Host :
        BusyOn(i) = {} /\ answer[i] \in {"create", "update", "enable"} => HasItsFile(i)
=============================================================================
