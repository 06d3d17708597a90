--------------------------- MODULE PagePasswords ---------------------------
(***************************************************************************)
(* Page passwords: backend/internal/proxy-host-password.js, and the        *)
(* deletion of a proxy host, which removes them.  Each host has one domain *)
(* here, with at most one password.                                        *)
(*                                                                         *)
(* The rows are written, then the htpasswd file and the page are each made *)
(* from a query of their own.                                              *)
(***************************************************************************)
EXTENDS SiteFiles

VARIABLES
    pwFile,     \* <id>/<domain>.htpasswd: its line, or None
    page,       \* the hosts with a page/<id>.html
    sync,       \* the request each handler works on
    inSync      \* history: the hosts whose last request met no other for the
                \* host, went through and swallowed no failure of a file

pageVars == <<pwFile, page, sync, inSync>>

SyncStep == {"idle", "diff", "write", "query", "files", "page", "render", "reload",
             "mark", "rows", "clean"}

Plan == [do: {"insert", "patch", "delete", "keep"}, line: Secret \cup {None},
         on: BOOLEAN]

(* `row` is what the last query returned; `clean`: no other request for    *)
(* the host has been met and no failure of a file swallowed.               *)
Keep == [do |-> "keep", line |-> None, on |-> FALSE]
NoSync == [at |-> "idle", host |-> None, row |-> NoPage, plan |-> Keep, clean |-> TRUE]

PageTypeOK ==
    /\ pwFile \in [Host -> Secret \cup {None}]
    /\ page \subseteq Host /\ inSync \subseteq Host
    /\ sync \in [Handler -> [at: SyncStep, host: Host \cup {None}, row: PageRow,
                             plan: Plan, clean: BOOLEAN]]

PageInit ==
    /\ pwFile = [i \in Host |-> None]
    /\ page = {}
    /\ sync = [h \in Handler |-> NoSync]
    /\ inSync = Host

SyncAt(h, step) == sync[h].at = step
Syncing(i)      == {h \in Handler : sync[h].at # "idle" /\ sync[h].host = i}
SyncOn(h, step) == sync' = [sync EXCEPT ![h].at = step] /\ UNCHANGED inSync
SwallowOn(h, step) ==
    /\ sync' = [sync EXCEPT ![h].at = step, ![h].clean = FALSE]
    /\ UNCHANGED inSync
EndSync(h)      == sync' = [sync EXCEPT ![h] = NoSync] /\ UNCHANGED inSync

BeginSync(h, i, step) ==
    /\ SyncAt(h, "idle") /\ hosts[i].live
    /\ Accept
    /\ sync' = [k \in Handler |->
                  CASE k = h -> [NoSync EXCEPT !.at = step, !.host = i,
                                               !.clean = (Syncing(i) = {})]
                    [] k \in Syncing(i) -> [sync[k] EXCEPT !.clean = FALSE]
                    [] OTHER -> sync[k]]
    /\ inSync' = inSync \ {i}
    /\ UNCHANGED <<tables, conf, certFiles, pwFile, page>>

AnswerSync(h) ==
    /\ sync' = [sync EXCEPT ![h] = NoSync]
    /\ inSync' = IF sync[h].clean THEN inSync \cup {sync[h].host} ELSE inSync

-----------------------------------------------------------------------------
(* syncAll: what the entries of a request call for, by the row there is; a *)
(* new one needs a password.                                               *)
Plans(row) ==
    IF row.line = None
    THEN {Keep} \cup [do: {"insert"}, line: Secret, on: BOOLEAN]
    ELSE {[Keep EXCEPT !.do = "delete"]}
         \cup [do: {"patch"}, line: Secret \cup {row.line}, on: BOOLEAN]

SyncPasswords(h, i) == BeginSync(h, i, "diff")

LoadRows(h) ==
    /\ SyncAt(h, "diff")
    /\ \E plan \in Plans(passwords[sync[h].host]) :
          sync' = [sync EXCEPT ![h].at = "write", ![h].plan = plan,
                               ![h].row = passwords[sync[h].host]]
    /\ UNCHANGED <<siteVars, inSync, pwFile, page>>

(* The entry is inserted (a second row for the domain is refused), patched *)
(* where its domain has a row, or deleted by the id it had.                *)
WriteRow(h) ==
    LET i    == sync[h].host
        row  == passwords[i]
        plan == sync[h].plan
    IN  /\ SyncAt(h, "write")
        /\ \/ /\ plan.do = "insert" /\ row.line = None
              /\ passwords' = [passwords EXCEPT ![i] =
                                 [id |-> row.id + 1, line |-> plan.line, on |-> plan.on]]
              /\ SyncOn(h, "query")
           \/ plan.do = "insert" /\ row.line # None /\ UNCHANGED passwords /\ EndSync(h)
           \/ /\ plan.do = "patch"
              /\ passwords' = IF row.line = None THEN passwords
                              ELSE [passwords EXCEPT ![i].line = plan.line,
                                                     ![i].on = plan.on]
              /\ SyncOn(h, "query")
           \/ /\ plan.do \in {"delete", "keep"}
              /\ passwords' = IF plan.do = "delete" /\ row.id = sync[h].row.id
                              THEN [passwords EXCEPT ![i] = [NoPage EXCEPT !.id = row.id]]
                              ELSE passwords
              /\ SyncOn(h, "query")
        /\ UNCHANGED <<hosts, certs, lists, late, conf, certFiles, requests, pwFile, page>>

(* What is kept of a query is the row if it is enabled.                    *)
Query(h, step) ==
    /\ sync' = [sync EXCEPT ![h].at = step, ![h].plan = Keep,
                            ![h].row = IF passwords[sync[h].host].on
                                       THEN [passwords[sync[h].host] EXCEPT !.id = 0]
                                       ELSE NoPage]
    /\ UNCHANGED <<siteVars, inSync, pwFile, page>>

(* buildHtpasswd, of the rows that are enabled.                            *)
QueryForFiles(h) == SyncAt(h, "query") /\ Query(h, "files")

(* Bug: files of rows that are not enabled any more are left.              *)
BuildWithoutCleaning(h) ==
    /\ SyncAt(h, "files")
    /\ pwFile' = [pwFile EXCEPT ![sync[h].host] =
                    IF sync[h].row.on THEN sync[h].row.line ELSE @]
    /\ SyncOn(h, "page")
    /\ UNCHANGED <<siteVars, page>>

BuildHtpasswd(h) ==
    /\ SyncAt(h, "files")
    /\ pwFile' = [pwFile EXCEPT ![sync[h].host] = sync[h].row.line]
    /\ sync' = [sync EXCEPT ![h].at = "page", ![h].row = NoPage]
    /\ UNCHANGED <<siteVars, inSync, page>>

(* A file that is not called for any more cannot be removed, which is      *)
(* swallowed; one that cannot be written, or a directory that cannot be    *)
(* made, ends the request.                                                 *)
BuildHtpasswdFails(h) ==
    /\ SyncAt(h, "files")
    /\ \/ /\ sync[h].row.on
          /\ pwFile' \in {pwFile, [pwFile EXCEPT ![sync[h].host] = None]}
          /\ EndSync(h)
       \/ ~sync[h].row.on /\ (SwallowOn(h, "page") \/ EndSync(h)) /\ UNCHANGED pwFile
    /\ UNCHANGED <<siteVars, page>>

(* renderPasswordPage: rendered and written, or removed.                   *)
QueryForPage(h) == SyncAt(h, "page") /\ Query(h, "render")

RenderPage(h) ==
    /\ SyncAt(h, "render")
    /\ page' = IF sync[h].row.on THEN page \cup {sync[h].host} ELSE page \ {sync[h].host}
    /\ SyncOn(h, "reload")
    /\ UNCHANGED <<siteVars, pwFile>>

(* The page stays as it is when there is no template to render it from, or *)
(* when it cannot be removed: both are swallowed.  When it cannot be       *)
(* written the request ends.                                               *)
RenderPageFails(h) ==
    /\ SyncAt(h, "render")
    /\ \/ SwallowOn(h, "reload") /\ UNCHANGED page
       \/ /\ sync[h].row.on
          /\ page' \in {page, page \ {sync[h].host}}
          /\ EndSync(h)
    /\ UNCHANGED <<siteVars, pwFile>>

(* A reload that fails is only logged, or is the answer to a deletion that *)
(* has been done.                                                          *)
ReloadPages(h) ==
    /\ SyncAt(h, "reload")
    /\ AnswerSync(h)
    /\ UNCHANGED <<tables, conf, certFiles, requests, pwFile, page>>

-----------------------------------------------------------------------------
(* The deletion of a host: its row, then deleteAll, then its file.         *)
DeleteHost(h, i) == BeginSync(h, i, "mark")

MarkHostDeleted(h) ==
    /\ SyncAt(h, "mark")
    /\ hosts' = [hosts EXCEPT ![sync[h].host].live = FALSE]
    /\ SyncOn(h, "rows")
    /\ UNCHANGED <<certs, lists, passwords, late, conf, certFiles, requests,
                   pwFile, page>>

(* A query that fails is swallowed: the rows stay ...                      *)
DeleteRows(h) ==
    /\ SyncAt(h, "rows")
    /\ passwords' \in {passwords,
                       [passwords EXCEPT ![sync[h].host].line = None,
                                         ![sync[h].host].on = FALSE]}
    /\ SyncOn(h, "clean")
    /\ UNCHANGED <<hosts, certs, lists, late, conf, certFiles, requests, pwFile, page>>

(* ... and the files go all the same, or cannot be removed.                *)
DeleteFilesFails(h) ==
    /\ SyncAt(h, "clean")
    /\ pwFile' \in {pwFile, [pwFile EXCEPT ![sync[h].host] = None]}
    /\ page' \in {page, page \ {sync[h].host}}
    /\ conf' = [conf EXCEPT ![sync[h].host] = None]
    /\ SwallowOn(h, "reload")
    /\ UNCHANGED <<tables, certFiles, requests>>

DeleteFiles(h) ==
    /\ SyncAt(h, "clean")
    /\ pwFile' = [pwFile EXCEPT ![sync[h].host] = None]
    /\ page' = page \ {sync[h].host}
    /\ conf' = [conf EXCEPT ![sync[h].host] = None]
    /\ SyncOn(h, "reload")
    /\ UNCHANGED <<tables, certFiles, requests>>

PageStep(h) ==
    \/ \E i \in Host : SyncPasswords(h, i) \/ DeleteHost(h, i)
    \/ LoadRows(h) \/ WriteRow(h)
    \/ QueryForFiles(h) \/ BuildHtpasswd(h) \/ BuildHtpasswdFails(h)
    \/ QueryForPage(h) \/ RenderPage(h) \/ RenderPageFails(h)
    \/ ReloadPages(h)
    \/ MarkHostDeleted(h) \/ DeleteRows(h) \/ DeleteFiles(h) \/ DeleteFilesFails(h)

-----------------------------------------------------------------------------
(* A host whose last request went through, met no other for it and         *)
(* swallowed no failure of a file, has the files its rows call for: the    *)
(* htpasswd file and the page of a password that is enabled, and neither   *)
(* otherwise.  One that is deleted has neither, even when its rows could   *)
(* not be deleted.                                                         *)
PagesFollowRows ==
    \A i \in inSync :
        LET protected == hosts[i].live /\ passwords[i].on
        IN  /\ pwFile[i] = IF protected THEN passwords[i].line ELSE None
            /\ i \in page <=> protected
=============================================================================
