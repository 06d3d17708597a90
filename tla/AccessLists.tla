---------------------------- MODULE AccessLists ----------------------------
(***************************************************************************)
(* Access lists: the requests of backend/internal/access-list.js that      *)
(* create, update and delete one, over its rows, its htpasswd file and the *)
(* files of the hosts that use it.                                         *)
(*                                                                         *)
(* An update is no transaction: items are deleted, then inserted, then     *)
(* read again, and the htpasswd file is built one openssl at a time.       *)
(***************************************************************************)
EXTENDS SiteFiles

VARIABLES
    htpasswd,   \* /data/access/<id>: the users in it, or None
    edit,       \* the request each handler works on
    settled     \* history: the lists whose last request met no other for the
                \* list, went through and swallowed no failure

listVars == <<htpasswd, edit, settled>>

EditStep == {"idle", "rewrite", "insert", "refetch", "build", "drain", "reload",
             "mark", "release", "strip", "stop", "unlink"}

(* `items` are those to insert, then those to build the file from; `read`  *)
(* is what is to be rendered for the hosts that were read.                 *)
NoEdit == [at |-> "idle", op |-> "create", list |-> None, items |-> {},
           read |-> << >>, alone |-> TRUE]

ListTypeOK ==
    /\ htpasswd \in [List -> (SUBSET Item) \cup {None}]
    /\ settled \subseteq List
    /\ edit \in [Handler -> [at: EditStep, op: {"create", "update", "delete"},
                             list: List \cup {None}, items: SUBSET Item,
                             read: Reading, alone: BOOLEAN]]

ListInit ==
    /\ htpasswd = [l \in List |-> IF lists[l].state = "live" THEN Item ELSE None]
    /\ edit = [h \in Handler |-> NoEdit]
    /\ settled = List

EditAt(h, step) == edit[h].at = step
Editing(l)      == {h \in Handler : edit[h].at # "idle" /\ edit[h].list = l}
UsersOf(l)      == {i \in LiveHosts : hosts[i].list = l}

BeginEdit(h, op, l, step, read) ==
    /\ EditAt(h, "idle")
    /\ Accept
    /\ edit' = [k \in Handler |->
                  CASE k = h -> [at |-> step, op |-> op, list |-> l, items |-> {},
                                 read |-> read, alone |-> Editing(l) = {}]
                    [] k \in Editing(l) -> [edit[k] EXCEPT !.alone = FALSE]
                    [] OTHER -> edit[k]]
    /\ settled' = settled \ {l}

EditOn(h, step) == edit' = [edit EXCEPT ![h].at = step] /\ UNCHANGED settled

Written(h, step) ==
    /\ edit' = [edit EXCEPT ![h].at = step, ![h].read = << >>]
    /\ UNCHANGED settled

EndEdit(h) == edit' = [edit EXCEPT ![h] = NoEdit] /\ UNCHANGED settled

AnswerEdit(h) ==
    /\ edit' = [edit EXCEPT ![h] = NoEdit]
    /\ settled' = IF edit[h].alone THEN settled \cup {edit[h].list} ELSE settled

-----------------------------------------------------------------------------
(* create: a row without items; they are inserted next.                    *)
CreateList(h, l) ==
    /\ lists[l].state = "none"
    /\ BeginEdit(h, "create", l, "insert", << >>)
    /\ lists' = [lists EXCEPT ![l] = [state |-> "live", items |-> {}]]
    /\ UNCHANGED <<hosts, certs, passwords, late, conf, certFiles, htpasswd>>

UpdateList(h, l) ==
    /\ lists[l].state = "live"
    /\ BeginEdit(h, "update", l, "rewrite", << >>)
    /\ UNCHANGED <<tables, conf, certFiles, htpasswd>>

(* Items the request leaves out, or gives a password, are deleted.         *)
DeleteItems(h) ==
    /\ EditAt(h, "rewrite")
    /\ \E keep \in SUBSET Item :
          lists' = [lists EXCEPT ![edit[h].list].items = @ \cap keep]
    /\ EditOn(h, "insert")
    /\ UNCHANGED <<hosts, certs, passwords, late, conf, certFiles, requests, htpasswd>>

InsertItems(h) ==
    /\ EditAt(h, "insert")
    /\ \E new \in SUBSET Item :
          lists' = [lists EXCEPT ![edit[h].list].items = @ \cup new]
    /\ EditOn(h, "refetch")
    /\ UNCHANGED <<hosts, certs, passwords, late, conf, certFiles, requests, htpasswd>>

(* What is read of the hosts of a list; after a creation without their     *)
(* certificates, and never with their page passwords.                      *)
ReadHosts(h) ==
    [i \in UsersOf(edit[h].list) |->
        Rendered(i, IF edit[h].op = "create" THEN {"access_list"}
                    ELSE {"certificate", "access_list"})]

(* Bug: the file is built onto what it holds.                              *)
RefetchAppending(h) ==
    LET l == edit[h].list
    IN  /\ EditAt(h, "refetch")
        /\ lists[l].state = "live"
        /\ edit' = [edit EXCEPT ![h].at = "build", ![h].items = lists[l].items,
                                ![h].read = ReadHosts(h)]
        /\ htpasswd' = [htpasswd EXCEPT ![l] = IF @ = None THEN {} ELSE @]
        /\ UNCHANGED <<siteVars, settled>>

(* The list is read again, with its items and its hosts; it may have been  *)
(* deleted.  build() replaces the file by an empty one.                    *)
Refetch(h) ==
    LET l == edit[h].list
    IN  /\ EditAt(h, "refetch")
        /\ IF lists[l].state = "live"
           THEN /\ edit' = [edit EXCEPT ![h].at = "build", ![h].items = lists[l].items,
                                        ![h].read = ReadHosts(h)]
                /\ htpasswd' = [htpasswd EXCEPT ![l] = {}]
                /\ UNCHANGED settled
           ELSE EndEdit(h) /\ UNCHANGED htpasswd
        /\ UNCHANGED siteVars

(* The old file is gone and the new one cannot be written.                 *)
BuildFails(h) ==
    /\ EditAt(h, "refetch") /\ lists[edit[h].list].state = "live"
    /\ htpasswd' = [htpasswd EXCEPT ![edit[h].list] = None]
    /\ EndEdit(h)
    /\ UNCHANGED siteVars

(* One openssl after the other, each followed by a line.  The first that   *)
(* fails answers the request with an error; the others are run all the     *)
(* same, and add their lines.                                              *)
AppendItem(h) ==
    /\ edit[h].at \in {"build", "drain"}
    /\ \E u \in edit[h].items :
          \/ /\ htpasswd' = [htpasswd EXCEPT
                               ![edit[h].list] = {u} \cup (IF @ = None THEN {} ELSE @)]
             /\ edit' = [edit EXCEPT ![h].items = @ \ {u}]
          \/ /\ edit' = [edit EXCEPT ![h].at = "drain", ![h].items = @ \ {u},
                                     ![h].read = << >>]
             /\ UNCHANGED htpasswd
    /\ UNCHANGED <<siteVars, settled>>

Drained(h) ==
    /\ EditAt(h, "drain") /\ edit[h].items = {}
    /\ EndEdit(h)
    /\ UNCHANGED <<siteVars, htpasswd>>

(* The file is built: the hosts that were read are rendered.  A creation   *)
(* does not reload nginx.                                                  *)
RenderHosts(h) ==
    /\ EditAt(h, "build") /\ edit[h].items = {}
    /\ BulkGenerateConfigs(edit[h].read)
    /\ IF edit[h].op = "create" THEN AnswerEdit(h) ELSE Written(h, "reload")
    /\ UNCHANGED <<tables, certFiles, requests, htpasswd>>

RenderFails(h) ==
    /\ EditAt(h, "build") /\ edit[h].items = {}
    /\ GenerateFails(edit[h].read)
    /\ EndEdit(h)
    /\ UNCHANGED <<tables, certFiles, requests, htpasswd>>

ReloadUpdated(h) ==
    /\ EditAt(h, "reload")
    /\ IF TestPasses THEN AnswerEdit(h) ELSE EndEdit(h)
    /\ UNCHANGED <<tables, conf, certFiles, requests, htpasswd>>

-----------------------------------------------------------------------------
(* delete: the list is read with its hosts, without their relations, and   *)
(* they will be rendered as if they had no list.                           *)
DeleteList(h, l) ==
    /\ lists[l].state = "live"
    /\ BeginEdit(h, "delete", l, "mark",
                 [i \in UsersOf(l) |-> [Rendered(i, {}) EXCEPT !.list = None]])
    /\ UNCHANGED <<tables, conf, certFiles, htpasswd>>

MarkDeleted(h) ==
    /\ EditAt(h, "mark")
    /\ lists' = [lists EXCEPT ![edit[h].list].state = "deleted"]
    /\ EditOn(h, "release")
    /\ UNCHANGED <<hosts, certs, passwords, late, conf, certFiles, requests, htpasswd>>

(* Bug: only the hosts that were read are released.                        *)
ReleaseRead(h) ==
    /\ EditAt(h, "release")
    /\ hosts' = [i \in Host |-> IF i \in DOMAIN edit[h].read
                                THEN [hosts[i] EXCEPT !.list = None] ELSE hosts[i]]
    /\ EditOn(h, "strip")
    /\ UNCHANGED <<certs, lists, passwords, late, conf, certFiles, requests, htpasswd>>

(* Any host that uses the list by now is released from it.                 *)
ReleaseHosts(h) ==
    /\ EditAt(h, "release")
    /\ hosts' = [i \in Host |-> IF hosts[i].list = edit[h].list
                                THEN [hosts[i] EXCEPT !.list = None] ELSE hosts[i]]
    /\ EditOn(h, "strip")
    /\ UNCHANGED <<certs, lists, passwords, late, conf, certFiles, requests, htpasswd>>

(* ... and those that were read are rendered.                              *)
StripHosts(h) ==
    /\ EditAt(h, "strip")
    /\ BulkGenerateConfigs(edit[h].read)
    /\ Written(h, "stop")
    /\ UNCHANGED <<tables, certFiles, requests, htpasswd>>

StripFails(h) ==
    /\ EditAt(h, "strip")
    /\ GenerateFails(edit[h].read)
    /\ EndEdit(h)
    /\ UNCHANGED <<tables, certFiles, requests, htpasswd>>

(* A reload that fails leaves the htpasswd file ...                        *)
ReloadDeleted(h) ==
    /\ EditAt(h, "stop")
    /\ IF TestPasses THEN EditOn(h, "unlink") ELSE EndEdit(h)
    /\ UNCHANGED <<tables, conf, certFiles, requests, htpasswd>>

(* ... as does its removal, of which a failure is swallowed.               *)
Unlink(h) ==
    /\ EditAt(h, "unlink")
    /\ \/ htpasswd' = [htpasswd EXCEPT ![edit[h].list] = None] /\ AnswerEdit(h)
       \/ EndEdit(h) /\ UNCHANGED htpasswd
    /\ UNCHANGED siteVars

ListStep(h) ==
    \/ \E l \in List : CreateList(h, l) \/ UpdateList(h, l) \/ DeleteList(h, l)
    \/ DeleteItems(h) \/ InsertItems(h)
    \/ Refetch(h) \/ BuildFails(h) \/ AppendItem(h) \/ Drained(h)
    \/ RenderHosts(h) \/ RenderFails(h) \/ ReloadUpdated(h)
    \/ MarkDeleted(h) \/ ReleaseHosts(h)
    \/ StripHosts(h) \/ StripFails(h) \/ ReloadDeleted(h) \/ Unlink(h)

-----------------------------------------------------------------------------
(* A list whose last request went through, swallowed no failure and met no *)
(* other for it (not even one that has failed and still adds its lines)    *)
(* has the htpasswd file its rows call for: exactly its users, or no file  *)
(* once it is deleted.                                                     *)
HtpasswdFollowsItems ==
    \A l \in settled :
        htpasswd[l] = IF lists[l].state = "live" THEN lists[l].items ELSE None

(* Once its deletion has been answered no host refers to a list, not even  *)
(* one that was given it after the deletion had read the list's hosts,     *)
(* unless a request has named the list when it was already deleted.        *)
DeletedListUnused ==
    \A l \in List :
        lists[l].state = "deleted" /\ Editing(l) = {} => UsersOf(l) \subseteq late
=============================================================================
