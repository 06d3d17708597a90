------------------------------ MODULE SiteFiles ------------------------------
(***************************************************************************)
(* What certificates, access lists and page passwords share: the tables,   *)
(* and the nginx files of proxy hosts that are rendered from their joins   *)
(* (backend/internal/nginx.js, backend/models/proxy_host.js).              *)
(*                                                                         *)
(* The requests that save or delete a host are a single step here, as is   *)
(* reload(): NginxHosts has their steps, and what nginx serves after them. *)
(***************************************************************************)
EXTENDS Integers

CONSTANTS
    Host,           \* proxy hosts
    Cert,           \* Let's Encrypt certificates
    List,           \* access lists
    Item,           \* an access list's users, with their passwords
    Secret,         \* the htpasswd lines of a host's page password
    Handler,        \* requests in flight at once
    None,           \* nothing: no row referred to, no file or an empty one
    Denied,         \* a list of which the rules are not at hand: all is denied
    MaxRequests     \* bound: the requests accepted in a run

ASSUME SitesAssumption ==
    /\ Host # {}
    /\ None \notin Cert \cup List \cup Secret \cup Handler \cup {Denied}
    /\ \A items \in SUBSET Item : items # None
    /\ Denied \notin List
    /\ MaxRequests \in Nat

VARIABLES
    hosts,      \* the rows of proxy_host
    certs,      \* the rows of certificate
    lists,      \* the rows of access_list and access_list_auth
    passwords,  \* the rows of proxy_host_password, one per host
    certFiles,  \* certificates with files in /etc/letsencrypt/live
    conf,       \* /data/nginx/proxy_host/<id>.conf: what it refers to
    late,       \* history: hosts that were given a list already deleted
    requests    \* the number of requests accepted

tables   == <<hosts, certs, lists, passwords, late>>
siteVars == <<tables, conf, certFiles, requests>>

HostRow == [live: BOOLEAN, online: BOOLEAN, cert: Cert \cup {None},
            list: List \cup {None}]
ListRow == [state: {"none", "live", "deleted"}, items: SUBSET Item]
PageRow == [id: 0..MaxRequests, line: Secret \cup {None}, on: BOOLEAN]
Conf    == [cert: Cert \cup {None}, list: List \cup {None, Denied}, page: BOOLEAN]

ASSUME ConfAssumption == None \notin Conf

(* What is to be rendered for some hosts.                                  *)
Reading == UNION {[found -> Conf] : found \in SUBSET Host}

SiteTypeOK ==
    /\ hosts \in [Host -> HostRow]
    /\ certs \in [Cert -> {"none", "live", "deleted"}]
    /\ lists \in [List -> ListRow]
    /\ passwords \in [Host -> PageRow]
    /\ certFiles \subseteq Cert
    /\ conf \in [Host -> Conf \cup {None}]
    /\ late \subseteq Host
    /\ requests \in 0..MaxRequests

NoPage == [id |-> 0, line |-> None, on |-> FALSE]

(* generateConfig for the row of a host, fetched with some of its          *)
(* relations: without that of its certificate the file has no TLS, without *)
(* that of its list it denies everyone, without that of its passwords it   *)
(* asks for none.  A relation to a deleted row fetches nothing.            *)
RenderedRow(i, row, expand) ==
    [cert |-> IF "certificate" \in expand /\ row.cert # None
                 /\ certs[row.cert] = "live"
              THEN row.cert ELSE None,
     list |-> IF row.list = None THEN None
              ELSE IF "access_list" \in expand /\ lists[row.list].state = "live"
              THEN row.list ELSE Denied,
     page |-> "passwords" \in expand /\ passwords[i].on]

Rendered(i, expand) == RenderedRow(i, hosts[i], expand)

Relations == {"certificate", "access_list", "passwords"}
LiveHosts == {i \in Host : hosts[i].live}

(* The files of some hosts rendered, from what was read of them.           *)
BulkGenerateConfigs(read) ==
    conf' = [i \in Host |-> IF i \in DOMAIN read THEN read[i] ELSE conf[i]]

(* One of them at least is not rendered, or not written: its file is left  *)
(* as it was, or emptied.                                                  *)
GenerateFails(read) ==
    \E done, lost \in SUBSET DOMAIN read :
        /\ done # DOMAIN read /\ done \cap lost = {}
        /\ conf' = [i \in Host |-> IF i \in done THEN read[i]
                                 ELSE IF i \in lost THEN None ELSE conf[i]]

(* nginx -t, on files as they are or as they will be.                      *)
TestPassesOn(files) ==
    \A i \in Host : files[i] # None => files[i].cert \in certFiles \cup {None}
TestPasses == TestPassesOn(conf)

(* A request is accepted.                                                  *)
Accept == requests < MaxRequests /\ requests' = requests + 1

(* Sites already configured, with lists and certificates already there,    *)
(* which no host uses yet.                                                 *)
SiteInit ==
    /\ lists \in [List -> {[state |-> "live", items |-> Item],
                          [state |-> "none", items |-> {}]}]
    /\ hosts \in [Host -> {row \in HostRow :
                             /\ row.live /\ row.online /\ row.cert = None
                             /\ row.list # None => lists[row.list].state = "live"}]
    /\ certs \in [Cert -> {"none", "live"}]
    /\ certFiles = {c \in Cert : certs[c] = "live"}
    /\ passwords = [i \in Host |-> NoPage]
    /\ conf = [i \in Host |-> Rendered(i, Relations)]
    /\ late = {}
    /\ requests = 0

-----------------------------------------------------------------------------
(* What an update makes of the row of a host.  Nothing checks that the     *)
(* certificate and the list a request names still exist.                   *)
Requested(i) ==
    [live: {hosts[i].live}, online: {hosts[i].online},
     cert: {c \in Cert : certs[c] # "none"} \cup {None},
     list: {l \in List : lists[l].state # "none"} \cup {None}]

Given(i, row) ==
    late' = IF row.list # None /\ lists[row.list].state = "deleted"
            THEN late \cup {i} ELSE late \ {i}

(* A host is updated: the row is saved, and configured unless the file of  *)
(* some host is broken; a configuration that nginx refuses is removed and  *)
(* the host marked offline.                                                *)
SaveHost(i) ==
    /\ hosts[i].live
    /\ Accept
    /\ \E row \in Requested(i) :
          LET file == RenderedRow(i, row, Relations)
              good == TestPassesOn([conf EXCEPT ![i] = file])
          IN  /\ Given(i, row)
              /\ IF TestPasses
                 THEN /\ hosts' = [hosts EXCEPT ![i] = [row EXCEPT !.online = good]]
                      /\ conf' = [conf EXCEPT ![i] = IF good THEN file ELSE None]
                 ELSE /\ hosts' = [hosts EXCEPT ![i] = row]
                      /\ UNCHANGED conf
    /\ UNCHANGED <<certs, lists, passwords, certFiles>>

(* The new file cannot be written once the old one is gone: the request    *)
(* ends there.                                                             *)
SaveHostFails(i) ==
    /\ hosts[i].live /\ TestPasses
    /\ Accept
    /\ \E row \in Requested(i) :
          Given(i, row) /\ hosts' = [hosts EXCEPT ![i] = row]
    /\ conf' = [conf EXCEPT ![i] = None]
    /\ UNCHANGED <<certs, lists, passwords, certFiles>>
=============================================================================
