---------------------------- MODULE Certificates ----------------------------
(***************************************************************************)
(* Let's Encrypt certificates: the requests of                             *)
(* backend/internal/certificate.js that create, renew and delete one.      *)
(*                                                                         *)
(* A request takes the files of the hosts it finds under its names away,   *)
(* runs certbot, of which one instance runs at a time, and puts files back *)
(* that it renders from the rows it has read.                              *)
(***************************************************************************)
EXTENDS SiteFiles

VARIABLES
    requestConf,    \* /data/nginx/temp/letsencrypt_<id>.conf, by certificate
    certbot,        \* the handler whose certbot runs, or None
    order           \* the certificate request each handler works on

certVars == <<requestConf, certbot, order>>

OrderStep == {"idle", "find", "user", "ready", "challenge", "certbot", "apply",
              "reinstate", "record", "undo", "restart", "renew", "renewing",
              "revoke", "revoking"}

(* `read` is what is to be rendered for the hosts that were found.         *)
NoOrder == [at |-> "idle", cert |-> None, dns |-> FALSE, read |-> << >>]

RunsCertbot(h) == order[h].at \in {"certbot", "renewing", "revoking"}

CertTypeOK ==
    /\ requestConf \subseteq Cert
    /\ certbot \in Handler \cup {None}
    /\ order \in [Handler -> [at: OrderStep, cert: Cert \cup {None}, dns: BOOLEAN,
                              read: Reading]]
    /\ \A h \in Handler : certbot = h <=> RunsCertbot(h)

CertInit ==
    /\ requestConf = {}
    /\ certbot = None
    /\ order = [h \in Handler |-> NoOrder]

OrderAt(h, step) == order[h].at = step
Proceed(h, step) == order' = [order EXCEPT ![h].at = step]
CloseOrder(h)    == order' = [order EXCEPT ![h] = NoOrder]

Requesting(h) ==
    order[h].at \notin {"idle", "renew", "renewing", "revoke", "revoking"}

(* A row that could not be completed is deleted for good.                  *)
HardDelete(h) ==
    /\ certs' = [certs EXCEPT ![order[h].cert] = "deleted"]
    /\ CloseOrder(h)

-----------------------------------------------------------------------------
(* create: the row is inserted first, a live one.                          *)
RequestCert(h, c) ==
    /\ OrderAt(h, "idle") /\ certs[c] = "none"
    /\ Accept
    /\ certs' = [certs EXCEPT ![c] = "live"]
    /\ \E dns \in BOOLEAN :
          order' = [order EXCEPT ![h] = [at |-> "find", cert |-> c, dns |-> dns,
                                         read |-> << >>]]
    /\ UNCHANGED <<hosts, lists, passwords, late, conf, certFiles, requestConf, certbot>>

(* getHostsWithDomains, for names that some hosts have: their rows alone   *)
(* are read.  disableInUseHosts removes their files.                       *)
TakeDown(h) ==
    /\ OrderAt(h, "find")
    /\ \E found \in SUBSET LiveHosts :
          /\ order' = [order EXCEPT ![h].at = "user",
                          ![h].read = [i \in found |-> Rendered(i, {})]]
          /\ conf' = [i \in Host |-> IF i \in found THEN None ELSE conf[i]]
    /\ UNCHANGED <<tables, certFiles, requests, requestConf, certbot>>

(* The owner has an e-mail address; without a DNS challenge the file that  *)
(* answers the HTTP one is written next.                                   *)
UserFound(h) ==
    /\ OrderAt(h, "user")
    /\ order' = [order EXCEPT ![h].at = "ready", ![h].dns = FALSE]
    /\ requestConf' = IF order[h].dns THEN requestConf
                      ELSE requestConf \cup {order[h].cert}
    /\ UNCHANGED <<siteVars, certbot>>

(* That file cannot be rendered or written.                                *)
RequestConfFails(h) ==
    /\ OrderAt(h, "user") /\ ~order[h].dns
    /\ Proceed(h, "undo")
    /\ requestConf' \in {requestConf, requestConf \cup {order[h].cert}}
    /\ UNCHANGED <<siteVars, certbot>>

(* The owner is gone: refused, outside of what puts the hosts back.        *)
UserGone(h) ==
    /\ OrderAt(h, "user")
    /\ HardDelete(h)
    /\ UNCHANGED <<hosts, lists, passwords, late, conf, certFiles, requests,
                   requestConf, certbot>>

(* reload, then `next`, or the way back.                                   *)
ReloadThen(h, next) ==
    /\ Proceed(h, IF TestPasses THEN next ELSE "undo")
    /\ UNCHANGED <<tables, conf, certFiles, requests, requestConf, certbot>>

FirstReload(h)  == OrderAt(h, "ready") /\ ReloadThen(h, "challenge")
SecondReload(h) == OrderAt(h, "apply") /\ ReloadThen(h, "reinstate")

-----------------------------------------------------------------------------
(* certbot refuses to run beside another instance of itself.               *)
StartCertbot(h, running, refused) ==
    /\ IF certbot = None
       THEN certbot' = h /\ Proceed(h, running)
       ELSE UNCHANGED certbot /\ refused
    /\ UNCHANGED <<siteVars, requestConf>>

RunCertbot(h) ==
    /\ OrderAt(h, "challenge")
    /\ StartCertbot(h, "certbot", Proceed(h, "undo"))

(* The certificate is issued: deleteLetsEncryptRequestConfig follows.      *)
Issued(h) ==
    /\ OrderAt(h, "certbot")
    /\ certbot' = None
    /\ certFiles' = certFiles \cup {order[h].cert}
    /\ requestConf' = requestConf \ {order[h].cert}
    /\ Proceed(h, "apply")
    /\ UNCHANGED <<tables, conf, requests>>

(* Bug: a failure leaves certbot locked.                                   *)
ChallengeFailsLocked(h) ==
    /\ OrderAt(h, "certbot")
    /\ Proceed(h, "undo")
    /\ UNCHANGED <<siteVars, requestConf, certbot>>

(* The challenge fails; certbot exits all the same.                        *)
ChallengeFails(h) ==
    /\ OrderAt(h, "certbot")
    /\ certbot' = None
    /\ Proceed(h, "undo")
    /\ UNCHANGED <<siteVars, requestConf>>

(* enableInUseHosts, which no reload follows.                              *)
Reinstate(h) ==
    /\ OrderAt(h, "reinstate")
    /\ BulkGenerateConfigs(order[h].read)
    /\ order' = [order EXCEPT ![h].at = "record", ![h].read = << >>]
    /\ UNCHANGED <<tables, certFiles, requests, requestConf, certbot>>

ReinstateFails(h) ==
    /\ OrderAt(h, "reinstate")
    /\ GenerateFails(order[h].read)
    /\ Proceed(h, "undo")
    /\ UNCHANGED <<tables, certFiles, requests, requestConf, certbot>>

(* The expiry date is read from the files and patched, or cannot be.       *)
Record(h) ==
    /\ OrderAt(h, "record")
    /\ \/ order[h].cert \in certFiles /\ CloseOrder(h) /\ UNCHANGED certs
       \/ HardDelete(h)
    /\ UNCHANGED <<hosts, lists, passwords, late, conf, certFiles, requests,
                   requestConf, certbot>>

(* Bug: the way back leaves the answer to the challenge.                   *)
UndoKeepingRequest(h) ==
    /\ OrderAt(h, "undo")
    /\ BulkGenerateConfigs(order[h].read)
    /\ order' = [order EXCEPT ![h].at = "restart", ![h].read = << >>]
    /\ UNCHANGED <<tables, certFiles, requests, requestConf, certbot>>

(* Bug: the way back does not put the hosts back.                          *)
UndoWithoutHosts(h) ==
    /\ OrderAt(h, "undo")
    /\ requestConf' = requestConf \ {order[h].cert}
    /\ order' = [order EXCEPT ![h].at = "restart", ![h].read = << >>]
    /\ UNCHANGED <<tables, conf, certFiles, requests, certbot>>

(* The way back, whatever failed ...                                       *)
Undo(h) ==
    /\ OrderAt(h, "undo")
    /\ requestConf' = requestConf \ {order[h].cert}
    /\ BulkGenerateConfigs(order[h].read)
    /\ order' = [order EXCEPT ![h].at = "restart", ![h].read = << >>]
    /\ UNCHANGED <<tables, certFiles, requests, certbot>>

(* ... which itself can fail: nginx is not reloaded then ...               *)
UndoFails(h) ==
    /\ OrderAt(h, "undo")
    /\ requestConf' = requestConf \ {order[h].cert}
    /\ GenerateFails(order[h].read)
    /\ HardDelete(h)
    /\ UNCHANGED <<hosts, lists, passwords, late, certFiles, requests, certbot>>

(* Bug: the failed request's row stays.                                    *)
LastReloadKeepingRow(h) ==
    /\ OrderAt(h, "restart")
    /\ CloseOrder(h)
    /\ UNCHANGED <<tables, conf, certFiles, requests, requestConf, certbot>>

(* ... and the error is answered, whether or not this reload passes.       *)
LastReload(h) ==
    /\ OrderAt(h, "restart")
    /\ HardDelete(h)
    /\ UNCHANGED <<hosts, lists, passwords, late, conf, certFiles, requests,
                   requestConf, certbot>>

-----------------------------------------------------------------------------
(* renew, by request or by the timer, whose own renewals run one by one:   *)
(* what it does to this state is to run certbot.                           *)
RenewCert(h, c) ==
    /\ OrderAt(h, "idle") /\ certs[c] = "live"
    /\ Accept
    /\ order' = [order EXCEPT ![h] = [NoOrder EXCEPT !.at = "renew", !.cert = c]]
    /\ UNCHANGED <<tables, conf, certFiles, requestConf, certbot>>

RunRenewal(h) ==
    /\ OrderAt(h, "renew")
    /\ StartCertbot(h, "renewing", CloseOrder(h))

EndRenewal(h) ==
    /\ OrderAt(h, "renewing")
    /\ certbot' = None
    /\ CloseOrder(h)
    /\ UNCHANGED <<siteVars, requestConf>>

(* delete: the row first, then the files, by certbot.                      *)
DeleteCert(h, c) ==
    /\ OrderAt(h, "idle") /\ certs[c] = "live"
    /\ Accept
    /\ certs' = [certs EXCEPT ![c] = "deleted"]
    /\ order' = [order EXCEPT ![h] = [NoOrder EXCEPT !.at = "revoke", !.cert = c]]
    /\ UNCHANGED <<hosts, lists, passwords, late, conf, certFiles, requestConf, certbot>>

RunRevocation(h) ==
    /\ OrderAt(h, "revoke")
    /\ StartCertbot(h, "revoking", CloseOrder(h))

(* Revoked, or not: a failure is only logged.                              *)
EndRevocation(h) ==
    /\ OrderAt(h, "revoking")
    /\ certbot' = None
    /\ certFiles' \in {certFiles, certFiles \ {order[h].cert}}
    /\ CloseOrder(h)
    /\ UNCHANGED <<tables, conf, requests, requestConf>>

CertStep(h) ==
    \/ \E c \in Cert : RequestCert(h, c) \/ RenewCert(h, c) \/ DeleteCert(h, c)
    \/ TakeDown(h) \/ UserFound(h) \/ RequestConfFails(h) \/ UserGone(h)
    \/ FirstReload(h) \/ RunCertbot(h) \/ Issued(h) \/ ChallengeFails(h)
    \/ SecondReload(h) \/ Reinstate(h) \/ ReinstateFails(h) \/ Record(h)
    \/ Undo(h) \/ UndoFails(h) \/ LastReload(h)
    \/ RunRenewal(h) \/ EndRenewal(h)
    \/ RunRevocation(h) \/ EndRevocation(h)

-----------------------------------------------------------------------------
(* A file that answers a challenge is there only while the request that    *)
(* wrote it runs, whichever of its steps fail.                             *)
RequestConfHasOwner ==
    \A c \in requestConf : \E h \in Handler :
        order[h].cert = c /\ order[h].at \in {"ready", "challenge", "certbot", "undo"}

(* A certificate that is listed has its files or is being requested: no    *)
(* failure leaves the row of one that was not issued, and a deletion takes *)
(* the row first.                                                          *)
ListedHasFiles ==
    \A c \in Cert : certs[c] = "live" =>
        c \in certFiles \/ \E h \in Handler : order[h].cert = c /\ Requesting(h)
=============================================================================
