------------------------------- MODULE Sites -------------------------------
(***************************************************************************)
(* Certificates, access lists and page passwords, over the same hosts and  *)
(* the same nginx.                                                         *)
(*                                                                         *)
(* Page passwords meet the others in nothing but reload(), and are checked *)
(* on their own: a run accepts their requests, on sites without lists and  *)
(* certificates, or those of the others.  A handler works on one request.  *)
(***************************************************************************)
EXTENDS Certificates, AccessLists, PagePasswords, TLC

VARIABLE
    pages       \* are page passwords what this run is about?

sitesVars == <<siteVars, certVars, listVars, pageVars, pages>>

SitesTypeOK ==
    SiteTypeOK /\ CertTypeOK /\ ListTypeOK /\ PageTypeOK /\ pages \in BOOLEAN

SitesInit ==
    /\ SiteInit /\ CertInit /\ ListInit /\ PageInit
    /\ pages \in BOOLEAN
    /\ pages => /\ \A c \in Cert : certs[c] = "none"
                /\ \A l \in List : lists[l].state = "none"

SitesNext ==
    /\ \/ \E i \in Host :
             /\ SaveHost(i) \/ SaveHostFails(i)
             /\ UNCHANGED <<certVars, listVars, pageVars>>
       \/ \E h \in Handler :
             \/ /\ ~pages /\ EditAt(h, "idle") /\ CertStep(h)
                /\ UNCHANGED <<listVars, pageVars>>
             \/ /\ ~pages /\ OrderAt(h, "idle") /\ ListStep(h)
                /\ UNCHANGED <<certVars, pageVars>>
             \/ pages /\ PageStep(h) /\ UNCHANGED <<certVars, listVars>>
    /\ UNCHANGED pages

SitesSpec == SitesInit /\ [][SitesNext]_sitesVars

(* A live host without a file, that nginx has not refused, is one that a   *)
(* certificate request has taken down and will put back: however requests  *)
(* overlap and end, none leaves a host out, except by the refusal of an    *)
(* owner who is gone, or by a write that fails and that nothing makes up   *)
(* for: of the way back of a certificate request, of the hosts of a list,  *)
(* or of the host itself.                                                  *)
Out(i) ==
    /\ hosts[i].live /\ hosts[i].online /\ conf[i] = None
    /\ ~ \E h \in Handler : i \in DOMAIN order[h].read

LosesFile(i) ==
    \/ SaveHostFails(i)
    \/ \E h \in Handler :
          \/ i \in DOMAIN order[h].read /\ (UserGone(h) \/ UndoFails(h))
          \/ i \in DOMAIN edit[h].read /\ (RenderFails(h) \/ StripFails(h))

OutageHasOwner == [][\A i \in Host : Out(i)' => Out(i) \/ LosesFile(i)]_sitesVars

Symmetry == Permutations(Handler) \cup Permutations(Item) \cup Permutations(Host)
            \cup Permutations(Cert)
=============================================================================
