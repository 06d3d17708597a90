---------------------------- MODULE SitesProofs ----------------------------
(***************************************************************************)
(* Theorems about SitesSpec, for any number of hosts, certificates, lists  *)
(* and requests at once.                                                   *)
(***************************************************************************)
EXTENDS Sites, FiniteSetTheorems, TLAPS

TablesOK ==
    /\ hosts \in [Host -> HostRow]
    /\ certs \in [Cert -> {"none", "live", "deleted"}]
    /\ lists \in [List -> ListRow]

Order == [at: OrderStep, cert: Cert \cup {None}, dns: BOOLEAN, read: Reading]
OrdersOK == order \in [Handler -> Order]

Edit == [at: EditStep \ {"idle"}, op: {"create", "update", "delete"}, list: List,
         items: SUBSET Item, read: Reading, alone: BOOLEAN]
EditsOK == edit \in [Handler -> Edit \cup {NoEdit}]

LEMMA RowRendered ==
  ASSUME NEW i, NEW row \in HostRow, NEW expand
  PROVE  RenderedRow(i, row, expand) \in Conf
PROOF
  <1> DEFINE p == "passwords" \in expand /\ passwords[i].on
  <1>1. p \in BOOLEAN
    OBVIOUS
  <1>2. row.cert \in Cert \cup {None} /\ row.list \in List \cup {None}
    BY DEF HostRow
  <1>3. RenderedRow(i, row, expand).cert \in Cert \cup {None}
    BY <1>2 DEF RenderedRow
  <1>4. RenderedRow(i, row, expand).list \in List \cup {None, Denied}
    BY <1>2 DEF RenderedRow
  <1>5. RenderedRow(i, row, expand).page = p
    BY DEF RenderedRow
  <1> HIDE DEF p
  <1> QED BY <1>1, <1>3, <1>4, <1>5 DEF RenderedRow, Conf

LEMMA HostRendered ==
  ASSUME TablesOK, NEW i \in Host, NEW expand
  PROVE  Rendered(i, expand) \in Conf
BY RowRendered DEF Rendered, TablesOK

LEMMA EmptyRead == << >> \in Reading /\ DOMAIN << >> = {}
PROOF
  <1>1. DOMAIN << >> = {}
    OBVIOUS
  <1>2. << >> \in [{} -> Conf]
    OBVIOUS
  <1> QED BY <1>1, <1>2 DEF Reading

LEMMA ReadOf ==
  ASSUME NEW found \in SUBSET Host, NEW read \in [found -> Conf]
  PROVE  read \in Reading /\ DOMAIN read = found
BY DEF Reading

-----------------------------------------------------------------------------
(* Types, as far as the theorems need them.                                *)

Saves(i) == SaveHost(i) \/ SaveHostFails(i)

LEMMA RowRequested ==
  ASSUME TablesOK, NEW i \in Host, hosts[i].live, NEW row \in Requested(i)
  PROVE  row \in HostRow /\ row.live /\ row.online = hosts[i].online
PROOF
  <1>1. hosts[i] \in HostRow
    BY DEF TablesOK
  <1> QED BY <1>1 DEF Requested, HostRow

LEMMA HostSaved ==
  ASSUME TablesOK, NEW i \in Host, Saves(i)
  PROVE  /\ TablesOK' /\ UNCHANGED <<certs, lists, passwords, certFiles>>
         /\ late' \subseteq late \cup {i}
         /\ \E row \in HostRow :
               /\ row.live
               /\ row.list # None /\ lists[row.list].state = "deleted" => i \in late'
               /\ late \ {i} \subseteq late'
               /\ hosts' = [hosts EXCEPT ![i] = row]
               /\ \/ row.online = hosts[i].online /\ UNCHANGED conf
                  \/ \E file \in Conf : conf' = [conf EXCEPT ![i] = file]
                  \/ /\ ~row.online \/ SaveHostFails(i)
                     /\ conf' = [conf EXCEPT ![i] = None]
PROOF
  <1>0. hosts[i].live
    BY DEF Saves, SaveHost, SaveHostFails
  <1>1. UNCHANGED <<certs, lists, passwords, certFiles>>
    BY DEF Saves, SaveHost, SaveHostFails
  <1>2. ASSUME NEW row \in HostRow, Given(i, row)
        PROVE  /\ late' \subseteq late \cup {i} /\ late \ {i} \subseteq late'
               /\ row.list # None /\ lists[row.list].state = "deleted" => i \in late'
    BY <1>2 DEF Given
  <1>3. ASSUME NEW row \in HostRow, hosts' = [hosts EXCEPT ![i] = row]
        PROVE  TablesOK'
    BY <1>1, <1>3 DEF TablesOK
  <1>4. CASE SaveHostFails(i)
    <2>1. PICK row \in Requested(i) : Given(i, row) /\ hosts' = [hosts EXCEPT ![i] = row]
      BY <1>4 DEF SaveHostFails
    <2>2. row \in HostRow /\ row.live
      BY <1>0, RowRequested
    <2>3. conf' = [conf EXCEPT ![i] = None]
      BY <1>4 DEF SaveHostFails
    <2> QED BY <1>1, <1>2, <1>3, <1>4, <2>1, <2>2, <2>3
  <1>5. CASE SaveHost(i)
    <2>1. PICK row \in Requested(i) :
             LET file == RenderedRow(i, row, Relations)
                 good == TestPassesOn([conf EXCEPT ![i] = file])
             IN  /\ Given(i, row)
                 /\ IF TestPasses
                    THEN /\ hosts' = [hosts EXCEPT ![i] = [row EXCEPT !.online = good]]
                         /\ conf' = [conf EXCEPT ![i] = IF good THEN file ELSE None]
                    ELSE /\ hosts' = [hosts EXCEPT ![i] = row]
                         /\ UNCHANGED conf
      BY <1>5 DEF SaveHost
    <2> DEFINE file == RenderedRow(i, row, Relations)
               good == TestPassesOn([conf EXCEPT ![i] = file])
    <2>2. row \in HostRow /\ row.live /\ row.online = hosts[i].online
      BY <1>0, RowRequested
    <2>3. file \in Conf
      BY <2>2, RowRendered
    <2>4. good \in BOOLEAN
      BY DEF TestPassesOn
    <2>5. /\ Given(i, row)
          /\ IF TestPasses
             THEN /\ hosts' = [hosts EXCEPT ![i] = [row EXCEPT !.online = good]]
                  /\ conf' = [conf EXCEPT ![i] = IF good THEN file ELSE None]
             ELSE /\ hosts' = [hosts EXCEPT ![i] = row]
                  /\ UNCHANGED conf
      BY <2>1
    <2> HIDE DEF file, good
    <2> DEFINE saved == IF TestPasses THEN [row EXCEPT !.online = good] ELSE row
    <2>6. saved \in HostRow /\ saved.live /\ saved.list = row.list
      BY <2>2, <2>4 DEF HostRow
    <2>7. /\ TestPasses /\ ~good => ~saved.online
          /\ ~TestPasses => saved.online = hosts[i].online
      BY <2>2 DEF HostRow
    <2>8. hosts' = [hosts EXCEPT ![i] = saved]
      BY <2>5
    <2>9. \/ saved.online = hosts[i].online /\ UNCHANGED conf
          \/ \E f \in Conf : conf' = [conf EXCEPT ![i] = f]
          \/ ~saved.online /\ conf' = [conf EXCEPT ![i] = None]
      BY <2>3, <2>5, <2>7
    <2> HIDE DEF saved
    <2>10. Given(i, row) /\ saved.list = row.list
      BY <2>5, <2>6
    <2> QED BY <1>1, <1>2, <1>3, <2>2, <2>6, <2>8, <2>9, <2>10
  <1> QED BY <1>4, <1>5 DEF Saves

LEMMA TablesStep ==
  ASSUME TablesOK, OrdersOK, EditsOK, SitesNext
  PROVE  TablesOK'
PROOF
  <1>1. ASSUME NEW i \in Host, Saves(i) PROVE TablesOK'
    BY <1>1, HostSaved
  <1>2. ASSUME NEW h \in Handler, CertStep(h) PROVE TablesOK'
    <2>1. UNCHANGED <<hosts, lists>>
      BY <1>2 DEF CertStep, RequestCert, RenewCert, DeleteCert, TakeDown, UserFound,
                  UserGone, FirstReload, SecondReload, ReloadThen, RunCertbot, StartCertbot,
                  Issued, ChallengeFails, Reinstate, Record, Undo, LastReload,
                  RunRenewal, EndRenewal, RunRevocation, EndRevocation, siteVars, tables,
                  RequestConfFails, ReinstateFails, UndoFails
    <2>2. certs' \in [Cert -> {"none", "live", "deleted"}]
      <3>1. CASE UNCHANGED certs
        BY <3>1 DEF TablesOK
      <3>2. CASE \E c \in Cert : RequestCert(h, c) \/ DeleteCert(h, c)
        BY <3>2 DEF RequestCert, DeleteCert, TablesOK
      <3>3. CASE UserGone(h) \/ Record(h) \/ UndoFails(h) \/ LastReload(h)
        BY <3>3 DEF UserGone, Record, UndoFails, LastReload, HardDelete, TablesOK
      <3> QED BY <1>2, <3>1, <3>2, <3>3
          DEF CertStep, RenewCert, TakeDown, UserFound,
              FirstReload, SecondReload, ReloadThen, RunCertbot, StartCertbot,
              Issued, ChallengeFails, Reinstate, Undo,
              RunRenewal, EndRenewal, RunRevocation, EndRevocation, siteVars, tables,
              RequestConfFails, ReinstateFails, UndoFails
    <2> QED BY <2>1, <2>2 DEF TablesOK
  <1>3. ASSUME NEW h \in Handler, ListStep(h) PROVE TablesOK'
    <2>1. CASE UNCHANGED <<hosts, certs, lists>>
      BY <2>1 DEF TablesOK
    <2>2. CASE \E l \in List : CreateList(h, l)
      BY <2>2 DEF CreateList, TablesOK, ListRow
    <2>3. CASE DeleteItems(h)
      <3>1. PICK keep \in SUBSET Item :
                lists' = [lists EXCEPT ![edit[h].list].items = @ \cap keep]
        BY <2>3 DEF DeleteItems
      <3>2. \A l \in List : [lists[l] EXCEPT !.items = @ \cap keep] \in ListRow
        BY DEF TablesOK, ListRow
      <3> QED BY <2>3, <3>1, <3>2 DEF DeleteItems, TablesOK
    <2>4. CASE InsertItems(h)
      <3>1. PICK new \in SUBSET Item :
                lists' = [lists EXCEPT ![edit[h].list].items = @ \cup new]
        BY <2>4 DEF InsertItems
      <3>2. \A l \in List : [lists[l] EXCEPT !.items = @ \cup new] \in ListRow
        BY DEF TablesOK, ListRow
      <3> QED BY <2>4, <3>1, <3>2 DEF InsertItems, TablesOK
    <2>5. CASE MarkDeleted(h)
      <3>1. \A l \in List : [lists[l] EXCEPT !.state = "deleted"] \in ListRow
        BY DEF TablesOK, ListRow
      <3> QED BY <2>5, <3>1 DEF MarkDeleted, TablesOK
    <2>6. CASE ReleaseHosts(h)
      <3>1. \A i \in Host : [hosts[i] EXCEPT !.list = None] \in HostRow
        BY DEF TablesOK, HostRow
      <3> QED BY <2>6, <3>1 DEF ReleaseHosts, TablesOK
    <2> QED BY <1>3, <2>1, <2>2, <2>3, <2>4, <2>5, <2>6
        DEF ListStep, UpdateList, DeleteList, Refetch, AppendItem, RenderHosts,
            ReloadUpdated, StripHosts, ReloadDeleted, Unlink, siteVars, tables,
            BuildFails, Drained, RenderFails, StripFails
  <1>4. ASSUME NEW h \in Handler, PageStep(h) PROVE TablesOK'
    <2>1. CASE UNCHANGED <<hosts, certs, lists>>
      BY <2>1 DEF TablesOK
    <2>2. CASE MarkHostDeleted(h)
      <3>1. \A i \in Host : [hosts[i] EXCEPT !.live = FALSE] \in HostRow
        BY DEF TablesOK, HostRow
      <3> QED BY <2>2, <3>1 DEF MarkHostDeleted, TablesOK
    <2> QED BY <1>4, <2>1, <2>2
        DEF PageStep, SyncPasswords, DeleteHost, BeginSync, LoadRows, WriteRow,
            QueryForFiles, BuildHtpasswd, QueryForPage, Query, RenderPage, ReloadPages,
            DeleteRows, DeleteFiles, siteVars, tables,
            BuildHtpasswdFails, RenderPageFails, DeleteFilesFails
  <1> QED BY <1>1, <1>2, <1>3, <1>4 DEF SitesNext, Saves

LEMMA OrderAdvanced ==
  ASSUME OrdersOK, NEW h \in Handler, NEW step \in OrderStep, Proceed(h, step)
  PROVE  OrdersOK'
PROOF
  <1>1. [order[h] EXCEPT !.at = step] \in Order
    BY DEF OrdersOK, Order
  <1> QED BY <1>1 DEF OrdersOK, Proceed

LEMMA OrderClosed ==
  ASSUME OrdersOK, NEW h \in Handler, CloseOrder(h)
  PROVE  OrdersOK'
PROOF
  <1>1. NoOrder \in Order
    BY EmptyRead DEF NoOrder, Order, OrderStep
  <1> QED BY <1>1 DEF OrdersOK, CloseOrder

LEMMA OrdersStep ==
  ASSUME TablesOK, OrdersOK, SitesNext
  PROVE  OrdersOK'
PROOF
  <1>1. CASE UNCHANGED order
    BY <1>1 DEF OrdersOK
  <1>2. ASSUME NEW h \in Handler, CertStep(h) PROVE OrdersOK'
    <2>1. ASSUME NEW c \in Cert, RequestCert(h, c) PROVE OrdersOK'
      <3>1. PICK dns \in BOOLEAN :
              order' = [order EXCEPT ![h] = [at |-> "find", cert |-> c, dns |-> dns,
                                             read |-> << >>]]
        BY <2>1 DEF RequestCert
      <3>2. [at |-> "find", cert |-> c, dns |-> dns, read |-> << >>] \in Order
        BY EmptyRead DEF Order, OrderStep
      <3> QED BY <3>1, <3>2 DEF OrdersOK
    <2>2. ASSUME NEW c \in Cert, RenewCert(h, c) \/ DeleteCert(h, c) PROVE OrdersOK'
      <3>1. \A step \in OrderStep : [NoOrder EXCEPT !.at = step, !.cert = c] \in Order
        BY EmptyRead DEF NoOrder, Order
      <3> QED BY <2>2, <3>1 DEF RenewCert, DeleteCert, OrdersOK, OrderStep
    <2>3. CASE TakeDown(h)
      <3>1. PICK found \in SUBSET LiveHosts :
              order' = [order EXCEPT ![h].at = "user",
                          ![h].read = [i \in found |-> Rendered(i, {})]]
        BY <2>3 DEF TakeDown
      <3> DEFINE read == [i \in found |-> Rendered(i, {})]
      <3>2. found \in SUBSET Host
        BY DEF LiveHosts
      <3>3. read \in [found -> Conf]
        BY <3>2, HostRendered
      <3>4. read \in Reading
        BY <3>2, <3>3, ReadOf
      <3> HIDE DEF read
      <3>5. [order[h] EXCEPT !.at = "user", !.read = read] \in Order
        BY <3>4 DEF OrdersOK, Order, OrderStep
      <3>6. order' = [order EXCEPT ![h] = [order[h] EXCEPT !.at = "user", !.read = read]]
        BY <3>1 DEF read, OrdersOK, Order
      <3> QED BY <3>5, <3>6 DEF OrdersOK
    <2>4. CASE UserFound(h)
      <3>1. [order[h] EXCEPT !.at = "ready", !.dns = FALSE] \in Order
        BY DEF OrdersOK, Order, OrderStep
      <3> QED BY <2>4, <3>1 DEF OrdersOK, UserFound
    <2>5. CASE Reinstate(h) \/ Undo(h)
      <3>1. \A step \in OrderStep : [order[h] EXCEPT !.at = step, !.read = << >>] \in Order
        BY EmptyRead DEF OrdersOK, Order
      <3> QED BY <2>5, <3>1 DEF OrdersOK, Reinstate, Undo, OrderStep
    <2>6. CASE FirstReload(h) \/ SecondReload(h) \/ RunCertbot(h) \/ RunRenewal(h)
               \/ RunRevocation(h)
      BY <2>6, OrderAdvanced, OrderClosed
      DEF FirstReload, SecondReload, ReloadThen, RunCertbot, RunRenewal, RunRevocation,
          StartCertbot, OrderStep
    <2>7. CASE RequestConfFails(h) \/ Issued(h) \/ ChallengeFails(h) \/ ReinstateFails(h)
      BY <2>7, OrderAdvanced
      DEF RequestConfFails, Issued, ChallengeFails, ReinstateFails, OrderStep
    <2>8. CASE UserGone(h) \/ UndoFails(h) \/ LastReload(h) \/ EndRenewal(h)
               \/ EndRevocation(h)
      BY <2>8, OrderClosed
      DEF UserGone, UndoFails, LastReload, EndRenewal, EndRevocation, HardDelete
    <2>9. CASE Record(h)
      BY <2>9, OrderClosed DEF Record, HardDelete
    <2> QED BY <1>2, <2>1, <2>2, <2>3, <2>4, <2>5, <2>6, <2>7, <2>8, <2>9 DEF CertStep
  <1> QED BY <1>1, <1>2 DEF SitesNext, certVars

LEMMA EditAdvanced ==
  ASSUME EditsOK, NEW h \in Handler, edit[h].at # "idle",
         NEW step \in EditStep \ {"idle"}, EditOn(h, step)
  PROVE  EditsOK'
PROOF
  <1>0. edit[h] \in Edit
    BY DEF EditsOK, NoEdit
  <1>1. [edit[h] EXCEPT !.at = step] \in Edit
    BY <1>0 DEF Edit
  <1> QED BY <1>1 DEF EditsOK, EditOn

LEMMA EditWritten ==
  ASSUME EditsOK, NEW h \in Handler, edit[h].at # "idle",
         NEW step \in EditStep \ {"idle"}, Written(h, step)
  PROVE  EditsOK'
PROOF
  <1>0. edit[h] \in Edit
    BY DEF EditsOK, NoEdit
  <1>1. [edit[h] EXCEPT !.at = step, !.read = << >>] \in Edit
    BY <1>0, EmptyRead DEF Edit
  <1> QED BY <1>1 DEF EditsOK, Written

LEMMA EditEnded ==
  ASSUME EditsOK, NEW h \in Handler, EndEdit(h) \/ AnswerEdit(h)
  PROVE  EditsOK'
BY DEF EditsOK, EndEdit, AnswerEdit

LEMMA EditBegun ==
  ASSUME EditsOK, NEW h \in Handler, NEW op \in {"create", "update", "delete"},
         NEW l \in List, NEW step \in EditStep \ {"idle"}, NEW read \in Reading,
         BeginEdit(h, op, l, step, read)
  PROVE  EditsOK'
PROOF
  <1>1. [at |-> step, op |-> op, list |-> l, items |-> {}, read |-> read,
         alone |-> Editing(l) = {}] \in Edit
    BY DEF Edit
  <1>2. \A k \in Editing(l) : edit[k] \in Edit
    BY DEF EditsOK, Editing, NoEdit
  <1>3. \A k \in Editing(l) : [edit[k] EXCEPT !.alone = FALSE] \in Edit
    BY <1>2 DEF Edit
  <1> QED BY <1>1, <1>3 DEF EditsOK, BeginEdit

LEMMA EditsStep ==
  ASSUME TablesOK, EditsOK, SitesNext
  PROVE  EditsOK'
PROOF
  <1>1. CASE UNCHANGED edit
    BY <1>1 DEF EditsOK
  <1>2. ASSUME NEW h \in Handler, ListStep(h) PROVE EditsOK'
    <2>1. ASSUME NEW l \in List, CreateList(h, l) \/ UpdateList(h, l) PROVE EditsOK'
      BY <2>1, EditBegun, EmptyRead DEF CreateList, UpdateList, EditStep
    <2>2. ASSUME NEW l \in List, DeleteList(h, l) PROVE EditsOK'
      <3> DEFINE read == [i \in UsersOf(l) |-> [Rendered(i, {}) EXCEPT !.list = None]]
      <3>1. UsersOf(l) \in SUBSET Host
        BY DEF UsersOf, LiveHosts
      <3>2. \A i \in UsersOf(l) : [Rendered(i, {}) EXCEPT !.list = None] \in Conf
        BY <3>1, HostRendered DEF Conf
      <3>3. read \in Reading
        BY <3>1, <3>2, ReadOf
      <3> QED BY <2>2, <3>3, EditBegun DEF DeleteList, EditStep
    <2>3. CASE Refetch(h)
      <3> DEFINE l == edit[h].list
                 read == ReadHosts(h)
                 new  == [edit[h] EXCEPT !.at = "build", !.items = lists[l].items,
                                         !.read = read]
      <3>1. CASE EndEdit(h)
        BY <3>1, EditEnded
      <3>2. CASE ~EndEdit(h)
        <4>0. edit[h] \in Edit
          BY <2>3 DEF Refetch, EditAt, EditsOK, NoEdit
        <4>1. lists[l].state = "live" /\ edit' = [edit EXCEPT ![h] = new]
          BY <2>3, <3>2, <4>0 DEF Refetch, EditsOK, Edit
        <4>2. UsersOf(l) \in SUBSET Host
          BY DEF UsersOf, LiveHosts
        <4>3. read \in Reading
          BY <4>2, HostRendered, ReadOf DEF ReadHosts
        <4>4. lists[l].items \in SUBSET Item
          BY <4>0 DEF TablesOK, ListRow, Edit
        <4>5. new \in Edit
          BY <4>0, <4>3, <4>4 DEF Edit, EditStep
        <4> QED BY <4>1, <4>5 DEF EditsOK
      <3> QED BY <3>1, <3>2
    <2>4. CASE AppendItem(h)
      <3>0. edit[h] \in Edit
        BY <2>4 DEF AppendItem, EditsOK, NoEdit
      <3>1. \A u \in edit[h].items : [edit[h] EXCEPT !.items = @ \ {u}] \in Edit
        BY <3>0 DEF Edit
      <3>2. \A u \in edit[h].items :
               [edit[h] EXCEPT !.at = "drain", !.items = @ \ {u}, !.read = << >>] \in Edit
        BY <3>0, EmptyRead DEF Edit, EditStep
      <3>3. PICK u \in edit[h].items :
              \/ edit' = [edit EXCEPT ![h].items = @ \ {u}]
              \/ edit' = [edit EXCEPT ![h].at = "drain", ![h].items = @ \ {u},
                                     ![h].read = << >>]
        BY <2>4 DEF AppendItem
      <3>4. edit'[h] \in Edit /\ edit' = [edit EXCEPT ![h] = edit'[h]]
        BY <3>1, <3>2, <3>3 DEF EditsOK
      <3> QED BY <3>4 DEF EditsOK
    <2>5. CASE DeleteItems(h) \/ InsertItems(h) \/ MarkDeleted(h) \/ ReleaseHosts(h)
      BY <2>5, EditAdvanced DEF DeleteItems, InsertItems, MarkDeleted, ReleaseHosts,
                                EditAt, EditStep
    <2>6. CASE RenderHosts(h) \/ StripHosts(h)
      BY <2>6, EditWritten, EditEnded DEF RenderHosts, StripHosts, EditAt, EditStep
    <2>7. CASE ReloadUpdated(h) \/ ReloadDeleted(h) \/ Unlink(h)
      BY <2>7, EditAdvanced, EditEnded DEF ReloadUpdated, ReloadDeleted,
                                           Unlink, EditAt, EditStep
    <2>8. CASE BuildFails(h) \/ Drained(h) \/ RenderFails(h) \/ StripFails(h)
      BY <2>8, EditEnded DEF BuildFails, Drained, RenderFails, StripFails
    <2> QED BY <1>2, <2>1, <2>2, <2>3, <2>4, <2>5, <2>6, <2>7, <2>8 DEF ListStep
  <1> QED BY <1>1, <1>2 DEF SitesNext, listVars

Types == TablesOK /\ OrdersOK /\ EditsOK

LEMMA TypesInvariant == SitesSpec => []Types
PROOF
  <1>1. SitesInit => Types
    <2> SUFFICES ASSUME SitesInit PROVE Types
      OBVIOUS
    <2>1. TablesOK
      BY DEF SitesInit, SiteInit, TablesOK, ListRow
    <2>2. OrdersOK
      BY EmptyRead DEF SitesInit, CertInit, OrdersOK, NoOrder, Order, OrderStep
    <2>3. EditsOK
      BY DEF SitesInit, ListInit, EditsOK
    <2> QED BY <2>1, <2>2, <2>3 DEF Types
  <1>2. Types /\ [SitesNext]_sitesVars => Types'
    <2>1. Types /\ SitesNext => Types'
      BY TablesStep, OrdersStep, EditsStep DEF Types
    <2>2. Types /\ UNCHANGED sitesVars => Types'
      BY DEF Types, TablesOK, OrdersOK, EditsOK, sitesVars, siteVars, tables, certVars,
             listVars
    <2> QED BY <2>1, <2>2
  <1> QED BY <1>1, <1>2, PTL DEF SitesSpec

-----------------------------------------------------------------------------
(* The file that answers a challenge.                                      *)

LEMMA RequestConfStep ==
  ASSUME OrdersOK, RequestConfHasOwner, SitesNext
  PROVE  RequestConfHasOwner'
PROOF
  <1>1. CASE UNCHANGED <<requestConf, order>>
    BY <1>1 DEF RequestConfHasOwner
  <1>2. ASSUME NEW h \in Handler, CertStep(h) PROVE RequestConfHasOwner'
    <2> DEFINE owning == {"ready", "challenge", "certbot", "undo"}
    <2>1. ASSUME UNCHANGED requestConf, order[h].at \notin owning,
                 NEW o, order' = [order EXCEPT ![h] = o]
          PROVE  RequestConfHasOwner'
      BY <2>1 DEF OrdersOK, RequestConfHasOwner
    <2>2. ASSUME UNCHANGED requestConf, order[h].at \in owning,
                 NEW step \in owning, Proceed(h, step)
          PROVE  RequestConfHasOwner'
      BY <2>2 DEF OrdersOK, Order, RequestConfHasOwner, Proceed
    <2>3. ASSUME NEW c \in Cert, RequestCert(h, c) \/ RenewCert(h, c) \/ DeleteCert(h, c)
          PROVE  RequestConfHasOwner'
      BY <2>3, <2>1 DEF RequestCert, RenewCert, DeleteCert, OrderAt
    <2>4. CASE TakeDown(h)
      <3>1. PICK o : order' = [order EXCEPT ![h] = o]
        BY <2>4 DEF TakeDown
      <3> QED BY <2>4, <2>1, <3>1 DEF TakeDown, OrderAt
    <2>5. CASE UserFound(h)
      BY <2>5 DEF UserFound, OrderAt, OrdersOK, Order, RequestConfHasOwner
    <2>5a. CASE RequestConfFails(h)
      BY <2>5a DEF RequestConfFails, Proceed, OrderAt, OrdersOK, Order, RequestConfHasOwner
    <2>6. CASE UserGone(h) \/ Record(h) \/ LastReload(h)
      BY <2>6, <2>1 DEF UserGone, Record, LastReload, OrderAt, HardDelete, CloseOrder
    <2>7. CASE FirstReload(h)
      BY <2>7, <2>2 DEF FirstReload, ReloadThen, OrderAt
    <2>8. CASE RunCertbot(h)
      BY <2>8, <2>2 DEF RunCertbot, StartCertbot, OrderAt
    <2>9. CASE ChallengeFails(h)
      BY <2>9, <2>2 DEF ChallengeFails, OrderAt
    <2>10. CASE SecondReload(h) \/ Reinstate(h) \/ ReinstateFails(h)
      <3>1. PICK o : order' = [order EXCEPT ![h] = o]
        BY <2>10 DEF SecondReload, ReloadThen, Reinstate, ReinstateFails, Proceed
      <3> QED BY <2>10, <2>1, <3>1
          DEF SecondReload, ReloadThen, Reinstate, ReinstateFails, OrderAt
    <2>11. CASE Issued(h) \/ Undo(h) \/ UndoFails(h)
      <3>1. requestConf' = requestConf \ {order[h].cert}
        BY <2>11 DEF Issued, Undo, UndoFails
      <3>2. \A k \in Handler \ {h} : order'[k] = order[k]
        BY <2>11 DEF Issued, Undo, UndoFails, HardDelete, CloseOrder, Proceed, OrdersOK
      <3> QED BY <3>1, <3>2 DEF RequestConfHasOwner
    <2>12. CASE RunRenewal(h) \/ RunRevocation(h)
      <3>1. PICK o : order' = [order EXCEPT ![h] = o]
        BY <2>12 DEF RunRenewal, RunRevocation, StartCertbot, Proceed, CloseOrder
      <3> QED BY <2>12, <2>1, <3>1 DEF RunRenewal, RunRevocation, StartCertbot, OrderAt
    <2>13. CASE EndRenewal(h) \/ EndRevocation(h)
      BY <2>13, <2>1 DEF EndRenewal, EndRevocation, OrderAt, CloseOrder
    <2> QED BY <1>2, <2>3, <2>4, <2>5, <2>5a, <2>6, <2>7, <2>8, <2>9, <2>10, <2>11, <2>12,
               <2>13 DEF CertStep
  <1> QED BY <1>1, <1>2 DEF SitesNext, certVars

(* The answer to a challenge is never left behind by the request that      *)
(* wrote it, whichever of its steps fail.                                  *)
THEOREM RequestConfIsOwned == SitesSpec => []RequestConfHasOwner
PROOF
  <1>1. SitesInit => RequestConfHasOwner
    BY DEF SitesInit, CertInit, RequestConfHasOwner
  <1>2. Types /\ RequestConfHasOwner /\ [SitesNext]_sitesVars => RequestConfHasOwner'
    <2>1. UNCHANGED sitesVars /\ RequestConfHasOwner => RequestConfHasOwner'
      BY DEF sitesVars, certVars, RequestConfHasOwner
    <2> QED BY <2>1, RequestConfStep DEF Types
  <1> QED BY <1>1, <1>2, TypesInvariant, PTL DEF SitesSpec

-----------------------------------------------------------------------------
(* The rows of certificates and their files.                               *)

RevokedIsDeleted ==
    \A h \in Handler :
        /\ order[h].at # "idle" => order[h].cert \in Cert
        /\ order[h].at \in {"revoke", "revoking"} => certs[order[h].cert] = "deleted"

ListedInv == RevokedIsDeleted /\ ListedHasFiles

LEMMA ListedStep ==
  ASSUME TablesOK, OrdersOK, ListedInv, SitesNext
  PROVE  ListedInv'
PROOF
  <1>1. CASE UNCHANGED <<certs, certFiles, order>>
    BY <1>1 DEF ListedInv, RevokedIsDeleted, ListedHasFiles, Requesting
  <1>2. ASSUME NEW h \in Handler, CertStep(h) PROVE ListedInv'
    <2> DEFINE outside == {"idle", "renew", "renewing", "revoke", "revoking"}
    <2>1. ASSUME UNCHANGED <<certs, certFiles>>, order[h].at \notin outside,
                 NEW o \in Order, order' = [order EXCEPT ![h] = o],
                 o.at \notin outside, o.cert = order[h].cert
          PROVE  ListedInv'
      BY <2>1 DEF OrdersOK, ListedInv, RevokedIsDeleted, ListedHasFiles, Requesting
    <2>2. ASSUME UNCHANGED <<certs, certFiles>>, order[h].at \in outside,
                 NEW o, order' = [order EXCEPT ![h] = o],
                 o.at # "idle" => o.cert \in Cert,
                 o.at \in {"revoke", "revoking"} => certs[o.cert] = "deleted"
          PROVE  ListedInv'
      BY <2>2 DEF OrdersOK, ListedInv, RevokedIsDeleted, ListedHasFiles, Requesting
    <2>3. ASSUME NEW step, step \notin outside, order[h].at \notin outside,
                 step \in OrderStep, Proceed(h, step), UNCHANGED <<certs, certFiles>>
          PROVE  ListedInv'
      <3>1. [order[h] EXCEPT !.at = step] \in Order
        BY <2>3 DEF OrdersOK, Order
      <3> QED BY <2>1, <2>3, <3>1 DEF Proceed, OrdersOK, Order
    <2>4. ASSUME HardDelete(h), UNCHANGED certFiles, order[h].at \notin outside
          PROVE  ListedInv'
      BY <2>4 DEF HardDelete, CloseOrder, NoOrder, TablesOK, OrdersOK, ListedInv,
                  RevokedIsDeleted, ListedHasFiles, Requesting
    <2>5. ASSUME NEW c \in Cert, RequestCert(h, c) PROVE ListedInv'
      <3>1. PICK dns \in BOOLEAN :
              order' = [order EXCEPT ![h] = [at |-> "find", cert |-> c, dns |-> dns,
                                             read |-> << >>]]
        BY <2>5 DEF RequestCert
      <3> QED BY <2>5, <3>1 DEF RequestCert, OrderAt, TablesOK, OrdersOK, ListedInv,
                  RevokedIsDeleted, ListedHasFiles, Requesting
    <2>6. ASSUME NEW c \in Cert, RenewCert(h, c) PROVE ListedInv'
      BY <2>6, <2>2 DEF RenewCert, OrderAt, NoOrder, tables
    <2>7. ASSUME NEW c \in Cert, DeleteCert(h, c) PROVE ListedInv'
      BY <2>7 DEF DeleteCert, OrderAt, NoOrder, TablesOK, OrdersOK, ListedInv,
                  RevokedIsDeleted, ListedHasFiles, Requesting
    <2>8. CASE TakeDown(h)
      <3>1. PICK read : order' = [order EXCEPT ![h].at = "user", ![h].read = read]
        BY <2>8 DEF TakeDown
      <3>2. order'[h] \in Order
        BY <2>8, OrdersStep DEF OrdersOK
      <3>3. order' = [order EXCEPT ![h] = order'[h]]
        BY <3>1 DEF OrdersOK, Order
      <3>4. order'[h].at = "user" /\ order'[h].cert = order[h].cert
        BY <3>1 DEF OrdersOK, Order
      <3> QED BY <2>8, <2>1, <3>2, <3>3, <3>4 DEF TakeDown, OrderAt, tables
    <2>9. CASE UserFound(h)
      <3>1. [order[h] EXCEPT !.at = "ready", !.dns = FALSE] \in Order
        BY DEF OrdersOK, Order, OrderStep
      <3>2. order' = [order EXCEPT ![h] = [order[h] EXCEPT !.at = "ready", !.dns = FALSE]]
        BY <2>9 DEF UserFound, OrdersOK, Order
      <3> QED BY <2>9, <2>1, <3>1, <3>2 DEF UserFound, OrderAt, OrdersOK, Order, siteVars,
                                           tables
    <2>10. CASE Reinstate(h) \/ Undo(h)
      <3>1. PICK step \in {"record", "restart"} :
              order' = [order EXCEPT ![h].at = step, ![h].read = << >>]
        BY <2>10 DEF Reinstate, Undo
      <3> DEFINE o == [order[h] EXCEPT !.at = step, !.read = << >>]
      <3>2. o \in Order /\ o.at = step /\ o.cert = order[h].cert
        BY EmptyRead DEF OrdersOK, Order, OrderStep
      <3>3. order' = [order EXCEPT ![h] = o]
        BY <3>1 DEF OrdersOK, Order
      <3> HIDE DEF o
      <3> QED BY <2>10, <2>1, <3>2, <3>3 DEF Reinstate, Undo, OrderAt, tables
    <2>11. CASE FirstReload(h) \/ SecondReload(h)
      BY <2>11, <2>3 DEF FirstReload, SecondReload, ReloadThen, OrderAt, OrderStep, tables
    <2>12. CASE RequestConfFails(h) \/ RunCertbot(h) \/ ChallengeFails(h)
                \/ ReinstateFails(h)
      BY <2>12, <2>3 DEF RequestConfFails, RunCertbot, StartCertbot, ChallengeFails,
                         ReinstateFails, OrderAt, OrderStep, siteVars, tables
    <2>13. CASE UserGone(h) \/ UndoFails(h) \/ LastReload(h)
      BY <2>13, <2>4 DEF UserGone, UndoFails, LastReload, OrderAt
    <2>14. CASE Record(h)
      <3>1. CASE HardDelete(h)
        BY <2>14, <2>4, <3>1 DEF Record, OrderAt
      <3>2. CASE ~HardDelete(h)
        BY <2>14, <3>2 DEF Record, CloseOrder, NoOrder, OrdersOK, ListedInv,
                           RevokedIsDeleted, ListedHasFiles, Requesting
      <3> QED BY <3>1, <3>2
    <2>15. CASE Issued(h)
      BY <2>15 DEF Issued, OrderAt, Proceed, tables, OrdersOK, Order, ListedInv,
                   RevokedIsDeleted, ListedHasFiles, Requesting
    <2>16. CASE EndRevocation(h)
      BY <2>16 DEF EndRevocation, OrderAt, CloseOrder, NoOrder, tables, OrdersOK,
                   ListedInv, RevokedIsDeleted, ListedHasFiles, Requesting
    <2>17. CASE RunRenewal(h) \/ RunRevocation(h)
      <3>1. CASE CloseOrder(h)
        BY <2>17, <2>2, <3>1 DEF RunRenewal, RunRevocation, StartCertbot, OrderAt,
                                 CloseOrder, NoOrder, siteVars, tables
      <3>2. CASE ~CloseOrder(h)
        BY <2>17, <3>2 DEF RunRenewal, RunRevocation, StartCertbot, OrderAt, Proceed,
               siteVars, tables, OrdersOK, Order, ListedInv, RevokedIsDeleted,
               ListedHasFiles, Requesting
      <3> QED BY <3>1, <3>2
    <2>18. CASE EndRenewal(h)
      BY <2>18, <2>2 DEF EndRenewal, OrderAt, CloseOrder, NoOrder, siteVars, tables
    <2> QED BY <1>2, <2>5, <2>6, <2>7, <2>8, <2>9, <2>10, <2>11, <2>12, <2>13, <2>14,
               <2>15, <2>16, <2>17, <2>18 DEF CertStep
  <1>3. ASSUME NEW i \in Host, Saves(i), UNCHANGED certVars PROVE ListedInv'
    BY <1>1, <1>3, HostSaved DEF certVars
  <1>4. ASSUME NEW h \in Handler, ListStep(h), UNCHANGED certVars PROVE ListedInv'
    BY <1>1, <1>4 DEF ListStep, CreateList, UpdateList, DeleteItems, InsertItems, Refetch,
        AppendItem, RenderHosts, ReloadUpdated, DeleteList, MarkDeleted, ReleaseHosts,
        StripHosts, ReloadDeleted, Unlink, certVars, siteVars, tables,
        BuildFails, Drained, RenderFails, StripFails
  <1>5. ASSUME NEW h \in Handler, PageStep(h), UNCHANGED certVars PROVE ListedInv'
    BY <1>1, <1>5 DEF PageStep, SyncPasswords, DeleteHost, BeginSync, LoadRows, WriteRow,
        QueryForFiles, BuildHtpasswd, QueryForPage, Query, RenderPage, ReloadPages,
        MarkHostDeleted, DeleteRows, DeleteFiles, certVars, siteVars, tables,
        BuildHtpasswdFails, RenderPageFails, DeleteFilesFails
  <1> QED BY <1>2, <1>3, <1>4, <1>5 DEF SitesNext, Saves

(* A certificate that is listed has its files, or is being requested,      *)
(* whichever requests fail and however they overlap.                       *)
THEOREM ListedHaveFiles == SitesSpec => []ListedHasFiles
PROOF
  <1>1. SitesInit => ListedInv
    BY DEF SitesInit, SiteInit, CertInit, ListedInv, RevokedIsDeleted, ListedHasFiles,
           NoOrder
  <1>2. Types /\ ListedInv /\ [SitesNext]_sitesVars => ListedInv'
    <2>1. UNCHANGED sitesVars /\ ListedInv => ListedInv'
      BY DEF sitesVars, siteVars, tables, certVars, ListedInv, RevokedIsDeleted,
             ListedHasFiles, Requesting
    <2> QED BY <2>1, ListedStep DEF Types
  <1>3. ListedInv => ListedHasFiles
    BY DEF ListedInv
  <1> QED BY <1>1, <1>2, <1>3, TypesInvariant, PTL DEF SitesSpec

-----------------------------------------------------------------------------
(* The hosts of a deleted list.                                            *)

(* From the moment a list is marked deleted until its hosts are released,  *)
(* a request that will release them is at work.                            *)
ReleasePending ==
    \A l \in List : lists[l].state = "deleted" =>
        \/ UsersOf(l) \subseteq late
        \/ \E h \in Handler : edit[h].at = "release" /\ edit[h].list = l

LEMMA ReleaseKept ==
  ASSUME ReleasePending, UNCHANGED <<hosts, lists, late>>,
         \A k \in Handler : edit[k].at = "release" =>
             edit'[k].at = "release" /\ edit'[k].list = edit[k].list
  PROVE  ReleasePending'
BY DEF ReleasePending, UsersOf, LiveHosts

LEMMA EditOfOthers ==
  ASSUME EditsOK, NEW h \in Handler, NEW op, NEW l, NEW step, NEW read,
         BeginEdit(h, op, l, step, read)
  PROVE  \A k \in Handler : edit[k].at = "release" =>
             edit'[k].at = "release" /\ edit'[k].list = edit[k].list
PROOF
  <1> SUFFICES ASSUME NEW k \in Handler, edit[k].at = "release"
               PROVE  edit'[k].at = "release" /\ edit'[k].list = edit[k].list
    OBVIOUS
  <1>1. edit[k] \in Edit
    BY DEF EditsOK, NoEdit
  <1>2. edit'[k] \in {edit[k], [edit[k] EXCEPT !.alone = FALSE]}
    BY DEF BeginEdit, EditAt
  <1> QED BY <1>1, <1>2 DEF Edit

LEMMA ReleaseStep ==
  ASSUME TablesOK, EditsOK, ReleasePending, SitesNext
  PROVE  ReleasePending'
PROOF
  <1>1. ASSUME NEW i \in Host, Saves(i), UNCHANGED listVars PROVE ReleasePending'
    <2>1. PICK row \in HostRow :
             /\ row.list # None /\ lists[row.list].state = "deleted" => i \in late'
             /\ late \ {i} \subseteq late'
             /\ hosts' = [hosts EXCEPT ![i] = row]
      BY <1>1, HostSaved
    <2>2. UNCHANGED <<lists, edit>>
      BY <1>1, HostSaved DEF listVars
    <2>3. None \notin List
      BY SitesAssumption
    <2>4. ASSUME NEW l \in List, lists[l].state = "deleted", UsersOf(l) \subseteq late
          PROVE  UsersOf(l)' \subseteq late'
      BY <2>1, <2>3, <2>4 DEF UsersOf, LiveHosts, TablesOK
    <2> QED BY <2>2, <2>4 DEF ReleasePending
  <1>2. ASSUME NEW h \in Handler, CertStep(h), UNCHANGED listVars PROVE ReleasePending'
    <2>1. UNCHANGED <<hosts, lists, late>>
      BY <1>2 DEF CertStep, RequestCert, RenewCert, DeleteCert, TakeDown, UserFound,
                  UserGone, FirstReload, SecondReload, ReloadThen, RunCertbot, StartCertbot,
                  Issued, ChallengeFails, Reinstate, Record, Undo, LastReload,
                  RunRenewal, EndRenewal, RunRevocation, EndRevocation, siteVars, tables,
                  RequestConfFails, ReinstateFails, UndoFails
    <2> QED BY <1>2, <2>1, ReleaseKept DEF listVars
  <1>3. ASSUME NEW h \in Handler, ListStep(h) PROVE ReleasePending'
    <2>1. ASSUME NEW l \in List, CreateList(h, l) PROVE ReleasePending'
      <3>1. \A k \in Handler : edit[k].at = "release" =>
                edit'[k].at = "release" /\ edit'[k].list = edit[k].list
        BY <2>1, EditOfOthers DEF CreateList
      <3>2. UNCHANGED <<hosts, late>>
        BY <2>1 DEF CreateList
      <3>3. \A k \in List : lists'[k].state = "deleted" => lists[k].state = "deleted"
        BY <2>1 DEF CreateList, TablesOK
      <3> QED BY <3>1, <3>2, <3>3 DEF ReleasePending, UsersOf, LiveHosts
    <2>2. ASSUME NEW l \in List, UpdateList(h, l) \/ DeleteList(h, l) PROVE ReleasePending'
      <3>1. \A k \in Handler : edit[k].at = "release" =>
                edit'[k].at = "release" /\ edit'[k].list = edit[k].list
        <4>1. PICK op, step, read : BeginEdit(h, op, l, step, read)
          BY <2>2 DEF UpdateList, DeleteList
        <4> QED BY <4>1, EditOfOthers
      <3> QED BY <2>2, <3>1, ReleaseKept DEF UpdateList, DeleteList, tables
    <2>3. ASSUME edit[h].at # "release", UNCHANGED <<hosts, late>>,
                 NEW o, edit' = [edit EXCEPT ![h] = o],
                 \A k \in List : lists'[k].state = "deleted" => lists[k].state = "deleted"
          PROVE  ReleasePending'
      BY <2>3 DEF ReleasePending, UsersOf, LiveHosts, EditsOK
    <2>4. CASE DeleteItems(h) \/ InsertItems(h)
      <3>1. PICK o : edit' = [edit EXCEPT ![h] = o]
        BY <2>4 DEF DeleteItems, InsertItems, EditOn
      <3>2. \A k \in List : lists'[k].state = lists[k].state
        <4>1. PICK items : lists' = [lists EXCEPT ![edit[h].list].items = items]
          BY <2>4 DEF DeleteItems, InsertItems
        <4> QED BY <4>1 DEF TablesOK, ListRow
      <3> QED BY <2>3, <2>4, <3>1, <3>2 DEF DeleteItems, InsertItems, EditAt
    <2>5. CASE Refetch(h)
      <3>1. PICK o : edit' = [edit EXCEPT ![h] = o]
        BY <2>5 DEF Refetch, EndEdit
      <3> QED BY <2>3, <2>5, <3>1 DEF Refetch, EditAt, siteVars, tables
    <2>6. CASE AppendItem(h)
      <3>1. PICK o : edit' = [edit EXCEPT ![h] = o]
        BY <2>6 DEF AppendItem
      <3> QED BY <2>3, <2>6, <3>1 DEF AppendItem, siteVars, tables
    <2>7. CASE RenderHosts(h) \/ ReloadUpdated(h) \/ StripHosts(h) \/ ReloadDeleted(h)
               \/ Unlink(h) \/ BuildFails(h) \/ Drained(h) \/ RenderFails(h)
               \/ StripFails(h)
      <3>1. PICK o : edit' = [edit EXCEPT ![h] = o]
        BY <2>7 DEF RenderHosts, ReloadUpdated, StripHosts, ReloadDeleted, Unlink,
                    BuildFails, Drained, RenderFails, StripFails,
                    EndEdit, AnswerEdit, EditOn, Written
      <3> QED BY <2>3, <2>7, <3>1 DEF RenderHosts, ReloadUpdated, StripHosts,
                    ReloadDeleted, Unlink, BuildFails, Drained, RenderFails, StripFails,
                    EditAt, siteVars, tables
    <2>8. CASE MarkDeleted(h)
      <3>1. edit[h] \in Edit
        BY <2>8 DEF MarkDeleted, EditAt, EditsOK, NoEdit
      <3>2. edit' = [edit EXCEPT ![h].at = "release"]
        BY <2>8 DEF MarkDeleted, EditOn
      <3>3. edit'[h].at = "release" /\ edit'[h].list = edit[h].list
        BY <3>1, <3>2 DEF EditsOK, Edit
      <3>4. \A k \in Handler \ {h} : edit'[k] = edit[k]
        BY <3>2 DEF EditsOK
      <3>5. \A l \in List : lists'[l].state = "deleted" =>
                lists[l].state = "deleted" \/ l = edit[h].list
        BY <2>8 DEF MarkDeleted, TablesOK
      <3>6. UNCHANGED <<hosts, late>> /\ edit[h].at # "release"
        BY <2>8 DEF MarkDeleted, EditAt
      <3> QED BY <3>3, <3>4, <3>5, <3>6 DEF ReleasePending, UsersOf, LiveHosts
    <2>9. CASE ReleaseHosts(h)
      <3>1. \A k \in Handler \ {h} : edit'[k] = edit[k]
        BY <2>9 DEF ReleaseHosts, EditOn, EditsOK
      <3>2. UNCHANGED <<lists, late>>
        BY <2>9 DEF ReleaseHosts
      <3>3. edit[h] \in Edit
        BY <2>9 DEF ReleaseHosts, EditAt, EditsOK, NoEdit
      <3>4. edit[h].list # None
        BY <3>3, SitesAssumption DEF Edit
      <3>5. hosts' = [i \in Host |-> IF hosts[i].list = edit[h].list
                                     THEN [hosts[i] EXCEPT !.list = None] ELSE hosts[i]]
        BY <2>9 DEF ReleaseHosts
      <3>6. \A i \in Host : hosts'[i].list # edit[h].list
        BY <3>4, <3>5 DEF TablesOK, HostRow
      <3>7. \A i \in Host : hosts'[i].live = hosts[i].live
                            /\ hosts'[i].list \in {hosts[i].list, None}
        BY <3>5 DEF TablesOK, HostRow
      <3>8. \A l \in List : UsersOf(l)' \subseteq UsersOf(l)
        BY <3>7, SitesAssumption DEF UsersOf, LiveHosts
      <3>9. \A l \in List : l = edit[h].list => UsersOf(l)' = {}
        BY <3>6 DEF UsersOf, LiveHosts
      <3> QED BY <3>1, <3>2, <3>8, <3>9 DEF ReleasePending
    <2> QED BY <1>3, <2>1, <2>2, <2>4, <2>5, <2>6, <2>7, <2>8, <2>9 DEF ListStep
  <1>4. ASSUME NEW h \in Handler, PageStep(h), UNCHANGED listVars PROVE ReleasePending'
    <2>1. CASE UNCHANGED <<hosts, lists, late>>
      BY <1>4, <2>1, ReleaseKept DEF listVars
    <2>2. CASE MarkHostDeleted(h)
      <3>1. UNCHANGED <<lists, late, edit>>
        BY <1>4, <2>2 DEF MarkHostDeleted, listVars
      <3>2. \A i \in Host : hosts'[i].list = hosts[i].list /\ (hosts'[i].live => hosts[i].live)
        BY <2>2 DEF MarkHostDeleted, TablesOK, HostRow
      <3>3. \A l \in List : UsersOf(l)' \subseteq UsersOf(l)
        BY <3>2 DEF UsersOf, LiveHosts
      <3> QED BY <3>1, <3>3 DEF ReleasePending
    <2> QED BY <1>4, <2>1, <2>2
        DEF PageStep, SyncPasswords, DeleteHost, BeginSync, LoadRows, WriteRow,
            QueryForFiles, BuildHtpasswd, QueryForPage, Query, RenderPage, ReloadPages,
            DeleteRows, DeleteFiles, siteVars, tables,
            BuildHtpasswdFails, RenderPageFails, DeleteFilesFails
  <1> QED BY <1>1, <1>2, <1>3, <1>4 DEF SitesNext, Saves

(* A list whose deletion has been answered is used by no host, except by   *)
(* those that were given it after it was deleted.                          *)
THEOREM DeletedIsUnused == SitesSpec => []DeletedListUnused
PROOF
  <1>1. SitesInit => ReleasePending
    BY DEF SitesInit, SiteInit, ReleasePending
  <1>2. Types /\ ReleasePending /\ [SitesNext]_sitesVars => ReleasePending'
    <2>1. UNCHANGED sitesVars /\ ReleasePending => ReleasePending'
      BY ReleaseKept DEF sitesVars, siteVars, tables, listVars
    <2> QED BY <2>1, ReleaseStep DEF Types
  <1>3. ReleasePending => DeletedListUnused
    BY DEF ReleasePending, DeletedListUnused, Editing
  <1> QED BY <1>1, <1>2, <1>3, TypesInvariant, PTL DEF SitesSpec

-----------------------------------------------------------------------------
(* Hosts without a file.                                                   *)

(* A request deletes a host's file only once the host's row is deleted.    *)
Gone == {"rows", "clean"}

SyncOf == [at: SyncStep \ {"idle"}, host: Host,
           row: [id: Int, line: Secret \cup {None}, on: BOOLEAN], plan: Plan,
           clean: BOOLEAN]

SyncsOK ==
    /\ passwords \in [Host -> [id: Int, line: Secret \cup {None}, on: BOOLEAN]]
    /\ sync \in [Handler -> SyncOf \cup {NoSync}]
    /\ \A h \in Handler : sync[h].at \in Gone => ~hosts[sync[h].host].live

LEMMA SyncAdvanced ==
  ASSUME SyncsOK, NEW h \in Handler, sync[h].at # "idle",
         NEW step \in SyncStep \ {"idle"}, SyncOn(h, step)
  PROVE  /\ sync' \in [Handler -> SyncOf \cup {NoSync}]
         /\ sync'[h].at = step /\ sync'[h].host = sync[h].host
         /\ \A k \in Handler \ {h} : sync'[k] = sync[k]
PROOF
  <1>1. sync[h] \in SyncOf
    BY DEF SyncsOK, NoSync
  <1>2. [sync[h] EXCEPT !.at = step] \in SyncOf
    BY <1>1 DEF SyncOf
  <1>3. sync' = [sync EXCEPT ![h] = [sync[h] EXCEPT !.at = step]]
    BY DEF SyncOn, SyncsOK
  <1> QED BY <1>1, <1>2, <1>3 DEF SyncsOK, SyncOf

LEMMA SyncSwallowed ==
  ASSUME SyncsOK, NEW h \in Handler, sync[h].at # "idle",
         NEW step \in SyncStep \ {"idle"}, SwallowOn(h, step)
  PROVE  /\ sync' \in [Handler -> SyncOf \cup {NoSync}]
         /\ sync'[h].at = step /\ sync'[h].host = sync[h].host /\ ~sync'[h].clean
         /\ \A k \in Handler \ {h} : sync'[k] = sync[k]
PROOF
  <1>1. sync[h] \in SyncOf
    BY DEF SyncsOK, NoSync
  <1> DEFINE o == [sync[h] EXCEPT !.at = step, !.clean = FALSE]
  <1>2. o \in SyncOf /\ o.at = step /\ o.host = sync[h].host /\ ~o.clean
    BY <1>1 DEF SyncOf
  <1>3. sync' = [sync EXCEPT ![h] = o]
    BY <1>1 DEF SwallowOn, SyncsOK, SyncOf
  <1> HIDE DEF o
  <1> QED BY <1>1, <1>2, <1>3 DEF SyncsOK

LEMMA EmptySync ==
    /\ NoPage \in [id: Int, line: Secret \cup {None}, on: BOOLEAN]
    /\ Keep \in Plan
BY DEF NoPage, Keep, Plan

(* A step that changes one handler's request keeps the others' facts.      *)
LEMMA SyncMoved ==
  ASSUME SyncsOK, NEW h \in Handler, NEW o \in SyncOf \cup {NoSync},
         sync' = [sync EXCEPT ![h] = o], o.at \notin Gone,
         passwords' \in [Host -> [id: Int, line: Secret \cup {None}, on: BOOLEAN]],
         UNCHANGED hosts
  PROVE  SyncsOK'
BY DEF SyncsOK

LEMMA SyncsStep ==
  ASSUME TablesOK, SyncsOK, SitesNext
  PROVE  SyncsOK'
PROOF
  <1> DEFINE PageRows == [id: Int, line: Secret \cup {None}, on: BOOLEAN]
  <1>1. ASSUME UNCHANGED <<passwords, sync>>,
               \A i \in Host : hosts'[i].live => hosts[i].live
        PROVE  SyncsOK'
    <2>1. \A h \in Handler : sync[h].at \in Gone => sync[h].host \in Host
      BY DEF SyncsOK, SyncOf, NoSync, Gone
    <2> QED BY <1>1, <2>1 DEF SyncsOK
  <1>2. ASSUME NEW i \in Host, Saves(i), UNCHANGED pageVars PROVE SyncsOK'
    <2>1. hosts[i].live /\ UNCHANGED passwords
      BY <1>2, HostSaved DEF Saves, SaveHost, SaveHostFails
    <2>2. \E row \in HostRow : hosts' = [hosts EXCEPT ![i] = row]
      BY <1>2, HostSaved
    <2> QED BY <1>1, <1>2, <2>1, <2>2 DEF TablesOK, pageVars
  <1>3. ASSUME NEW h \in Handler, CertStep(h), UNCHANGED pageVars PROVE SyncsOK'
    <2>1. UNCHANGED <<hosts, passwords>>
      BY <1>3 DEF CertStep, RequestCert, RenewCert, DeleteCert, TakeDown, UserFound,
                  UserGone, FirstReload, SecondReload, ReloadThen, RunCertbot, StartCertbot,
                  Issued, ChallengeFails, Reinstate, Record, Undo, LastReload,
                  RunRenewal, EndRenewal, RunRevocation, EndRevocation, siteVars, tables,
                  RequestConfFails, ReinstateFails, UndoFails
    <2> QED BY <1>1, <1>3, <2>1 DEF pageVars
  <1>4. ASSUME NEW h \in Handler, ListStep(h), UNCHANGED pageVars PROVE SyncsOK'
    <2>1. CASE UNCHANGED hosts
      <3>1. UNCHANGED passwords
        BY <1>4 DEF ListStep, CreateList, UpdateList, DeleteList, DeleteItems, InsertItems,
                    Refetch, AppendItem, RenderHosts, ReloadUpdated, MarkDeleted,
                    ReleaseHosts, StripHosts, ReloadDeleted, Unlink, siteVars, tables,
                    BuildFails, Drained, RenderFails, StripFails
      <3> QED BY <1>1, <1>4, <2>1, <3>1 DEF pageVars
    <2>2. CASE ReleaseHosts(h)
      <3>1. \A i \in Host : hosts'[i].live = hosts[i].live
        BY <2>2 DEF ReleaseHosts, TablesOK, HostRow
      <3> QED BY <1>1, <1>4, <2>2, <3>1 DEF ReleaseHosts, pageVars
    <2> QED BY <1>4, <2>1, <2>2
        DEF ListStep, CreateList, UpdateList, DeleteList, DeleteItems, InsertItems,
            Refetch, AppendItem, RenderHosts, ReloadUpdated, MarkDeleted,
            StripHosts, ReloadDeleted, Unlink, siteVars, tables,
            BuildFails, Drained, RenderFails, StripFails
  <1>5. ASSUME NEW h \in Handler, PageStep(h) PROVE SyncsOK'
    <2>1. ASSUME NEW i \in Host, NEW step \in SyncStep \ {"idle"}, step \notin Gone,
                 BeginSync(h, i, step)
          PROVE  SyncsOK'
      <3> DEFINE clean == (Syncing(i) = {})
                 o == [NoSync EXCEPT !.at = step, !.host = i, !.clean = clean]
      <3>0. clean \in BOOLEAN /\ h \notin Syncing(i)
        BY <2>1 DEF Syncing, BeginSync, SyncAt
      <3> HIDE DEF clean
      <3>1. o \in SyncOf /\ o.at = step
        BY <3>0, EmptySync DEF SyncOf, NoSync
      <3>2. \A k \in Syncing(i) :
               /\ [sync[k] EXCEPT !.clean = FALSE] \in SyncOf
               /\ [sync[k] EXCEPT !.clean = FALSE].at = sync[k].at
               /\ [sync[k] EXCEPT !.clean = FALSE].host = sync[k].host
        <4>1. \A k \in Syncing(i) : sync[k] \in SyncOf
          BY DEF SyncsOK, Syncing, NoSync
        <4> QED BY <4>1 DEF SyncOf
      <3>3. UNCHANGED <<hosts, passwords>>
        BY <2>1 DEF BeginSync, tables
      <3>5. sync' = [k \in Handler |->
                       CASE k = h -> o
                         [] k \in Syncing(i) -> [sync[k] EXCEPT !.clean = FALSE]
                         [] OTHER -> sync[k]]
        BY <2>1 DEF BeginSync, clean
      <3> HIDE DEF o
      <3>6. sync'[h] = o
        BY <3>0, <3>5
      <3>7. \A k \in Handler \ {h} :
               sync'[k] = IF k \in Syncing(i) THEN [sync[k] EXCEPT !.clean = FALSE]
                          ELSE sync[k]
        BY <3>5
      <3>8. \A k \in Handler : sync'[k] \in SyncOf \cup {NoSync}
        BY <3>1, <3>2, <3>6, <3>7 DEF SyncsOK
      <3>9. sync' \in [Handler -> SyncOf \cup {NoSync}]
        BY <3>5, <3>8
      <3>10. \A k \in Handler \ {h} : sync'[k].at = sync[k].at
                                       /\ sync'[k].host = sync[k].host
        BY <3>2, <3>7
      <3> QED BY <2>1, <3>1, <3>3, <3>6, <3>9, <3>10 DEF SyncsOK
    <2>2. ASSUME NEW i \in Host, SyncPasswords(h, i) \/ DeleteHost(h, i) PROVE SyncsOK'
      BY <2>1, <2>2 DEF SyncPasswords, DeleteHost, SyncStep, Gone
    <2>3. CASE LoadRows(h)
      <3>1. sync[h] \in SyncOf
        BY <2>3 DEF LoadRows, SyncAt, SyncsOK, NoSync
      <3> DEFINE row == passwords[sync[h].host]
      <3>2. row \in PageRows
        BY <3>1 DEF SyncsOK, SyncOf
      <3>3. PICK plan \in Plans(row) :
              sync' = [sync EXCEPT ![h].at = "write", ![h].plan = plan, ![h].row = row]
        BY <2>3 DEF LoadRows
      <3>4. plan \in Plan
        <4>1. [Keep EXCEPT !.do = "delete"] \in Plan
          BY DEF Keep, Plan
        <4>2. [do: {"insert"}, line: Secret, on: BOOLEAN] \subseteq Plan
          BY DEF Plan
        <4>3. [do: {"patch"}, line: Secret \cup {row.line}, on: BOOLEAN] \subseteq Plan
          BY <3>2 DEF Plan
        <4> QED BY <3>3, <4>1, <4>2, <4>3, EmptySync DEF Plans
      <3> HIDE DEF row
      <3> DEFINE o == [sync[h] EXCEPT !.at = "write", !.plan = plan, !.row = row]
      <3>5. o \in SyncOf /\ o.at = "write"
        BY <3>1, <3>2, <3>4 DEF SyncOf, SyncStep
      <3>6. sync' = [sync EXCEPT ![h] = o]
        BY <3>1, <3>3 DEF SyncsOK, SyncOf
      <3> HIDE DEF o
      <3> QED BY <2>3, <3>5, <3>6, SyncMoved DEF LoadRows, Gone, SyncsOK, siteVars, tables
    <2>4. CASE WriteRow(h)
      <3>1. sync[h] \in SyncOf
        BY <2>4 DEF WriteRow, SyncAt, SyncsOK, NoSync
      <3> DEFINE i == sync[h].host
                 row == passwords[i]
                 plan == sync[h].plan
      <3>2. i \in Host /\ row \in PageRows /\ plan \in Plan
        BY <3>1 DEF SyncsOK, SyncOf
      <3>3. passwords' \in [Host -> PageRows]
        <4>1. [id |-> row.id + 1, line |-> plan.line, on |-> plan.on] \in PageRows
          BY <3>2 DEF Plan
        <4>2. [row EXCEPT !.line = plan.line, !.on = plan.on] \in PageRows
          BY <3>2 DEF Plan
        <4>3. [NoPage EXCEPT !.id = row.id] \in PageRows
          BY <3>2 DEF NoPage
        <4>4. \/ UNCHANGED passwords
              \/ passwords' = [passwords EXCEPT ![i] =
                                 [id |-> row.id + 1, line |-> plan.line, on |-> plan.on]]
              \/ passwords' = [passwords EXCEPT ![i] =
                                 [row EXCEPT !.line = plan.line, !.on = plan.on]]
              \/ passwords' = [passwords EXCEPT ![i] = [NoPage EXCEPT !.id = row.id]]
          BY <2>4, <3>2 DEF WriteRow, SyncsOK
        <4> HIDE DEF i, row, plan
        <4> QED BY <4>1, <4>2, <4>3, <4>4, <3>2 DEF SyncsOK
      <3>4. UNCHANGED hosts
        BY <2>4 DEF WriteRow
      <3>5. CASE SyncOn(h, "query")
        <4>1. [sync[h] EXCEPT !.at = "query"] \in SyncOf
          BY <3>1 DEF SyncOf, SyncStep
        <4>2. sync' = [sync EXCEPT ![h] = [sync[h] EXCEPT !.at = "query"]]
          BY <3>5 DEF SyncOn, SyncsOK
        <4>3. [sync[h] EXCEPT !.at = "query"].at = "query"
          BY <3>1 DEF SyncOf
        <4> QED BY <3>3, <3>4, <4>1, <4>2, <4>3, SyncMoved DEF Gone
      <3>6. CASE EndSync(h)
        BY <3>3, <3>4, <3>6, SyncMoved DEF EndSync, NoSync, Gone
      <3> QED BY <2>4, <3>5, <3>6 DEF WriteRow
    <2>5. CASE QueryForFiles(h) \/ QueryForPage(h)
      <3>1. sync[h] \in SyncOf
        BY <2>5 DEF QueryForFiles, QueryForPage, SyncAt, SyncsOK, NoSync
      <3>2. PICK step \in {"files", "render"} : Query(h, step)
        BY <2>5 DEF QueryForFiles, QueryForPage
      <3> DEFINE row == IF passwords[sync[h].host].on
                        THEN [passwords[sync[h].host] EXCEPT !.id = 0] ELSE NoPage
                 o   == [sync[h] EXCEPT !.at = step, !.plan = Keep, !.row = row]
      <3>3. passwords[sync[h].host] \in PageRows
        BY <3>1 DEF SyncsOK, SyncOf
      <3>4. row \in PageRows
        BY <3>3 DEF NoPage
      <3>5. sync' = [sync EXCEPT ![h] = o]
        BY <3>1, <3>2 DEF Query, SyncsOK, SyncOf
      <3> HIDE DEF row
      <3>6. o \in SyncOf /\ o.at = step
        BY <3>1, <3>4 DEF SyncOf, SyncStep, Keep, Plan
      <3> HIDE DEF o
      <3>7. UNCHANGED <<hosts, passwords>>
        BY <3>2 DEF Query, siteVars, tables
      <3> QED BY <3>5, <3>6, <3>7, SyncMoved DEF Gone, SyncsOK
    <2>6. CASE BuildHtpasswd(h)
      <3>1. sync[h] \in SyncOf
        BY <2>6 DEF BuildHtpasswd, SyncAt, SyncsOK, NoSync
      <3> DEFINE o == [sync[h] EXCEPT !.at = "page", !.row = NoPage]
      <3>2. o \in SyncOf /\ o.at = "page"
        BY <3>1, EmptySync DEF SyncOf, SyncStep
      <3>3. sync' = [sync EXCEPT ![h] = o]
        BY <2>6, <3>1 DEF BuildHtpasswd, SyncsOK, SyncOf
      <3> HIDE DEF o
      <3> QED BY <2>6, <3>2, <3>3, SyncMoved DEF BuildHtpasswd, Gone, SyncsOK, siteVars,
                                                 tables
    <2>6a. CASE BuildHtpasswdFails(h)
      <3>1. UNCHANGED <<hosts, passwords>> /\ sync[h].at = "files"
        BY <2>6a DEF BuildHtpasswdFails, SyncAt, siteVars, tables
      <3>2. CASE SwallowOn(h, "page")
        BY <3>1, <3>2, SyncSwallowed DEF SyncsOK, Gone, SyncStep
      <3>3. CASE EndSync(h)
        BY <3>1, <3>3, SyncMoved DEF EndSync, NoSync, Gone, SyncsOK
      <3> QED BY <2>6a, <3>2, <3>3 DEF BuildHtpasswdFails
    <2>7a. CASE RenderPageFails(h)
      <3>1. UNCHANGED <<hosts, passwords>> /\ sync[h].at = "render"
        BY <2>7a DEF RenderPageFails, SyncAt, siteVars, tables
      <3>2. CASE SwallowOn(h, "reload")
        BY <3>1, <3>2, SyncSwallowed DEF SyncsOK, Gone, SyncStep
      <3>3. CASE EndSync(h)
        BY <3>1, <3>3, SyncMoved DEF EndSync, NoSync, Gone, SyncsOK
      <3> QED BY <2>7a, <3>2, <3>3 DEF RenderPageFails
    <2>7. CASE RenderPage(h)
      <3>1. UNCHANGED <<hosts, passwords>> /\ SyncOn(h, "reload") /\ sync[h].at # "idle"
        BY <2>7 DEF RenderPage, SyncAt, siteVars, tables
      <3> QED BY <3>1, SyncAdvanced DEF SyncsOK, Gone, SyncStep
    <2>8. CASE ReloadPages(h)
      BY <2>8, SyncMoved DEF ReloadPages, AnswerSync, NoSync, Gone, SyncsOK, tables
    <2>9. CASE MarkHostDeleted(h)
      <3>1. UNCHANGED passwords /\ SyncOn(h, "rows") /\ sync[h].at # "idle"
        BY <2>9 DEF MarkHostDeleted, SyncAt
      <3>2. sync[h] \in SyncOf
        BY <3>1 DEF SyncsOK, NoSync
      <3>3. /\ ~hosts'[sync[h].host].live
            /\ \A i \in Host : hosts'[i].live => hosts[i].live
        BY <2>9, <3>2 DEF MarkHostDeleted, SyncOf, TablesOK, HostRow
      <3>4. \A k \in Handler : sync[k].at \in Gone => sync[k].host \in Host
        BY DEF SyncsOK, SyncOf, NoSync, Gone
      <3> QED BY <3>1, <3>3, <3>4, SyncAdvanced DEF SyncsOK, SyncStep, Gone
    <2>10. CASE DeleteRows(h)
      <3>1. UNCHANGED hosts /\ SyncOn(h, "clean") /\ sync[h].at = "rows"
        BY <2>10 DEF DeleteRows, SyncAt
      <3>2. \A i \in Host : [passwords[i] EXCEPT !.line = None, !.on = FALSE] \in PageRows
        BY DEF SyncsOK
      <3>3. passwords' \in [Host -> PageRows]
        <4>1. PICK i : \/ UNCHANGED passwords
                       \/ passwords' = [passwords EXCEPT ![i].line = None, ![i].on = FALSE]
          BY <2>10 DEF DeleteRows
        <4> QED BY <3>2, <4>1 DEF SyncsOK
      <3> QED BY <3>1, <3>3, SyncAdvanced DEF SyncsOK, SyncStep, Gone
    <2>11. CASE DeleteFiles(h)
      <3>1. UNCHANGED <<hosts, passwords>> /\ SyncOn(h, "reload") /\ sync[h].at # "idle"
        BY <2>11 DEF DeleteFiles, SyncAt, tables
      <3> QED BY <3>1, SyncAdvanced DEF SyncsOK, Gone, SyncStep
    <2>12. CASE DeleteFilesFails(h)
      <3>1. UNCHANGED <<hosts, passwords>> /\ SwallowOn(h, "reload") /\ sync[h].at # "idle"
        BY <2>12 DEF DeleteFilesFails, SyncAt, tables
      <3> QED BY <3>1, SyncSwallowed DEF SyncsOK, Gone, SyncStep
    <2> QED BY <1>5, <2>2, <2>3, <2>4, <2>5, <2>6, <2>6a, <2>7, <2>7a, <2>8, <2>9, <2>10,
               <2>11, <2>12 DEF PageStep
  <1> QED BY <1>2, <1>3, <1>4, <1>5 DEF SitesNext, Saves

(* The steps of a certificate request at which it answers for the hosts it *)
(* has taken down.                                                         *)
Holding == {"user", "ready", "challenge", "certbot", "apply", "reinstate", "undo"}

ReadsHeld == \A h \in Handler : order[h].at \notin Holding => DOMAIN order[h].read = {}

FilesOK == conf \in [Host -> Conf \cup {None}]

OutageInv == FilesOK /\ ReadsHeld

(* What a step does about the hosts without a file.                        *)
Accounted == OutageInv' /\ \A i \in Host : Out(i)' => Out(i) \/ LosesFile(i)

LEMMA ReadingFiles ==
  ASSUME NEW read \in Reading, NEW i \in DOMAIN read
  PROVE  i \in Host /\ read[i] \in Conf /\ read[i] # None
PROOF
  <1>1. PICK found \in SUBSET Host : read \in [found -> Conf]
    BY DEF Reading
  <1> QED BY <1>1, ConfAssumption

LEMMA FilesGenerated ==
  ASSUME FilesOK, NEW read \in Reading, BulkGenerateConfigs(read)
  PROVE  FilesOK' /\ \A i \in Host : conf'[i] = None => conf[i] = None /\ i \notin DOMAIN read
BY ReadingFiles DEF FilesOK, BulkGenerateConfigs

LEMMA FilesLost ==
  ASSUME FilesOK, NEW read \in Reading, GenerateFails(read)
  PROVE  FilesOK' /\ \A i \in Host \ DOMAIN read : conf'[i] = conf[i]
PROOF
  <1>1. PICK done \in SUBSET DOMAIN read : \E lost \in SUBSET DOMAIN read :
           conf' = [i \in Host |-> IF i \in done THEN read[i]
                                 ELSE IF i \in lost THEN None ELSE conf[i]]
    BY DEF GenerateFails
  <1>2. PICK lost \in SUBSET DOMAIN read :
           conf' = [i \in Host |-> IF i \in done THEN read[i]
                                 ELSE IF i \in lost THEN None ELSE conf[i]]
    BY <1>1
  <1> QED BY <1>2, ReadingFiles DEF FilesOK

(* A step that takes no host down keeps who answers for those that are.    *)
LEMMA OutageKept ==
  ASSUME OutageInv, UNCHANGED order, FilesOK',
         \A i \in Host : hosts'[i].live /\ conf'[i] = None /\ hosts'[i].online
             => hosts[i].live /\ conf[i] = None /\ hosts[i].online
  PROVE  Accounted
BY DEF Accounted, Out, OutageInv, ReadsHeld

LEMMA OrderHeld ==
  ASSUME OrdersOK, OutageInv, NEW h \in Handler, UNCHANGED <<hosts, conf>>,
         NEW o, order' = [order EXCEPT ![h] = o],
         DOMAIN order[h].read \subseteq DOMAIN o.read,
         o.at \notin Holding => DOMAIN o.read = {}
  PROVE  Accounted
PROOF
  <1>1. \A k \in Handler \ {h} : order'[k] = order[k]
    BY DEF OrdersOK
  <1>2. order'[h] = o
    BY DEF OrdersOK
  <1> QED BY <1>1, <1>2 DEF Accounted, Out, OutageInv, FilesOK, ReadsHeld

LEMMA OutageStep ==
  ASSUME TablesOK, OrdersOK, EditsOK, SyncsOK, OutageInv, SitesNext
  PROVE  Accounted
PROOF
  <1>1. ASSUME NEW i \in Host, Saves(i), UNCHANGED certVars PROVE Accounted
    <2>1. PICK row \in HostRow :
             /\ hosts' = [hosts EXCEPT ![i] = row]
             /\ \/ row.online = hosts[i].online /\ UNCHANGED conf
                \/ \E file \in Conf : conf' = [conf EXCEPT ![i] = file]
                \/ /\ ~row.online \/ SaveHostFails(i)
                   /\ conf' = [conf EXCEPT ![i] = None]
      BY <1>1, HostSaved
    <2>2. FilesOK'
      BY <2>1 DEF OutageInv, FilesOK
    <2>3. hosts[i].live
      BY <1>1 DEF Saves, SaveHost, SaveHostFails
    <2>4. \A k \in Host \ {i} : hosts'[k] = hosts[k] /\ conf'[k] = conf[k]
      BY <2>1 DEF TablesOK, OutageInv, FilesOK
    <2>5. hosts'[i] = row
      BY <2>1 DEF TablesOK
    <2>6. CASE SaveHostFails(i)
      BY <1>1, <2>2, <2>4, <2>6 DEF certVars, Accounted, Out, LosesFile, OutageInv, ReadsHeld
    <2>7. CASE ~SaveHostFails(i)
      <3>1. conf'[i] = None /\ row.online => conf[i] = None /\ hosts[i].online
        BY <2>1, <2>7, ConfAssumption DEF OutageInv, FilesOK
      <3> QED BY <1>1, <2>2, <2>3, <2>4, <2>5, <3>1, OutageKept DEF certVars
    <2> QED BY <2>6, <2>7
  <1>2. ASSUME NEW h \in Handler, CertStep(h) PROVE Accounted
    <2>0. order[h] \in Order
      BY DEF OrdersOK
    <2>1. ASSUME UNCHANGED <<hosts, conf>>, NEW step,
                 Proceed(h, step), step \in Holding
          PROVE  Accounted
      <3>1. order' = [order EXCEPT ![h] = [order[h] EXCEPT !.at = step]]
        BY <2>1 DEF Proceed, OrdersOK
      <3>2. [order[h] EXCEPT !.at = step].read = order[h].read
            /\ [order[h] EXCEPT !.at = step].at = step
        BY <2>0 DEF Order
      <3> QED BY <2>1, <3>1, <3>2, OrderHeld
    <2>2. ASSUME UNCHANGED <<hosts, conf>>, order[h].at \notin Holding,
                 NEW step, Proceed(h, step)
          PROVE  Accounted
      <3>1. order' = [order EXCEPT ![h] = [order[h] EXCEPT !.at = step]]
        BY <2>2 DEF Proceed, OrdersOK
      <3>2. [order[h] EXCEPT !.at = step].read = order[h].read
        BY <2>0 DEF Order
      <3>3. DOMAIN order[h].read = {}
        BY <2>2 DEF OutageInv, ReadsHeld
      <3> QED BY <2>2, <3>1, <3>2, <3>3, OrderHeld
    <2>3. ASSUME UNCHANGED <<hosts, conf>>, order[h].at \notin Holding,
                 NEW o, order' = [order EXCEPT ![h] = o], o.read = << >>
          PROVE  Accounted
      BY <2>3, EmptyRead, OrderHeld DEF OutageInv, ReadsHeld
    <2>14. ASSUME UNCHANGED <<hosts, conf>>, order[h].at \notin Holding,
                  CloseOrder(h)
           PROVE  Accounted
      <3>1. order' = [order EXCEPT ![h] = NoOrder]
        BY <2>14 DEF CloseOrder
      <3>2. NoOrder.read = << >>
        BY DEF NoOrder
      <3> QED BY <2>3, <2>14, <3>1, <3>2
    <2>4. ASSUME NEW c \in Cert, RequestCert(h, c) \/ RenewCert(h, c) \/ DeleteCert(h, c)
          PROVE  Accounted
      <3>1. PICK o : order' = [order EXCEPT ![h] = o] /\ o.read = << >>
        <4>1. \A dns : [at |-> "find", cert |-> c, dns |-> dns, read |-> << >>].read = << >>
          OBVIOUS
        <4>2. \A step : [NoOrder EXCEPT !.at = step, !.cert = c].read = << >>
          BY DEF NoOrder
        <4>3. CASE RequestCert(h, c)
          BY <4>1, <4>3 DEF RequestCert
        <4> QED BY <2>4, <4>2, <4>3 DEF RenewCert, DeleteCert
      <3> QED BY <2>3, <2>4, <3>1
          DEF RequestCert, RenewCert, DeleteCert, OrderAt, Holding, tables
    <2>5. CASE TakeDown(h)
      <3>1. PICK found \in SUBSET LiveHosts :
              /\ order' = [order EXCEPT ![h].at = "user",
                              ![h].read = [i \in found |-> Rendered(i, {})]]
              /\ conf' = [i \in Host |-> IF i \in found THEN None ELSE conf[i]]
        BY <2>5 DEF TakeDown
      <3>2. order'[h].at = "user" /\ DOMAIN order'[h].read = found
        BY <2>0, <3>1 DEF OrdersOK, Order
      <3>3. \A k \in Handler \ {h} : order'[k] = order[k]
        BY <3>1 DEF OrdersOK
      <3>4. DOMAIN order[h].read = {}
        BY <2>5 DEF TakeDown, OrderAt, OutageInv, ReadsHeld, Holding
      <3>5. FilesOK'
        BY <3>1 DEF OutageInv, FilesOK
      <3>6. UNCHANGED hosts
        BY <2>5 DEF TakeDown, tables
      <3> QED BY <3>1, <3>2, <3>3, <3>4, <3>5, <3>6
          DEF Accounted, Out, OutageInv, ReadsHeld, LiveHosts, Holding
    <2>6. CASE UserFound(h)
      <3>1. order' = [order EXCEPT ![h] = [order[h] EXCEPT !.at = "ready", !.dns = FALSE]]
        BY <2>6 DEF UserFound, OrdersOK, Order
      <3>2. [order[h] EXCEPT !.at = "ready", !.dns = FALSE].read = order[h].read
            /\ [order[h] EXCEPT !.at = "ready", !.dns = FALSE].at = "ready"
        BY <2>0 DEF Order
      <3> QED BY <2>6, <3>1, <3>2, OrderHeld
          DEF UserFound, Holding, siteVars, tables
    <2>7. CASE UserGone(h) \/ UndoFails(h)
      <3>1. \A k \in Handler \ {h} : order'[k] = order[k]
        BY <2>7 DEF UserGone, UndoFails, HardDelete, CloseOrder, OrdersOK
      <3>2. DOMAIN order'[h].read = {}
        BY <2>7, EmptyRead DEF UserGone, UndoFails, HardDelete, CloseOrder, NoOrder, OrdersOK
      <3>3. UNCHANGED hosts
        BY <2>7 DEF UserGone, UndoFails
      <3>4. FilesOK' /\ \A i \in Host \ DOMAIN order[h].read : conf'[i] = conf[i]
        <4>1. CASE UserGone(h)
          BY <4>1 DEF UserGone, OutageInv, FilesOK
        <4>2. CASE UndoFails(h)
          BY <2>0, <4>2, FilesLost DEF UndoFails, OutageInv, Order
        <4> QED BY <2>7, <4>1, <4>2
      <3>5. \A i \in DOMAIN order[h].read : LosesFile(i)
        BY <2>7 DEF LosesFile
      <3> QED BY <3>1, <3>2, <3>3, <3>4, <3>5 DEF Accounted, Out, OutageInv, ReadsHeld
    <2>7a. CASE ReinstateFails(h)
      <3>1. \A k \in Handler \ {h} : order'[k] = order[k]
        BY <2>7a DEF ReinstateFails, Proceed, OrdersOK
      <3>2. order'[h].at = "undo" /\ order'[h].read = order[h].read
        BY <2>0, <2>7a DEF ReinstateFails, Proceed, OrdersOK, Order
      <3>3. UNCHANGED hosts
        BY <2>7a DEF ReinstateFails, tables
      <3>4. FilesOK' /\ \A i \in Host \ DOMAIN order[h].read : conf'[i] = conf[i]
        BY <2>0, <2>7a, FilesLost DEF ReinstateFails, OutageInv, Order
      <3> QED BY <3>1, <3>2, <3>3, <3>4 DEF Accounted, Out, OutageInv, ReadsHeld, Holding
    <2>8. CASE FirstReload(h) \/ SecondReload(h)
      BY <2>8, <2>1 DEF FirstReload, SecondReload, ReloadThen, Holding, tables
    <2>9. CASE RequestConfFails(h) \/ RunCertbot(h) \/ Issued(h) \/ ChallengeFails(h)
      BY <2>9, <2>1 DEF RequestConfFails, RunCertbot, StartCertbot, Issued, ChallengeFails, Holding,
                        siteVars, tables
    <2>10. CASE Reinstate(h) \/ Undo(h)
      <3>1. BulkGenerateConfigs(order[h].read) /\ UNCHANGED hosts
        BY <2>10 DEF Reinstate, Undo, tables
      <3>2. FilesOK' /\ \A i \in Host : conf'[i] = None =>
                           conf[i] = None /\ i \notin DOMAIN order[h].read
        BY <2>0, <3>1, FilesGenerated DEF Order, OutageInv
      <3>3. \A k \in Handler \ {h} : order'[k] = order[k]
        BY <2>10 DEF Reinstate, Undo, OrdersOK
      <3>4. order'[h].read = << >>
        BY <2>0, <2>10 DEF Reinstate, Undo, OrdersOK, Order
      <3> QED BY <3>1, <3>2, <3>3, <3>4, EmptyRead DEF Accounted, Out, OutageInv, ReadsHeld
    <2>11. CASE Record(h) \/ LastReload(h)
      <3>1. CloseOrder(h)
        BY <2>11 DEF Record, LastReload, HardDelete
      <3> QED BY <2>11, <2>14, <3>1 DEF Record, LastReload, OrderAt, Holding
    <2>12. CASE RunRenewal(h) \/ RunRevocation(h)
      <3>1. PICK step : Proceed(h, step) \/ CloseOrder(h)
        BY <2>12 DEF RunRenewal, RunRevocation, StartCertbot
      <3>2. UNCHANGED <<hosts, conf>> /\ order[h].at \notin Holding
        BY <2>12 DEF RunRenewal, RunRevocation, StartCertbot, OrderAt, Holding, siteVars,
                     tables
      <3> QED BY <2>2, <2>14, <3>1, <3>2
    <2>13. CASE EndRenewal(h) \/ EndRevocation(h)
      BY <2>13, <2>14 DEF EndRenewal, EndRevocation, OrderAt, Holding, siteVars, tables
    <2> QED BY <1>2, <2>4, <2>5, <2>6, <2>7, <2>7a, <2>8, <2>9, <2>10, <2>11, <2>12, <2>13
        DEF CertStep
  <1>3. ASSUME NEW h \in Handler, ListStep(h), UNCHANGED certVars PROVE Accounted
    <2>1. UNCHANGED order
      BY <1>3 DEF certVars
    <2>2. ASSUME UNCHANGED hosts, edit[h].at # "idle", BulkGenerateConfigs(edit[h].read)
          PROVE  Accounted
      <3>1. edit[h].read \in Reading
        BY <2>2 DEF EditsOK, Edit, NoEdit
      <3> QED BY <2>1, <2>2, <3>1, FilesGenerated, OutageKept DEF OutageInv
    <2>3. CASE RenderHosts(h) \/ StripHosts(h)
      BY <2>2, <2>3 DEF RenderHosts, StripHosts, EditAt, tables
    <2>3a. CASE RenderFails(h) \/ StripFails(h)
      <3>1. /\ UNCHANGED hosts /\ edit[h].at # "idle"
            /\ GenerateFails(edit[h].read)
        BY <2>3a DEF RenderFails, StripFails, EditAt, tables
      <3>2. edit[h].read \in Reading
        BY <3>1 DEF EditsOK, Edit, NoEdit
      <3>3. FilesOK' /\ \A i \in Host \ DOMAIN edit[h].read : conf'[i] = conf[i]
        BY <3>1, <3>2, FilesLost DEF OutageInv
      <3>4. \A i \in DOMAIN edit[h].read : LosesFile(i)
        BY <2>3a DEF LosesFile
      <3> QED BY <2>1, <3>1, <3>3, <3>4 DEF Accounted, Out, OutageInv, ReadsHeld
    <2>4. CASE UNCHANGED <<hosts, conf>>
      BY <2>1, <2>4, OutageKept DEF OutageInv, FilesOK
    <2>5. CASE ReleaseHosts(h)
      <3>1. \A i \in Host : hosts'[i].live = hosts[i].live
                            /\ hosts'[i].online = hosts[i].online
        BY <2>5 DEF ReleaseHosts, TablesOK, HostRow
      <3> QED BY <2>1, <2>5, <3>1, OutageKept DEF ReleaseHosts, OutageInv, FilesOK
    <2> QED BY <1>3, <2>3, <2>3a, <2>4, <2>5
        DEF ListStep, CreateList, UpdateList, DeleteList, DeleteItems, InsertItems,
            Refetch, AppendItem, ReloadUpdated, MarkDeleted, ReloadDeleted, Unlink,
            siteVars, tables,
            BuildFails, Drained
  <1>4. ASSUME NEW h \in Handler, PageStep(h), UNCHANGED certVars PROVE Accounted
    <2>1. UNCHANGED order
      BY <1>4 DEF certVars
    <2>2. CASE UNCHANGED <<hosts, conf>>
      BY <2>1, <2>2, OutageKept DEF OutageInv, FilesOK
    <2>3. CASE MarkHostDeleted(h)
      <3>1. \A i \in Host : hosts'[i].live => hosts[i].live /\ hosts'[i].online = hosts[i].online
        BY <2>3 DEF MarkHostDeleted, TablesOK, HostRow
      <3> QED BY <2>1, <2>3, <3>1, OutageKept DEF MarkHostDeleted, OutageInv, FilesOK
    <2>4. CASE DeleteFiles(h) \/ DeleteFilesFails(h)
      <3>1. ~hosts[sync[h].host].live
        BY <2>4 DEF DeleteFiles, DeleteFilesFails, SyncAt, SyncsOK, Gone
      <3>2. conf' = [conf EXCEPT ![sync[h].host] = None] /\ UNCHANGED hosts
        BY <2>4 DEF DeleteFiles, DeleteFilesFails, tables
      <3>3. FilesOK'
        BY <3>2 DEF OutageInv, FilesOK
      <3>4. \A i \in Host : hosts[i].live => conf'[i] = conf[i]
        BY <3>1, <3>2 DEF OutageInv, FilesOK
      <3> QED BY <2>1, <3>2, <3>3, <3>4, OutageKept
    <2> QED BY <1>4, <2>2, <2>3, <2>4
        DEF PageStep, SyncPasswords, DeleteHost, BeginSync, LoadRows, WriteRow,
            QueryForFiles, BuildHtpasswd, QueryForPage, Query, RenderPage, ReloadPages,
            DeleteRows, siteVars, tables,
            BuildHtpasswdFails, RenderPageFails
  <1> QED BY <1>1, <1>2, <1>3, <1>4 DEF SitesNext, Saves

LEMMA OutageInvariant == SitesSpec => [](SyncsOK /\ OutageInv)
PROOF
  <1> DEFINE Inv == SyncsOK /\ OutageInv
  <1>1. SitesInit => Inv
    <2> SUFFICES ASSUME SitesInit PROVE Inv
      OBVIOUS
    <2>1. SyncsOK
      BY EmptySync DEF SitesInit, SiteInit, PageInit, SyncsOK, NoSync, Gone
    <2>2. TablesOK
      BY DEF SitesInit, SiteInit, TablesOK, ListRow
    <2>3. conf \in [Host -> Conf]
      BY <2>2, HostRendered DEF SitesInit, SiteInit
    <2>4. ReadsHeld
      BY EmptyRead DEF SitesInit, CertInit, NoOrder, ReadsHeld
    <2> QED BY <2>1, <2>3, <2>4 DEF OutageInv, FilesOK
  <1>2. Types /\ Inv /\ [SitesNext]_sitesVars => Inv'
    <2>1. UNCHANGED sitesVars /\ Inv => Inv'
      BY DEF sitesVars, siteVars, tables, certVars, pageVars, SyncsOK, OutageInv,
             FilesOK, ReadsHeld
    <2> QED BY <2>1, SyncsStep, OutageStep DEF Types, Accounted
  <1> QED BY <1>1, <1>2, TypesInvariant, PTL DEF SitesSpec

(* However certificate requests overlap and end, none leaves a host out:   *)
(* one without a file, that nginx has not refused, is one that a request   *)
(* has taken down and will put back.  The exceptions are an owner who is   *)
(* gone and a write that fails and that nothing makes up for.              *)
THEOREM OutagesAreOwned == SitesSpec => OutageHasOwner
PROOF
  <1>1. Types /\ SyncsOK /\ OutageInv /\ [SitesNext]_sitesVars
           => [\A i \in Host : Out(i)' => Out(i) \/ LosesFile(i)]_sitesVars
    BY OutageStep DEF Types, Accounted
  <1> QED BY <1>1, OutageInvariant, TypesInvariant, PTL DEF SitesSpec, OutageHasOwner

-----------------------------------------------------------------------------
(* The htpasswd file of a list.                                            *)

UsersFilesOK ==
    /\ htpasswd \in [List -> (SUBSET Item) \cup {None}]
    /\ settled \subseteq List

Follows(l) == htpasswd[l] = IF lists[l].state = "live" THEN lists[l].items ELSE None

(* How far a request has come that meets no other for its list: what it    *)
(* has written and what it has still to write are the list's items.        *)
EditProgress(h) ==
    /\ edit[h].at = "build" =>
          /\ lists[edit[h].list].state = "live" /\ htpasswd[edit[h].list] \subseteq Item
          /\ htpasswd[edit[h].list] \cup edit[h].items = lists[edit[h].list].items
    /\ edit[h].at = "reload" =>
          /\ lists[edit[h].list].state = "live"
          /\ htpasswd[edit[h].list] = lists[edit[h].list].items
    /\ edit[h].at \in {"release", "strip", "stop", "unlink"} =>
          lists[edit[h].list].state = "deleted"

(* Requests for one list know of each other, and nothing is claimed of a   *)
(* list that has one in flight.                                            *)
EditsMet ==
    \A g, h \in Handler :
        edit[g].at # "idle" /\ edit[h].at # "idle" /\ g # h /\ edit[g].list = edit[h].list
            => ~edit[h].alone

SettledIdle == \A l \in settled : Editing(l) = {}

ListInv ==
    /\ UsersFilesOK /\ EditsMet /\ SettledIdle
    /\ \A h \in Handler : edit[h].at # "idle" /\ edit[h].alone => EditProgress(h)
    /\ \A l \in settled : Follows(l)

LEMMA ListMoved ==
  ASSUME EditsOK, ListInv, UsersFilesOK', NEW h \in Handler, edit[h].at # "idle",
         NEW m \in List, m = edit[h].list,
         NEW o, edit' = [edit EXCEPT ![h] = o],
         o = NoEdit \/ (o.list = m /\ o.alone = edit[h].alone),
         \A l \in List \ {m} : htpasswd'[l] = htpasswd[l] /\ lists'[l] = lists[l],
         \/ settled' = settled
         \/ o = NoEdit /\ edit[h].alone /\ settled' = settled \cup {m} /\ Follows(m)',
         o # NoEdit /\ edit[h].alone => EditProgress(h)'
  PROVE  ListInv'
PROOF
  <1>1. \A k \in Handler \ {h} : edit'[k] = edit[k]
    BY DEF EditsOK
  <1>2. edit'[h] = o /\ NoEdit.at = "idle"
    BY DEF EditsOK, NoEdit
  <1>3. \A k \in Handler : edit[k].at # "idle" => edit[k].list \in List
    BY DEF EditsOK, Edit, NoEdit
  <1>4. EditsMet'
    BY <1>1, <1>2 DEF ListInv, EditsMet
  <1>5. \A l \in settled : l \in List /\ l # edit[h].list
    BY DEF ListInv, UsersFilesOK, SettledIdle, Editing
  <1>6. ASSUME NEW l \in settled' PROVE Editing(l)' = {} /\ Follows(l)'
    <2>1. CASE l \in settled
      <3>1. Editing(l) = {} /\ Follows(l) /\ l \in List /\ l # edit[h].list
        BY <1>5, <2>1 DEF ListInv, SettledIdle
      <3>2. Editing(l)' = {}
        BY <1>1, <1>2, <3>1 DEF Editing
      <3> QED BY <3>1, <3>2 DEF Follows
    <2>2. CASE l \notin settled
      <3>1. o = NoEdit /\ edit[h].alone /\ l = edit[h].list /\ Follows(l)'
        BY <1>6, <2>2
      <3>2. ASSUME NEW k \in Editing(l)' PROVE FALSE
        <4>1. k \in Handler /\ edit'[k].at # "idle" /\ edit'[k].list = l
          BY <3>2 DEF Editing
        <4>2. k # h
          BY <1>2, <3>1, <4>1
        <4> QED BY <1>1, <3>1, <4>1, <4>2 DEF ListInv, EditsMet
      <3> QED BY <3>1, <3>2
    <2> QED BY <2>1, <2>2
  <1>7. ASSUME NEW k \in Handler, edit'[k].at # "idle", edit'[k].alone
        PROVE  EditProgress(k)'
    <2>1. CASE k = h
      BY <1>2, <1>7, <2>1
    <2>2. CASE k # h
      <3>1. edit'[k] = edit[k] /\ edit[k].list \in List
        BY <1>1, <1>3, <1>7, <2>2
      <3>2. edit[k].list # edit[h].list
        BY <1>7, <2>2, <3>1 DEF ListInv, EditsMet
      <3>3. EditProgress(k)
        BY <1>7, <3>1 DEF ListInv
      <3> QED BY <3>1, <3>2, <3>3 DEF EditProgress
    <2> QED BY <2>1, <2>2
  <1> QED BY <1>4, <1>6, <1>7 DEF ListInv, SettledIdle

(* A request begins: the others for its list are not alone any more.       *)
LEMMA ListBegun ==
  ASSUME EditsOK, ListInv, NEW h \in Handler, NEW op, NEW l \in List,
         NEW step \in {"insert", "rewrite", "mark"}, NEW read,
         BeginEdit(h, op, l, step, read), UNCHANGED htpasswd,
         \A k \in List \ {l} : lists'[k] = lists[k]
  PROVE  ListInv'
PROOF
  <1> DEFINE new == [at |-> step, op |-> op, list |-> l, items |-> {}, read |-> read,
                     alone |-> Editing(l) = {}]
  <1>1. edit'[h] = new /\ h \notin Editing(l)
    <2>1. h \notin Editing(l)
      BY DEF BeginEdit, EditAt, Editing
    <2>2. edit'[h] = CASE h = h -> new
                      [] h \in Editing(l) -> [edit[h] EXCEPT !.alone = FALSE]
                      [] OTHER -> edit[h]
      BY DEF BeginEdit
    <2> HIDE DEF new
    <2> QED BY <2>1, <2>2
  <1>2. /\ new.at = step /\ new.list = l
        /\ new.alone => Editing(l) = {}
    OBVIOUS
  <1>3. ASSUME NEW k \in Handler \ {h}
        PROVE  /\ edit'[k].at = edit[k].at /\ edit'[k].list = edit[k].list
               /\ edit'[k].alone => edit'[k] = edit[k]
               /\ k \in Editing(l) => ~edit'[k].alone
    <2>1. edit'[k] = IF k \in Editing(l) THEN [edit[k] EXCEPT !.alone = FALSE] ELSE edit[k]
      BY DEF BeginEdit
    <2>2. CASE k \in Editing(l)
      <3>1. edit[k] \in Edit
        BY <2>2 DEF EditsOK, Editing, NoEdit
      <3>2. edit'[k] = [edit[k] EXCEPT !.alone = FALSE]
        BY <2>1, <2>2
      <3> QED BY <3>1, <3>2 DEF Edit
    <2>3. CASE k \notin Editing(l)
      BY <2>1, <2>3
    <2> QED BY <2>2, <2>3
  <1> HIDE DEF new
  <1>4. EditsMet'
    <2> SUFFICES ASSUME NEW g \in Handler, NEW k \in Handler, edit'[g].at # "idle",
                        edit'[k].at # "idle", g # k, edit'[g].list = edit'[k].list,
                        edit'[k].alone
                 PROVE  FALSE
      BY DEF EditsMet
    <2>1. CASE k = h
      BY <1>1, <1>2, <1>3, <2>1 DEF Editing
    <2>2. CASE k # h /\ g = h
      BY <1>1, <1>2, <1>3, <2>2 DEF Editing
    <2>3. CASE k # h /\ g # h
      BY <1>3, <2>3 DEF ListInv, EditsMet
    <2> QED BY <2>1, <2>2, <2>3
  <1>5. settled' = settled \ {l}
    BY DEF BeginEdit
  <1>6. ASSUME NEW k \in settled' PROVE Editing(k)' = {} /\ Follows(k)'
    <2>1. k \in settled /\ k \in List /\ k # l
      BY <1>5 DEF ListInv, UsersFilesOK
    <2>2. Editing(k) = {} /\ Follows(k)
      BY <2>1 DEF ListInv, SettledIdle
    <2>3. Editing(k)' = {}
      BY <1>1, <1>2, <1>3, <2>1, <2>2 DEF Editing
    <2> QED BY <2>1, <2>2, <2>3 DEF Follows
  <1>7. ASSUME NEW k \in Handler, edit'[k].at # "idle", edit'[k].alone
        PROVE  EditProgress(k)'
    <2>1. CASE k = h
      BY <1>1, <1>2, <2>1 DEF EditProgress
    <2>2. CASE k # h
      <3>1. edit'[k] = edit[k] /\ k \notin Editing(l)
        BY <1>3, <1>7, <2>2
      <3>2. edit[k].list \in List \ {l}
        BY <1>7, <3>1 DEF EditsOK, Edit, NoEdit, Editing
      <3>3. EditProgress(k)
        BY <1>7, <3>1 DEF ListInv
      <3> QED BY <3>1, <3>2, <3>3 DEF EditProgress
    <2> QED BY <2>1, <2>2
  <1>8. UsersFilesOK'
    BY <1>5 DEF ListInv, UsersFilesOK
  <1> QED BY <1>4, <1>6, <1>7, <1>8 DEF ListInv, SettledIdle

LEMMA ListInvStep ==
  ASSUME TablesOK, EditsOK, ListInv, NEW h \in Handler, ListStep(h)
  PROVE  ListInv'
PROOF
  <1>1. ASSUME NEW l \in List, CreateList(h, l) \/ UpdateList(h, l) \/ DeleteList(h, l)
        PROVE  ListInv'
    <2>1. CASE CreateList(h, l)
      <3>1. BeginEdit(h, "create", l, "insert", << >>) /\ UNCHANGED htpasswd
            /\ lists' = [lists EXCEPT ![l] = [state |-> "live", items |-> {}]]
        BY <2>1 DEF CreateList
      <3>2. \A k \in List \ {l} : lists'[k] = lists[k]
        BY <3>1 DEF TablesOK
      <3> QED BY <3>1, <3>2, ListBegun
    <2>2. CASE UpdateList(h, l)
      BY <2>2, ListBegun DEF UpdateList, tables
    <2>3. CASE DeleteList(h, l)
      BY <2>3, ListBegun DEF DeleteList, tables
    <2> QED BY <1>1, <2>1, <2>2, <2>3
  <1> SUFFICES ASSUME edit[h].at # "idle",
                      ~ \E l \in List : CreateList(h, l) \/ UpdateList(h, l) \/ DeleteList(h, l)
               PROVE  ListInv'
    BY <1>1 DEF ListStep, DeleteItems, InsertItems, Refetch, AppendItem, RenderHosts,
        ReloadUpdated, MarkDeleted, ReleaseHosts, StripHosts, ReloadDeleted, Unlink, EditAt,
        BuildFails, Drained, RenderFails, StripFails
  <1>2a. edit[h] \in Edit
    BY DEF EditsOK, NoEdit
  <1>2b. PICK l \in List : l = edit[h].list
    BY <1>2a DEF Edit
  <1> USE <1>2b
  <1>2. edit[h] \in Edit /\ l \in List /\ lists[l] \in ListRow
    BY <1>2a DEF TablesOK
  <1>3. edit[h].alone => EditProgress(h)
    BY DEF ListInv
  <1>4. ASSUME NEW step \in EditStep \ {"idle"}, EditOn(h, step) \/ Written(h, step),
               UsersFilesOK',
               \A k \in List \ {l} : htpasswd'[k] = htpasswd[k] /\ lists'[k] = lists[k],
               edit[h].alone /\ edit'[h].at = step /\ edit'[h].list = l => EditProgress(h)'
        PROVE  ListInv'
    <2> DEFINE o == edit'[h]
    <2>1. \/ edit' = [edit EXCEPT ![h] = [edit[h] EXCEPT !.at = step]]
          \/ edit' = [edit EXCEPT ![h] = [edit[h] EXCEPT !.at = step, !.read = << >>]]
      BY <1>2, <1>4 DEF EditOn, Written, EditsOK, Edit
    <2>2. o.at = step /\ o.list = l /\ o.alone = edit[h].alone
      <3>1. /\ [edit[h] EXCEPT !.at = step].at = step
            /\ [edit[h] EXCEPT !.at = step].list = l
            /\ [edit[h] EXCEPT !.at = step].alone = edit[h].alone
        BY <1>2 DEF Edit
      <3>2. /\ [edit[h] EXCEPT !.at = step, !.read = << >>].at = step
            /\ [edit[h] EXCEPT !.at = step, !.read = << >>].list = l
            /\ [edit[h] EXCEPT !.at = step, !.read = << >>].alone = edit[h].alone
        BY <1>2 DEF Edit
      <3>3. \/ o = [edit[h] EXCEPT !.at = step]
            \/ o = [edit[h] EXCEPT !.at = step, !.read = << >>]
        BY <2>1 DEF EditsOK
      <3> HIDE DEF o
      <3> QED BY <3>1, <3>2, <3>3
    <2>3. edit' = [edit EXCEPT ![h] = o] /\ settled' = settled
      BY <1>4, <2>1 DEF EditOn, Written, EditsOK
    <2>4. edit'[h] = o
      OBVIOUS
    <2> HIDE DEF o
    <2> QED BY <1>4, <2>2, <2>3, <2>4, ListMoved
  <1>5. ASSUME EndEdit(h), UNCHANGED lists, htpasswd' \in [List -> (SUBSET Item) \cup {None}],
               \A k \in List \ {l} : htpasswd'[k] = htpasswd[k]
        PROVE  ListInv'
    <2>1. edit' = [edit EXCEPT ![h] = NoEdit] /\ settled' = settled
      BY <1>5 DEF EndEdit
    <2>2. UsersFilesOK'
      BY <1>5, <2>1 DEF ListInv, UsersFilesOK
    <2> QED BY <1>5, <2>1, <2>2, ListMoved
  <1>5a. htpasswd \in [List -> (SUBSET Item) \cup {None}]
    BY DEF ListInv, UsersFilesOK
  <1>6. ASSUME AnswerEdit(h), htpasswd' \in [List -> (SUBSET Item) \cup {None}],
               \A k \in List \ {l} : htpasswd'[k] = htpasswd[k] /\ lists'[k] = lists[k],
               edit[h].alone => Follows(l)'
        PROVE  ListInv'
    <2>1. /\ edit' = [edit EXCEPT ![h] = NoEdit]
          /\ settled' = IF edit[h].alone THEN settled \cup {l} ELSE settled
      BY <1>6 DEF AnswerEdit
    <2>2. UsersFilesOK'
      BY <1>2, <1>6, <2>1 DEF ListInv, UsersFilesOK
    <2>3. CASE edit[h].alone
      BY <1>6, <2>1, <2>2, <2>3, ListMoved
    <2>4. CASE ~edit[h].alone
      BY <1>6, <2>1, <2>2, <2>4, ListMoved
    <2> QED BY <2>3, <2>4
  <1>7. UNCHANGED <<htpasswd, settled>> => UsersFilesOK'
    BY DEF ListInv, UsersFilesOK
  <1>8. CASE DeleteItems(h) \/ InsertItems(h)
    <2>1. PICK items : lists' = [lists EXCEPT ![l].items = items]
      BY <1>8 DEF DeleteItems, InsertItems
    <2>2. \A k \in List \ {l} : lists'[k] = lists[k]
      BY <2>1 DEF TablesOK
    <2>3. \E step \in {"insert", "refetch"} : EditOn(h, step)
      BY <1>8 DEF DeleteItems, InsertItems
    <2>4. UNCHANGED <<htpasswd, settled>>
      BY <1>8 DEF DeleteItems, InsertItems, EditOn
    <2> QED BY <1>4, <1>7, <2>2, <2>3, <2>4 DEF EditProgress, EditStep
  <1>9. CASE Refetch(h)
    <2>1. CASE lists[l].state # "live"
      BY <1>5, <1>5a, <1>9, <2>1 DEF Refetch, siteVars, tables
    <2>2. CASE lists[l].state = "live"
      <3>1. PICK read :
              edit' = [edit EXCEPT ![h].at = "build", ![h].items = lists[l].items,
                                   ![h].read = read]
        BY <1>9, <2>2 DEF Refetch
      <3>2. htpasswd' = [htpasswd EXCEPT ![l] = {}] /\ UNCHANGED <<lists, settled>>
        BY <1>9, <2>2 DEF Refetch, siteVars, tables
      <3> DEFINE o == [edit[h] EXCEPT !.at = "build", !.items = lists[l].items, !.read = read]
      <3>3. /\ o.at = "build" /\ o.list = l /\ o.alone = edit[h].alone
            /\ o.items = lists[l].items
        BY <1>2 DEF Edit
      <3>4. edit' = [edit EXCEPT ![h] = o] /\ edit'[h] = o
        BY <3>1 DEF EditsOK
      <3>5. /\ htpasswd'[l] = {} /\ \A k \in List \ {l} : htpasswd'[k] = htpasswd[k]
            /\ htpasswd' \in [List -> (SUBSET Item) \cup {None}]
        BY <1>2, <3>2 DEF ListInv, UsersFilesOK
      <3>6. UsersFilesOK'
        BY <3>2, <3>5 DEF ListInv, UsersFilesOK
      <3> HIDE DEF o
      <3>7. EditProgress(h)'
        BY <2>2, <3>2, <3>3, <3>4, <3>5 DEF EditProgress
      <3> QED BY <3>2, <3>3, <3>4, <3>5, <3>6, <3>7, ListMoved
    <2> QED BY <2>1, <2>2
  <1>10. CASE AppendItem(h)
    <2>0. /\ UNCHANGED <<lists, settled>> /\ edit[h].at \in {"build", "drain"}
          /\ \E u \in edit[h].items :
                \/ /\ htpasswd' = [htpasswd EXCEPT ![l] = {u} \cup (IF @ = None THEN {} ELSE @)]
                   /\ edit' = [edit EXCEPT ![h].items = @ \ {u}]
                \/ /\ edit' = [edit EXCEPT ![h].at = "drain", ![h].items = @ \ {u},
                                            ![h].read = << >>]
                   /\ UNCHANGED htpasswd
      BY <1>10 DEF AppendItem, siteVars, tables
    <2>1. CASE \E u \in edit[h].items :
                  /\ edit' = [edit EXCEPT ![h].at = "drain", ![h].items = @ \ {u},
                                          ![h].read = << >>]
                  /\ UNCHANGED htpasswd
      <3>1. PICK u \in edit[h].items :
              edit' = [edit EXCEPT ![h].at = "drain", ![h].items = @ \ {u}, ![h].read = << >>]
        BY <2>1
      <3> DEFINE o == [edit[h] EXCEPT !.at = "drain", !.items = @ \ {u}, !.read = << >>]
      <3>2. o.at = "drain" /\ o.list = l /\ o.alone = edit[h].alone
        BY <1>2 DEF Edit
      <3>3. edit' = [edit EXCEPT ![h] = o] /\ edit'[h] = o
        BY <1>2, <3>1 DEF EditsOK, Edit
      <3> HIDE DEF o
      <3>4. EditProgress(h)'
        BY <3>2, <3>3 DEF EditProgress
      <3> QED BY <1>7, <2>0, <2>1, <3>2, <3>3, <3>4, ListMoved
    <2>2. CASE \E u \in edit[h].items :
                  /\ htpasswd' = [htpasswd EXCEPT ![l] = {u} \cup (IF @ = None THEN {} ELSE @)]
                  /\ edit' = [edit EXCEPT ![h].items = @ \ {u}]
      <3>1. PICK u \in edit[h].items :
              /\ htpasswd' = [htpasswd EXCEPT ![l] = {u} \cup (IF @ = None THEN {} ELSE @)]
              /\ edit' = [edit EXCEPT ![h].items = @ \ {u}]
        BY <2>2
      <3>2. UNCHANGED lists /\ edit[h].at \in {"build", "drain"} /\ UNCHANGED settled
        BY <2>0
      <3>3. u \in Item
        BY <1>2 DEF Edit
      <3> DEFINE o == [edit[h] EXCEPT !.items = @ \ {u}]
                 was == IF htpasswd[l] = None THEN {} ELSE htpasswd[l]
      <3>4. /\ o.at = edit[h].at /\ o.list = l /\ o.alone = edit[h].alone
            /\ o.items = edit[h].items \ {u}
        BY <1>2, <3>2 DEF Edit
      <3>5. edit' = [edit EXCEPT ![h] = o] /\ edit'[h] = o
        BY <3>1 DEF EditsOK
      <3>6. was \subseteq Item
        BY <1>2 DEF ListInv, UsersFilesOK
      <3>7. htpasswd' = [htpasswd EXCEPT ![l] = {u} \cup was]
        BY <1>2, <3>1 DEF ListInv, UsersFilesOK
      <3>8. edit[h].alone /\ edit[h].at = "build" => was = htpasswd[l]
        BY <1>3, <3>2, SitesAssumption DEF EditProgress
      <3> HIDE DEF o, was
      <3>9. /\ htpasswd'[l] = {u} \cup was
            /\ \A k \in List \ {l} : htpasswd'[k] = htpasswd[k]
            /\ htpasswd' \in [List -> (SUBSET Item) \cup {None}]
        BY <1>2, <3>3, <3>6, <3>7 DEF ListInv, UsersFilesOK
      <3>10. UsersFilesOK'
        BY <3>2, <3>9 DEF ListInv, UsersFilesOK
      <3>11. edit[h].alone => EditProgress(h)'
        <4>0. CASE edit[h].at = "drain"
          BY <3>4, <3>5, <4>0 DEF EditProgress
        <4> SUFFICES ASSUME edit[h].alone, edit[h].at = "build" PROVE EditProgress(h)'
          BY <3>2, <4>0
        <4>1. /\ lists[l].state = "live" /\ htpasswd[l] \subseteq Item
              /\ htpasswd[l] \cup edit[h].items = lists[l].items
          BY <1>3, <3>2 DEF EditProgress
        <4>2. htpasswd'[l] = {u} \cup htpasswd[l]
          BY <3>8, <3>9
        <4>3. htpasswd'[l] \cup o.items = lists[l].items /\ htpasswd'[l] \subseteq Item
          BY <3>1, <3>3, <3>4, <4>1, <4>2
        <4> QED BY <3>2, <3>4, <3>5, <4>1, <4>3 DEF EditProgress
      <3>12. /\ o = NoEdit \/ (o.list = l /\ o.alone = edit[h].alone)
             /\ \A k \in List \ {l} : htpasswd'[k] = htpasswd[k] /\ lists'[k] = lists[k]
             /\ o # NoEdit /\ edit[h].alone => EditProgress(h)'
             /\ settled' = settled
        BY <3>1, <3>2, <3>4, <3>9, <3>11
      <3> QED BY <3>5, <3>10, <3>12, ListMoved
    <2> QED BY <2>0, <2>1, <2>2
  <1>11. CASE RenderHosts(h)
    <2>1. /\ edit[h].at = "build" /\ edit[h].items = {} /\ UNCHANGED <<lists, htpasswd>>
          /\ AnswerEdit(h) \/ Written(h, "reload")
      BY <1>11 DEF RenderHosts, EditAt, tables
    <2>2. edit[h].alone => /\ lists[l].state = "live" /\ htpasswd[l] = lists[l].items
      BY <1>3, <2>1 DEF EditProgress
    <2>3. htpasswd' \in [List -> (SUBSET Item) \cup {None}]
      BY <2>1 DEF ListInv, UsersFilesOK
    <2>4. Written(h, "reload") => UNCHANGED settled
      BY DEF Written
    <2> QED BY <1>4, <1>6, <1>7, <2>1, <2>2, <2>3, <2>4 DEF EditProgress, Follows, EditStep
  <1>12. CASE ReloadUpdated(h)
    <2>1. /\ edit[h].at = "reload" /\ UNCHANGED <<lists, htpasswd>>
          /\ AnswerEdit(h) \/ EndEdit(h)
      BY <1>12 DEF ReloadUpdated, EditAt, tables
    <2>2. edit[h].alone => Follows(l)
      BY <1>3, <2>1 DEF EditProgress, Follows
    <2>3. htpasswd' \in [List -> (SUBSET Item) \cup {None}]
      BY <2>1 DEF ListInv, UsersFilesOK
    <2> QED BY <1>5, <1>5a, <1>6, <2>1, <2>2, <2>3 DEF Follows
  <1>13. CASE MarkDeleted(h)
    <2>1. /\ lists' = [lists EXCEPT ![l].state = "deleted"]
          /\ EditOn(h, "release") /\ UNCHANGED <<htpasswd, settled>>
      BY <1>13 DEF MarkDeleted, EditOn
    <2>2. /\ \A k \in List \ {l} : lists'[k] = lists[k]
          /\ lists'[l].state = "deleted"
      BY <1>2, <2>1 DEF TablesOK, ListRow
    <2> QED BY <1>4, <1>7, <2>1, <2>2 DEF EditProgress, EditStep
  <1>14. CASE ReleaseHosts(h) \/ StripHosts(h) \/ ReloadDeleted(h)
    <2>1. /\ edit[h].at \in {"release", "strip", "stop"} /\ UNCHANGED <<lists, htpasswd>>
          /\ \/ EndEdit(h)
             \/ \E step \in {"strip", "stop", "unlink"} : EditOn(h, step) \/ Written(h, step)
      BY <1>14 DEF ReleaseHosts, StripHosts, ReloadDeleted, EditAt, tables
    <2>2. edit[h].alone => lists[l].state = "deleted"
      BY <1>3, <2>1 DEF EditProgress
    <2>3. \A step : EditOn(h, step) \/ Written(h, step) => UNCHANGED settled
      BY DEF EditOn, Written
    <2> QED BY <1>4, <1>5, <1>5a, <1>7, <2>1, <2>2, <2>3 DEF EditProgress, EditStep
  <1>15. CASE Unlink(h)
    <2>1. edit[h].at = "unlink" /\ UNCHANGED lists
      BY <1>15 DEF Unlink, EditAt, siteVars, tables
    <2>2. edit[h].alone => lists[l].state = "deleted"
      BY <1>3, <2>1 DEF EditProgress
    <2>3. CASE htpasswd' = [htpasswd EXCEPT ![l] = None] /\ AnswerEdit(h)
      <3>1. /\ htpasswd'[l] = None /\ \A k \in List \ {l} : htpasswd'[k] = htpasswd[k]
            /\ htpasswd' \in [List -> (SUBSET Item) \cup {None}]
        BY <1>2, <1>5a, <2>3
      <3> QED BY <1>6, <2>1, <2>2, <2>3, <3>1 DEF Follows
    <2>4. CASE EndEdit(h) /\ UNCHANGED htpasswd
      BY <1>5, <1>5a, <2>1, <2>4
    <2> QED BY <1>15, <2>3, <2>4 DEF Unlink
  <1>16. CASE BuildFails(h)
    <2>1. htpasswd' = [htpasswd EXCEPT ![l] = None] /\ EndEdit(h) /\ UNCHANGED lists
      BY <1>16 DEF BuildFails, siteVars, tables
    <2>2. /\ \A k \in List \ {l} : htpasswd'[k] = htpasswd[k]
          /\ htpasswd' \in [List -> (SUBSET Item) \cup {None}]
      BY <1>2, <1>5a, <2>1
    <2> QED BY <1>5, <2>1, <2>2
  <1>17. CASE Drained(h) \/ RenderFails(h) \/ StripFails(h)
    BY <1>5, <1>5a, <1>17 DEF Drained, RenderFails, StripFails, siteVars, tables
  <1> QED BY <1>8, <1>9, <1>10, <1>11, <1>12, <1>13, <1>14, <1>15, <1>16, <1>17 DEF ListStep

(* Certificates and page passwords leave lists, and their files, alone.    *)
LEMMA ListsAlone ==
  ASSUME NEW h \in Handler, CertStep(h) \/ PageStep(h)
  PROVE  UNCHANGED lists
PROOF
  <1>1. CASE CertStep(h)
    BY <1>1 DEF CertStep, RequestCert, RenewCert, DeleteCert, TakeDown, UserFound,
                UserGone, FirstReload, SecondReload, ReloadThen, RunCertbot, StartCertbot,
                Issued, ChallengeFails, Reinstate, Record, Undo, LastReload,
                RunRenewal, EndRenewal, RunRevocation, EndRevocation, siteVars, tables,
                RequestConfFails, ReinstateFails, UndoFails
  <1>2. CASE PageStep(h)
    BY <1>2 DEF PageStep, SyncPasswords, DeleteHost, BeginSync, LoadRows, WriteRow,
        QueryForFiles, BuildHtpasswd, QueryForPage, Query, RenderPage, ReloadPages,
        MarkHostDeleted, DeleteRows, DeleteFiles, siteVars, tables,
        BuildHtpasswdFails, RenderPageFails, DeleteFilesFails
  <1> QED BY <1>1, <1>2

LEMMA ListInvKept ==
  ASSUME ListInv, UNCHANGED <<lists, htpasswd, edit, settled>>
  PROVE  ListInv'
BY DEF ListInv, UsersFilesOK, EditsMet, SettledIdle, Editing, EditProgress, Follows

LEMMA ListInvInitially == SitesInit => ListInv
PROOF
  <1> SUFFICES ASSUME SitesInit PROVE ListInv
    OBVIOUS
  <1>1. /\ htpasswd = [l \in List |-> IF lists[l].state = "live" THEN Item ELSE None]
        /\ settled = List
        /\ \A l \in List : lists[l].state = "live" => lists[l].items = Item
        /\ \A h \in Handler : edit[h].at = "idle"
    BY DEF SitesInit, SiteInit, ListInit, NoEdit
  <1> QED BY <1>1 DEF ListInv, UsersFilesOK, EditsMet, SettledIdle, Editing, Follows

LEMMA ListInvariant == SitesSpec => []ListInv
PROOF
  <1>1. Types /\ ListInv /\ [SitesNext]_sitesVars => ListInv'
    <2> SUFFICES ASSUME Types, ListInv, [SitesNext]_sitesVars PROVE ListInv'
      OBVIOUS
    <2>1. CASE UNCHANGED sitesVars
      BY <2>1, ListInvKept DEF sitesVars, siteVars, tables, listVars
    <2>2. ASSUME NEW i \in Host, Saves(i), UNCHANGED listVars PROVE ListInv'
      BY <2>2, HostSaved, ListInvKept DEF Types, listVars
    <2>3. ASSUME NEW h \in Handler, CertStep(h) \/ PageStep(h), UNCHANGED listVars
          PROVE  ListInv'
      BY <2>3, ListsAlone, ListInvKept DEF listVars
    <2>4. ASSUME NEW h \in Handler, ListStep(h) PROVE ListInv'
      BY <2>4, ListInvStep DEF Types
    <2> QED BY <2>1, <2>2, <2>3, <2>4 DEF SitesNext, Saves
  <1> QED BY <1>1, ListInvInitially, TypesInvariant, PTL DEF SitesSpec

(* The htpasswd file of a list whose last request met no other for the     *)
(* list, and went through, is what the list's rows call for.               *)
THEOREM HtpasswdFollows == SitesSpec => []HtpasswdFollowsItems
PROOF
  <1>1. ListInv => HtpasswdFollowsItems
    BY DEF ListInv, Follows, HtpasswdFollowsItems
  <1> QED BY <1>1, ListInvariant, PTL

-----------------------------------------------------------------------------
(* The files of page passwords.                                            *)

PageFilesOK ==
    /\ pwFile \in [Host -> Secret \cup {None}]
    /\ page \subseteq Host /\ inSync \subseteq Host

Protected(i) == hosts[i].live /\ passwords[i].on
Line(i)      == IF Protected(i) THEN passwords[i].line ELSE None

PageFollows(i) == pwFile[i] = Line(i) /\ (i \in page <=> Protected(i))

(* How far a request has come that meets no other for its host and         *)
(* swallowed no failure: the host is there until it deletes it, and it     *)
(* holds what the row says, or has written it.                             *)
SyncProgress(h) ==
    LET i == sync[h].host
    IN  /\ sync[h].at \in SyncStep \ (Gone \cup {"reload"}) => hosts[i].live
        /\ sync[h].at = "files" => sync[h].row.line = Line(i)
        /\ sync[h].at \in {"page", "render", "reload"} => pwFile[i] = Line(i)
        /\ sync[h].at = "render" => (sync[h].row.on <=> Protected(i))
        /\ sync[h].at = "reload" => (i \in page <=> Protected(i))

(* Requests for one host know of each other, and nothing is claimed of a   *)
(* host that has one in flight.                                            *)
SyncsMet ==
    \A g, h \in Handler :
        sync[g].at # "idle" /\ sync[h].at # "idle" /\ g # h /\ sync[g].host = sync[h].host
            => ~sync[h].clean

InSyncIdle == \A i \in inSync : Syncing(i) = {}

PagesInv ==
    /\ PageFilesOK /\ SyncsMet /\ InSyncIdle
    /\ \A h \in Handler : sync[h].at # "idle" /\ sync[h].clean => SyncProgress(h)
    /\ \A i \in inSync : PageFollows(i)

(* Nothing of a host changes that its page's files depend on.              *)
SiteKept(i) ==
    /\ pwFile'[i] = pwFile[i] /\ passwords'[i] = passwords[i]
    /\ i \in page' <=> i \in page
    /\ hosts'[i].live <=> hosts[i].live

LEMMA FollowsKept ==
  ASSUME NEW i \in Host, SiteKept(i)
  PROVE  /\ Line(i)' = Line(i) /\ (Protected(i)' <=> Protected(i))
         /\ PageFollows(i) => PageFollows(i)'
BY DEF SiteKept, Line, Protected, PageFollows

LEMMA ProgressKept ==
  ASSUME NEW h \in Handler, sync[h].host \in Host, SiteKept(sync[h].host),
         sync'[h] = sync[h], SyncProgress(h)
  PROVE  SyncProgress(h)'
PROOF
  <1> DEFINE i == sync[h].host
  <1>1. Line(i)' = Line(i) /\ (Protected(i)' <=> Protected(i))
    BY FollowsKept
  <1>2. sync'[h].host = i
    OBVIOUS
  <1> QED BY <1>1, <1>2 DEF SiteKept, SyncProgress

LEMMA PagesMoved ==
  ASSUME SyncsOK, PagesInv, PageFilesOK', NEW h \in Handler, sync[h].at # "idle",
         NEW m \in Host, m = sync[h].host,
         NEW o, sync' = [sync EXCEPT ![h] = o],
         o = NoSync \/ (o.host = m /\ o.clean = sync[h].clean),
         \A i \in Host \ {m} : SiteKept(i),
         \/ inSync' = inSync
         \/ o = NoSync /\ sync[h].clean /\ inSync' = inSync \cup {m} /\ PageFollows(m)',
         o # NoSync /\ sync[h].clean => SyncProgress(h)'
  PROVE  PagesInv'
PROOF
  <1>1. \A k \in Handler \ {h} : sync'[k] = sync[k]
    BY DEF SyncsOK
  <1>2. sync'[h] = o /\ NoSync.at = "idle"
    BY DEF SyncsOK, NoSync
  <1>3. \A k \in Handler : sync[k].at # "idle" => sync[k].host \in Host
    BY DEF SyncsOK, SyncOf, NoSync
  <1>4. SyncsMet'
    BY <1>1, <1>2 DEF PagesInv, SyncsMet
  <1>5. \A i \in inSync : i \in Host /\ i # m
    BY DEF PagesInv, PageFilesOK, InSyncIdle, Syncing
  <1>6. ASSUME NEW i \in inSync' PROVE Syncing(i)' = {} /\ PageFollows(i)'
    <2>1. CASE i \in inSync
      <3>1. Syncing(i) = {} /\ PageFollows(i) /\ i \in Host /\ i # m
        BY <1>5, <2>1 DEF PagesInv, InSyncIdle
      <3>2. Syncing(i)' = {}
        BY <1>1, <1>2, <3>1 DEF Syncing
      <3> QED BY <3>1, <3>2, FollowsKept
    <2>2. CASE i \notin inSync
      <3>1. o = NoSync /\ sync[h].clean /\ i = m /\ PageFollows(i)'
        BY <1>6, <2>2
      <3>2. ASSUME NEW k \in Syncing(i)' PROVE FALSE
        <4>1. k \in Handler /\ sync'[k].at # "idle" /\ sync'[k].host = i
          BY <3>2 DEF Syncing
        <4>2. k # h
          BY <1>2, <3>1, <4>1
        <4> QED BY <1>1, <3>1, <4>1, <4>2 DEF PagesInv, SyncsMet
      <3> QED BY <3>1, <3>2
    <2> QED BY <2>1, <2>2
  <1>7. ASSUME NEW k \in Handler, sync'[k].at # "idle", sync'[k].clean
        PROVE  SyncProgress(k)'
    <2>1. CASE k = h
      BY <1>2, <1>7, <2>1
    <2>2. CASE k # h
      <3>1. sync'[k] = sync[k] /\ sync[k].host \in Host
        BY <1>1, <1>3, <1>7, <2>2
      <3>2. sync[k].host # m
        BY <1>7, <2>2, <3>1 DEF PagesInv, SyncsMet
      <3>3. SyncProgress(k) /\ SiteKept(sync[k].host)
        BY <1>7, <3>1, <3>2 DEF PagesInv
      <3> QED BY <3>1, <3>3, ProgressKept
    <2> QED BY <2>1, <2>2
  <1> QED BY <1>4, <1>6, <1>7 DEF PagesInv, InSyncIdle

(* A request begins: the others for its host have met it.                  *)
LEMMA PagesBegun ==
  ASSUME SyncsOK, PagesInv, NEW h \in Handler, NEW i \in Host,
         NEW step \in {"diff", "mark"}, BeginSync(h, i, step)
  PROVE  PagesInv'
PROOF
  <1> DEFINE clean == (Syncing(i) = {})
             new == [NoSync EXCEPT !.at = step, !.host = i, !.clean = clean]
  <1>0. clean \in BOOLEAN /\ h \notin Syncing(i) /\ (clean <=> Syncing(i) = {})
    BY DEF BeginSync, SyncAt, Syncing
  <1>1. sync' = [k \in Handler |->
                   CASE k = h -> new
                     [] k \in Syncing(i) -> [sync[k] EXCEPT !.clean = FALSE]
                     [] OTHER -> sync[k]]
    BY DEF BeginSync
  <1> HIDE DEF clean
  <1>2. new.at = step /\ new.host = i /\ (new.clean <=> clean)
    BY <1>0 DEF NoSync
  <1> HIDE DEF new
  <1>3. sync'[h] = new
    BY <1>0, <1>1
  <1>4. ASSUME NEW k \in Handler \ {h}
        PROVE  /\ sync'[k].at = sync[k].at /\ sync'[k].host = sync[k].host
               /\ sync'[k].clean => sync'[k] = sync[k]
               /\ k \in Syncing(i) => ~sync'[k].clean
    <2>1. sync'[k] = IF k \in Syncing(i) THEN [sync[k] EXCEPT !.clean = FALSE] ELSE sync[k]
      BY <1>1
    <2>2. CASE k \in Syncing(i)
      <3>1. sync[k] \in SyncOf
        BY <2>2 DEF SyncsOK, Syncing, NoSync
      <3>2. sync'[k] = [sync[k] EXCEPT !.clean = FALSE]
        BY <2>1, <2>2
      <3> QED BY <3>1, <3>2 DEF SyncOf
    <2>3. CASE k \notin Syncing(i)
      BY <2>1, <2>3
    <2> QED BY <2>2, <2>3
  <1>5. SyncsMet'
    <2> SUFFICES ASSUME NEW g \in Handler, NEW k \in Handler, sync'[g].at # "idle",
                        sync'[k].at # "idle", g # k, sync'[g].host = sync'[k].host,
                        sync'[k].clean
                 PROVE  FALSE
      BY DEF SyncsMet
    <2>1. CASE k = h
      BY <1>0, <1>2, <1>3, <1>4, <2>1 DEF Syncing
    <2>2. CASE k # h /\ g = h
      BY <1>2, <1>3, <1>4, <2>2 DEF Syncing
    <2>3. CASE k # h /\ g # h
      BY <1>4, <2>3 DEF PagesInv, SyncsMet
    <2> QED BY <2>1, <2>2, <2>3
  <1>6. inSync' = inSync \ {i} /\ UNCHANGED <<passwords, pwFile, page>> /\ hosts[i].live
        /\ UNCHANGED hosts
    BY DEF BeginSync, tables
  <1>6a. \A k \in Host : SiteKept(k)
    BY <1>6 DEF SiteKept
  <1>7. ASSUME NEW k \in inSync' PROVE Syncing(k)' = {} /\ PageFollows(k)'
    <2>1. k \in inSync /\ k # i
      BY <1>6
    <2>2. Syncing(k) = {} /\ PageFollows(k) /\ k \in Host
      BY <2>1 DEF PagesInv, InSyncIdle, PageFilesOK
    <2>3. Syncing(k)' = {}
      BY <1>2, <1>3, <1>4, <2>1, <2>2 DEF Syncing
    <2> QED BY <1>6a, <2>2, <2>3, FollowsKept
  <1>8. ASSUME NEW k \in Handler, sync'[k].at # "idle", sync'[k].clean
        PROVE  SyncProgress(k)'
    <2>1. CASE k = h
      BY <1>2, <1>3, <1>6, <2>1 DEF SyncProgress
    <2>2. CASE k # h
      <3>1. sync'[k] = sync[k] /\ sync[k].at # "idle"
        BY <1>4, <1>8, <2>2
      <3>2. SyncProgress(k) /\ sync[k].host \in Host
        BY <1>8, <3>1 DEF PagesInv, SyncsOK, SyncOf, NoSync
      <3> QED BY <1>6a, <3>1, <3>2, ProgressKept
    <2> QED BY <2>1, <2>2
  <1>9. PageFilesOK'
    BY <1>6 DEF PagesInv, PageFilesOK
  <1> QED BY <1>5, <1>7, <1>8, <1>9 DEF PagesInv, InSyncIdle

(* A step that changes nothing of a request but where it is.               *)
LEMMA PagesAdvanced ==
  ASSUME SyncsOK, PagesInv, NEW h \in Handler, sync[h].at # "idle", NEW m \in Host,
         m = sync[h].host, NEW step \in SyncStep \ {"idle"}, SyncOn(h, step), PageFilesOK',
         \A i \in Host \ {m} : SiteKept(i),
         sync[h].clean /\ sync'[h].at = step /\ sync'[h].host = m
            /\ sync'[h].row = sync[h].row => SyncProgress(h)'
  PROVE  PagesInv'
PROOF
  <1> DEFINE o == [sync[h] EXCEPT !.at = step]
  <1>1. sync[h] \in SyncOf
    BY DEF SyncsOK, NoSync
  <1>2. o.at = step /\ o.host = m /\ o.clean = sync[h].clean /\ o.row = sync[h].row
    BY <1>1 DEF SyncOf
  <1>3. sync' = [sync EXCEPT ![h] = o] /\ sync'[h] = o /\ inSync' = inSync
    BY DEF SyncOn, SyncsOK
  <1> HIDE DEF o
  <1> QED BY <1>2, <1>3, PagesMoved

(* A step that swallows a failure, after which nothing is claimed, and one *)
(* that ends its request without having gone through.                      *)
LEMMA PagesGivenUp ==
  ASSUME SyncsOK, PagesInv, NEW h \in Handler, sync[h].at # "idle", NEW m \in Host,
         m = sync[h].host, PageFilesOK',
         EndSync(h) \/ \E step \in SyncStep \ {"idle"} : SwallowOn(h, step),
         \A i \in Host \ {m} : SiteKept(i)
  PROVE  PagesInv'
PROOF
  <1>1. CASE EndSync(h)
    <2>1. sync' = [sync EXCEPT ![h] = NoSync] /\ inSync' = inSync
      BY <1>1 DEF EndSync
    <2> QED BY <2>1, PagesMoved
  <1>2. ASSUME NEW step \in SyncStep \ {"idle"}, SwallowOn(h, step) PROVE PagesInv'
    <2>1. /\ \A k \in Handler \ {h} : sync'[k] = sync[k]
          /\ sync'[h].at = step /\ sync'[h].host = m /\ ~sync'[h].clean
          /\ inSync' = inSync
      BY <1>2, SyncSwallowed DEF SwallowOn
    <2>2. \A k \in Handler : sync[k].at # "idle" => sync[k].host \in Host
      BY DEF SyncsOK, SyncOf, NoSync
    <2>3. SyncsMet'
      BY <2>1 DEF PagesInv, SyncsMet
    <2>4. ASSUME NEW i \in inSync' PROVE Syncing(i)' = {} /\ PageFollows(i)'
      <3>1. i \in Host /\ Syncing(i) = {} /\ PageFollows(i)
        BY <2>1 DEF PagesInv, PageFilesOK, InSyncIdle
      <3>2. i # m
        BY <3>1 DEF Syncing
      <3>3. Syncing(i)' = {}
        BY <2>1, <3>1, <3>2 DEF Syncing
      <3> QED BY <3>1, <3>2, <3>3, FollowsKept
    <2>5. ASSUME NEW k \in Handler, sync'[k].at # "idle", sync'[k].clean
          PROVE  SyncProgress(k)'
      <3>1. k # h
        BY <2>1, <2>5
      <3>2. sync'[k] = sync[k] /\ sync[k].host \in Host /\ SyncProgress(k)
        BY <2>1, <2>2, <2>5, <3>1 DEF PagesInv
      <3>3. sync[k].host # m
        BY <2>5, <3>1, <3>2 DEF PagesInv, SyncsMet
      <3> QED BY <3>2, <3>3, ProgressKept
    <2> QED BY <2>3, <2>4, <2>5 DEF PagesInv, InSyncIdle
  <1> QED BY <1>1, <1>2

LEMMA PagesInvStep ==
  ASSUME TablesOK, SyncsOK, PagesInv, NEW h \in Handler, PageStep(h)
  PROVE  PagesInv'
PROOF
  <1>1. ASSUME NEW i \in Host, SyncPasswords(h, i) \/ DeleteHost(h, i) PROVE PagesInv'
    BY <1>1, PagesBegun DEF SyncPasswords, DeleteHost
  <1> SUFFICES ASSUME sync[h].at # "idle",
                      ~ \E i \in Host : SyncPasswords(h, i) \/ DeleteHost(h, i)
               PROVE  PagesInv'
    BY <1>1 DEF PageStep, LoadRows, WriteRow, QueryForFiles, BuildHtpasswd, QueryForPage,
        RenderPage, ReloadPages, MarkHostDeleted, DeleteRows, DeleteFiles, SyncAt,
        BuildHtpasswdFails, RenderPageFails, DeleteFilesFails
  <1> DEFINE PageRows == [id: Int, line: Secret \cup {None}, on: BOOLEAN]
  <1>2. sync[h] \in SyncOf
    BY DEF SyncsOK, NoSync
  <1>3. PICK m \in Host : m = sync[h].host
    BY <1>2 DEF SyncOf
  <1> USE <1>3
  <1>4. sync[h].row \in PageRows /\ passwords[m] \in PageRows
    BY <1>2 DEF SyncOf, SyncsOK
  <1>5. sync[h].clean => SyncProgress(h)
    BY DEF PagesInv
  <1>6. UNCHANGED <<pwFile, page, inSync>> => PageFilesOK'
    BY DEF PagesInv, PageFilesOK
  <1>7. UNCHANGED <<passwords, hosts, pwFile, page>> => \A i \in Host : SiteKept(i)
    BY DEF SiteKept
  <1>17. sync[h].clean /\ sync[h].at \in SyncStep \ (Gone \cup {"reload"}) => hosts[m].live
    BY <1>5 DEF SyncProgress
  <1>18. sync[h].at \in SyncStep
    BY <1>2 DEF SyncOf
  <1>8. CASE LoadRows(h)
    <2>1. PICK plan : sync' = [sync EXCEPT ![h].at = "write", ![h].plan = plan,
                                           ![h].row = passwords[m]]
      BY <1>8 DEF LoadRows
    <2> DEFINE o == [sync[h] EXCEPT !.at = "write", !.plan = plan, !.row = passwords[m]]
    <2>2. o.at = "write" /\ o.host = m /\ o.clean = sync[h].clean
      BY <1>2 DEF SyncOf
    <2>3. sync' = [sync EXCEPT ![h] = o] /\ sync'[h] = o
      BY <2>1 DEF SyncsOK
    <2> HIDE DEF o
    <2>4. UNCHANGED <<passwords, hosts, pwFile, page, inSync>> /\ sync[h].at = "diff"
      BY <1>8 DEF LoadRows, SyncAt, siteVars, tables
    <2>5. sync[h].clean => SyncProgress(h)'
      BY <1>17, <2>2, <2>3, <2>4 DEF SyncProgress, SyncStep, Gone
    <2> QED BY <1>6, <1>7, <2>2, <2>3, <2>4, <2>5, PagesMoved
  <1>9. CASE WriteRow(h)
    <2>1. /\ UNCHANGED <<pwFile, page, hosts>> /\ sync[h].at = "write"
          /\ \A i \in Host \ {m} : SiteKept(i)
      <3>1. \/ UNCHANGED passwords
            \/ \E row : passwords' = [passwords EXCEPT ![m] = row]
        BY <1>9 DEF WriteRow
      <3> QED BY <1>9, <3>1 DEF WriteRow, SyncAt, SyncsOK, SiteKept
    <2>2. CASE SyncOn(h, "query")
      <3>1. PageFilesOK'
        BY <1>6, <2>1, <2>2 DEF SyncOn
      <3>2. sync[h].clean /\ sync'[h].at = "query" /\ sync'[h].host = m => SyncProgress(h)'
        BY <1>17, <2>1 DEF SyncProgress, SyncStep, Gone
      <3> QED BY <2>1, <2>2, <3>1, <3>2, PagesAdvanced DEF SyncStep
    <2>3. CASE EndSync(h)
      <3>1. PageFilesOK'
        BY <1>6, <2>1, <2>3 DEF EndSync
      <3> QED BY <2>1, <2>3, <3>1, PagesGivenUp
    <2> QED BY <1>9, <2>2, <2>3 DEF WriteRow
  <1>10. CASE QueryForFiles(h) \/ QueryForPage(h)
    <2>1. PICK step \in {"files", "render"} :
             /\ Query(h, step) /\ (step = "render" => sync[h].at = "page")
             /\ sync[h].at \in {"query", "page"}
      BY <1>10 DEF QueryForFiles, QueryForPage, SyncAt
    <2> DEFINE row == IF passwords[m].on THEN [passwords[m] EXCEPT !.id = 0] ELSE NoPage
               o   == [sync[h] EXCEPT !.at = step, !.plan = Keep, !.row = row]
    <2>2. row.line = (IF passwords[m].on THEN passwords[m].line ELSE None)
          /\ (row.on <=> passwords[m].on)
      BY <1>4 DEF NoPage
    <2>2a. sync[h].clean => hosts[m].live
      BY <1>17, <2>1 DEF SyncStep, Gone
    <2>2b. sync[h].clean => row.line = Line(m) /\ (row.on <=> Protected(m))
      BY <2>2, <2>2a DEF Line, Protected
    <2>3. sync' = [sync EXCEPT ![h] = o]
      BY <1>2, <2>1 DEF Query, SyncsOK, SyncOf
    <2> HIDE DEF row
    <2>4. o.at = step /\ o.host = m /\ o.clean = sync[h].clean /\ o.row = row
      BY <1>2 DEF SyncOf
    <2>5. sync'[h] = o
      BY <2>3 DEF SyncsOK
    <2> HIDE DEF o
    <2>6. UNCHANGED <<passwords, hosts, pwFile, page, inSync>>
      BY <2>1 DEF Query, siteVars, tables
    <2>6a. Line(m)' = Line(m) /\ (Protected(m)' <=> Protected(m))
      BY <1>7, <2>6, FollowsKept
    <2>7. sync[h].clean => SyncProgress(h)'
      BY <1>5, <2>1, <2>2a, <2>2b, <2>4, <2>5, <2>6, <2>6a DEF SyncProgress
    <2> QED BY <1>6, <1>7, <2>3, <2>4, <2>6, <2>7, PagesMoved
  <1>11. CASE BuildHtpasswd(h)
    <2> DEFINE o == [sync[h] EXCEPT !.at = "page", !.row = NoPage]
    <2>1. o.at = "page" /\ o.host = m /\ o.clean = sync[h].clean
      BY <1>2 DEF SyncOf
    <2>2. sync' = [sync EXCEPT ![h] = o] /\ sync'[h] = o
      BY <1>2, <1>11 DEF BuildHtpasswd, SyncsOK, SyncOf
    <2> HIDE DEF o
    <2>3. /\ pwFile' = [pwFile EXCEPT ![m] = sync[h].row.line] /\ sync[h].at = "files"
          /\ UNCHANGED <<passwords, hosts, page, inSync>>
      BY <1>11 DEF BuildHtpasswd, SyncAt, siteVars, tables
    <2>4. PageFilesOK'
      BY <1>4, <2>3 DEF PagesInv, PageFilesOK
    <2>5. pwFile'[m] = sync[h].row.line /\ \A i \in Host \ {m} : SiteKept(i)
      BY <2>3 DEF PagesInv, PageFilesOK, SiteKept
    <2>5a. Line(m)' = Line(m)
      BY <2>3 DEF Line, Protected
    <2>6. sync[h].clean => SyncProgress(h)'
      BY <1>5, <1>17, <2>1, <2>2, <2>3, <2>5, <2>5a DEF SyncProgress, SyncStep, Gone
    <2> QED BY <2>1, <2>2, <2>3, <2>4, <2>5, <2>6, PagesMoved
  <1>12. CASE RenderPage(h)
    <2>1. /\ page' = IF sync[h].row.on THEN page \cup {m} ELSE page \ {m}
          /\ sync[h].at = "render" /\ SyncOn(h, "reload")
          /\ UNCHANGED <<passwords, hosts, pwFile>>
      BY <1>12 DEF RenderPage, SyncAt, siteVars, tables
    <2>2. PageFilesOK'
      BY <2>1 DEF PagesInv, PageFilesOK, SyncOn
    <2>3. /\ \A i \in Host \ {m} : SiteKept(i)
          /\ m \in page' <=> sync[h].row.on
          /\ Line(m)' = Line(m) /\ (Protected(m)' <=> Protected(m))
      BY <1>4, <2>1 DEF SiteKept, Line, Protected
    <2>4. sync[h].clean /\ sync'[h].at = "reload" /\ sync'[h].host = m => SyncProgress(h)'
      BY <1>5, <2>1, <2>3 DEF SyncProgress
    <2> QED BY <2>1, <2>2, <2>3, <2>4, PagesAdvanced DEF SyncStep
  <1>13. CASE ReloadPages(h)
    <2>1. /\ sync' = [sync EXCEPT ![h] = NoSync] /\ sync[h].at = "reload"
          /\ inSync' = IF sync[h].clean THEN inSync \cup {m} ELSE inSync
          /\ UNCHANGED <<passwords, hosts, pwFile, page>>
      BY <1>13 DEF ReloadPages, AnswerSync, SyncAt, tables
    <2>2. PageFilesOK'
      BY <2>1 DEF PagesInv, PageFilesOK
    <2>3. sync[h].clean => PageFollows(m)'
      <3>1. sync[h].clean => PageFollows(m)
        BY <1>5, <2>1 DEF SyncProgress, PageFollows
      <3> QED BY <1>7, <2>1, <3>1, FollowsKept
    <2>4. CASE sync[h].clean
      BY <1>7, <2>1, <2>2, <2>3, <2>4, PagesMoved
    <2>5. CASE ~sync[h].clean
      BY <1>7, <2>1, <2>2, <2>5, PagesMoved
    <2> QED BY <2>4, <2>5
  <1>14. CASE MarkHostDeleted(h)
    <2>1. SyncOn(h, "rows") /\ UNCHANGED <<passwords, pwFile, page>>
      BY <1>14 DEF MarkHostDeleted
    <2>2. PageFilesOK'
      BY <1>6, <2>1 DEF SyncOn
    <2>3. sync'[h].at = "rows" => SyncProgress(h)'
      BY DEF SyncProgress, Gone
    <2>4. \A i \in Host \ {m} : SiteKept(i)
      BY <1>14, <2>1 DEF MarkHostDeleted, SiteKept, TablesOK
    <2> QED BY <2>1, <2>2, <2>3, <2>4, PagesAdvanced DEF SyncStep
  <1>15. CASE DeleteRows(h)
    <2>1. SyncOn(h, "clean") /\ UNCHANGED <<pwFile, page, hosts>>
      BY <1>15 DEF DeleteRows
    <2>2. PageFilesOK'
      BY <1>6, <2>1 DEF SyncOn
    <2>3. \A i \in Host \ {m} : passwords'[i] = passwords[i]
      BY <1>15 DEF DeleteRows, SyncsOK
    <2>4. \A i \in Host \ {m} : SiteKept(i)
      BY <2>1, <2>3 DEF SiteKept
    <2>5. sync'[h].at = "clean" => SyncProgress(h)'
      BY DEF SyncProgress, Gone
    <2> QED BY <2>1, <2>2, <2>4, <2>5, PagesAdvanced DEF SyncStep
  <1>16. CASE DeleteFiles(h)
    <2>1. /\ pwFile' = [pwFile EXCEPT ![m] = None] /\ page' = page \ {m}
          /\ sync[h].at = "clean" /\ SyncOn(h, "reload") /\ UNCHANGED <<passwords, hosts>>
      BY <1>16 DEF DeleteFiles, SyncAt, tables
    <2>2. PageFilesOK'
      BY <2>1 DEF PagesInv, PageFilesOK, SyncOn
    <2>3. /\ pwFile'[m] = None /\ m \notin page'
          /\ \A i \in Host \ {m} : SiteKept(i)
      BY <2>1 DEF PagesInv, PageFilesOK, SiteKept
    <2>4. ~hosts'[m].live
      BY <2>1 DEF SyncsOK, Gone
    <2>5. sync'[h].at = "reload" /\ sync'[h].host = m => SyncProgress(h)'
      BY <2>3, <2>4 DEF SyncProgress, Line, Protected
    <2> QED BY <2>1, <2>2, <2>3, <2>5, PagesAdvanced DEF SyncStep
  <1>19. CASE BuildHtpasswdFails(h)
    <2>1. /\ pwFile' \in {pwFile, [pwFile EXCEPT ![m] = None]}
          /\ SwallowOn(h, "page") \/ EndSync(h)
          /\ UNCHANGED <<passwords, hosts, page>>
      BY <1>19 DEF BuildHtpasswdFails, siteVars, tables
    <2>2. inSync' = inSync
      BY <2>1 DEF SwallowOn, EndSync
    <2>3. PageFilesOK' /\ \A i \in Host \ {m} : SiteKept(i)
      BY <2>1, <2>2 DEF PagesInv, PageFilesOK, SiteKept
    <2> QED BY <2>1, <2>3, PagesGivenUp DEF SyncStep
  <1>20. CASE RenderPageFails(h)
    <2>1. /\ page' \in {page, page \ {m}}
          /\ SwallowOn(h, "reload") \/ EndSync(h)
          /\ UNCHANGED <<passwords, hosts, pwFile>>
      BY <1>20 DEF RenderPageFails, siteVars, tables
    <2>2. inSync' = inSync
      BY <2>1 DEF SwallowOn, EndSync
    <2>3. PageFilesOK' /\ \A i \in Host \ {m} : SiteKept(i)
      BY <2>1, <2>2 DEF PagesInv, PageFilesOK, SiteKept
    <2> QED BY <2>1, <2>3, PagesGivenUp DEF SyncStep
  <1>21. CASE DeleteFilesFails(h)
    <2>1. /\ pwFile' \in {pwFile, [pwFile EXCEPT ![m] = None]} /\ page' \in {page, page \ {m}}
          /\ SwallowOn(h, "reload") /\ UNCHANGED <<passwords, hosts>>
      BY <1>21 DEF DeleteFilesFails, tables
    <2>2. inSync' = inSync
      BY <2>1 DEF SwallowOn
    <2>3. PageFilesOK' /\ \A i \in Host \ {m} : SiteKept(i)
      BY <2>1, <2>2 DEF PagesInv, PageFilesOK, SiteKept
    <2> QED BY <2>1, <2>3, PagesGivenUp DEF SyncStep
  <1> QED BY <1>8, <1>9, <1>10, <1>11, <1>12, <1>13, <1>14, <1>15, <1>16, <1>19, <1>20, <1>21
      DEF PageStep

LEMMA PagesInvKept ==
  ASSUME SyncsOK, PagesInv, UNCHANGED <<passwords, pageVars>>,
         \A i \in Host : hosts'[i].live <=> hosts[i].live
  PROVE  PagesInv'
PROOF
  <1>1. UNCHANGED <<pwFile, page, sync, inSync>>
    BY DEF pageVars
  <1>2. \A i \in Host : SiteKept(i)
    BY <1>1 DEF SiteKept
  <1>3. ASSUME NEW i \in inSync' PROVE PageFollows(i)'
    <2>1. i \in Host /\ PageFollows(i)
      BY <1>1 DEF PagesInv, PageFilesOK
    <2> QED BY <1>2, <2>1, FollowsKept
  <1>4. ASSUME NEW k \in Handler, sync'[k].at # "idle", sync'[k].clean
        PROVE  SyncProgress(k)'
    <2>1. SyncProgress(k) /\ sync[k].host \in Host
      BY <1>1, <1>4 DEF PagesInv, SyncsOK, SyncOf, NoSync
    <2> QED BY <1>1, <1>2, <2>1, ProgressKept
  <1> QED BY <1>1, <1>3, <1>4 DEF PagesInv, PageFilesOK, SyncsMet, InSyncIdle, Syncing

LEMMA PagesInvInitially == SitesInit => PagesInv
PROOF
  <1> SUFFICES ASSUME SitesInit PROVE PagesInv
    OBVIOUS
  <1>1. /\ pwFile = [i \in Host |-> None] /\ page = {} /\ inSync = Host
        /\ passwords = [i \in Host |-> NoPage]
        /\ \A h \in Handler : sync[h].at = "idle"
    BY DEF SitesInit, SiteInit, PageInit, NoSync
  <1>2. \A i \in Host : PageFollows(i)
    BY <1>1 DEF PageFollows, Line, Protected, NoPage
  <1> QED BY <1>1, <1>2 DEF PagesInv, PageFilesOK, SyncsMet, InSyncIdle, Syncing

(* Certificates and lists leave the rows of page passwords clean.          *)
LEMMA RowsAlone ==
  ASSUME NEW h \in Handler, CertStep(h) \/ ListStep(h)
  PROVE  UNCHANGED passwords
PROOF
  <1>1. CASE CertStep(h)
    BY <1>1 DEF CertStep, RequestCert, RenewCert, DeleteCert, TakeDown, UserFound,
                UserGone, FirstReload, SecondReload, ReloadThen, RunCertbot, StartCertbot,
                Issued, ChallengeFails, Reinstate, Record, Undo, LastReload,
                RunRenewal, EndRenewal, RunRevocation, EndRevocation, siteVars, tables,
                RequestConfFails, ReinstateFails, UndoFails
  <1>2. CASE ListStep(h)
    BY <1>2 DEF ListStep, CreateList, UpdateList, DeleteList, DeleteItems, InsertItems,
                Refetch, AppendItem, RenderHosts, ReloadUpdated, MarkDeleted,
                ReleaseHosts, StripHosts, ReloadDeleted, Unlink, siteVars, tables,
                BuildFails, Drained, RenderFails, StripFails
  <1> QED BY <1>1, <1>2

(* They delete no host, and bring none back.                               *)
LEMMA HostsStay ==
  ASSUME TablesOK, NEW h \in Handler, CertStep(h) \/ ListStep(h), NEW i \in Host
  PROVE  hosts'[i].live <=> hosts[i].live
PROOF
  <1>1. CASE CertStep(h)
    <2>1. UNCHANGED hosts
      BY <1>1 DEF CertStep, RequestCert, RenewCert, DeleteCert, TakeDown, UserFound,
                  UserGone, FirstReload, SecondReload, ReloadThen, RunCertbot,
                  StartCertbot, Issued, ChallengeFails, Reinstate, Record, Undo,
                  LastReload, RunRenewal, EndRenewal, RunRevocation, EndRevocation,
                  RequestConfFails, ReinstateFails, UndoFails, siteVars, tables
    <2> QED BY <2>1
  <1>2. CASE ReleaseHosts(h)
    BY <1>2 DEF ReleaseHosts, TablesOK, HostRow
  <1>3. CASE ListStep(h) /\ ~ReleaseHosts(h)
    <2>1. UNCHANGED hosts
      BY <1>3 DEF ListStep, CreateList, UpdateList, DeleteList, DeleteItems, InsertItems,
                  Refetch, AppendItem, RenderHosts, ReloadUpdated, MarkDeleted,
                  StripHosts, ReloadDeleted, Unlink, siteVars, tables,
                  BuildFails, Drained, RenderFails, StripFails
    <2> QED BY <2>1
  <1> QED BY <1>1, <1>2, <1>3

LEMMA PagesInvariant == SitesSpec => []PagesInv
PROOF
  <1>1. SyncsOK /\ Types /\ PagesInv /\ [SitesNext]_sitesVars => PagesInv'
    <2> SUFFICES ASSUME SyncsOK, Types, PagesInv, [SitesNext]_sitesVars PROVE PagesInv'
      OBVIOUS
    <2>1. CASE UNCHANGED sitesVars
      BY <2>1, PagesInvKept DEF sitesVars, siteVars, tables
    <2>2. ASSUME NEW i \in Host, Saves(i), UNCHANGED pageVars PROVE PagesInv'
      <3>1. UNCHANGED passwords /\ hosts[i].live
        BY <2>2, HostSaved DEF Saves, SaveHost, SaveHostFails
      <3>2. \E row \in HostRow : hosts' = [hosts EXCEPT ![i] = row] /\ row.live
        BY <2>2, HostSaved DEF Types
      <3>3. \A k \in Host : hosts'[k].live <=> hosts[k].live
        BY <3>1, <3>2 DEF Types, TablesOK
      <3> QED BY <2>2, <3>1, <3>3, PagesInvKept
    <2>3. ASSUME NEW h \in Handler, CertStep(h) \/ ListStep(h), UNCHANGED pageVars
          PROVE  PagesInv'
      <3>1. \A k \in Host : hosts'[k].live <=> hosts[k].live
        BY <2>3, HostsStay DEF Types
      <3> QED BY <2>3, <3>1, RowsAlone, PagesInvKept
    <2>4. ASSUME NEW h \in Handler, PageStep(h) PROVE PagesInv'
      BY <2>4, PagesInvStep DEF Types
    <2> QED BY <2>1, <2>2, <2>3, <2>4 DEF SitesNext, Saves
  <1> QED BY <1>1, PagesInvInitially, OutageInvariant, TypesInvariant, PTL
      DEF SitesSpec

(* The htpasswd file and the page of a host whose last request met no      *)
(* other for the host, went through and swallowed no failure of a file,    *)
(* are what the host's row calls for, and gone when the host is.           *)
THEOREM PagesFollow == SitesSpec => []PagesFollowRows
PROOF
  <1>1. PagesInv => PagesFollowRows
    BY DEF PagesInv, PageFollows, Line, Protected, PagesFollowRows
  <1> QED BY <1>1, PagesInvariant, PTL

-----------------------------------------------------------------------------
(* Types, whole.                                                           *)

(* One certbot at a time, and it is that of the request that says so.      *)
CertbotOK ==
    /\ certbot \in Handler \cup {None}
    /\ \A h \in Handler : certbot = h <=> RunsCertbot(h)
    /\ \A h \in Handler : order[h].at # "idle" => order[h].cert \in Cert

LEMMA CertbotMoved ==
  ASSUME CertbotOK, NEW h \in Handler, \A k \in Handler \ {h} : order'[k] = order[k],
         order'[h].at # "idle" => order'[h].cert \in Cert,
         \/ UNCHANGED certbot /\ (RunsCertbot(h) <=> RunsCertbot(h)')
         \/ certbot = None /\ certbot' = h /\ RunsCertbot(h)'
         \/ RunsCertbot(h) /\ certbot' = None /\ ~RunsCertbot(h)'
  PROVE  CertbotOK'
PROOF
  <1>1. \A k \in Handler \ {h} : RunsCertbot(k)' <=> RunsCertbot(k)
    BY DEF RunsCertbot
  <1>2. None \notin Handler
    BY SitesAssumption
  <1>3. \A k \in Handler : certbot' = k <=> RunsCertbot(k)'
    BY <1>1, <1>2 DEF CertbotOK
  <1> QED BY <1>3 DEF CertbotOK

LEMMA CertbotKept ==
  ASSUME CertbotOK, UNCHANGED <<certbot, order>>
  PROVE  CertbotOK'
BY DEF CertbotOK, RunsCertbot

LEMMA CertbotStep ==
  ASSUME OrdersOK, CertbotOK, NEW h \in Handler, CertStep(h)
  PROVE  CertbotOK'
PROOF
  <1>1. order[h] \in Order
    BY DEF OrdersOK
  <1>2. NoOrder.at = "idle"
    BY DEF NoOrder
  <1>3. ASSUME NEW next, Proceed(h, next)
        PROVE  /\ order'[h].at = next /\ order'[h].cert = order[h].cert
               /\ \A k \in Handler \ {h} : order'[k] = order[k]
    BY <1>1, <1>3 DEF Proceed, OrdersOK, Order
  <1>4. ASSUME CloseOrder(h)
        PROVE  order'[h].at = "idle" /\ \A k \in Handler \ {h} : order'[k] = order[k]
    BY <1>2, <1>4 DEF CloseOrder, OrdersOK
  <1>5. order[h].at # "idle" => order[h].cert \in Cert
    BY DEF CertbotOK
  <1>6. ASSUME NEW c \in Cert, RequestCert(h, c) \/ RenewCert(h, c) \/ DeleteCert(h, c)
        PROVE  CertbotOK'
    <2>1. order[h].at = "idle" /\ UNCHANGED certbot
      BY <1>6 DEF RequestCert, RenewCert, DeleteCert, OrderAt
    <2>2. /\ order'[h].at \in {"find", "renew", "revoke"} /\ order'[h].cert = c
          /\ \A k \in Handler \ {h} : order'[k] = order[k]
      <3>1. CASE RequestCert(h, c)
        <4>1. PICK dns : order' = [order EXCEPT ![h] = [at |-> "find", cert |-> c,
                                                        dns |-> dns, read |-> << >>]]
          BY <3>1 DEF RequestCert
        <4> QED BY <4>1 DEF OrdersOK
      <3>2. CASE RenewCert(h, c) \/ DeleteCert(h, c)
        BY <3>2 DEF RenewCert, DeleteCert, NoOrder, OrdersOK
      <3> QED BY <1>6, <3>1, <3>2
    <2> QED BY <2>1, <2>2, CertbotMoved DEF RunsCertbot
  <1>12. CASE RequestConfFails(h) \/ ReinstateFails(h)
    <2>1. order[h].at \in {"user", "reinstate"} /\ UNCHANGED certbot /\ Proceed(h, "undo")
      BY <1>12 DEF RequestConfFails, ReinstateFails, OrderAt
    <2> QED BY <1>3, <1>5, <2>1, CertbotMoved DEF RunsCertbot
  <1>7. CASE TakeDown(h) \/ UserFound(h) \/ Reinstate(h) \/ Undo(h)
    <2>1. order[h].at \in {"find", "user", "reinstate", "undo"} /\ UNCHANGED certbot
      BY <1>7 DEF TakeDown, UserFound, Reinstate, Undo, OrderAt
    <2>2. /\ order'[h].at \in {"user", "ready", "record", "restart"}
          /\ order'[h].cert = order[h].cert
          /\ \A k \in Handler \ {h} : order'[k] = order[k]
      <3>1. CASE TakeDown(h)
        <4>1. PICK read : order' = [order EXCEPT ![h].at = "user", ![h].read = read]
          BY <3>1 DEF TakeDown
        <4> QED BY <1>1, <4>1 DEF OrdersOK, Order
      <3>2. CASE UserFound(h)
        BY <1>1, <3>2 DEF UserFound, OrdersOK, Order
      <3>3. CASE Reinstate(h) \/ Undo(h)
        <4>1. PICK step \in {"record", "restart"} :
                 order' = [order EXCEPT ![h].at = step, ![h].read = << >>]
          BY <3>3 DEF Reinstate, Undo
        <4> QED BY <1>1, <4>1 DEF OrdersOK, Order
      <3> QED BY <1>7, <3>1, <3>2, <3>3
    <2> QED BY <1>5, <2>1, <2>2, CertbotMoved DEF RunsCertbot
  <1>8. CASE FirstReload(h) \/ SecondReload(h)
    <2>1. order[h].at \in {"ready", "apply"} /\ UNCHANGED certbot
      BY <1>8 DEF FirstReload, SecondReload, ReloadThen, OrderAt
    <2>2. PICK next \in {"challenge", "reinstate", "undo"} : Proceed(h, next)
      BY <1>8 DEF FirstReload, SecondReload, ReloadThen
    <2> QED BY <1>3, <1>5, <2>1, <2>2, CertbotMoved DEF RunsCertbot
  <1>9. CASE RunCertbot(h) \/ RunRenewal(h) \/ RunRevocation(h)
    <2>1. order[h].at \in {"challenge", "renew", "revoke"}
      BY <1>9 DEF RunCertbot, RunRenewal, RunRevocation, OrderAt
    <2>2. \/ /\ certbot = None /\ certbot' = h
             /\ \E next \in {"certbot", "renewing", "revoking"} : Proceed(h, next)
          \/ UNCHANGED certbot /\ (Proceed(h, "undo") \/ CloseOrder(h))
      BY <1>9 DEF RunCertbot, RunRenewal, RunRevocation, StartCertbot
    <2>3. \A k \in Handler \ {h} : order'[k] = order[k]
      BY <1>3, <1>4, <2>2
    <2>4. order'[h].at # "idle" => order'[h].cert \in Cert
      BY <1>3, <1>4, <1>5, <2>1, <2>2
    <2>5. \/ UNCHANGED certbot /\ order'[h].at \in {"undo", "idle"}
          \/ /\ certbot = None /\ certbot' = h
             /\ order'[h].at \in {"certbot", "renewing", "revoking"}
      BY <1>3, <1>4, <2>2
    <2> QED BY <2>1, <2>3, <2>4, <2>5, CertbotMoved DEF RunsCertbot
  <1>10. CASE Issued(h) \/ ChallengeFails(h) \/ EndRenewal(h) \/ EndRevocation(h)
    <2>1. order[h].at \in {"certbot", "renewing", "revoking"} /\ certbot' = None
      BY <1>10 DEF Issued, ChallengeFails, EndRenewal, EndRevocation, OrderAt
    <2>2. Proceed(h, "apply") \/ Proceed(h, "undo") \/ CloseOrder(h)
      BY <1>10 DEF Issued, ChallengeFails, EndRenewal, EndRevocation
    <2>3. /\ \A k \in Handler \ {h} : order'[k] = order[k]
          /\ order'[h].at \in {"apply", "undo", "idle"}
          /\ order'[h].at # "idle" => order'[h].cert \in Cert
      BY <1>3, <1>4, <1>5, <2>1, <2>2
    <2> QED BY <2>1, <2>3, CertbotMoved DEF RunsCertbot
  <1>11. CASE UserGone(h) \/ Record(h) \/ LastReload(h) \/ UndoFails(h)
    <2>1. /\ order[h].at \in {"user", "record", "restart", "undo"} /\ UNCHANGED certbot
          /\ CloseOrder(h)
      BY <1>11 DEF UserGone, Record, LastReload, UndoFails, HardDelete, OrderAt
    <2> QED BY <1>4, <2>1, CertbotMoved DEF RunsCertbot
  <1> QED BY <1>6, <1>7, <1>8, <1>9, <1>10, <1>11, <1>12 DEF CertStep

(* What certificates and the hosts' files are.                             *)
CertFilesOK ==
    /\ certFiles \subseteq Cert /\ requestConf \subseteq Cert /\ late \subseteq Host

LEMMA CertFilesStep ==
  ASSUME Types, CertbotOK, CertFilesOK, SitesNext
  PROVE  CertFilesOK'
PROOF
  <1>3. ASSUME NEW i \in Host, Saves(i), UNCHANGED certVars PROVE CertFilesOK'
    BY <1>3, HostSaved DEF CertFilesOK, certVars, Types
  <1>4. ASSUME NEW h \in Handler, ListStep(h) \/ PageStep(h), UNCHANGED certVars
        PROVE  CertFilesOK'
    <2>1. CASE ListStep(h)
      <3>1. UNCHANGED <<certFiles, late>>
        BY <2>1 DEF ListStep, CreateList, UpdateList, DeleteList, DeleteItems, InsertItems,
                    Refetch, AppendItem, RenderHosts, ReloadUpdated, MarkDeleted,
                    ReleaseHosts, StripHosts, ReloadDeleted, Unlink, siteVars, tables,
                    BuildFails, Drained, RenderFails, StripFails
      <3> QED BY <1>4, <3>1 DEF CertFilesOK, certVars
    <2>2. CASE PageStep(h)
      <3>1. UNCHANGED <<certFiles, late>>
        BY <2>2 DEF PageStep, SyncPasswords, DeleteHost, BeginSync, LoadRows, WriteRow,
            QueryForFiles, BuildHtpasswd, QueryForPage, Query, RenderPage, ReloadPages,
            MarkHostDeleted, DeleteRows, DeleteFiles, siteVars, tables,
            BuildHtpasswdFails, RenderPageFails, DeleteFilesFails
      <3> QED BY <1>4, <3>1 DEF CertFilesOK, certVars
    <2> QED BY <1>4, <2>1, <2>2
  <1>5. ASSUME NEW h \in Handler, CertStep(h) PROVE CertFilesOK'
    <2>1. UNCHANGED late
      BY <1>5 DEF CertStep, RequestCert, RenewCert, DeleteCert, TakeDown, UserFound,
                  UserGone, FirstReload, SecondReload, ReloadThen, RunCertbot,
                  StartCertbot, Issued, ChallengeFails, Reinstate, Record, Undo,
                  LastReload, RunRenewal, EndRenewal, RunRevocation, EndRevocation,
                  siteVars, tables,
                  RequestConfFails, ReinstateFails, UndoFails
    <2>2. order[h].at # "idle" => order[h].cert \in Cert
      BY DEF CertbotOK
    <2>3. CASE UNCHANGED <<certFiles, requestConf>>
      BY <2>1, <2>3 DEF CertFilesOK
    <2>4. CASE UserFound(h) \/ RequestConfFails(h)
      BY <2>1, <2>2, <2>4 DEF UserFound, RequestConfFails, OrderAt, CertFilesOK, siteVars
    <2>5. CASE Issued(h) \/ Undo(h) \/ UndoFails(h) \/ EndRevocation(h)
      BY <2>1, <2>2, <2>5 DEF Issued, Undo, UndoFails, EndRevocation, OrderAt, CertFilesOK
    <2> QED BY <1>5, <2>3, <2>4, <2>5
        DEF CertStep, RequestCert, RenewCert, DeleteCert, TakeDown, UserGone,
            FirstReload, SecondReload, ReloadThen, RunCertbot, StartCertbot,
            ChallengeFails, Reinstate, ReinstateFails, Record, LastReload, RunRenewal,
            EndRenewal, RunRevocation, siteVars
  <1> QED BY <1>3, <1>4, <1>5 DEF SitesNext, Saves

(* The requests that may still insert a row: the ids of the rows count     *)
(* them.                                                                   *)
Inserting == {h \in Handler : sync[h].at \in {"diff", "write"}}

RowIdsOK ==
    /\ requests \in 0..MaxRequests
    /\ IsFiniteSet(Inserting)
    /\ \A i \in Host : /\ passwords[i].id \in Nat
                       /\ passwords[i].id + Cardinality(Inserting) <= requests
    /\ \A h \in Handler : sync[h].row.id \in 0..MaxRequests

(* A step that inserts no row, of a request that was not about to or is    *)
(* not any more.                                                           *)
LEMMA RowIdsKept ==
  ASSUME RowIdsOK, UNCHANGED requests,
         Inserting' = Inserting \/ \E h \in Handler : Inserting' = Inserting \ {h},
         \A i \in Host : passwords'[i].id = passwords[i].id,
         \A h \in Handler : \/ sync'[h].row.id \in {0, sync[h].row.id}
                            \/ \E i \in Host : sync'[h].row.id = passwords[i].id
  PROVE  RowIdsOK'
PROOF
  <1>1. Cardinality(Inserting) \in Nat
    BY FS_CardinalityType DEF RowIdsOK
  <1>2. /\ IsFiniteSet(Inserting') /\ Cardinality(Inserting') \in Nat
        /\ Cardinality(Inserting') <= Cardinality(Inserting)
    <2>1. CASE Inserting' = Inserting
      BY <1>1, <2>1 DEF RowIdsOK
    <2>2. ASSUME NEW h \in Handler, Inserting' = Inserting \ {h}
          PROVE  /\ IsFiniteSet(Inserting') /\ Cardinality(Inserting') \in Nat
                 /\ Cardinality(Inserting') <= Cardinality(Inserting)
      <3>1. IsFiniteSet(Inserting \ {h})
        BY FS_RemoveElement DEF RowIdsOK
      <3>2. Cardinality(Inserting \ {h}) = IF h \in Inserting THEN Cardinality(Inserting) - 1
                                           ELSE Cardinality(Inserting)
        BY FS_RemoveElement DEF RowIdsOK
      <3>3. Cardinality(Inserting \ {h}) \in Nat
        BY <3>1, FS_CardinalityType
      <3>4. Cardinality(Inserting \ {h}) <= Cardinality(Inserting)
        <4>1. CASE h \in Inserting
          BY <1>1, <3>2, <4>1
        <4>2. CASE h \notin Inserting
          BY <1>1, <3>2, <4>2
        <4> QED BY <4>1, <4>2
      <3> QED BY <2>2, <3>1, <3>3, <3>4
    <2> QED BY <2>1, <2>2
  <1>3. MaxRequests \in Nat
    BY SitesAssumption
  <1>4. \A i \in Host : passwords[i].id \in 0..MaxRequests
    BY <1>1, <1>3 DEF RowIdsOK
  <1>5. \A h \in Handler : sync'[h].row.id \in 0..MaxRequests
    BY <1>3, <1>4 DEF RowIdsOK
  <1>6. \A i \in Host : /\ passwords'[i].id \in Nat
                        /\ passwords'[i].id + Cardinality(Inserting') <= requests'
    <2> SUFFICES ASSUME NEW i \in Host
                 PROVE  /\ passwords'[i].id \in Nat
                        /\ passwords'[i].id + Cardinality(Inserting') <= requests'
      OBVIOUS
    <2>1. /\ passwords[i].id \in Nat /\ requests \in Nat
          /\ passwords[i].id + Cardinality(Inserting) <= requests
      BY <1>3 DEF RowIdsOK
    <2> QED BY <1>1, <1>2, <2>1
  <1> QED BY <1>2, <1>5, <1>6 DEF RowIdsOK

(* A request that is accepted may insert one row.                          *)
LEMMA RowIdsAccepted ==
  ASSUME RowIdsOK, Accept,
         Inserting' = Inserting \/ \E h \in Handler : Inserting' = Inserting \cup {h},
         UNCHANGED passwords,
         \A h \in Handler : sync'[h].row.id \in {0, sync[h].row.id}
  PROVE  RowIdsOK'
PROOF
  <1>1. Cardinality(Inserting) \in Nat
    BY FS_CardinalityType DEF RowIdsOK
  <1>2. /\ IsFiniteSet(Inserting') /\ Cardinality(Inserting') \in Nat
        /\ Cardinality(Inserting') <= Cardinality(Inserting) + 1
    <2>1. CASE Inserting' = Inserting
      BY <1>1, <2>1 DEF RowIdsOK
    <2>2. ASSUME NEW h \in Handler, Inserting' = Inserting \cup {h}
          PROVE  /\ IsFiniteSet(Inserting') /\ Cardinality(Inserting') \in Nat
                 /\ Cardinality(Inserting') <= Cardinality(Inserting) + 1
      <3>1. IsFiniteSet(Inserting \cup {h})
        BY FS_AddElement DEF RowIdsOK
      <3>2. Cardinality(Inserting \cup {h}) = IF h \in Inserting THEN Cardinality(Inserting)
                                              ELSE Cardinality(Inserting) + 1
        BY FS_AddElement DEF RowIdsOK
      <3>3. CASE h \in Inserting
        BY <1>1, <2>2, <3>1, <3>2, <3>3
      <3>4. CASE h \notin Inserting
        BY <1>1, <2>2, <3>1, <3>2, <3>4
      <3> QED BY <3>3, <3>4
    <2> QED BY <2>1, <2>2
  <1>3. MaxRequests \in Nat
    BY SitesAssumption
  <1>4. requests' = requests + 1 /\ requests \in Nat /\ requests' \in 0..MaxRequests
    BY <1>3 DEF RowIdsOK, Accept
  <1>5. \A h \in Handler : sync'[h].row.id \in 0..MaxRequests
    BY <1>3 DEF RowIdsOK
  <1>6. \A i \in Host : /\ passwords'[i].id \in Nat
                        /\ passwords'[i].id + Cardinality(Inserting') <= requests'
    <2> SUFFICES ASSUME NEW i \in Host
                 PROVE  /\ passwords'[i].id \in Nat
                        /\ passwords'[i].id + Cardinality(Inserting') <= requests'
      OBVIOUS
    <2>1. /\ passwords[i].id \in Nat
          /\ passwords[i].id + Cardinality(Inserting) <= requests
      BY DEF RowIdsOK
    <2> QED BY <1>1, <1>2, <1>4, <2>1
  <1> QED BY <1>2, <1>4, <1>5, <1>6 DEF RowIdsOK

(* The others' requests stay where they are.                               *)
LEMMA InsertingMoved ==
  ASSUME NEW h \in Handler, \A k \in Handler \ {h} : sync'[k].at = sync[k].at
  PROVE  /\ (sync'[h].at \in {"diff", "write"} <=> sync[h].at \in {"diff", "write"})
               => Inserting' = Inserting
         /\ sync'[h].at \in {"diff", "write"} => Inserting' = Inserting \cup {h}
         /\ sync'[h].at \notin {"diff", "write"} => Inserting' = Inserting \ {h}
BY DEF Inserting

LEMMA RowIdsStep ==
  ASSUME Types, SyncsOK, RowIdsOK, SitesNext
  PROVE  RowIdsOK'
PROOF
  <1>1. ASSUME UNCHANGED <<passwords, pageVars>>, UNCHANGED requests \/ Accept
        PROVE  RowIdsOK'
    <2>1. Inserting' = Inserting
      BY <1>1 DEF Inserting, pageVars
    <2> QED BY <1>1, <2>1, RowIdsKept, RowIdsAccepted DEF pageVars
  <1>2. ASSUME NEW i \in Host, Saves(i), UNCHANGED pageVars PROVE RowIdsOK'
    BY <1>1, <1>2, HostSaved DEF Saves, SaveHost, SaveHostFails, Types
  <1>3. ASSUME NEW h \in Handler, CertStep(h), UNCHANGED pageVars PROVE RowIdsOK'
    <2>1. UNCHANGED requests \/ Accept
      BY <1>3 DEF CertStep, RequestCert, RenewCert, DeleteCert, TakeDown, UserFound,
                  UserGone, FirstReload, SecondReload, ReloadThen, RunCertbot,
                  StartCertbot, Issued, ChallengeFails, Reinstate, Record, Undo,
                  LastReload, RunRenewal, EndRenewal, RunRevocation, EndRevocation,
                  siteVars,
                  RequestConfFails, ReinstateFails, UndoFails
    <2> QED BY <1>1, <1>3, <2>1, RowsAlone
  <1>4. ASSUME NEW h \in Handler, ListStep(h), UNCHANGED pageVars PROVE RowIdsOK'
    <2>1. UNCHANGED requests \/ Accept
      BY <1>4 DEF ListStep, CreateList, UpdateList, DeleteList, BeginEdit, DeleteItems,
                  InsertItems, Refetch, AppendItem, RenderHosts, ReloadUpdated,
                  MarkDeleted, ReleaseHosts, StripHosts, ReloadDeleted, Unlink, siteVars,
                  BuildFails, Drained, RenderFails, StripFails
    <2> QED BY <1>1, <1>4, <2>1, RowsAlone
  <1>5. ASSUME NEW h \in Handler, PageStep(h) PROVE RowIdsOK'
    <2>1. ASSUME NEW i \in Host, SyncPasswords(h, i) \/ DeleteHost(h, i) PROVE RowIdsOK'
      <3>1. PICK step \in {"diff", "mark"} : BeginSync(h, i, step)
        BY <2>1 DEF SyncPasswords, DeleteHost
      <3> DEFINE clean == (Syncing(i) = {})
                 new == [NoSync EXCEPT !.at = step, !.host = i, !.clean = clean]
      <3>2. /\ sync' = [k \in Handler |->
                          CASE k = h -> new
                            [] k \in Syncing(i) -> [sync[k] EXCEPT !.clean = FALSE]
                            [] OTHER -> sync[k]]
            /\ sync[h].at = "idle" /\ Accept /\ UNCHANGED passwords
        BY <3>1 DEF BeginSync, SyncAt, tables
      <3>3. h \notin Syncing(i)
        BY <3>2 DEF Syncing
      <3> HIDE DEF clean
      <3>4. new.at = step /\ new.row.id = 0
        BY DEF NoSync, NoPage
      <3> HIDE DEF new
      <3>5. sync'[h] = new
        BY <3>2, <3>3
      <3>6. ASSUME NEW k \in Handler \ {h}
            PROVE  sync'[k].at = sync[k].at /\ sync'[k].row = sync[k].row
        <4>1. sync'[k] = IF k \in Syncing(i) THEN [sync[k] EXCEPT !.clean = FALSE]
                         ELSE sync[k]
          BY <3>2
        <4>2. k \in Syncing(i) => sync[k] \in SyncOf
          BY DEF SyncsOK, Syncing, NoSync
        <4> QED BY <4>1, <4>2 DEF SyncOf
      <3>7. Inserting' = Inserting \/ Inserting' = Inserting \cup {h}
        BY <3>1, <3>2, <3>4, <3>5, <3>6, InsertingMoved
      <3>8. \A k \in Handler : sync'[k].row.id \in {0, sync[k].row.id}
        BY <3>4, <3>5, <3>6
      <3> QED BY <3>2, <3>7, <3>8, RowIdsAccepted
    <2> SUFFICES ASSUME sync[h].at # "idle",
                        ~ \E i \in Host : SyncPasswords(h, i) \/ DeleteHost(h, i)
                 PROVE  RowIdsOK'
      BY <1>5, <2>1 DEF PageStep, LoadRows, WriteRow, QueryForFiles, BuildHtpasswd,
          QueryForPage, RenderPage, ReloadPages, MarkHostDeleted, DeleteRows, DeleteFiles,
          SyncAt,
          BuildHtpasswdFails, RenderPageFails, DeleteFilesFails
    <2>2. sync[h] \in SyncOf
      BY DEF SyncsOK, NoSync
    <2>3. PICK i \in Host : i = sync[h].host
      BY <2>2 DEF SyncOf
    <2> USE <2>3
    <2>4. \A k \in Host : passwords[k].id \in Int
      BY DEF SyncsOK
    <2>5. NoSync.at = "idle" /\ NoSync.row.id = 0 /\ NoPage.id = 0
      BY DEF NoSync, NoPage
    <2>6. ASSUME NEW step, SyncOn(h, step)
          PROVE  /\ sync'[h].at = step /\ sync'[h].row = sync[h].row
                 /\ \A k \in Handler \ {h} : sync'[k] = sync[k]
      BY <2>2, <2>6 DEF SyncOn, SyncsOK, SyncOf
    <2>7. ASSUME UNCHANGED requests, \A k \in Handler \ {h} : sync'[k] = sync[k],
                 \/ sync'[h].row.id \in {0, sync[h].row.id}
                 \/ sync'[h].row.id = passwords[i].id,
                 \/ sync'[h].at \notin {"diff", "write"}
                 \/ sync'[h].at \in {"diff", "write"} /\ sync[h].at \in {"diff", "write"},
                 \A k \in Host : passwords'[k].id = passwords[k].id
          PROVE  RowIdsOK'
      <3>1. Inserting' = Inserting \/ Inserting' = Inserting \ {h}
        BY <2>7, InsertingMoved
      <3> QED BY <2>7, <3>1, RowIdsKept
    <2>7a. ASSUME UNCHANGED <<passwords, requests>>,
                  \/ EndSync(h)
                  \/ \E step \in {"page", "reload"} : SwallowOn(h, step)
           PROVE  RowIdsOK'
      <3>1. CASE EndSync(h)
        <4>1. sync'[h] = NoSync /\ \A k \in Handler \ {h} : sync'[k] = sync[k]
          BY <3>1 DEF EndSync, SyncsOK
        <4> QED BY <2>5, <2>7, <2>7a, <4>1
      <3>2. ASSUME NEW step \in {"page", "reload"}, SwallowOn(h, step) PROVE RowIdsOK'
        <4>1. sync' = [sync EXCEPT ![h].at = step, ![h].clean = FALSE]
          BY <3>2 DEF SwallowOn
        <4>2. sync'[h].at = step /\ sync'[h].row = sync[h].row
          BY <2>2, <4>1 DEF SyncsOK, SyncOf
        <4>3. \A k \in Handler \ {h} : sync'[k] = sync[k]
          BY <4>1 DEF SyncsOK
        <4> QED BY <2>7, <2>7a, <3>2, <4>2, <4>3
      <3> QED BY <2>7a, <3>1, <3>2
    <2>8. CASE LoadRows(h)
      <3>1. PICK plan : sync' = [sync EXCEPT ![h].at = "write", ![h].plan = plan,
                                             ![h].row = passwords[i]]
        BY <2>8 DEF LoadRows
      <3>2. sync'[h].at = "write" /\ sync'[h].row = passwords[i]
        BY <2>2, <3>1 DEF SyncsOK, SyncOf
      <3>3. \A k \in Handler \ {h} : sync'[k] = sync[k]
        BY <3>1 DEF SyncsOK
      <3>4. UNCHANGED <<passwords, requests>> /\ sync[h].at = "diff"
        BY <2>8 DEF LoadRows, SyncAt, siteVars, tables
      <3> QED BY <2>7, <3>2, <3>3, <3>4
    <2>9. CASE WriteRow(h)
      <3>1. UNCHANGED requests /\ sync[h].at = "write"
        BY <2>9 DEF WriteRow, SyncAt
      <3>2. SyncOn(h, "query") \/ EndSync(h)
        BY <2>9 DEF WriteRow
      <3>3. /\ sync'[h].at \in {"query", "idle"}
            /\ sync'[h].row.id \in {0, sync[h].row.id}
            /\ \A k \in Handler \ {h} : sync'[k] = sync[k]
        BY <2>5, <2>6, <3>2 DEF EndSync, SyncsOK
      <3>4. CASE \A k \in Host : passwords'[k].id = passwords[k].id
        BY <2>7, <3>1, <3>3, <3>4
      <3>5. CASE ~ \A k \in Host : passwords'[k].id = passwords[k].id
        <4>1. \/ UNCHANGED passwords
              \/ \E line, on : passwords' = [passwords EXCEPT ![i].line = line, ![i].on = on]
              \/ passwords' = [passwords EXCEPT ![i] = [NoPage EXCEPT !.id = passwords[i].id]]
              \/ \E line, on : passwords' = [passwords EXCEPT ![i] =
                                  [id |-> passwords[i].id + 1, line |-> line, on |-> on]]
          BY <2>9 DEF WriteRow
        <4>2. ~ UNCHANGED passwords
          BY <3>5
        <4>3. ~ \E line, on : passwords' = [passwords EXCEPT ![i].line = line, ![i].on = on]
          <5> SUFFICES ASSUME NEW line, NEW on,
                              passwords' = [passwords EXCEPT ![i].line = line, ![i].on = on]
                       PROVE  FALSE
            OBVIOUS
          <5> DEFINE row == [passwords[i] EXCEPT !.line = line, !.on = on]
          <5>1. row.id = passwords[i].id
            BY DEF SyncsOK
          <5>2. passwords' = [passwords EXCEPT ![i] = row]
            BY DEF SyncsOK
          <5> HIDE DEF row
          <5> QED BY <3>5, <5>1, <5>2 DEF SyncsOK
        <4>4. passwords' # [passwords EXCEPT ![i] = [NoPage EXCEPT !.id = passwords[i].id]]
          BY <3>5 DEF SyncsOK, NoPage
        <4>5. /\ passwords'[i].id = passwords[i].id + 1
              /\ \A k \in Host \ {i} : passwords'[k] = passwords[k]
          <5>1. PICK line, on : passwords' = [passwords EXCEPT ![i] =
                                  [id |-> passwords[i].id + 1, line |-> line, on |-> on]]
            BY <4>1, <4>2, <4>3, <4>4
          <5> QED BY <5>1 DEF SyncsOK
        <4>6. Inserting' = Inserting \ {h} /\ h \in Inserting
          BY <3>1, <3>3, InsertingMoved DEF Inserting
        <4>7. IsFiniteSet(Inserting') /\ Cardinality(Inserting') = Cardinality(Inserting) - 1
          BY <4>6, FS_RemoveElement DEF RowIdsOK
        <4>8. Cardinality(Inserting) \in Nat
          BY FS_CardinalityType DEF RowIdsOK
        <4>9. requests \in Nat /\ requests' = requests
          BY <3>1, SitesAssumption DEF RowIdsOK
        <4>10. ASSUME NEW k \in Host
               PROVE  /\ passwords'[k].id \in Nat
                      /\ passwords'[k].id + Cardinality(Inserting') <= requests'
          <5>1. /\ passwords[k].id \in Nat
                /\ passwords[k].id + Cardinality(Inserting) <= requests
            BY DEF RowIdsOK
          <5>2. passwords'[k].id = passwords[k].id \/ passwords'[k].id = passwords[k].id + 1
            BY <4>5
          <5> QED BY <4>7, <4>8, <4>9, <5>1, <5>2
        <4>11. \A k \in Handler : sync'[k].row.id \in 0..MaxRequests
          BY <3>3, SitesAssumption DEF RowIdsOK
        <4> QED BY <4>7, <4>9, <4>10, <4>11 DEF RowIdsOK
      <3> QED BY <3>4, <3>5
    <2>10. CASE QueryForFiles(h) \/ QueryForPage(h)
      <3>1. PICK step \in {"files", "render"} : Query(h, step)
        BY <2>10 DEF QueryForFiles, QueryForPage
      <3> DEFINE row == IF passwords[i].on THEN [passwords[i] EXCEPT !.id = 0] ELSE NoPage
      <3>2. row.id = 0
        BY <2>5 DEF SyncsOK
      <3>3. sync' = [sync EXCEPT ![h].at = step, ![h].plan = Keep, ![h].row = row]
        BY <3>1 DEF Query
      <3> HIDE DEF row
      <3>4. sync'[h].at = step /\ sync'[h].row = row
        BY <2>2, <3>3 DEF SyncsOK, SyncOf
      <3>5. \A k \in Handler \ {h} : sync'[k] = sync[k]
        BY <3>3 DEF SyncsOK
      <3>6. UNCHANGED <<passwords, requests>>
        BY <3>1 DEF Query, siteVars, tables
      <3> QED BY <2>7, <3>2, <3>4, <3>5, <3>6
    <2>11. CASE BuildHtpasswd(h)
      <3>1. sync' = [sync EXCEPT ![h].at = "page", ![h].row = NoPage]
        BY <2>11 DEF BuildHtpasswd
      <3>2. sync'[h].at = "page" /\ sync'[h].row = NoPage
        BY <2>2, <3>1 DEF SyncsOK, SyncOf
      <3>3. \A k \in Handler \ {h} : sync'[k] = sync[k]
        BY <3>1 DEF SyncsOK
      <3>4. UNCHANGED <<passwords, requests>>
        BY <2>11 DEF BuildHtpasswd, siteVars, tables
      <3> QED BY <2>5, <2>7, <3>2, <3>3, <3>4
    <2>12. CASE RenderPage(h) \/ MarkHostDeleted(h) \/ DeleteFiles(h)
      <3>1. PICK step \in {"reload", "rows"} : SyncOn(h, step)
        BY <2>12 DEF RenderPage, MarkHostDeleted, DeleteFiles
      <3>2. UNCHANGED <<passwords, requests>>
        BY <2>12 DEF RenderPage, MarkHostDeleted, DeleteFiles, siteVars, tables
      <3> QED BY <2>6, <2>7, <3>1, <3>2
    <2>13. CASE ReloadPages(h)
      <3>1. sync' = [sync EXCEPT ![h] = NoSync] /\ UNCHANGED <<passwords, requests>>
        BY <2>13 DEF ReloadPages, AnswerSync, tables
      <3>2. sync'[h] = NoSync /\ \A k \in Handler \ {h} : sync'[k] = sync[k]
        BY <3>1 DEF SyncsOK
      <3> QED BY <2>5, <2>7, <3>1, <3>2
    <2>14. CASE DeleteRows(h)
      <3>1. SyncOn(h, "clean") /\ UNCHANGED requests
        BY <2>14 DEF DeleteRows
      <3>2. \A k \in Host : passwords'[k].id = passwords[k].id
        BY <2>14 DEF DeleteRows, SyncsOK
      <3>3. /\ sync'[h].at = "clean" /\ sync'[h].row = sync[h].row
            /\ \A k \in Handler \ {h} : sync'[k] = sync[k]
        BY <2>6, <3>1
      <3> QED BY <2>7, <3>1, <3>2, <3>3
    <2>15. CASE BuildHtpasswdFails(h) \/ RenderPageFails(h) \/ DeleteFilesFails(h)
      <3>1. UNCHANGED <<passwords, requests>>
        BY <2>15 DEF BuildHtpasswdFails, RenderPageFails, DeleteFilesFails, siteVars, tables
      <3>2. EndSync(h) \/ \E step \in {"page", "reload"} : SwallowOn(h, step)
        BY <2>15 DEF BuildHtpasswdFails, RenderPageFails, DeleteFilesFails
      <3> QED BY <2>7a, <3>1, <3>2
    <2> QED BY <1>5, <2>8, <2>9, <2>10, <2>11, <2>12, <2>13, <2>14, <2>15 DEF PageStep
  <1> QED BY <1>2, <1>3, <1>4, <1>5 DEF SitesNext, Saves

(* Every row, file and request is what it is declared to be: no page row's *)
(* id exceeds the requests accepted, and certbot runs for the one request  *)
(* that says so.                                                           *)
THEOREM SitesTypeCorrect == SitesSpec => []SitesTypeOK
PROOF
  <1> DEFINE Inv == CertbotOK /\ CertFilesOK /\ RowIdsOK /\ pages \in BOOLEAN
  <1>1. SitesInit => Inv
    <2> SUFFICES ASSUME SitesInit PROVE Inv
      OBVIOUS
    <2>1. CertbotOK
      BY SitesAssumption DEF SitesInit, CertInit, CertbotOK, RunsCertbot, NoOrder
    <2>4. CertFilesOK
      BY DEF SitesInit, SiteInit, CertInit, CertFilesOK
    <2>5. requests = 0 /\ Inserting = {} /\ MaxRequests \in Nat
      BY SitesAssumption DEF SitesInit, SiteInit, PageInit, Inserting, NoSync
    <2>6. /\ \A i \in Host : passwords[i].id = 0
          /\ \A h \in Handler : sync[h].row.id = 0
      BY DEF SitesInit, SiteInit, PageInit, NoSync, NoPage
    <2>7. RowIdsOK
      BY <2>5, <2>6, FS_EmptySet DEF RowIdsOK
    <2> QED BY <2>1, <2>4, <2>7 DEF SitesInit
  <1>2. /\ Types /\ SyncsOK /\ Inv /\ [SitesNext]_sitesVars => Inv'
    <2> SUFFICES ASSUME Types, SyncsOK, Inv, [SitesNext]_sitesVars PROVE Inv'
      OBVIOUS
    <2>1. CASE UNCHANGED sitesVars
      <3>1. UNCHANGED <<siteVars, certVars, pageVars, pages>>
        BY <2>1 DEF sitesVars
      <3>2. CertbotOK' /\ CertFilesOK'
        BY <3>1, CertbotKept DEF siteVars, tables, certVars, CertFilesOK
      <3>3. RowIdsOK'
        BY <3>1 DEF siteVars, tables, pageVars, RowIdsOK, Inserting
      <3> QED BY <3>1, <3>2, <3>3
    <2>2. CASE SitesNext
      <3>1. CertbotOK'
        BY <2>2, CertbotKept, CertbotStep DEF SitesNext, certVars, Types
      <3>2. CertFilesOK'
        BY <2>2, CertFilesStep
      <3>3. RowIdsOK'
        BY <2>2, RowIdsStep
      <3>4. UNCHANGED pages
        BY <2>2 DEF SitesNext
      <3> QED BY <3>1, <3>2, <3>3, <3>4
    <2> QED BY <2>1, <2>2
  <1>3. Types /\ SyncsOK /\ OutageInv /\ ListInv /\ PagesInv /\ Inv => SitesTypeOK
    <2> SUFFICES ASSUME Types, SyncsOK, OutageInv, ListInv, PagesInv, Inv
                 PROVE  SitesTypeOK
      OBVIOUS
    <2>1. MaxRequests \in Nat
      BY SitesAssumption
    <2>2. \A i \in Host : passwords[i] \in PageRow
      <3> SUFFICES ASSUME NEW i \in Host PROVE passwords[i] \in PageRow
        OBVIOUS
      <3>1. passwords[i].id \in 0..MaxRequests
        <4>1. Cardinality(Inserting) \in Nat
          BY FS_CardinalityType DEF RowIdsOK
        <4> QED BY <2>1, <4>1 DEF RowIdsOK
      <3> QED BY <3>1 DEF SyncsOK, PageRow
    <2>3. SiteTypeOK
      BY <2>2 DEF SiteTypeOK, Types, TablesOK, SyncsOK, OutageInv, FilesOK, CertFilesOK,
                  RowIdsOK
    <2>4. CertTypeOK
      BY DEF CertTypeOK, CertFilesOK, CertbotOK, Types, OrdersOK, Order
    <2>5. ListTypeOK
      <3>1. \A h \in Handler :
               edit[h] \in [at: EditStep, op: {"create", "update", "delete"},
                            list: List \cup {None}, items: SUBSET Item,
                            read: Reading, alone: BOOLEAN]
        <4>1. NoEdit \in [at: EditStep, op: {"create", "update", "delete"},
                          list: List \cup {None}, items: SUBSET Item,
                          read: Reading, alone: BOOLEAN]
          BY EmptyRead DEF NoEdit, EditStep
        <4>2. Edit \subseteq [at: EditStep, op: {"create", "update", "delete"},
                              list: List \cup {None}, items: SUBSET Item,
                              read: Reading, alone: BOOLEAN]
          BY DEF Edit
        <4> HIDE DEF NoEdit
        <4> QED BY <4>1, <4>2 DEF Types, EditsOK
      <3>2. UsersFilesOK
        BY DEF ListInv
      <3> QED BY <3>1, <3>2 DEF ListTypeOK, UsersFilesOK, Types, EditsOK
    <2>6. PageTypeOK
      <3>1. ASSUME NEW h \in Handler
            PROVE  sync[h] \in [at: SyncStep, host: Host \cup {None}, row: PageRow,
                                plan: Plan, clean: BOOLEAN]
        <4>1. sync[h].row.id \in 0..MaxRequests
          BY DEF RowIdsOK
        <4>2. CASE sync[h] = NoSync
          <5>1. NoPage \in PageRow
            BY <2>1 DEF NoPage, PageRow
          <5> QED BY <4>2, <5>1, EmptySync DEF NoSync, SyncStep
        <4>3. CASE sync[h] \in SyncOf
          <5>1. sync[h].row \in PageRow
            BY <4>1, <4>3 DEF SyncOf, PageRow
          <5> QED BY <4>3, <5>1 DEF SyncOf
        <4> QED BY <4>2, <4>3 DEF SyncsOK
      <3>2. PageFilesOK
        BY DEF PagesInv
      <3> QED BY <3>1, <3>2 DEF PageTypeOK, PageFilesOK, SyncsOK
    <2> QED BY <2>3, <2>4, <2>5, <2>6 DEF SitesTypeOK
  <1> QED BY <1>1, <1>2, <1>3, TypesInvariant, OutageInvariant, ListInvariant,
             PagesInvariant, PTL DEF SitesSpec
=============================================================================
