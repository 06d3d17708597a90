-------------------------- MODULE AccountsProofs --------------------------
(***************************************************************************)
(* Proofs about Accounts, for any number of requests in flight, users and  *)
(* passwords.                                                              *)
(***************************************************************************)
EXTENDS Accounts, FiniteSetTheorems, WellFoundedInduction, TLAPS

UserRow == [admin: BOOLEAN, deleted: BOOLEAN]
AuthRow == [user: Nat, password: Password, meta: Meta]
TaskRow == [op: SecondFactor \cup Credential \cup {"none", "permissions", "delete"},
            at: {"idle", "auth", "grant", "write"}, user: Nat, row: Nat, meta: Meta,
            stamp: Stamp, admin: BOOLEAN, alone: BOOLEAN]

(* A meta that a sequence of requests, one after the other, can leave.     *)
WholeMeta(meta) ==
    /\ meta.enabled <=> meta.secret # -1
    /\ meta.codes # {} => meta.enabled
    /\ meta.enabled => meta.pending = -1

(* What a request holds of a row, it read when the row allowed it.         *)
TaskOk(t, rows) ==
    t.at = "write" /\ t.op \in SecondFactor =>
        /\ t.row \in DOMAIN rows
        /\ WholeMeta(t.meta)
        /\ Allowed(t.op, t.meta)

(* FactorIsWhole is inductive with it, because every request writes a meta *)
(* that is whole as long as the one it read was, whatever the row holds by *)
(* then.                                                                   *)
FactorInv ==
    /\ users \in Seq(UserRow)
    /\ auths \in Seq(AuthRow)
    /\ 1 \in DOMAIN auths
    /\ task \in [Client -> TaskRow]
    /\ accepted \in Stamp
    /\ \A i \in DOMAIN auths : WholeMeta(auths[i].meta)
    /\ \A c \in Client : TaskOk(task[c], auths)

LEMMA NoMetaOk == NoMeta \in Meta /\ WholeMeta(NoMeta)
  BY DEF NoMeta, Meta, WholeMeta

LEMMA ReadyOk ==
    ASSUME NEW secret \in Stamp, NEW batch \in Stamp
    PROVE  Ready(secret, batch) \in Meta /\ WholeMeta(Ready(secret, batch))
  <1>1. Stamp \subseteq Nat
    BY AccountAssumption DEF Stamp
  <1>2. Codes(batch) \in SUBSET (Stamp \X {1, 2})
    BY DEF Codes
  <1>3. secret # -1
    BY <1>1
  <1> QED BY <1>2, <1>3 DEF Ready, Meta, WholeMeta

LEMMA FactorInvInit == AccountInit => FactorInv
  <1> SUFFICES ASSUME AccountInit PROVE FactorInv
    OBVIOUS
  <1>1. 0 \in Stamp
    BY AccountAssumption DEF Stamp
  <1>2. PICK p \in Password, meta \in {NoMeta, Ready(0, 0)} :
           auths = <<[user |-> 1, password |-> p, meta |-> meta]>>
    BY DEF AccountInit
  <1>3. meta \in Meta /\ WholeMeta(meta)
    BY <1>1, <1>2, NoMetaOk, ReadyOk
  <1>4. [user |-> 1, password |-> p, meta |-> meta] \in AuthRow
    BY <1>3 DEF AuthRow
  <1>5. auths \in Seq(AuthRow) /\ \A i \in DOMAIN auths : auths[i].meta = meta
    BY <1>2, <1>4
  <1>6. NoTask \in TaskRow
    BY <1>1, NoMetaOk DEF NoTask, TaskRow
  <1>7. task \in [Client -> TaskRow] /\ \A c \in Client : TaskOk(task[c], auths)
    BY <1>6 DEF AccountInit, NoTask, TaskOk
  <1>8. users \in Seq(UserRow)
    BY DEF AccountInit, UserRow
  <1>9. 1 \in DOMAIN auths
    BY <1>2
  <1> QED BY <1>9, <1>1, <1>3, <1>5, <1>7, <1>8 DEF AccountInit, FactorInv

LEMMA EndTaskOk ==
    ASSUME FactorInv, NEW c \in Client, EndTask(c)
    PROVE  /\ task' \in [Client -> TaskRow] /\ accepted' \in Stamp
           /\ \A k \in Client : task'[k] = task[k] \/ task'[k].at = "idle"
  <1>1. 0 \in Stamp
    BY AccountAssumption DEF Stamp
  <1>2. NoTask \in TaskRow /\ NoTask.at = "idle"
    BY <1>1, NoMetaOk DEF NoTask, TaskRow
  <1> QED BY <1>2 DEF EndTask, FactorInv

LEMMA AcceptOk ==
    ASSUME FactorInv, NEW c \in Client,
           NEW op \in SecondFactor \cup Credential \cup {"permissions", "delete"},
           NEW u \in Nat, NEW at \in {"auth", "grant", "write"},
           NEW row \in DOMAIN auths \cup {0}, NEW admin \in BOOLEAN,
           AcceptTask(c, op, u, at, row, admin)
    PROVE  /\ task' \in [Client -> TaskRow] /\ accepted' \in Stamp
           /\ \A k \in Client \ {c} :
                 /\ task'[k].at = task[k].at /\ task'[k].op = task[k].op
                 /\ task'[k].row = task[k].row /\ task'[k].meta = task[k].meta
           /\ task'[c].op = op /\ task'[c].row = row
           /\ row # 0 => task'[c].meta = auths[row].meta
  <1>1. accepted' = accepted + 1 /\ accepted' \in Stamp
    BY AccountAssumption DEF AcceptTask, FactorInv, Stamp
  <1> DEFINE read  == IF row = 0 THEN NoMeta ELSE auths[row].meta
             alone == \A j \in Client : ~Meets(j, op, u)
             mine  == [op |-> op, at |-> at, user |-> u, row |-> row, meta |-> read,
                       stamp |-> accepted', admin |-> admin, alone |-> alone]
             other(k) == [task[k] EXCEPT !.alone = @ /\ ~Meets(k, op, u)]
  <1>2. task' = [k \in Client |-> IF k = c THEN mine ELSE other(k)]
    BY DEF AcceptTask
  <1>3. read \in Meta /\ row \in Nat
    <2>1. CASE row = 0
      BY <2>1, NoMetaOk
    <2>2. CASE row # 0
      <3>1. row \in DOMAIN auths /\ auths[row] \in AuthRow
        BY <2>2 DEF FactorInv
      <3>2. row \in Nat
        BY <3>1 DEF FactorInv
      <3> QED BY <2>2, <3>1, <3>2 DEF AuthRow
    <2> QED BY <2>1, <2>2
  <1>4. alone \in BOOLEAN
    OBVIOUS
  <1> HIDE DEF read, alone
  <1>5. mine \in TaskRow
    BY <1>1, <1>3, <1>4 DEF TaskRow
  <1>6. \A k \in Client : /\ other(k) \in TaskRow
                          /\ other(k).at = task[k].at /\ other(k).op = task[k].op
                          /\ other(k).row = task[k].row /\ other(k).meta = task[k].meta
    <2>1. SUFFICES ASSUME NEW k \in Client
                   PROVE  /\ other(k) \in TaskRow
                          /\ other(k).at = task[k].at /\ other(k).op = task[k].op
                          /\ other(k).row = task[k].row /\ other(k).meta = task[k].meta
      OBVIOUS
    <2>2. task[k] \in TaskRow
      BY DEF FactorInv
    <2> DEFINE still == task[k].alone /\ ~Meets(k, op, u)
    <2>3. still \in BOOLEAN /\ other(k) = [task[k] EXCEPT !.alone = still]
      BY <2>2 DEF TaskRow
    <2> HIDE DEF still, other
    <2> QED BY <2>2, <2>3 DEF TaskRow
  <1>7. /\ mine.op = op /\ mine.row = row /\ mine.meta = read
    OBVIOUS
  <1> HIDE DEF mine, other
  <1>8. task' \in [Client -> TaskRow]
    BY <1>2, <1>5, <1>6
  <1>9. /\ task'[c] = mine /\ \A k \in Client \ {c} : task'[k] = other(k)
    BY <1>2
  <1> QED BY <1>1, <1>6, <1>7, <1>8, <1>9 DEF read

(* A row of auth is never taken away.                                      *)
LEMMA StillOk ==
    ASSUME NEW t, NEW old, NEW new, TaskOk(t, old), DOMAIN old \subseteq DOMAIN new
    PROVE  TaskOk(t, new)
  BY DEF TaskOk

LEMMA SameOk ==
    ASSUME NEW t, NEW s, NEW rows, TaskOk(t, rows),
           s.at = t.at, s.op = t.op, s.row = t.row, s.meta = t.meta
    PROVE  TaskOk(s, rows)
  BY DEF TaskOk

(* What is left to show of a request that ends, having changed auths or    *)
(* not.                                                                    *)
LEMMA EndKeeps ==
    ASSUME FactorInv, NEW c \in Client, EndTask(c),
           users' \in Seq(UserRow),
           auths' \in Seq(AuthRow), DOMAIN auths \subseteq DOMAIN auths',
           \A i \in DOMAIN auths' : WholeMeta(auths'[i].meta)
    PROVE  FactorInv'
  <1>1. /\ task' \in [Client -> TaskRow] /\ accepted' \in Stamp
        /\ \A k \in Client : task'[k] = task[k] \/ task'[k].at = "idle"
    BY EndTaskOk
  <1>2. ASSUME NEW k \in Client PROVE TaskOk(task'[k], auths')
    <2>1. CASE task'[k] = task[k]
      BY <2>1, StillOk DEF FactorInv
    <2>2. CASE task'[k].at = "idle"
      BY <2>2 DEF TaskOk
    <2> QED BY <1>1, <2>1, <2>2
  <1> QED BY <1>1, <1>2 DEF FactorInv

(* ... and of a request that is accepted, which reads a row or none.       *)
LEMMA AcceptKeeps ==
    ASSUME FactorInv, NEW c \in Client,
           NEW op \in SecondFactor \cup Credential \cup {"permissions", "delete"},
           NEW u \in Nat, NEW at \in {"auth", "grant", "write"},
           NEW row \in DOMAIN auths \cup {0}, NEW admin \in BOOLEAN,
           AcceptTask(c, op, u, at, row, admin), UNCHANGED auths,
           users' \in Seq(UserRow),
           op \in SecondFactor => row # 0 /\ Allowed(op, auths[row].meta)
    PROVE  FactorInv'
  <1>1. /\ task' \in [Client -> TaskRow] /\ accepted' \in Stamp
        /\ \A k \in Client \ {c} :
              /\ task'[k].at = task[k].at /\ task'[k].op = task[k].op
              /\ task'[k].row = task[k].row /\ task'[k].meta = task[k].meta
        /\ task'[c].op = op /\ task'[c].row = row
        /\ row # 0 => task'[c].meta = auths[row].meta
    BY AcceptOk
  <1>2. TaskOk(task'[c], auths)
    <2>1. SUFFICES ASSUME op \in SecondFactor PROVE TaskOk(task'[c], auths)
      BY <1>1 DEF TaskOk
    <2>2. row \in DOMAIN auths /\ WholeMeta(auths[row].meta)
      BY <2>1 DEF FactorInv
    <2> QED BY <1>1, <2>1, <2>2 DEF TaskOk
  <1>3. ASSUME NEW k \in Client \ {c} PROVE TaskOk(task'[k], auths)
    BY <1>1, SameOk DEF FactorInv
  <1> QED BY <1>1, <1>2, <1>3 DEF FactorInv

(* The row of lowest id exists where there is any.                         *)
LEMMA Least ==
    ASSUME NEW T \in SUBSET Nat, T # {}
    PROVE  \E x \in T : \A y \in T : x <= y
  <1> DEFINE R == OpToRel(<, Nat)
  <1>1. IsWellFoundedOn(R, Nat)
    BY NatLessThanWellFounded
  <1>2. \A x, y \in Nat : x < y => <<x, y>> \in R
    BY DEF OpToRel
  <1> HIDE DEF R
  <1>3. PICK x \in T : \A y \in T : <<y, x>> \notin R
    BY <1>1, WFMin
  <1>4. ASSUME NEW y \in T PROVE x <= y
    <2>1. x \in Nat /\ y \in Nat /\ <<y, x>> \notin R
      BY <1>3
    <2>2. ~(y < x)
      BY <1>2, <2>1
    <2> QED BY <2>1, <2>2
  <1> QED BY <1>4

LEMMA FirstAuthType ==
    ASSUME FactorInv, NEW u
    PROVE  FirstAuth(u) \in DOMAIN auths \cup {0}
  <1>1. CASE AuthsOf(u) = {}
    BY <1>1 DEF FirstAuth
  <1>2. CASE AuthsOf(u) # {}
    <2>1. AuthsOf(u) \in SUBSET Nat
      BY DEF AuthsOf, FactorInv
    <2>2. \E i \in AuthsOf(u) : \A j \in AuthsOf(u) : i <= j
      BY <1>2, <2>1, Least
    <2>3. FirstAuth(u) = CHOOSE i \in AuthsOf(u) : \A j \in AuthsOf(u) : i <= j
      BY <1>2 DEF FirstAuth
    <2>4. FirstAuth(u) \in AuthsOf(u)
      BY <2>2, <2>3
    <2> QED BY <2>4 DEF AuthsOf
  <1> QED BY <1>1, <1>2

(* A password row that is appended has no second factor.                   *)
LEMMA AppendKeeps ==
    ASSUME FactorInv, NEW u \in Nat, NEW p \in Password,
           auths' = Append(auths, [user |-> u, password |-> p, meta |-> NoMeta])
    PROVE  /\ auths' \in Seq(AuthRow) /\ DOMAIN auths \subseteq DOMAIN auths'
           /\ Len(auths') \in Nat
           /\ \A i \in DOMAIN auths' : WholeMeta(auths'[i].meta)
  <1> DEFINE row == [user |-> u, password |-> p, meta |-> NoMeta]
  <1>1. row \in AuthRow /\ row.meta = NoMeta
    BY NoMetaOk DEF AuthRow
  <1>2. auths \in Seq(AuthRow)
    BY DEF FactorInv
  <1> HIDE DEF row
  <1>3. /\ auths' \in Seq(AuthRow) /\ Len(auths') = Len(auths) + 1
        /\ DOMAIN auths' = 1..(Len(auths) + 1) /\ DOMAIN auths = 1..Len(auths)
        /\ \A i \in 1..Len(auths) : auths'[i] = auths[i]
        /\ auths'[Len(auths) + 1] = row
    BY <1>1, <1>2 DEF row
  <1>4. ASSUME NEW i \in DOMAIN auths' PROVE WholeMeta(auths'[i].meta)
    <2>1. CASE i \in 1..Len(auths)
      BY <1>3, <2>1 DEF FactorInv
    <2>2. CASE i = Len(auths) + 1
      BY <1>1, <1>3, <2>2, NoMetaOk
    <2> QED BY <1>2, <1>3, <2>1, <2>2
  <1> QED BY <1>2, <1>3, <1>4

(* Writing a meta that is whole to the row of a request.                   *)
LEMMA WriteMetaKeeps ==
    ASSUME FactorInv, NEW c \in Client, NEW meta \in Meta, NEW factor,
           WholeMeta(meta), WriteMeta(c, meta, factor)
    PROVE  FactorInv'
  <1>1. auths' = [auths EXCEPT ![task[c].row].meta = meta]
    BY DEF WriteMeta
  <1>2. auths \in Seq(AuthRow)
    BY DEF FactorInv
  <1>3. \A row \in AuthRow : [row EXCEPT !.meta = meta] \in AuthRow
                              /\ [row EXCEPT !.meta = meta].meta = meta
    BY DEF AuthRow
  <1>4. auths' \in Seq(AuthRow) /\ DOMAIN auths' = DOMAIN auths
    <2> DEFINE n == Len(auths)
    <2>1. n \in Nat /\ auths \in [1..n -> AuthRow]
      BY <1>2
    <2> HIDE DEF n
    <2>2. auths' \in [1..n -> AuthRow]
      BY <1>1, <1>3, <2>1
    <2>3. auths' \in Seq(AuthRow)
      BY <2>1, <2>2
    <2> QED BY <2>1, <2>2, <2>3
  <1>5. ASSUME NEW i \in DOMAIN auths PROVE WholeMeta(auths'[i].meta)
    <2>1. auths[i] \in AuthRow /\ WholeMeta(auths[i].meta)
      BY <1>2 DEF FactorInv
    <2>2. CASE i = task[c].row
      <3>1. auths'[i] = [auths[i] EXCEPT !.meta = meta]
        BY <1>1, <1>2, <2>2
      <3> QED BY <1>3, <2>1, <3>1
    <2>3. CASE i # task[c].row
      <3>1. auths'[i] = auths[i]
        BY <1>1, <1>2, <2>3
      <3> QED BY <2>1, <3>1
    <2> QED BY <2>2, <2>3
  <1>6. users' \in Seq(UserRow)
    BY DEF WriteMeta, FactorInv
  <1>7. EndTask(c)
    BY DEF WriteMeta
  <1> QED BY <1>4, <1>5, <1>6, <1>7, EndKeeps

(* What a request writes back is whole, because what it read was.          *)
LEMMA SecondFactorKeeps ==
    ASSUME FactorInv, NEW c \in Client,
           \/ StartSetup(c) \/ Enable(c) \/ Disable(c)
           \/ RegenerateBackupCodes(c) \/ LoginWithCode(c)
    PROVE  FactorInv'
  <1> DEFINE meta == task[c].meta
             stamp == task[c].stamp
  <1>1. task[c] \in TaskRow /\ TaskOk(task[c], auths)
    BY DEF FactorInv
  <1>2. meta \in Meta /\ stamp \in Stamp
    BY <1>1 DEF TaskRow
  <1>3. \A op : Writing(c, op) /\ op \in SecondFactor =>
                  WholeMeta(meta) /\ Allowed(op, meta)
    BY <1>1 DEF Writing, TaskOk
  <1>4. \A batch \in Stamp : Codes(batch) \in SUBSET (Stamp \X {1, 2})
    BY DEF Codes
  <1>5. Stamp \subseteq Nat
    BY AccountAssumption DEF Stamp
  <1> HIDE DEF meta, stamp
  <1>6. CASE StartSetup(c)
    <2>1. WholeMeta(meta) /\ Allowed("setup", meta)
      BY <1>3, <1>6 DEF StartSetup, SecondFactor
    <2>2. ~meta.enabled
      BY <2>1 DEF Allowed
    <2>3. [meta EXCEPT !.pending = stamp] \in Meta
      BY <1>2 DEF Meta
    <2>4. WholeMeta([meta EXCEPT !.pending = stamp])
      BY <1>2, <2>1, <2>2 DEF WholeMeta, Meta
    <2> QED BY <1>6, <2>3, <2>4, WriteMetaKeeps DEF StartSetup, meta, stamp
  <1>7. CASE Enable(c)
    <2>1. WholeMeta(meta) /\ Allowed("enable", meta)
      BY <1>3, <1>7 DEF Enable, SecondFactor
    <2>2. meta.pending \in Stamp
      BY <1>2, <2>1 DEF Allowed, Meta
    <2>3. Ready(meta.pending, stamp) \in Meta /\ WholeMeta(Ready(meta.pending, stamp))
      BY <1>2, <2>2, ReadyOk
    <2> QED BY <1>7, <2>3, WriteMetaKeeps DEF Enable, meta, stamp
  <1>8. CASE Disable(c)
    <2> DEFINE without == [meta EXCEPT !.secret = -1, !.enabled = FALSE, !.codes = {}]
    <2>1. without \in Meta
      BY <1>2 DEF Meta
    <2>2. WholeMeta(without)
      BY <1>2 DEF WholeMeta, Meta
    <2> QED BY <1>8, <2>1, <2>2, WriteMetaKeeps DEF Disable, meta
  <1>9. CASE RegenerateBackupCodes(c)
    <2>1. WholeMeta(meta) /\ Allowed("regenerate", meta)
      BY <1>3, <1>9 DEF RegenerateBackupCodes, SecondFactor
    <2>2. meta.enabled
      BY <2>1 DEF Allowed
    <2> DEFINE codes == Codes(stamp)
    <2>3. codes \in SUBSET (Stamp \X {1, 2})
      BY <1>2, <1>4
    <2> HIDE DEF codes
    <2>4. [meta EXCEPT !.codes = codes] \in Meta
      BY <1>2, <2>3 DEF Meta
    <2>5. WholeMeta([meta EXCEPT !.codes = codes])
      BY <1>2, <2>1, <2>2 DEF WholeMeta, Meta
    <2> QED BY <1>9, <2>4, <2>5, WriteMetaKeeps DEF RegenerateBackupCodes, meta, stamp, codes
  <1>10. CASE LoginWithCode(c)
    <2>1. WholeMeta(meta) /\ Allowed("login", meta)
      BY <1>3, <1>10 DEF LoginWithCode, SecondFactor
    <2>2. PICK code \in meta.codes :
             WriteMeta(c, [meta EXCEPT !.codes = @ \ {code}],
                       Changed(c, told[task[c].user].codes \ {code}))
      BY <1>10 DEF LoginWithCode, meta
    <2> DEFINE left == meta.codes \ {code}
    <2>3. /\ left \in SUBSET (Stamp \X {1, 2}) /\ (left # {} => meta.codes # {})
          /\ [meta EXCEPT !.codes = @ \ {code}] = [meta EXCEPT !.codes = left]
      BY <1>2 DEF Meta
    <2> HIDE DEF left
    <2>4. [meta EXCEPT !.codes = left] \in Meta
      BY <1>2, <2>3 DEF Meta
    <2>5. WholeMeta([meta EXCEPT !.codes = left])
      BY <1>2, <2>1, <2>3 DEF WholeMeta, Meta
    <2> QED BY <2>2, <2>3, <2>4, <2>5, WriteMetaKeeps
  <1> QED BY <1>6, <1>7, <1>8, <1>9, <1>10

LEMMA FactorNext == FactorInv /\ [AccountNext]_accountVars => FactorInv'
  <1> SUFFICES ASSUME FactorInv, [AccountNext]_accountVars PROVE FactorInv'
    OBVIOUS
  <1>0. /\ users \in Seq(UserRow) /\ auths \in Seq(AuthRow)
        /\ \A i \in DOMAIN auths : WholeMeta(auths[i].meta)
    BY DEF FactorInv
  <1>1. ASSUME NEW c \in Client, CreateUser(c) PROVE FactorInv'
    <2>1. PICK admin \in BOOLEAN, withAuth \in BOOLEAN :
             /\ AcceptTask(c, "create", Len(users) + 1,
                           IF withAuth THEN "auth" ELSE "grant", 0, admin)
             /\ users' = Append(users, [admin |-> admin, deleted |-> FALSE])
      BY <1>1 DEF CreateUser
    <2>2. /\ Len(users) + 1 \in Nat
          /\ users' \in Seq(UserRow)
      BY <1>0, <2>1 DEF UserRow
    <2> DEFINE at == IF withAuth THEN "auth" ELSE "grant"
    <2>3. at \in {"auth", "grant", "write"} /\ UNCHANGED auths
      BY <1>1 DEF CreateUser
    <2>4. /\ "create" \in SecondFactor \cup Credential \cup {"permissions", "delete"}
          /\ "create" \notin SecondFactor
      BY DEF SecondFactor, Credential
    <2>5. AcceptTask(c, "create", Len(users) + 1, at, 0, admin)
      BY <2>1
    <2> HIDE DEF at
    <2> QED BY <2>2, <2>3, <2>4, <2>5, AcceptKeeps
  <1>2. ASSUME NEW c \in Client, InsertAuth(c) PROVE FactorInv'
    <2>1. PICK p \in Password :
             auths' = Append(auths, [user |-> task[c].user, password |-> p, meta |-> NoMeta])
      BY <1>2 DEF InsertAuth
    <2>2. task[c] \in TaskRow
      BY DEF FactorInv
    <2>3. task[c].user \in Nat
      BY <2>2 DEF TaskRow
    <2>4. /\ auths' \in Seq(AuthRow) /\ DOMAIN auths \subseteq DOMAIN auths'
          /\ Len(auths') \in Nat
          /\ \A i \in DOMAIN auths' : WholeMeta(auths'[i].meta)
      BY <2>1, <2>3, AppendKeeps
    <2> DEFINE n == Len(auths')
               mine == [task[c] EXCEPT !.at = "grant", !.row = n]
    <2>5. task' = [task EXCEPT ![c] = mine]
      BY <1>2 DEF InsertAuth
    <2>6. n \in Nat
      BY <2>4
    <2> HIDE DEF n
    <2>7. mine \in TaskRow /\ mine.at = "grant"
      BY <2>2, <2>6 DEF TaskRow
    <2> HIDE DEF mine
    <2>8. task' \in [Client -> TaskRow]
      BY <2>5, <2>7 DEF FactorInv
    <2>9. ASSUME NEW k \in Client PROVE TaskOk(task'[k], auths')
      <3>1. CASE k = c
        <4>1. task'[k].at = "grant"
          BY <2>5, <2>7, <3>1 DEF FactorInv
        <4> QED BY <4>1 DEF TaskOk
      <3>2. CASE k # c
        <4>1. task'[k] = task[k] /\ TaskOk(task[k], auths)
          BY <2>5, <3>2 DEF FactorInv
        <4> QED BY <2>4, <4>1, StillOk
      <3> QED BY <3>1, <3>2
    <2> QED BY <1>2, <2>4, <2>8, <2>9 DEF FactorInv, InsertAuth
  <1>3. ASSUME NEW c \in Client, Grant(c) \/ SetPermissions(c) \/ DeleteUser(c) \/ Refused(c)
        PROVE  FactorInv'
    <2>1. EndTask(c) /\ UNCHANGED auths
      BY <1>3 DEF Grant, SetPermissions, DeleteUser, Refused
    <2>2. CASE DeleteUser(c)
      <3> DEFINE n == Len(users)
      <3>1. n \in Nat /\ users \in [1..n -> UserRow]
        BY <1>0
      <3> HIDE DEF n
      <3>2. users' \in [1..n -> UserRow]
        BY <2>2, <3>1 DEF DeleteUser, UserRow
      <3>3. users' \in Seq(UserRow)
        BY <3>1, <3>2
      <3> QED BY <1>0, <2>1, <3>3, EndKeeps
    <2>3. CASE Grant(c) \/ SetPermissions(c) \/ Refused(c)
      <3>1. UNCHANGED users
        BY <2>3 DEF Grant, SetPermissions, Refused
      <3> QED BY <1>0, <2>1, <3>1, EndKeeps
    <2> QED BY <1>3, <2>2, <2>3
  <1>4. ASSUME NEW c \in Client, SetPassword(c) PROVE FactorInv'
    <2>1. PICK p \in Password :
             auths' = IF task[c].row = 0
                      THEN Append(auths, [user |-> task[c].user, password |-> p,
                                          meta |-> NoMeta])
                      ELSE [i \in DOMAIN auths |->
                              IF i \in AuthsOf(task[c].user)
                              THEN [auths[i] EXCEPT !.password = p] ELSE auths[i]]
      BY <1>4 DEF SetPassword
    <2>2. EndTask(c) /\ UNCHANGED users
      BY <1>4 DEF SetPassword
    <2>3. CASE task[c].row = 0
      <3>1. task[c] \in TaskRow
        BY DEF FactorInv
      <3>2. task[c].user \in Nat
        BY <3>1 DEF TaskRow
      <3>3. /\ auths' \in Seq(AuthRow) /\ DOMAIN auths \subseteq DOMAIN auths'
            /\ \A i \in DOMAIN auths' : WholeMeta(auths'[i].meta)
        BY <2>1, <2>3, <3>2, AppendKeeps
      <3> QED BY <1>0, <2>2, <3>3, EndKeeps
    <2>4. CASE task[c].row # 0
      <3> DEFINE n == Len(auths)
                 set(i) == [auths[i] EXCEPT !.password = p]
      <3>1. n \in Nat /\ DOMAIN auths = 1..n /\ \A i \in 1..n : auths[i] \in AuthRow
        BY <1>0
      <3>2. \A i \in 1..n : set(i) \in AuthRow /\ set(i).meta = auths[i].meta
        BY <3>1 DEF AuthRow
      <3>3. auths' = [i \in 1..n |-> IF i \in AuthsOf(task[c].user) THEN set(i) ELSE auths[i]]
        BY <2>1, <2>4, <3>1
      <3> HIDE DEF n, set
      <3>4. auths' \in [1..n -> AuthRow]
        BY <3>1, <3>2, <3>3
      <3>5. auths' \in Seq(AuthRow) /\ DOMAIN auths' = DOMAIN auths
        BY <3>1, <3>4
      <3>6. \A i \in 1..n : auths'[i].meta = auths[i].meta
        BY <3>2, <3>3
      <3>7. \A i \in DOMAIN auths' : WholeMeta(auths'[i].meta)
        BY <1>0, <3>1, <3>5, <3>6
      <3> QED BY <1>0, <2>2, <3>5, <3>7, EndKeeps
    <2> QED BY <2>3, <2>4
  <1>5. ASSUME NEW c \in Client, NEW u \in DOMAIN users,
               \/ ReadForPassword(c, u) \/ ReadForPermissions(c, u)
               \/ ReadForDelete(c, u)
               \/ \E op \in SecondFactor : ReadSecondFactor(c, op, u)
        PROVE  FactorInv'
    <2>1. u \in Nat /\ FirstAuth(u) \in DOMAIN auths \cup {0}
      BY <1>0, FirstAuthType
    <2>2. UNCHANGED <<users, auths>>
      BY <1>5 DEF ReadForPassword, ReadForPermissions, ReadForDelete, ReadSecondFactor
    <2>3. {"password", "permissions", "delete"} \cap SecondFactor = {}
      BY DEF SecondFactor
    <2>4. "password" \in Credential /\ {1, 0} \subseteq Nat
      BY DEF Credential
    <2>5. CASE ReadForPassword(c, u)
      BY <1>0, <2>1, <2>2, <2>3, <2>4, <2>5, AcceptKeeps DEF ReadForPassword
    <2>6. CASE ReadForPermissions(c, u)
      <3> DEFINE row == IF \E p \in perms : p.user = u THEN 1 ELSE 0
      <3>1. row \in DOMAIN auths \cup {0}
        BY DEF FactorInv
      <3>2. AcceptTask(c, "permissions", u, "write", row, FALSE)
        BY <2>6 DEF ReadForPermissions
      <3> HIDE DEF row
      <3> QED BY <1>0, <2>1, <2>2, <2>3, <3>1, <3>2, AcceptKeeps
    <2>7. CASE ReadForDelete(c, u)
      BY <1>0, <2>1, <2>2, <2>3, <2>7, AcceptKeeps DEF ReadForDelete
    <2>8. ASSUME NEW op \in SecondFactor, ReadSecondFactor(c, op, u) PROVE FactorInv'
      BY <1>0, <2>1, <2>2, <2>8, AcceptKeeps DEF ReadSecondFactor
    <2> QED BY <1>5, <2>5, <2>6, <2>7, <2>8
  <1>6. ASSUME NEW c \in Client,
               \/ StartSetup(c) \/ Enable(c) \/ Disable(c)
               \/ RegenerateBackupCodes(c) \/ LoginWithCode(c)
        PROVE  FactorInv'
    BY <1>6, SecondFactorKeeps
  <1>7. CASE UNCHANGED accountVars
    BY <1>7 DEF accountVars, FactorInv
  <1> QED BY <1>1, <1>2, <1>3, <1>4, <1>5, <1>6, <1>7 DEF AccountNext, AccountStep

(* Every second factor that is stored is one that requests made one after  *)
(* the other could have left, although they overlap.                       *)
THEOREM FactorsAreWhole == AccountSpec => []FactorIsWhole
  <1>1. FactorInv => FactorIsWhole
    BY DEF FactorInv, FactorIsWhole, WholeMeta
  <1> QED BY <1>1, FactorInvInit, FactorNext, PTL DEF AccountSpec

-----------------------------------------------------------------------------
(* Who a request is of, what it holds, and what its user was told: the     *)
(* invariant of FactorAsTold and PasswordAsGiven.                          *)

ToldRow  == [sure: BOOLEAN, secret: Stamp \cup {-1}, codes: SUBSET (Stamp \X {1, 2})]
GivenRow == [sure: BOOLEAN, password: Password]

HistoriesOK ==
    /\ told \in [UserId -> ToldRow]
    /\ given \in [UserId -> GivenRow]
    /\ Len(users) <= accepted + 1

FirstRow(u, i) == i \in AuthsOf(u) /\ \A j \in AuthsOf(u) : i <= j

Owned ==
    /\ \A i \in DOMAIN auths : auths[i].user \in DOMAIN users
    /\ \A c \in Client : task[c].at # "idle" => task[c].user \in DOMAIN users

CreateTask ==
    \A c \in Client : task[c].at \in {"auth", "grant"} => task[c].op = "create"

(* The rows a request has read are still its user's, and the first is      *)
(* still the first.                                                        *)
RowsHeld ==
    \A c \in Client : task[c].at = "write" =>
        /\ task[c].op \in SecondFactor => FirstRow(task[c].user, task[c].row)
        /\ task[c].op = "password" /\ task[c].row # 0 =>
              task[c].row \in AuthsOf(task[c].user)

(* Requests of one kind for one user know of each other.                   *)
TasksMet ==
    \A c, k \in Client : \A kind \in {SecondFactor, Credential} :
        /\ c # k /\ task[c].at # "idle" /\ task[k].at # "idle"
        /\ task[c].op \in kind /\ task[k].op \in kind /\ task[c].user = task[k].user
        => ~task[c].alone

(* The request inserts a row of auth in its next step.                     *)
InsertsNext(t) == t.at = "auth" \/ (t.at = "write" /\ t.op = "password" /\ t.row = 0)

(* What a request that meets no other has read is still so.                *)
AloneHolds ==
    \A c \in Client : task[c].alone =>
        /\ task[c].at = "write" /\ task[c].op \in SecondFactor =>
              task[c].meta = auths[task[c].row].meta
        /\ InsertsNext(task[c]) => AuthsOf(task[c].user) = {}

ToldInv ==
    \A u \in UserId : told[u].sure =>
        /\ AuthsOf(u) # {}
        /\ \A i \in AuthsOf(u) : FirstRow(u, i) =>
              auths[i].meta.secret = told[u].secret /\ auths[i].meta.codes = told[u].codes

GivenInv ==
    \A u \in UserId : given[u].sure =>
        /\ AuthsOf(u) # {}
        /\ \A i \in AuthsOf(u) : FirstRow(u, i) => auths[i].password = given[u].password

TasksInv   == Owned /\ CreateTask /\ RowsHeld /\ TasksMet /\ AloneHolds
HistoryInv == HistoriesOK /\ TasksInv /\ ToldInv /\ GivenInv

LEMMA UsersAreIds ==
    ASSUME FactorInv, HistoriesOK
    PROVE  DOMAIN users \subseteq UserId
  <1>1. users \in Seq(UserRow) /\ accepted \in 0..MaxAccountRequests
    BY DEF FactorInv, Stamp
  <1>2. DOMAIN users = 1..Len(users) /\ Len(users) \in Nat
    BY <1>1
  <1> QED BY <1>1, <1>2, AccountAssumption DEF HistoriesOK, UserId

LEMMA RowsAreNat ==
    ASSUME FactorInv
    PROVE  /\ Len(auths) \in Nat /\ DOMAIN auths = 1..Len(auths)
           /\ \A i \in DOMAIN auths : auths[i] \in AuthRow
           /\ \A u : AuthsOf(u) \subseteq 1..Len(auths)
  <1>1. auths \in Seq(AuthRow)
    BY DEF FactorInv
  <1> QED BY <1>1 DEF AuthsOf

(* FirstAuth is the first row, where there is one.                         *)
LEMMA FirstAuthIsFirst ==
    ASSUME FactorInv, NEW u
    PROVE  /\ AuthsOf(u) = {} <=> FirstAuth(u) = 0
           /\ AuthsOf(u) # {} => FirstRow(u, FirstAuth(u))
           /\ \A i, j : FirstRow(u, i) /\ FirstRow(u, j) => i = j
  <1>1. AuthsOf(u) \subseteq 1..Len(auths) /\ Len(auths) \in Nat
    BY RowsAreNat
  <1>2. CASE AuthsOf(u) = {}
    BY <1>2 DEF FirstAuth, FirstRow
  <1>3. CASE AuthsOf(u) # {}
    <2>1. AuthsOf(u) \in SUBSET Nat
      BY <1>1
    <2>2. \E i \in AuthsOf(u) : \A j \in AuthsOf(u) : i <= j
      BY <1>3, <2>1, Least
    <2>3. FirstAuth(u) = CHOOSE i \in AuthsOf(u) : \A j \in AuthsOf(u) : i <= j
      BY <1>3 DEF FirstAuth
    <2>4. FirstAuth(u) \in AuthsOf(u) /\ \A j \in AuthsOf(u) : FirstAuth(u) <= j
      BY <2>2, <2>3
    <2>5. FirstAuth(u) # 0
      BY <1>1, <2>4
    <2>6. \A i, j : FirstRow(u, i) /\ FirstRow(u, j) => i = j
      BY <1>1 DEF FirstRow
    <2> QED BY <1>3, <2>4, <2>5, <2>6 DEF FirstRow
  <1> QED BY <1>2, <1>3

(* Rows that keep their users are the same rows of the same users.         *)
LEMMA SameRows ==
    ASSUME DOMAIN auths' = DOMAIN auths,
           \A i \in DOMAIN auths : auths'[i].user = auths[i].user
    PROVE  /\ \A u : AuthsOf(u)' = AuthsOf(u)
           /\ \A u, i : FirstRow(u, i)' <=> FirstRow(u, i)
  <1>1. \A u : AuthsOf(u)' = AuthsOf(u)
    BY DEF AuthsOf
  <1> QED BY <1>1 DEF FirstRow

(* A row that is appended is its user's last.                              *)
LEMMA AppendedRows ==
    ASSUME FactorInv, NEW u \in Nat, NEW p \in Password,
           auths' = Append(auths, [user |-> u, password |-> p, meta |-> NoMeta])
    PROVE  /\ DOMAIN auths' = 1..(Len(auths) + 1) /\ Len(auths') = Len(auths) + 1
           /\ \A i \in DOMAIN auths : auths'[i] = auths[i]
           /\ auths'[Len(auths) + 1].user = u /\ auths'[Len(auths) + 1].password = p
           /\ \A v : v # u => AuthsOf(v)' = AuthsOf(v)
           /\ AuthsOf(u)' = AuthsOf(u) \cup {Len(auths) + 1}
           /\ \A v, i : FirstRow(v, i) => FirstRow(v, i)'
           /\ \A v, i : AuthsOf(v) # {} /\ FirstRow(v, i)' => FirstRow(v, i)
  <1> DEFINE row == [user |-> u, password |-> p, meta |-> NoMeta]
  <1>1. row \in AuthRow /\ row.user = u /\ row.password = p
    BY NoMetaOk DEF AuthRow
  <1>2. auths \in Seq(AuthRow) /\ auths' = Append(auths, row)
    BY DEF FactorInv
  <1> HIDE DEF row
  <1>3. /\ Len(auths) \in Nat /\ DOMAIN auths = 1..Len(auths)
        /\ DOMAIN auths' = 1..(Len(auths) + 1) /\ Len(auths') = Len(auths) + 1
        /\ \A i \in 1..Len(auths) : auths'[i] = auths[i]
        /\ auths'[Len(auths) + 1] = row
    BY <1>1, <1>2
  <1>4. \A v : AuthsOf(v) \subseteq 1..Len(auths)
    BY RowsAreNat
  <1>5. ASSUME NEW v, v # u PROVE AuthsOf(v)' = AuthsOf(v)
    BY <1>1, <1>3, <1>5 DEF AuthsOf
  <1>6. AuthsOf(u)' = AuthsOf(u) \cup {Len(auths) + 1}
    BY <1>1, <1>3 DEF AuthsOf
  <1>7. ASSUME NEW v, NEW i, FirstRow(v, i) PROVE FirstRow(v, i)'
    BY <1>3, <1>4, <1>5, <1>6, <1>7 DEF FirstRow
  <1>8. ASSUME NEW v, NEW i, AuthsOf(v) # {}, FirstRow(v, i)' PROVE FirstRow(v, i)
    <2>1. CASE v # u
      BY <1>5, <1>8, <2>1 DEF FirstRow
    <2>2. CASE v = u
      <3>1. i \in AuthsOf(u) \cup {Len(auths) + 1}
            /\ \A j \in AuthsOf(u) \cup {Len(auths) + 1} : i <= j
        BY <1>6, <1>8, <2>2 DEF FirstRow
      <3>2. PICK j \in AuthsOf(u) : TRUE
        BY <1>8, <2>2
      <3>3. i <= j /\ j \in 1..Len(auths)
        BY <1>4, <3>1, <3>2
      <3>4. i # Len(auths) + 1
        BY <1>3, <3>3
      <3> QED BY <2>2, <3>1, <3>4 DEF FirstRow
    <2> QED BY <2>1, <2>2
  <1> QED BY <1>1, <1>3, <1>5, <1>6, <1>7, <1>8

-----------------------------------------------------------------------------
(* What accepting a request leaves of the others, and knows of them.       *)
LEMMA TaskAccepted ==
    ASSUME FactorInv, NEW c \in Client, NEW op, NEW u, NEW at, NEW row, NEW admin,
           AcceptTask(c, op, u, at, row, admin)
    PROVE  /\ task[c].at = "idle" /\ accepted' = accepted + 1
           /\ \A k \in Client \ {c} :
                 /\ task'[k].at = task[k].at /\ task'[k].op = task[k].op
                 /\ task'[k].user = task[k].user /\ task'[k].row = task[k].row
                 /\ task'[k].meta = task[k].meta
                 /\ task'[k].alone => task[k].alone /\ ~Meets(k, op, u)
           /\ task'[c].at = at /\ task'[c].op = op /\ task'[c].user = u
           /\ task'[c].row = row
           /\ row # 0 => task'[c].meta = auths[row].meta
           /\ task'[c].alone => \A j \in Client : ~Meets(j, op, u)
  <1> DEFINE read  == IF row = 0 THEN NoMeta ELSE auths[row].meta
             alone == \A j \in Client : ~Meets(j, op, u)
             mine  == [op |-> op, at |-> at, user |-> u, row |-> row, meta |-> read,
                       stamp |-> accepted', admin |-> admin, alone |-> alone]
             other(k) == [task[k] EXCEPT !.alone = @ /\ ~Meets(k, op, u)]
  <1>1. /\ task' = [k \in Client |-> IF k = c THEN mine ELSE other(k)]
        /\ task[c].at = "idle" /\ accepted' = accepted + 1
    BY DEF AcceptTask
  <1>2. alone \in BOOLEAN /\ (alone => \A j \in Client : ~Meets(j, op, u))
    OBVIOUS
  <1>3. row # 0 => read = auths[row].meta
    OBVIOUS
  <1> HIDE DEF read, alone
  <1>4. /\ mine.op = op /\ mine.at = at /\ mine.user = u /\ mine.row = row
        /\ mine.meta = read /\ mine.alone = alone
    OBVIOUS
  <1>5. \A k \in Client :
           /\ other(k).at = task[k].at /\ other(k).op = task[k].op
           /\ other(k).user = task[k].user /\ other(k).row = task[k].row
           /\ other(k).meta = task[k].meta
           /\ other(k).alone => task[k].alone /\ ~Meets(k, op, u)
    <2>1. SUFFICES ASSUME NEW k \in Client
                   PROVE  /\ other(k).at = task[k].at /\ other(k).op = task[k].op
                          /\ other(k).user = task[k].user /\ other(k).row = task[k].row
                          /\ other(k).meta = task[k].meta
                          /\ other(k).alone => task[k].alone /\ ~Meets(k, op, u)
      OBVIOUS
    <2>2. task[k] \in TaskRow
      BY DEF FactorInv
    <2> DEFINE still == task[k].alone /\ ~Meets(k, op, u)
    <2>3. /\ still \in BOOLEAN /\ other(k) = [task[k] EXCEPT !.alone = still]
          /\ still => task[k].alone /\ ~Meets(k, op, u)
      BY <2>2 DEF TaskRow
    <2> HIDE DEF still, other
    <2>4. other(k).alone = still
      BY <2>2, <2>3 DEF TaskRow
    <2>5. /\ other(k).at = task[k].at /\ other(k).op = task[k].op
          /\ other(k).user = task[k].user /\ other(k).row = task[k].row
          /\ other(k).meta = task[k].meta
      BY <2>2, <2>3 DEF TaskRow
    <2> QED BY <2>3, <2>4, <2>5
  <1> HIDE DEF mine, other
  <1>6. task'[c] = mine /\ \A k \in Client \ {c} : task'[k] = other(k)
    BY <1>1
  <1> QED BY <1>1, <1>2, <1>3, <1>4, <1>5, <1>6

(* A request that is accepted has read its row, and the others learn of it. *)
LEMMA TasksAccepted ==
    ASSUME FactorInv, HistoryInv, NEW c \in Client, NEW op, NEW u, NEW at, NEW row,
           NEW admin, AcceptTask(c, op, u, at, row, admin),
           UNCHANGED <<auths, told, given>>,
           DOMAIN users \subseteq DOMAIN users', Len(users') <= accepted' + 1,
           u \in DOMAIN users',
           at \in {"auth", "grant"} => op = "create",
           op \in SecondFactor => row # 0 /\ FirstRow(u, row),
           op = "password" /\ row # 0 => row \in AuthsOf(u),
           at = "auth" \/ (op = "password" /\ row = 0) => AuthsOf(u) = {}
    PROVE  HistoryInv'
  <1>1. /\ task[c].at = "idle" /\ accepted' = accepted + 1
        /\ \A k \in Client \ {c} :
              /\ task'[k].at = task[k].at /\ task'[k].op = task[k].op
              /\ task'[k].user = task[k].user /\ task'[k].row = task[k].row
              /\ task'[k].meta = task[k].meta
              /\ task'[k].alone => task[k].alone /\ ~Meets(k, op, u)
        /\ task'[c].at = at /\ task'[c].op = op /\ task'[c].user = u
        /\ task'[c].row = row
        /\ row # 0 => task'[c].meta = auths[row].meta
        /\ task'[c].alone => \A j \in Client : ~Meets(j, op, u)
    BY TaskAccepted
  <1>2. /\ \A v : AuthsOf(v)' = AuthsOf(v)
        /\ \A v, i : FirstRow(v, i)' <=> FirstRow(v, i)
    BY SameRows
  <1>3. HistoriesOK' /\ ToldInv' /\ GivenInv'
    BY <1>2 DEF HistoryInv, HistoriesOK, ToldInv, GivenInv
  <1>4. Owned' /\ CreateTask'
    BY <1>1 DEF HistoryInv, TasksInv, Owned, CreateTask
  <1>5. RowsHeld'
    <2>1. SUFFICES ASSUME NEW k \in Client, task'[k].at = "write"
                   PROVE  /\ task'[k].op \in SecondFactor =>
                                FirstRow(task'[k].user, task'[k].row)
                          /\ task'[k].op = "password" /\ task'[k].row # 0 =>
                                task'[k].row \in AuthsOf(task'[k].user)
      BY <1>2 DEF RowsHeld, FirstRow, AuthsOf
    <2>2. CASE k = c
      BY <1>1, <2>2
    <2>3. CASE k # c
      BY <1>1, <2>1, <2>3 DEF HistoryInv, TasksInv, RowsHeld
    <2> QED BY <2>2, <2>3
  <1>6. TasksMet'
    <2>1. SUFFICES ASSUME NEW a \in Client, NEW k \in Client,
                          NEW kind \in {SecondFactor, Credential}, a # k,
                          task'[a].at # "idle", task'[k].at # "idle",
                          task'[a].op \in kind, task'[k].op \in kind,
                          task'[a].user = task'[k].user
                   PROVE  ~task'[a].alone
      BY DEF TasksMet
    <2>2. CASE a # c /\ k # c
      BY <1>1, <2>1, <2>2 DEF HistoryInv, TasksInv, TasksMet
    <2>3. \A op2 : op2 \in kind => Kind(op2) = kind
      BY DEF Kind, SecondFactor, Credential
    <2>4. CASE a = c
      BY <1>1, <2>1, <2>3, <2>4 DEF Meets
    <2>5. CASE k = c
      BY <1>1, <2>1, <2>3, <2>5 DEF Meets
    <2> QED BY <2>2, <2>4, <2>5
  <1>7. AloneHolds'
    <2>1. SUFFICES ASSUME NEW k \in Client, task'[k].alone
                   PROVE  /\ task'[k].at = "write" /\ task'[k].op \in SecondFactor =>
                                task'[k].meta = auths[task'[k].row].meta
                          /\ InsertsNext(task'[k]) => AuthsOf(task'[k].user) = {}
      BY <1>2 DEF AloneHolds, AuthsOf
    <2>2. CASE k = c
      BY <1>1, <2>2 DEF InsertsNext
    <2>3. CASE k # c
      BY <1>1, <2>1, <2>3 DEF HistoryInv, TasksInv, AloneHolds, InsertsNext
    <2> QED BY <2>2, <2>3
  <1> QED BY <1>3, <1>4, <1>5, <1>6, <1>7 DEF HistoryInv, TasksInv

-----------------------------------------------------------------------------
(* The request ends, or goes on to grant the permissions.                  *)
Left(c) ==
    /\ \A k \in Client \ {c} : task'[k] = task[k]
    /\ \/ task'[c].at = "idle"
       \/ /\ task[c].at = "auth" /\ task'[c].at = "grant"
          /\ task'[c].op = task[c].op /\ task'[c].user = task[c].user
          /\ task'[c].alone = task[c].alone

LEMMA EndTaskLeaves ==
    ASSUME FactorInv, NEW c \in Client, EndTask(c)
    PROVE  Left(c) /\ accepted' = accepted
  BY DEF EndTask, Left, FactorInv, NoTask

(* A step of a request that writes only what others of its kind would.     *)
LEMMA TasksLeft ==
    ASSUME FactorInv, TasksInv, NEW c \in Client, Left(c), task[c].at # "idle",
           DOMAIN users' = DOMAIN users, DOMAIN auths \subseteq DOMAIN auths',
           \A i \in DOMAIN auths' : auths'[i].user \in DOMAIN users,
           \A v, i : FirstRow(v, i) => FirstRow(v, i)',
           \A v : AuthsOf(v) \subseteq AuthsOf(v)',
           \A v : AuthsOf(v)' = AuthsOf(v)
                  \/ (v = task[c].user /\ task[c].op \in Credential),
           \A i \in DOMAIN auths :
              auths'[i].meta = auths[i].meta
              \/ (auths[i].user = task[c].user /\ task[c].op \in SecondFactor)
    PROVE  TasksInv'
  <1>0. "create" \in Credential /\ "password" \in Credential
    BY DEF Credential
  <1>1. Owned' /\ CreateTask'
    BY DEF TasksInv, Owned, CreateTask, Left
  <1>2. RowsHeld'
    <2>1. SUFFICES ASSUME NEW k \in Client, task'[k].at = "write"
                   PROVE  /\ task'[k].op \in SecondFactor =>
                                FirstRow(task[k].user, task[k].row)'
                          /\ task'[k].op = "password" /\ task'[k].row # 0 =>
                                task'[k].row \in AuthsOf(task[k].user)'
      BY DEF RowsHeld
    <2>2. task'[k] = task[k]
      BY <2>1 DEF Left
    <2> DEFINE v == task[k].user
               i == task[k].row
    <2>3. PICK w : w = v
      OBVIOUS
    <2>4. PICK j : j = i
      OBVIOUS
    <2>5. /\ task[k].op \in SecondFactor => FirstRow(w, j)
          /\ task[k].op = "password" /\ j # 0 => j \in AuthsOf(w)
      BY <2>1, <2>2, <2>3, <2>4 DEF TasksInv, RowsHeld
    <2>6. /\ task[k].op \in SecondFactor => FirstRow(w, j)'
          /\ task[k].op = "password" /\ j # 0 => j \in AuthsOf(w)'
      BY <2>5
    <2>7. w = task'[k].user /\ j = task'[k].row
      BY <2>2, <2>3, <2>4
    <2> QED BY <2>2, <2>6, <2>7
  <1>3. TasksMet'
    <2>1. \A k \in Client : task'[k].at # "idle" =>
             /\ task[k].at # "idle" /\ task'[k].op = task[k].op
             /\ task'[k].user = task[k].user /\ task'[k].alone = task[k].alone
      BY DEF Left
    <2> QED BY <2>1 DEF TasksInv, TasksMet
  <1>4. AloneHolds'
    <2>1. SUFFICES ASSUME NEW k \in Client, task'[k].alone
                   PROVE  /\ task'[k].at = "write" /\ task'[k].op \in SecondFactor =>
                                task'[k].meta = auths'[task'[k].row].meta
                          /\ InsertsNext(task'[k]) => AuthsOf(task[k].user)' = {}
      BY DEF AloneHolds
    <2>2. CASE k = c
      BY <2>2 DEF Left, InsertsNext
    <2>3. CASE k # c
      <3>1. task'[k] = task[k]
        BY <2>3 DEF Left
      <3>2. PICK w : w = task[k].user
        OBVIOUS
      <3>3. w = task'[k].user
        BY <3>1, <3>2
      <3>4. ASSUME task[k].at = "write", task[k].op \in SecondFactor
            PROVE  task[k].meta = auths'[task[k].row].meta
        <4>1. task[k].row \in AuthsOf(w) /\ task[k].meta = auths[task[k].row].meta
          BY <2>1, <3>1, <3>2, <3>4 DEF TasksInv, RowsHeld, FirstRow, AloneHolds
        <4>2. task[k].row \in DOMAIN auths /\ auths[task[k].row].user = w
          BY <4>1 DEF AuthsOf
        <4>3. ~(w = task[c].user /\ task[c].op \in SecondFactor)
          BY <2>1, <2>3, <3>1, <3>2, <3>4 DEF TasksInv, TasksMet
        <4> QED BY <4>1, <4>2, <4>3
      <3>5. ASSUME InsertsNext(task[k]) PROVE AuthsOf(w)' = {}
        <4>1. task[k].op \in Credential /\ task[k].at # "idle"
          BY <1>0, <3>5 DEF TasksInv, CreateTask, InsertsNext
        <4>2. AuthsOf(w) = {}
          BY <2>1, <3>1, <3>2, <3>5 DEF TasksInv, AloneHolds
        <4>3. ~(w = task[c].user /\ task[c].op \in Credential)
          BY <2>1, <2>3, <3>1, <3>2, <4>1 DEF TasksInv, TasksMet
        <4> QED BY <4>2, <4>3
      <3> QED BY <3>1, <3>3, <3>4, <3>5
    <2> QED BY <2>2, <2>3
  <1> QED BY <1>1, <1>2, <1>3, <1>4 DEF TasksInv

-----------------------------------------------------------------------------
(* A row that is inserted, with a password its user is given.              *)
LEMMA InsertHistory ==
    ASSUME FactorInv, HistoryInv, NEW c \in Client, Left(c), NEW p \in Password,
           InsertsNext(task[c]), accepted' = accepted, UNCHANGED <<users, told>>,
           auths' = Append(auths, [user |-> task[c].user, password |-> p,
                                   meta |-> NoMeta]),
           given' = [given EXCEPT ![task[c].user] =
                       [sure |-> task[c].alone, password |-> p]]
    PROVE  HistoryInv'
  <1>1. PICK u : u = task[c].user
    OBVIOUS
  <1>2. task[c] \in TaskRow
    BY DEF FactorInv
  <1>3. task[c].at # "idle" /\ task[c].op \in Credential
    BY DEF InsertsNext, HistoryInv, TasksInv, CreateTask, Credential
  <1>4. u \in DOMAIN users /\ u \in UserId /\ u \in Nat
    BY <1>1, <1>2, <1>3, UsersAreIds DEF HistoryInv, TasksInv, Owned, TaskRow
  <1>5. /\ DOMAIN auths' = 1..(Len(auths) + 1)
        /\ \A i \in DOMAIN auths : auths'[i] = auths[i]
        /\ auths'[Len(auths) + 1].user = u /\ auths'[Len(auths) + 1].password = p
        /\ \A v : v # u => AuthsOf(v)' = AuthsOf(v)
        /\ AuthsOf(u)' = AuthsOf(u) \cup {Len(auths) + 1}
        /\ \A v, i : FirstRow(v, i) => FirstRow(v, i)'
        /\ \A v, i : AuthsOf(v) # {} /\ FirstRow(v, i)' => FirstRow(v, i)
    BY <1>1, <1>4, AppendedRows
  <1>6. /\ Len(auths) \in Nat /\ DOMAIN auths = 1..Len(auths)
        /\ \A v : AuthsOf(v) \subseteq 1..Len(auths)
    BY RowsAreNat
  <1>7. TasksInv'
    <2>1. \A i \in DOMAIN auths' : auths'[i].user \in DOMAIN users
      BY <1>4, <1>5, <1>6 DEF HistoryInv, TasksInv, Owned
    <2>2. /\ \A v : AuthsOf(v) \subseteq AuthsOf(v)'
          /\ \A v : AuthsOf(v)' = AuthsOf(v) \/ (v = u /\ task[c].op \in Credential)
      BY <1>3, <1>5
    <2>3. DOMAIN auths \subseteq DOMAIN auths'
      BY <1>5, <1>6
    <2>4. \A i \in DOMAIN auths : auths'[i].meta = auths[i].meta
      BY <1>5
    <2> QED BY <1>1, <1>3, <1>5, <2>1, <2>2, <2>3, <2>4, TasksLeft DEF HistoryInv
  <1>8. HistoriesOK'
    <2>1. [sure |-> task[c].alone, password |-> p] \in GivenRow
      BY <1>2 DEF GivenRow, TaskRow
    <2> QED BY <1>1, <1>4, <2>1 DEF HistoryInv, HistoriesOK
  <1>9. ToldInv'
    <2>1. SUFFICES ASSUME NEW v \in UserId, told[v].sure
                   PROVE  /\ AuthsOf(v)' # {}
                          /\ \A i \in AuthsOf(v)' : FirstRow(v, i)' =>
                                /\ auths'[i].meta.secret = told[v].secret
                                /\ auths'[i].meta.codes = told[v].codes
      BY DEF ToldInv
    <2>2. AuthsOf(v) # {}
      BY <2>1 DEF HistoryInv, ToldInv
    <2>3. AuthsOf(v)' # {}
      BY <1>5, <2>2
    <2>4. ASSUME NEW i \in AuthsOf(v)', FirstRow(v, i)'
          PROVE  /\ auths'[i].meta.secret = told[v].secret
                 /\ auths'[i].meta.codes = told[v].codes
      <3>1. FirstRow(v, i)
        BY <1>5, <2>2, <2>4
      <3>2. i \in AuthsOf(v) /\ i \in DOMAIN auths
        BY <1>6, <3>1 DEF FirstRow
      <3> QED BY <1>5, <2>1, <3>1, <3>2 DEF HistoryInv, ToldInv
    <2> QED BY <2>3, <2>4
  <1>10. GivenInv'
    <2>1. SUFFICES ASSUME NEW v \in UserId, given'[v].sure
                   PROVE  /\ AuthsOf(v)' # {}
                          /\ \A i \in AuthsOf(v)' : FirstRow(v, i)' =>
                                auths'[i].password = given'[v].password
      BY DEF GivenInv
    <2>2. CASE v = u
      <3>1. given'[v] = [sure |-> task[c].alone, password |-> p]
        BY <1>1, <2>2 DEF HistoryInv, HistoriesOK
      <3>2. task[c].alone /\ given'[v].password = p
        BY <2>1, <3>1
      <3>3. AuthsOf(u) = {}
        BY <1>1, <3>2 DEF HistoryInv, TasksInv, AloneHolds
      <3> QED BY <1>5, <2>2, <3>2, <3>3
    <2>3. CASE v # u
      <3>1. given'[v] = given[v]
        BY <1>1, <2>3 DEF HistoryInv, HistoriesOK
      <3>2. AuthsOf(v) # {}
        BY <2>1, <3>1 DEF HistoryInv, GivenInv
      <3>3. AuthsOf(v)' # {}
        BY <1>5, <3>2
      <3>4. ASSUME NEW i \in AuthsOf(v)', FirstRow(v, i)'
            PROVE  auths'[i].password = given[v].password
        <4>1. FirstRow(v, i)
          BY <1>5, <3>2, <3>4
        <4>2. i \in AuthsOf(v) /\ i \in DOMAIN auths
          BY <1>6, <4>1 DEF FirstRow
        <4> QED BY <1>5, <2>1, <3>1, <4>1, <4>2 DEF HistoryInv, GivenInv
      <3> QED BY <3>1, <3>3, <3>4
    <2> QED BY <2>2, <2>3
  <1> QED BY <1>7, <1>8, <1>9, <1>10 DEF HistoryInv

(* A password that is patched, in all rows of its user.                    *)
LEMMA PatchHistory ==
    ASSUME FactorInv, HistoryInv, NEW c \in Client, Left(c), NEW p \in Password,
           Writing(c, "password"), task[c].row # 0,
           accepted' = accepted, UNCHANGED <<users, told>>,
           auths' = [i \in DOMAIN auths |->
                       IF i \in AuthsOf(task[c].user)
                       THEN [auths[i] EXCEPT !.password = p] ELSE auths[i]],
           given' = [given EXCEPT ![task[c].user] =
                       [sure |-> task[c].alone, password |-> p]]
    PROVE  HistoryInv'
  <1>1. PICK u : u = task[c].user
    OBVIOUS
  <1>2. task[c] \in TaskRow /\ task[c].at # "idle"
    BY DEF FactorInv, Writing
  <1>3. u \in DOMAIN users /\ u \in UserId
    BY <1>1, <1>2, UsersAreIds DEF HistoryInv, TasksInv, Owned
  <1>4. AuthsOf(u) # {}
    BY <1>1 DEF HistoryInv, TasksInv, RowsHeld, Writing
  <1>5. DOMAIN auths' = DOMAIN auths /\ \A i \in DOMAIN auths : auths[i] \in AuthRow
    BY RowsAreNat
  <1>6. ASSUME NEW i \in DOMAIN auths
        PROVE  /\ auths'[i].user = auths[i].user /\ auths'[i].meta = auths[i].meta
               /\ i \in AuthsOf(u) => auths'[i].password = p
               /\ i \notin AuthsOf(u) => auths'[i] = auths[i]
    BY <1>1, <1>5 DEF AuthRow
  <1>7. /\ \A v : AuthsOf(v)' = AuthsOf(v)
        /\ \A v, i : FirstRow(v, i)' <=> FirstRow(v, i)
    BY <1>5, <1>6, SameRows
  <1>8. \A v : AuthsOf(v) \subseteq DOMAIN auths
    BY DEF AuthsOf
  <1>9. TasksInv'
    <2>1. \A i \in DOMAIN auths' : auths'[i].user \in DOMAIN users
      BY <1>5, <1>6 DEF HistoryInv, TasksInv, Owned
    <2>2. \A v : AuthsOf(v) \subseteq AuthsOf(v)'
      BY <1>7
    <2> QED BY <1>2, <1>5, <1>6, <1>7, <2>1, <2>2, TasksLeft DEF HistoryInv
  <1>10. HistoriesOK'
    <2>1. [sure |-> task[c].alone, password |-> p] \in GivenRow
      BY <1>2 DEF GivenRow, TaskRow
    <2> QED BY <1>1, <1>3, <2>1 DEF HistoryInv, HistoriesOK
  <1>11. ToldInv'
    BY <1>6, <1>7, <1>8 DEF HistoryInv, ToldInv
  <1>12. GivenInv'
    <2>1. SUFFICES ASSUME NEW v \in UserId, given'[v].sure
                   PROVE  /\ AuthsOf(v) # {}
                          /\ \A i \in AuthsOf(v) : FirstRow(v, i) =>
                                auths'[i].password = given'[v].password
      BY <1>7 DEF GivenInv
    <2>2. CASE v = u
      <3>1. given'[v].password = p
        BY <1>1, <2>2 DEF HistoryInv, HistoriesOK
      <3> QED BY <1>4, <1>6, <1>8, <2>2, <3>1
    <2>3. CASE v # u
      <3>1. given'[v] = given[v]
        BY <1>1, <2>3 DEF HistoryInv, HistoriesOK
      <3>2. \A i \in AuthsOf(v) : auths'[i] = auths[i]
        BY <1>6, <1>8, <2>3 DEF AuthsOf
      <3> QED BY <2>1, <3>1, <3>2 DEF HistoryInv, GivenInv
    <2> QED BY <2>2, <2>3
  <1> QED BY <1>9, <1>10, <1>11, <1>12 DEF HistoryInv

(* A meta that is written as its user is told.                             *)
LEMMA WriteMetaHistory ==
    ASSUME FactorInv, HistoryInv, NEW c \in Client, NEW op \in SecondFactor,
           Writing(c, op), NEW meta \in Meta, NEW factor \in ToldRow,
           WriteMeta(c, meta, factor),
           factor.sure => meta.secret = factor.secret /\ meta.codes = factor.codes
    PROVE  HistoryInv'
  <1>1. PICK u : u = task[c].user
    OBVIOUS
  <1>2. PICK r : r = task[c].row
    OBVIOUS
  <1>3. task[c] \in TaskRow /\ task[c].at # "idle" /\ task[c].op \in SecondFactor
    BY DEF FactorInv, Writing
  <1>4. u \in DOMAIN users /\ u \in UserId
    BY <1>1, <1>3, UsersAreIds DEF HistoryInv, TasksInv, Owned
  <1>5. FirstRow(u, r)
    BY <1>1, <1>2, <1>3 DEF HistoryInv, TasksInv, RowsHeld, Writing
  <1>6. Left(c) /\ accepted' = accepted /\ UNCHANGED <<users, given>>
    BY EndTaskLeaves DEF WriteMeta
  <1>7. /\ auths' = [auths EXCEPT ![r].meta = meta]
        /\ told' = [told EXCEPT ![u] = factor]
    BY <1>1, <1>2 DEF WriteMeta
  <1>8. r \in DOMAIN auths /\ auths[r].user = u
    BY <1>5 DEF FirstRow, AuthsOf
  <1>9. DOMAIN auths' = DOMAIN auths /\ \A i \in DOMAIN auths : auths[i] \in AuthRow
    BY <1>7, RowsAreNat
  <1>10. /\ auths'[r].user = u /\ auths'[r].password = auths[r].password
         /\ auths'[r].meta = meta
    <2>1. auths'[r] = [auths[r] EXCEPT !.meta = meta]
      BY <1>7, <1>8
    <2> QED BY <1>8, <1>9, <2>1 DEF AuthRow
  <1>11. \A i \in DOMAIN auths : i # r => auths'[i] = auths[i]
    BY <1>7
  <1>12. \A i \in DOMAIN auths : auths'[i].user = auths[i].user
                                 /\ auths'[i].password = auths[i].password
    BY <1>8, <1>10, <1>11
  <1>13. /\ \A v : AuthsOf(v)' = AuthsOf(v)
         /\ \A v, i : FirstRow(v, i)' <=> FirstRow(v, i)
    BY <1>9, <1>12, SameRows
  <1>14. \A v : AuthsOf(v) \subseteq DOMAIN auths
    BY DEF AuthsOf
  <1>15. TasksInv'
    <2>1. \A i \in DOMAIN auths' : auths'[i].user \in DOMAIN users
      BY <1>9, <1>12 DEF HistoryInv, TasksInv, Owned
    <2>2. \A v : AuthsOf(v) \subseteq AuthsOf(v)'
      BY <1>13
    <2>3. \A i \in DOMAIN auths :
             auths'[i].meta = auths[i].meta
             \/ (auths[i].user = u /\ task[c].op \in SecondFactor)
      BY <1>3, <1>8, <1>11
    <2> QED BY <1>1, <1>3, <1>6, <1>9, <1>13, <2>1, <2>2, <2>3, TasksLeft DEF HistoryInv
  <1>16. HistoriesOK'
    BY <1>4, <1>6, <1>7 DEF HistoryInv, HistoriesOK
  <1>17. GivenInv'
    BY <1>6, <1>12, <1>13, <1>14 DEF HistoryInv, GivenInv
  <1>18. ToldInv'
    <2>1. SUFFICES ASSUME NEW v \in UserId, told'[v].sure
                   PROVE  /\ AuthsOf(v) # {}
                          /\ \A i \in AuthsOf(v) : FirstRow(v, i) =>
                                /\ auths'[i].meta.secret = told'[v].secret
                                /\ auths'[i].meta.codes = told'[v].codes
      BY <1>13 DEF ToldInv
    <2>2. CASE v = u
      <3>1. told'[v] = factor
        BY <1>7, <2>2 DEF HistoryInv, HistoriesOK
      <3>2. \A i : FirstRow(u, i) => i = r
        BY <1>5, FirstAuthIsFirst
      <3> QED BY <1>5, <1>10, <2>1, <2>2, <3>1, <3>2 DEF FirstRow
    <2>3. CASE v # u
      <3>1. told'[v] = told[v]
        BY <1>7, <2>3 DEF HistoryInv, HistoriesOK
      <3>2. \A i \in AuthsOf(v) : auths'[i] = auths[i]
        BY <1>8, <1>11, <1>14, <2>3 DEF AuthsOf
      <3> QED BY <2>1, <3>1, <3>2 DEF HistoryInv, ToldInv
    <2> QED BY <2>2, <2>3
  <1> QED BY <1>15, <1>16, <1>17, <1>18 DEF HistoryInv

(* What a user is told is what the request has written, as long as it read *)
(* what the user was last told.                                            *)
LEMMA SecondFactorHistory ==
    ASSUME FactorInv, HistoryInv, NEW c \in Client,
           \/ StartSetup(c) \/ Enable(c) \/ Disable(c)
           \/ RegenerateBackupCodes(c) \/ LoginWithCode(c)
    PROVE  HistoryInv'
  <1> DEFINE meta  == task[c].meta
             stamp == task[c].stamp
             alone == task[c].alone
             last  == told[task[c].user]
  <1>1. task[c] \in TaskRow /\ TaskOk(task[c], auths)
    BY DEF FactorInv
  <1>2. meta \in Meta /\ stamp \in Stamp /\ alone \in BOOLEAN
    BY <1>1 DEF TaskRow
  <1>3. {"setup", "enable", "disable", "regenerate", "login"} \subseteq SecondFactor
    BY DEF SecondFactor
  <1>4. \A op : Writing(c, op) /\ op \in SecondFactor =>
            /\ Allowed(op, meta)
            /\ last \in ToldRow
            /\ last.sure /\ alone => meta.secret = last.secret /\ meta.codes = last.codes
    <2>1. SUFFICES ASSUME NEW op, Writing(c, op), op \in SecondFactor
                   PROVE  /\ Allowed(op, meta)
                          /\ last \in ToldRow
                          /\ last.sure /\ alone => /\ meta.secret = last.secret
                                                   /\ meta.codes = last.codes
      OBVIOUS
    <2>2. task[c].at # "idle" /\ task[c].user \in UserId
      BY <2>1, UsersAreIds DEF HistoryInv, TasksInv, Owned, Writing
    <2>3. Allowed(op, meta) /\ last \in ToldRow
      BY <1>1, <2>1, <2>2 DEF TaskOk, Writing, HistoryInv, HistoriesOK
    <2>4. FirstRow(task[c].user, task[c].row)
      BY <2>1 DEF HistoryInv, TasksInv, RowsHeld, Writing
    <2>5. task[c].row \in AuthsOf(task[c].user)
      BY <2>4 DEF FirstRow
    <2>6. ASSUME last.sure, alone
          PROVE  meta.secret = last.secret /\ meta.codes = last.codes
      <3>1. meta = auths[task[c].row].meta
        BY <2>1, <2>6 DEF HistoryInv, TasksInv, AloneHolds, Writing
      <3> QED BY <2>2, <2>4, <2>5, <2>6, <3>1 DEF HistoryInv, ToldInv
    <2> QED BY <2>3, <2>6
  <1>5. \A batch \in Stamp : Codes(batch) \in SUBSET (Stamp \X {1, 2})
    BY DEF Codes
  <1>6. \A codes \in SUBSET (Stamp \X {1, 2}) :
           last \in ToldRow =>
              /\ Changed(c, codes) \in ToldRow
              /\ Changed(c, codes).secret = last.secret /\ Changed(c, codes).codes = codes
              /\ Changed(c, codes).sure => last.sure /\ alone
    <2>1. SUFFICES ASSUME NEW codes \in SUBSET (Stamp \X {1, 2}), last \in ToldRow
                   PROVE  /\ Changed(c, codes) \in ToldRow
                          /\ Changed(c, codes).secret = last.secret
                          /\ Changed(c, codes).codes = codes
                          /\ Changed(c, codes).sure => last.sure /\ alone
      OBVIOUS
    <2> DEFINE sure == last.sure /\ alone
    <2>2. Changed(c, codes) = [last EXCEPT !.sure = sure, !.codes = codes]
      BY <2>1 DEF Changed
    <2>3. sure \in BOOLEAN /\ (sure => last.sure /\ alone)
      OBVIOUS
    <2> HIDE DEF sure, last, alone
    <2> DEFINE new == [last EXCEPT !.sure = sure, !.codes = codes]
    <2>4. /\ new \in ToldRow /\ new.secret = last.secret /\ new.codes = codes
          /\ new.sure = sure
      BY <2>1, <2>3 DEF ToldRow
    <2> HIDE DEF new
    <2>5. Changed(c, codes) = new
      BY <2>2 DEF new
    <2> QED BY <2>3, <2>4, <2>5
  <1>7. \A secret \in Stamp \cup {-1}, codes \in SUBSET (Stamp \X {1, 2}) :
           /\ Whole(c, secret, codes) \in ToldRow
           /\ Whole(c, secret, codes).secret = secret
           /\ Whole(c, secret, codes).codes = codes
    BY <1>2 DEF Whole, ToldRow
  <1>8. CASE StartSetup(c)
    <2> DEFINE new    == [meta EXCEPT !.pending = stamp]
               factor == Changed(c, last.codes)
    <2>1. WriteMeta(c, new, factor) /\ Writing(c, "setup")
      BY <1>8 DEF StartSetup
    <2>2. /\ last \in ToldRow
          /\ last.sure /\ alone => meta.secret = last.secret /\ meta.codes = last.codes
      BY <1>3, <1>4, <2>1
    <2>3. last.codes \in SUBSET (Stamp \X {1, 2})
      BY <2>2 DEF ToldRow
    <2>4. new \in Meta /\ new.secret = meta.secret /\ new.codes = meta.codes
      BY <1>2 DEF Meta
    <2>5. /\ factor \in ToldRow /\ factor.secret = last.secret /\ factor.codes = last.codes
          /\ factor.sure => last.sure /\ alone
      BY <1>6, <2>2, <2>3
    <2>6. factor.sure => new.secret = factor.secret /\ new.codes = factor.codes
      BY <2>2, <2>4, <2>5
    <2> HIDE DEF new, factor
    <2> QED BY <1>3, <2>1, <2>4, <2>5, <2>6, WriteMetaHistory
  <1>9. CASE Enable(c)
    <2> DEFINE new    == Ready(meta.pending, stamp)
               factor == Whole(c, meta.pending, Codes(stamp))
    <2>1. WriteMeta(c, new, factor) /\ Writing(c, "enable")
      BY <1>9 DEF Enable
    <2>2. Allowed("enable", meta)
      BY <1>3, <1>4, <2>1
    <2>3. meta.pending \in Stamp
      BY <1>2, <2>2 DEF Allowed, Meta
    <2>4. new \in Meta /\ new.secret = meta.pending /\ new.codes = Codes(stamp)
      BY <1>2, <2>3, ReadyOk DEF Ready
    <2>5. /\ factor \in ToldRow /\ factor.secret = meta.pending
          /\ factor.codes = Codes(stamp)
      BY <1>2, <1>5, <1>7, <2>3
    <2>6. factor.sure => new.secret = factor.secret /\ new.codes = factor.codes
      BY <2>4, <2>5
    <2> HIDE DEF new, factor
    <2> QED BY <1>3, <2>1, <2>4, <2>5, <2>6, WriteMetaHistory
  <1>10. CASE Disable(c)
    <2> DEFINE new    == [meta EXCEPT !.secret = -1, !.enabled = FALSE, !.codes = {}]
               factor == Whole(c, -1, {})
    <2>1. WriteMeta(c, new, factor) /\ Writing(c, "disable")
      BY <1>10 DEF Disable
    <2>2. new \in Meta /\ new.secret = -1 /\ new.codes = {}
      BY <1>2 DEF Meta
    <2>3. -1 \in Stamp \cup {-1} /\ {} \in SUBSET (Stamp \X {1, 2})
      OBVIOUS
    <2>4. factor \in ToldRow /\ factor.secret = -1 /\ factor.codes = {}
      BY <1>7, <2>3
    <2>5. factor.sure => new.secret = factor.secret /\ new.codes = factor.codes
      BY <2>2, <2>4
    <2> HIDE DEF new, factor
    <2> QED BY <1>3, <2>1, <2>2, <2>4, <2>5, WriteMetaHistory
  <1>11. CASE RegenerateBackupCodes(c)
    <2> DEFINE new    == [meta EXCEPT !.codes = Codes(stamp)]
               factor == Changed(c, Codes(stamp))
    <2>1. WriteMeta(c, new, factor) /\ Writing(c, "regenerate")
      BY <1>11 DEF RegenerateBackupCodes
    <2>2. /\ last \in ToldRow
          /\ last.sure /\ alone => meta.secret = last.secret /\ meta.codes = last.codes
      BY <1>3, <1>4, <2>1
    <2>3. Codes(stamp) \in SUBSET (Stamp \X {1, 2})
      BY <1>2, <1>5
    <2>4. new \in Meta /\ new.secret = meta.secret /\ new.codes = Codes(stamp)
      BY <1>2, <2>3 DEF Meta
    <2>5. /\ factor \in ToldRow /\ factor.secret = last.secret
          /\ factor.codes = Codes(stamp) /\ (factor.sure => last.sure /\ alone)
      BY <1>6, <2>2, <2>3
    <2>6. factor.sure => new.secret = factor.secret /\ new.codes = factor.codes
      BY <2>2, <2>4, <2>5
    <2> HIDE DEF new, factor
    <2> QED BY <1>3, <2>1, <2>4, <2>5, <2>6, WriteMetaHistory
  <1>12. CASE LoginWithCode(c)
    <2>1. PICK code \in meta.codes :
             WriteMeta(c, [meta EXCEPT !.codes = @ \ {code}],
                       Changed(c, last.codes \ {code})) /\ Writing(c, "login")
      BY <1>12 DEF LoginWithCode
    <2>2. /\ last \in ToldRow
          /\ last.sure /\ alone => meta.secret = last.secret /\ meta.codes = last.codes
      BY <1>3, <1>4, <2>1
    <2> DEFINE left   == meta.codes \ {code}
               new    == [meta EXCEPT !.codes = left]
               rest   == last.codes \ {code}
               factor == Changed(c, rest)
    <2>3. /\ left \in SUBSET (Stamp \X {1, 2})
          /\ [meta EXCEPT !.codes = @ \ {code}] = [meta EXCEPT !.codes = left]
      BY <1>2 DEF Meta
    <2>4. rest \in SUBSET (Stamp \X {1, 2})
      BY <2>2 DEF ToldRow
    <2>5. last.sure /\ alone => meta.secret = last.secret /\ left = rest
      BY <2>2
    <2> HIDE DEF left, rest
    <2>6. new \in Meta /\ new.secret = meta.secret /\ new.codes = left
      BY <1>2, <2>3 DEF Meta
    <2>7. /\ factor \in ToldRow /\ factor.secret = last.secret
          /\ factor.codes = rest /\ (factor.sure => last.sure /\ alone)
      BY <1>6, <2>2, <2>4
    <2>8. factor.sure => new.secret = factor.secret /\ new.codes = factor.codes
      BY <2>5, <2>6, <2>7
    <2>9. WriteMeta(c, new, factor)
      BY <2>1, <2>3 DEF rest
    <2> HIDE DEF new, factor
    <2> QED BY <1>3, <2>1, <2>6, <2>7, <2>8, <2>9, WriteMetaHistory
  <1> QED BY <1>8, <1>9, <1>10, <1>11, <1>12

LEMMA HistoryInit == AccountInit => HistoryInv
  <1> SUFFICES ASSUME AccountInit PROVE HistoryInv
    OBVIOUS
  <1>1. 0 \in Stamp /\ 1 \in UserId
    BY AccountAssumption DEF Stamp, UserId
  <1>2. PICK p \in Password, meta \in {NoMeta, Ready(0, 0)} :
          /\ auths = <<[user |-> 1, password |-> p, meta |-> meta]>>
          /\ told = [u \in UserId |->
                       IF u = 1 THEN [sure |-> TRUE, secret |-> meta.secret,
                                      codes |-> meta.codes]
                       ELSE Unsure]
          /\ given = [u \in UserId |-> [sure |-> u = 1, password |-> p]]
    BY DEF AccountInit
  <1>3. meta \in Meta
    BY <1>1, NoMetaOk, ReadyOk
  <1>4. DOMAIN auths = {1} /\ auths[1] = [user |-> 1, password |-> p, meta |-> meta]
    BY <1>2
  <1>5. DOMAIN users = {1} /\ Len(users) = 1 /\ accepted = 0
    BY DEF AccountInit
  <1>6. \A c \in Client : task[c].at = "idle"
    BY DEF AccountInit, NoTask
  <1>7. TasksInv
    BY <1>4, <1>5, <1>6
       DEF TasksInv, Owned, CreateTask, RowsHeld, TasksMet, AloneHolds, InsertsNext
  <1>8. AuthsOf(1) = {1}
    BY <1>4 DEF AuthsOf
  <1>9. [sure |-> TRUE, secret |-> meta.secret, codes |-> meta.codes] \in ToldRow
        /\ Unsure \in ToldRow
    BY <1>3 DEF ToldRow, Meta, Unsure
  <1>10. told \in [UserId -> ToldRow]
    BY <1>2, <1>9
  <1> DEFINE first(u) == [sure |-> u = 1, password |-> p]
  <1>11. given \in [UserId -> GivenRow]
    <2>1. \A u \in UserId : first(u) \in GivenRow
      BY DEF GivenRow
    <2>2. given = [u \in UserId |-> first(u)]
      BY <1>2
    <2> HIDE DEF first
    <2> QED BY <2>1, <2>2
  <1>12. HistoriesOK
    BY <1>5, <1>10, <1>11 DEF HistoriesOK
  <1>13. ToldInv
    <2>1. \A u \in UserId : told[u].sure => u = 1
      BY <1>2 DEF Unsure
    <2>2. told[1].secret = meta.secret /\ told[1].codes = meta.codes
      BY <1>1, <1>2
    <2> QED BY <1>4, <1>8, <2>1, <2>2 DEF ToldInv
  <1>14. GivenInv
    <2>1. \A u \in UserId : given[u].sure => u = 1
      BY <1>2
    <2>2. given[1].password = p
      BY <1>1, <1>2
    <2> QED BY <1>4, <1>8, <2>1, <2>2 DEF GivenInv
  <1> QED BY <1>7, <1>12, <1>13, <1>14 DEF HistoryInv

LEMMA HistoryNext ==
    FactorInv /\ HistoryInv /\ [AccountNext]_accountVars => HistoryInv'
  <1> SUFFICES ASSUME FactorInv, HistoryInv, [AccountNext]_accountVars PROVE HistoryInv'
    OBVIOUS
  <1>0. /\ users \in Seq(UserRow) /\ accepted \in Nat
        /\ Len(users) <= accepted + 1 /\ Len(users) \in Nat
        /\ DOMAIN users = 1..Len(users)
    BY AccountAssumption DEF FactorInv, Stamp, HistoryInv, HistoriesOK
  <1>1. ASSUME NEW c \in Client, CreateUser(c) PROVE HistoryInv'
    <2>1. PICK admin \in BOOLEAN, withAuth \in BOOLEAN :
             /\ AcceptTask(c, "create", Len(users) + 1,
                           IF withAuth THEN "auth" ELSE "grant", 0, admin)
             /\ users' = Append(users, [admin |-> admin, deleted |-> FALSE])
      BY <1>1 DEF CreateUser
    <2> DEFINE at == IF withAuth THEN "auth" ELSE "grant"
               u  == Len(users) + 1
    <2>2. AcceptTask(c, "create", u, at, 0, admin)
      BY <2>1
    <2>3. UNCHANGED <<auths, told, given>>
      BY <1>1 DEF CreateUser
    <2>4. [admin |-> admin, deleted |-> FALSE] \in UserRow
      BY DEF UserRow
    <2>5. DOMAIN users' = 1..(Len(users) + 1) /\ Len(users') = Len(users) + 1
      BY <1>0, <2>1, <2>4
    <2>6. accepted' = accepted + 1
      BY <2>2 DEF AcceptTask
    <2>7. /\ DOMAIN users \subseteq DOMAIN users' /\ Len(users') <= accepted' + 1
          /\ u \in DOMAIN users' /\ u \notin DOMAIN users
      BY <1>0, <2>5, <2>6
    <2>8. AuthsOf(u) = {}
      BY <2>7 DEF AuthsOf, HistoryInv, TasksInv, Owned
    <2>9. "create" \notin SecondFactor
      BY DEF SecondFactor
    <2> HIDE DEF at, u
    <2> QED BY <2>2, <2>3, <2>7, <2>8, <2>9, TasksAccepted
  <1>2. ASSUME NEW c \in Client, InsertAuth(c) PROVE HistoryInv'
    <2>1. PICK p \in Password :
             /\ auths' = Append(auths, [user |-> task[c].user, password |-> p,
                                        meta |-> NoMeta])
             /\ given' = [given EXCEPT ![task[c].user] =
                            [sure |-> task[c].alone, password |-> p]]
      BY <1>2 DEF InsertAuth
    <2>2. task[c].at = "auth" /\ accepted' = accepted /\ UNCHANGED <<users, told>>
          /\ task' = [task EXCEPT ![c].at = "grant", ![c].row = Len(auths')]
      BY <1>2 DEF InsertAuth
    <2> DEFINE n    == Len(auths')
               mine == [task[c] EXCEPT !.at = "grant", !.row = n]
    <2>3. task[c] \in TaskRow
      BY DEF FactorInv
    <2>4. task' = [task EXCEPT ![c] = mine]
      BY <2>2
    <2> HIDE DEF n
    <2>5. /\ mine.at = "grant" /\ mine.op = task[c].op /\ mine.user = task[c].user
          /\ mine.alone = task[c].alone
      BY <2>3 DEF TaskRow
    <2> HIDE DEF mine
    <2>6. Left(c)
      BY <2>2, <2>4, <2>5 DEF Left, FactorInv
    <2>7. InsertsNext(task[c])
      BY <2>2 DEF InsertsNext
    <2> QED BY <2>1, <2>2, <2>6, <2>7, InsertHistory
  <1>3. ASSUME NEW c \in Client, Grant(c) \/ SetPermissions(c) \/ DeleteUser(c) \/ Refused(c)
        PROVE  HistoryInv'
    <2>1. EndTask(c) /\ UNCHANGED <<auths, told, given>> /\ task[c].at # "idle"
      BY <1>3 DEF Grant, SetPermissions, DeleteUser, Refused, Writing
    <2>2. DOMAIN users' = DOMAIN users /\ Len(users') = Len(users)
      <3>1. CASE DeleteUser(c)
        <4> DEFINE n == Len(users)
        <4>1. n \in Nat /\ users \in [1..n -> UserRow]
          BY <1>0
        <4> HIDE DEF n
        <4>2. users' \in [1..n -> UserRow]
          BY <3>1, <4>1 DEF DeleteUser, UserRow
        <4>3. users' \in Seq(UserRow) /\ Len(users') = n
          BY <4>1, <4>2
        <4> QED BY <1>0, <4>3 DEF n
      <3>2. CASE Grant(c) \/ SetPermissions(c) \/ Refused(c)
        BY <3>2 DEF Grant, SetPermissions, Refused
      <3> QED BY <1>3, <3>1, <3>2
    <2>3. Left(c) /\ accepted' = accepted
      BY <2>1, EndTaskLeaves
    <2>4. /\ \A v : AuthsOf(v)' = AuthsOf(v)
          /\ \A v, i : FirstRow(v, i)' <=> FirstRow(v, i)
      BY <2>1, SameRows
    <2>5. HistoriesOK' /\ ToldInv' /\ GivenInv'
      BY <2>1, <2>2, <2>3, <2>4 DEF HistoryInv, HistoriesOK, ToldInv, GivenInv
    <2>6. \A i \in DOMAIN auths' : auths'[i].user \in DOMAIN users
      BY <2>1 DEF HistoryInv, TasksInv, Owned
    <2>7. /\ DOMAIN auths \subseteq DOMAIN auths'
          /\ \A i \in DOMAIN auths : auths'[i].meta = auths[i].meta
          /\ \A v : AuthsOf(v) \subseteq AuthsOf(v)'
      BY <2>1, <2>4
    <2>8. TasksInv'
      BY <2>1, <2>2, <2>3, <2>4, <2>6, <2>7, TasksLeft DEF HistoryInv
    <2> QED BY <2>5, <2>8 DEF HistoryInv
  <1>4. ASSUME NEW c \in Client, SetPassword(c) PROVE HistoryInv'
    <2>1. PICK p \in Password :
             /\ auths' = IF task[c].row = 0
                         THEN Append(auths, [user |-> task[c].user, password |-> p,
                                             meta |-> NoMeta])
                         ELSE [i \in DOMAIN auths |->
                                 IF i \in AuthsOf(task[c].user)
                                 THEN [auths[i] EXCEPT !.password = p] ELSE auths[i]]
             /\ given' = [given EXCEPT ![task[c].user] =
                            [sure |-> task[c].alone, password |-> p]]
      BY <1>4 DEF SetPassword
    <2>2. EndTask(c) /\ UNCHANGED <<users, told>> /\ Writing(c, "password")
      BY <1>4 DEF SetPassword
    <2>3. Left(c) /\ accepted' = accepted
      BY <2>2, EndTaskLeaves
    <2>4. CASE task[c].row = 0
      <3>1. InsertsNext(task[c])
        BY <2>2, <2>4 DEF InsertsNext, Writing
      <3> QED BY <2>1, <2>2, <2>3, <2>4, <3>1, InsertHistory
    <2>5. CASE task[c].row # 0
      BY <2>1, <2>2, <2>3, <2>5, PatchHistory
    <2> QED BY <2>4, <2>5
  <1>5. ASSUME NEW c \in Client, NEW u \in DOMAIN users,
               \/ ReadForPassword(c, u) \/ ReadForPermissions(c, u)
               \/ ReadForDelete(c, u)
               \/ \E op \in SecondFactor : ReadSecondFactor(c, op, u)
        PROVE  HistoryInv'
    <2>1. /\ AuthsOf(u) = {} <=> FirstAuth(u) = 0
          /\ AuthsOf(u) # {} => FirstRow(u, FirstAuth(u))
      BY FirstAuthIsFirst
    <2>2. FirstAuth(u) # 0 => FirstRow(u, FirstAuth(u)) /\ FirstAuth(u) \in AuthsOf(u)
      BY <2>1 DEF FirstRow
    <2>3. UNCHANGED <<users, auths, told, given>>
      BY <1>5 DEF ReadForPassword, ReadForPermissions, ReadForDelete, ReadSecondFactor
    <2>4. /\ {"password", "permissions", "delete"} \cap SecondFactor = {}
      BY DEF SecondFactor
    <2>5. accepted' = accepted + 1
      BY <1>5 DEF ReadForPassword, ReadForPermissions, ReadForDelete, ReadSecondFactor,
                  AcceptTask
    <2>6. DOMAIN users \subseteq DOMAIN users' /\ u \in DOMAIN users'
          /\ Len(users') <= accepted' + 1
      BY <1>0, <2>3, <2>5
    <2>7. CASE ReadForPassword(c, u)
      <3>1. AcceptTask(c, "password", u, "write", FirstAuth(u), FALSE)
        BY <2>7 DEF ReadForPassword
      <3> QED BY <2>1, <2>2, <2>3, <2>4, <2>6, <3>1, TasksAccepted
    <2>8. CASE ReadForPermissions(c, u)
      <3> DEFINE row == IF \E p \in perms : p.user = u THEN 1 ELSE 0
      <3>1. AcceptTask(c, "permissions", u, "write", row, FALSE)
        BY <2>8 DEF ReadForPermissions
      <3> HIDE DEF row
      <3> QED BY <2>3, <2>4, <2>6, <3>1, TasksAccepted
    <2>9. CASE ReadForDelete(c, u)
      <3>1. AcceptTask(c, "delete", u, "write", 0, FALSE)
        BY <2>9 DEF ReadForDelete
      <3> QED BY <2>3, <2>4, <2>6, <3>1, TasksAccepted
    <2>10. ASSUME NEW op \in SecondFactor, ReadSecondFactor(c, op, u) PROVE HistoryInv'
      <3>1. /\ AcceptTask(c, op, u, "write", FirstAuth(u), FALSE)
            /\ FirstAuth(u) # 0 /\ op # "password"
        BY <2>4, <2>10 DEF ReadSecondFactor
      <3> QED BY <2>2, <2>3, <2>6, <3>1, TasksAccepted
    <2> QED BY <1>5, <2>7, <2>8, <2>9, <2>10
  <1>6. ASSUME NEW c \in Client,
               \/ StartSetup(c) \/ Enable(c) \/ Disable(c)
               \/ RegenerateBackupCodes(c) \/ LoginWithCode(c)
        PROVE  HistoryInv'
    BY <1>6, SecondFactorHistory
  <1>7. CASE UNCHANGED accountVars
    BY <1>7 DEF accountVars, HistoryInv, HistoriesOK, TasksInv, Owned, CreateTask, RowsHeld,
                TasksMet, AloneHolds, ToldInv, GivenInv, FirstRow, AuthsOf
  <1> QED BY <1>1, <1>2, <1>3, <1>4, <1>5, <1>6, <1>7 DEF AccountNext, AccountStep

LEMMA AccountInvariant == AccountSpec => [](FactorInv /\ HistoryInv)
  BY FactorInvInit, FactorNext, HistoryInit, HistoryNext, PTL DEF AccountSpec

LEMMA HistoryHolds ==
    ASSUME FactorInv, HistoryInv
    PROVE  FactorAsTold /\ PasswordAsGiven
  <1>1. DOMAIN users \subseteq UserId
    BY UsersAreIds DEF HistoryInv
  <1>2. \A u : /\ AuthsOf(u) = {} <=> FirstAuth(u) = 0
               /\ AuthsOf(u) # {} => FirstRow(u, FirstAuth(u))
    BY FirstAuthIsFirst
  <1>3. \A u, i : FirstRow(u, i) => i \in AuthsOf(u)
    BY DEF FirstRow
  <1>4. FactorAsTold
    BY <1>1, <1>2, <1>3 DEF FactorAsTold, HistoryInv, ToldInv
  <1>5. PasswordAsGiven
    BY <1>1, <1>2, <1>3 DEF PasswordAsGiven, HistoryInv, GivenInv
  <1> QED BY <1>4, <1>5

(* While requests about it do not overlap, the second factor of a user is  *)
(* the one the user was told of.                                           *)
THEOREM FactorsAsTold == AccountSpec => []FactorAsTold
  BY AccountInvariant, HistoryHolds, PTL

(* The password that is checked is the one last set, if the request that   *)
(* set it met no other that sets one.                                      *)
THEOREM PasswordsAsGiven == AccountSpec => []PasswordAsGiven
  BY AccountInvariant, HistoryHolds, PTL

-----------------------------------------------------------------------------
(* The bounds of AccountTypeOK: every row of auth but the first was        *)
(* inserted by a request of its own.                                       *)
Inserters == {c \in Client : InsertsNext(task[c])}

AuthsBounded ==
    /\ IsFiniteSet(Inserters)
    /\ Len(auths) + Cardinality(Inserters) <= accepted + 1

PermsOK(ps) ==
    /\ \A p \in ps : p.user \in UserId /\ p.sees \in {"all", "user"}
    /\ \A p, q \in ps : p.user = q.user => p = q

TasksBounded ==
    \A c \in Client : task[c].user \in UserId /\ task[c].row \in 0..Len(auths)

CountsInv == AuthsBounded /\ PermsOK(perms) /\ TasksBounded

LEMMA AuthsAreIds ==
    ASSUME FactorInv, CountsInv
    PROVE  /\ 1..Len(auths) \subseteq UserId /\ Len(auths) <= MaxAccountRequests + 1
           /\ Cardinality(Inserters) \in Nat /\ Len(auths) \in Nat
           /\ accepted \in 0..MaxAccountRequests
  <1>1. accepted \in 0..MaxAccountRequests /\ Len(auths) \in Nat
    BY RowsAreNat DEF FactorInv, Stamp
  <1>2. Cardinality(Inserters) \in Nat
    BY FS_CardinalityType DEF CountsInv, AuthsBounded
  <1>3. Len(auths) <= MaxAccountRequests + 1
    BY <1>1, <1>2, AccountAssumption DEF CountsInv, AuthsBounded
  <1> QED BY <1>1, <1>2, <1>3, AccountAssumption DEF UserId

(* A request that is accepted may be one that will insert.                 *)
LEMMA CountsAccepted ==
    ASSUME FactorInv, CountsInv, NEW c \in Client, NEW op, NEW u, NEW at, NEW row,
           NEW admin, AcceptTask(c, op, u, at, row, admin), UNCHANGED <<auths, perms>>,
           u \in UserId, row \in DOMAIN auths \cup {0}
    PROVE  CountsInv'
  <1>1. /\ accepted' = accepted + 1
        /\ \A k \in Client \ {c} :
              /\ task'[k].at = task[k].at /\ task'[k].op = task[k].op
              /\ task'[k].user = task[k].user /\ task'[k].row = task[k].row
        /\ task'[c].user = u /\ task'[c].row = row
    BY TaskAccepted
  <1>2. DOMAIN auths = 1..Len(auths) /\ Len(auths) \in Nat
    BY RowsAreNat
  <1>3. TasksBounded'
    BY <1>1, <1>2 DEF CountsInv, TasksBounded
  <1>4. AuthsBounded'
    <2> DEFINE more == Inserters \cup {c}
    <2>1. /\ IsFiniteSet(Inserters) /\ Len(auths) + Cardinality(Inserters) <= accepted + 1
          /\ Cardinality(Inserters) \in Nat /\ accepted \in Nat
      BY AuthsAreIds DEF CountsInv, AuthsBounded
    <2>2. IsFiniteSet(more) /\ Cardinality(more) <= Cardinality(Inserters) + 1
      <3>1. CASE c \in Inserters
        <4>1. more = Inserters
          BY <3>1
        <4> HIDE DEF more
        <4>2. Cardinality(more) = Cardinality(Inserters) /\ IsFiniteSet(more)
          BY <2>1, <4>1
        <4> QED BY <2>1, <4>2
      <3>2. CASE c \notin Inserters
        <4>1. IsFiniteSet(more) /\ Cardinality(more) = Cardinality(Inserters) + 1
          BY <2>1, <3>2, FS_AddElement
        <4> HIDE DEF more
        <4> QED BY <2>1, <4>1
      <3> QED BY <3>1, <3>2
    <2>3. Inserters' \subseteq more
      BY <1>1 DEF Inserters, InsertsNext
    <2> HIDE DEF more
    <2>4. /\ IsFiniteSet(Inserters') /\ Cardinality(Inserters') <= Cardinality(more)
      BY <2>2, <2>3, FS_Subset
    <2>5. Cardinality(Inserters') \in Nat /\ Cardinality(more) \in Nat
      BY <2>2, <2>4, FS_CardinalityType
    <2> QED BY <1>1, <1>2, <2>1, <2>2, <2>4, <2>5 DEF AuthsBounded
  <1> QED BY <1>3, <1>4 DEF CountsInv

(* A request that ends, or goes on, without a row of auth.                 *)
LEMMA CountsLeft ==
    ASSUME FactorInv, CountsInv, NEW c \in Client, Left(c), accepted' = accepted,
           Len(auths') = Len(auths), PermsOK(perms'),
           task'[c].user \in UserId, task'[c].row \in 0..Len(auths)
    PROVE  CountsInv'
  <1>1. TasksBounded'
    BY DEF CountsInv, TasksBounded, Left
  <1>2. Inserters' \subseteq Inserters
    BY DEF Inserters, InsertsNext, Left
  <1>3. IsFiniteSet(Inserters') /\ Cardinality(Inserters') <= Cardinality(Inserters)
    BY <1>2, FS_Subset DEF CountsInv, AuthsBounded
  <1>4. Cardinality(Inserters') \in Nat
    BY <1>3, FS_CardinalityType
  <1>5. AuthsBounded'
    BY <1>3, <1>4, AuthsAreIds DEF CountsInv, AuthsBounded
  <1> QED BY <1>1, <1>5 DEF CountsInv

(* ... and with one that it inserts.                                       *)
LEMMA CountsInserted ==
    ASSUME FactorInv, CountsInv, NEW c \in Client, Left(c), accepted' = accepted,
           InsertsNext(task[c]), Len(auths') = Len(auths) + 1, UNCHANGED perms,
           task'[c].user \in UserId, task'[c].row \in 0..(Len(auths) + 1)
    PROVE  CountsInv'
  <1>0. Len(auths) \in Nat /\ Cardinality(Inserters) \in Nat /\ accepted \in Nat
    BY AuthsAreIds
  <1>1. TasksBounded'
    <2>1. SUFFICES ASSUME NEW k \in Client
                   PROVE  task'[k].user \in UserId /\ task'[k].row \in 0..(Len(auths) + 1)
      BY DEF TasksBounded
    <2>2. CASE k = c
      BY <2>2
    <2>3. CASE k # c
      <3>1. task'[k] = task[k] /\ task[k].row \in 0..Len(auths) /\ task[k].user \in UserId
        BY <2>3 DEF CountsInv, TasksBounded, Left
      <3> QED BY <1>0, <3>1
    <2> QED BY <2>2, <2>3
  <1> DEFINE less == Inserters \ {c}
  <1>2. Inserters' \subseteq less
    BY DEF Inserters, InsertsNext, Left
  <1>3. c \in Inserters
    BY DEF Inserters
  <1>4. IsFiniteSet(less) /\ Cardinality(less) = Cardinality(Inserters) - 1
    BY <1>3, FS_RemoveElement DEF CountsInv, AuthsBounded
  <1> HIDE DEF less
  <1>5. IsFiniteSet(Inserters') /\ Cardinality(Inserters') <= Cardinality(less)
    BY <1>2, <1>4, FS_Subset
  <1>6. Cardinality(Inserters') \in Nat
    BY <1>5, FS_CardinalityType
  <1>7. AuthsBounded'
    BY <1>0, <1>4, <1>5, <1>6 DEF CountsInv, AuthsBounded
  <1> QED BY <1>1, <1>7 DEF CountsInv

LEMMA CountsInit == AccountInit => CountsInv
  <1> SUFFICES ASSUME AccountInit PROVE CountsInv
    OBVIOUS
  <1>1. 1 \in UserId
    BY AccountAssumption DEF UserId
  <1>2. Len(auths) = 1 /\ accepted = 0
    BY DEF AccountInit
  <1>3. \A c \in Client : task[c] = NoTask
    BY DEF AccountInit
  <1>4. Inserters = {}
    BY <1>3 DEF Inserters, InsertsNext, NoTask
  <1>5. AuthsBounded
    BY <1>2, <1>4, FS_EmptySet DEF AuthsBounded
  <1>6. TasksBounded
    <2>1. NoTask.user = 1 /\ NoTask.row = 0
      BY DEF NoTask
    <2>2. 0 \in 0..Len(auths)
      BY <1>2
    <2> QED BY <1>1, <1>3, <2>1, <2>2 DEF TasksBounded
  <1>7. PermsOK(perms)
    BY <1>1 DEF AccountInit, PermsOK
  <1> QED BY <1>5, <1>6, <1>7 DEF CountsInv

LEMMA CountsNext ==
    FactorInv /\ HistoryInv /\ CountsInv /\ [AccountNext]_accountVars => CountsInv'
  <1> SUFFICES ASSUME FactorInv, HistoryInv, CountsInv, [AccountNext]_accountVars
               PROVE  CountsInv'
    OBVIOUS
  <1>0. /\ Len(auths) \in Nat /\ DOMAIN auths = 1..Len(auths) /\ 1 \in UserId
        /\ 1..Len(auths) \subseteq UserId /\ DOMAIN users \subseteq UserId
        /\ PermsOK(perms)
        /\ \A k \in Client : task[k].user \in UserId /\ task[k].row \in 0..Len(auths)
    BY AuthsAreIds, RowsAreNat, UsersAreIds, AccountAssumption
       DEF UserId, HistoryInv, CountsInv, TasksBounded
  <1>1. \A c \in Client : EndTask(c) => task'[c].user \in UserId /\ task'[c].row = 0
    BY <1>0 DEF EndTask, NoTask, FactorInv
  <1>2. ASSUME NEW c \in Client, CreateUser(c) PROVE CountsInv'
    <2>1. PICK admin \in BOOLEAN, withAuth \in BOOLEAN :
             AcceptTask(c, "create", Len(users) + 1,
                        IF withAuth THEN "auth" ELSE "grant", 0, admin)
      BY <1>2 DEF CreateUser
    <2> DEFINE at == IF withAuth THEN "auth" ELSE "grant"
               u  == Len(users) + 1
    <2>2. AcceptTask(c, "create", u, at, 0, admin) /\ UNCHANGED <<auths, perms>>
      BY <1>2, <2>1 DEF CreateUser
    <2>3. u \in UserId
      <3>1. accepted < MaxAccountRequests /\ accepted \in Nat
        BY <2>2 DEF AcceptTask, FactorInv, Stamp
      <3>2. users \in Seq(UserRow)
        BY DEF FactorInv
      <3>3. Len(users) \in Nat /\ Len(users) <= accepted + 1
        BY <3>2 DEF HistoryInv, HistoriesOK
      <3> QED BY <3>1, <3>3, AccountAssumption DEF UserId
    <2> HIDE DEF at, u
    <2> QED BY <2>2, <2>3, CountsAccepted
  <1>3. ASSUME NEW c \in Client, InsertAuth(c) PROVE CountsInv'
    <2>1. PICK p \in Password :
             auths' = Append(auths, [user |-> task[c].user, password |-> p,
                                     meta |-> NoMeta])
      BY <1>3 DEF InsertAuth
    <2>2. /\ task[c].at = "auth" /\ accepted' = accepted /\ UNCHANGED perms
          /\ task' = [task EXCEPT ![c].at = "grant", ![c].row = Len(auths')]
      BY <1>3 DEF InsertAuth
    <2>3. task[c] \in TaskRow
      BY DEF FactorInv
    <2>4. task[c].user \in Nat
      BY <2>3 DEF TaskRow
    <2>5. Len(auths') = Len(auths) + 1
      BY <2>1, <2>4, AppendedRows
    <2> DEFINE n    == Len(auths')
               mine == [task[c] EXCEPT !.at = "grant", !.row = n]
    <2>6. task' = [task EXCEPT ![c] = mine]
      BY <2>2
    <2> HIDE DEF n
    <2>7. /\ mine.at = "grant" /\ mine.op = task[c].op /\ mine.user = task[c].user
          /\ mine.alone = task[c].alone /\ mine.row = n
      BY <2>3 DEF TaskRow
    <2> HIDE DEF mine
    <2>8. task'[c] = mine /\ \A k \in Client \ {c} : task'[k] = task[k]
      BY <2>6 DEF FactorInv
    <2>9. Left(c) /\ InsertsNext(task[c])
      BY <2>2, <2>7, <2>8 DEF Left, InsertsNext
    <2>10. task'[c].user \in UserId /\ task'[c].row \in 0..(Len(auths) + 1)
      BY <1>0, <2>5, <2>7, <2>8 DEF n
    <2> QED BY <2>2, <2>5, <2>9, <2>10, CountsInserted
  <1>4. ASSUME NEW c \in Client, SetPassword(c) PROVE CountsInv'
    <2>1. PICK p \in Password :
             auths' = IF task[c].row = 0
                      THEN Append(auths, [user |-> task[c].user, password |-> p,
                                          meta |-> NoMeta])
                      ELSE [i \in DOMAIN auths |->
                              IF i \in AuthsOf(task[c].user)
                              THEN [auths[i] EXCEPT !.password = p] ELSE auths[i]]
      BY <1>4 DEF SetPassword
    <2>2. EndTask(c) /\ UNCHANGED perms /\ Writing(c, "password")
      BY <1>4 DEF SetPassword
    <2>3. Left(c) /\ accepted' = accepted /\ task'[c].user \in UserId /\ task'[c].row = 0
      BY <1>1, <2>2, EndTaskLeaves
    <2>4. CASE task[c].row = 0
      <3>1. InsertsNext(task[c])
        BY <2>2, <2>4 DEF InsertsNext, Writing
      <3>2. task[c] \in TaskRow
        BY DEF FactorInv
      <3>3. task[c].user \in Nat
        BY <3>2 DEF TaskRow
      <3>4. Len(auths') = Len(auths) + 1
        BY <2>1, <2>4, <3>3, AppendedRows
      <3>5. task'[c].row \in 0..(Len(auths) + 1)
        BY <1>0, <2>3
      <3> QED BY <2>2, <2>3, <3>1, <3>4, <3>5, CountsInserted
    <2>5. CASE task[c].row # 0
      <3>1. auths' \in Seq(AuthRow)
        BY <1>4, FactorNext DEF FactorInv, AccountNext, AccountStep
      <3>2. DOMAIN auths' = 1..Len(auths)
        BY <1>0, <2>1, <2>5
      <3>3. Len(auths') = Len(auths)
        BY <1>0, <3>1, <3>2
      <3>4. task'[c].row \in 0..Len(auths) /\ PermsOK(perms')
        BY <1>0, <2>2, <2>3
      <3> QED BY <2>3, <3>3, <3>4, CountsLeft
    <2> QED BY <2>4, <2>5
  <1>5. ASSUME NEW c \in Client,
               \/ Grant(c) \/ SetPermissions(c) \/ DeleteUser(c) \/ Refused(c)
        PROVE  CountsInv'
    <2>1. EndTask(c) /\ UNCHANGED auths
      BY <1>5 DEF Grant, SetPermissions, DeleteUser, Refused
    <2>2. Left(c) /\ accepted' = accepted /\ task'[c].user \in UserId
          /\ task'[c].row \in 0..Len(auths)
      BY <1>0, <1>1, <2>1, EndTaskLeaves
    <2>3. PermsOK(perms')
      <3>1. CASE Grant(c)
        <4> DEFINE id   == IF task[c].row = 0 THEN task[c].user ELSE task[c].row
                   sees == IF task[c].admin THEN "all" ELSE "user"
                   new  == [user |-> id, sees |-> sees]
        <4>1. perms' = IF \E p \in perms : p.user = id THEN perms ELSE perms \cup {new}
          BY <3>1 DEF Grant
        <4>2. id \in UserId
          <5>1. task[c].row # 0 => task[c].row \in 1..Len(auths)
            BY <1>0
          <5> QED BY <1>0, <5>1
        <4>3. sees \in {"all", "user"} /\ new.user = id /\ new.sees = sees
          OBVIOUS
        <4> HIDE DEF id, sees, new
        <4> QED BY <1>0, <4>1, <4>2, <4>3 DEF PermsOK
      <3>2. CASE SetPermissions(c)
        <4> DEFINE u       == task[c].user
                   present == {p \in perms : p.user = u}
        <4>1. CASE UNCHANGED perms
          BY <1>0, <4>1
        <4>2. CASE ~UNCHANGED perms
          <5>1. PICK sees \in {"all", "user"} :
                   perms' = (perms \ present) \cup {[user |-> u, sees |-> sees]}
            BY <3>2, <4>2 DEF SetPermissions
          <5> QED BY <1>0, <5>1 DEF PermsOK
        <4> QED BY <4>1, <4>2
      <3>3. CASE DeleteUser(c) \/ Refused(c)
        BY <1>0, <3>3 DEF DeleteUser, Refused
      <3> QED BY <1>5, <3>1, <3>2, <3>3
    <2> QED BY <2>1, <2>2, <2>3, CountsLeft
  <1>6. ASSUME NEW c \in Client, NEW u \in DOMAIN users,
               \/ ReadForPassword(c, u) \/ ReadForPermissions(c, u)
               \/ ReadForDelete(c, u)
               \/ \E op \in SecondFactor : ReadSecondFactor(c, op, u)
        PROVE  CountsInv'
    <2>1. /\ u \in UserId /\ FirstAuth(u) \in DOMAIN auths \cup {0}
          /\ UNCHANGED <<auths, perms>>
      BY <1>0, <1>6, FirstAuthType
         DEF ReadForPassword, ReadForPermissions, ReadForDelete, ReadSecondFactor
    <2>2. CASE ReadForPassword(c, u)
      BY <2>1, <2>2, CountsAccepted DEF ReadForPassword
    <2>3. CASE ReadForPermissions(c, u)
      <3> DEFINE row == IF \E p \in perms : p.user = u THEN 1 ELSE 0
      <3>1. AcceptTask(c, "permissions", u, "write", row, FALSE)
        BY <2>3 DEF ReadForPermissions
      <3>2. row \in DOMAIN auths \cup {0}
        BY DEF FactorInv
      <3> HIDE DEF row
      <3> QED BY <2>1, <3>1, <3>2, CountsAccepted
    <2>4. CASE ReadForDelete(c, u)
      <3>1. AcceptTask(c, "delete", u, "write", 0, FALSE) /\ 0 \in DOMAIN auths \cup {0}
        BY <2>4 DEF ReadForDelete
      <3> QED BY <2>1, <3>1, CountsAccepted
    <2>5. ASSUME NEW op \in SecondFactor, ReadSecondFactor(c, op, u) PROVE CountsInv'
      BY <2>1, <2>5, CountsAccepted DEF ReadSecondFactor
    <2> QED BY <1>6, <2>2, <2>3, <2>4, <2>5
  <1>7. ASSUME NEW c \in Client,
               \/ StartSetup(c) \/ Enable(c) \/ Disable(c)
               \/ RegenerateBackupCodes(c) \/ LoginWithCode(c)
        PROVE  CountsInv'
    <2>1. PICK meta : \E factor : WriteMeta(c, meta, factor)
      BY <1>7 DEF StartSetup, Enable, Disable, RegenerateBackupCodes, LoginWithCode
    <2>2. /\ auths' = [auths EXCEPT ![task[c].row].meta = meta]
          /\ EndTask(c) /\ UNCHANGED perms
      BY <2>1 DEF WriteMeta
    <2>3. auths' \in Seq(AuthRow)
      BY <1>7, FactorNext DEF FactorInv, AccountNext, AccountStep
    <2>4. Len(auths') = Len(auths)
      BY <1>0, <2>2, <2>3
    <2>5. Left(c) /\ accepted' = accepted /\ task'[c].user \in UserId
          /\ task'[c].row \in 0..Len(auths) /\ PermsOK(perms')
      BY <1>0, <1>1, <2>2, EndTaskLeaves
    <2> QED BY <2>4, <2>5, CountsLeft
  <1>8. CASE UNCHANGED accountVars
    BY <1>8 DEF accountVars, CountsInv, AuthsBounded, Inserters, TasksBounded
  <1> QED BY <1>2, <1>3, <1>4, <1>5, <1>6, <1>7, <1>8 DEF AccountNext, AccountStep

LEMMA CountsGiveType ==
    ASSUME FactorInv, HistoryInv, CountsInv
    PROVE  AccountTypeOK
  <1>1. DOMAIN users \subseteq UserId /\ 1..Len(auths) \subseteq UserId
        /\ Len(auths) <= MaxAccountRequests + 1 /\ Len(auths) \in Nat
        /\ accepted \in 0..MaxAccountRequests
    BY UsersAreIds, AuthsAreIds DEF HistoryInv
  <1>2. auths \in Seq([user: UserId, password: Password, meta: Meta])
    <2> DEFINE n == Len(auths)
    <2>1. auths \in Seq(AuthRow)
      BY DEF FactorInv
    <2>2. n \in Nat /\ DOMAIN auths = 1..n /\ auths = [i \in 1..n |-> auths[i]]
      BY <2>1
    <2>3. \A i \in DOMAIN auths : auths[i] \in AuthRow /\ auths[i].user \in UserId
      BY <1>1, <2>1 DEF HistoryInv, TasksInv, Owned
    <2>4. \A i \in 1..n : auths[i] \in [user: UserId, password: Password, meta: Meta]
      BY <2>2, <2>3 DEF AuthRow
    <2> HIDE DEF n
    <2>5. auths \in [1..n -> [user: UserId, password: Password, meta: Meta]]
      BY <2>2, <2>4
    <2> QED BY <2>2, <2>5
  <1>3. task \in [Client -> [op: SecondFactor \cup Credential
                                     \cup {"none", "permissions", "delete"},
                             at: {"idle", "auth", "grant", "write"}, user: UserId,
                             row: 0..(MaxAccountRequests + 1), meta: Meta,
                             stamp: Stamp, admin: BOOLEAN, alone: BOOLEAN]]
    <2>0. 0..Len(auths) \subseteq 0..(MaxAccountRequests + 1)
      BY <1>1, AccountAssumption
    <2>1. \A c \in Client : task[c] \in TaskRow /\ task[c].user \in UserId
                            /\ task[c].row \in 0..(MaxAccountRequests + 1)
      <3>1. \A c \in Client : task[c] \in TaskRow
        BY DEF FactorInv
      <3>2. \A c \in Client : task[c].user \in UserId /\ task[c].row \in 0..Len(auths)
        BY DEF CountsInv, TasksBounded
      <3> QED BY <2>0, <3>1, <3>2
    <2>2. task = [c \in Client |-> task[c]]
      BY DEF FactorInv
    <2> QED BY <2>1, <2>2 DEF TaskRow
  <1>4. users \in Seq([admin: BOOLEAN, deleted: BOOLEAN])
    BY DEF FactorInv, UserRow
  <1> QED BY <1>1, <1>2, <1>3, <1>4
          DEF AccountTypeOK, HistoryInv, HistoriesOK, ToldRow, GivenRow, CountsInv, PermsOK

(* The rows of users, credentials and permissions keep their types, a user *)
(* has one row of permissions at most, and every id stays within the bound *)
(* of the requests accepted.                                               *)
THEOREM AccountTypeCorrect == AccountSpec => []AccountTypeOK
  <1>1. FactorInv /\ HistoryInv /\ CountsInv /\ [AccountNext]_accountVars
           => (FactorInv /\ HistoryInv /\ CountsInv)'
    BY FactorNext, HistoryNext, CountsNext
  <1>2. AccountInit => FactorInv /\ HistoryInv /\ CountsInv
    BY FactorInvInit, HistoryInit, CountsInit
  <1>3. FactorInv /\ HistoryInv /\ CountsInv => AccountTypeOK
    BY CountsGiveType
  <1> QED BY <1>1, <1>2, <1>3, PTL DEF AccountSpec
=============================================================================
