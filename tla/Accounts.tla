------------------------------ MODULE Accounts ------------------------------
(***************************************************************************)
(* Users, their credentials and their permissions: the requests of         *)
(* backend/internal/user.js that change them, and two-factor               *)
(* authentication (backend/internal/2fa.js), which lives in the meta of a  *)
(* row of auth, next to the password.                                      *)
(*                                                                         *)
(* A request reads a row, awaits a hash, a code or a query, and patches it *)
(* in a later turn; the id of a row is its place in its table.             *)
(***************************************************************************)
EXTENDS Integers, Sequences

CONSTANTS
    Client,         \* requests in flight at once
    Password,       \* the passwords a request may set
    MaxAccountRequests  \* bound: the requests accepted in a run

ASSUME AccountAssumption ==
    /\ Password # {}
    /\ MaxAccountRequests \in Nat

VARIABLES
    users,      \* the rows of user
    auths,      \* the rows of auth
    perms,      \* the rows of user_permission: users and what they see
    task,       \* the request of each client
    told,       \* history: the second factor a user was last told to have
    given,      \* history: the password last set for a user
    accepted    \* the number of requests accepted

accountVars == <<users, auths, perms, task, told, given, accepted>>

UserId == 1..(MaxAccountRequests + 1)
Stamp  == 0..MaxAccountRequests     \* a secret or a batch of codes, by its request

Codes(batch) == {batch} \X {1, 2}
Meta == [pending: Stamp \cup {-1}, secret: Stamp \cup {-1}, enabled: BOOLEAN,
         codes: SUBSET (Stamp \X {1, 2})]
NoMeta == [pending |-> -1, secret |-> -1, enabled |-> FALSE, codes |-> {}]
Ready(secret, batch) == [pending |-> -1, secret |-> secret, enabled |-> TRUE,
                         codes |-> Codes(batch)]

(* `sure` of a history: the request it is of met no other of its kind, and *)
(* none that met another has changed the row since.                        *)
Unsure == [sure |-> FALSE, secret |-> -1, codes |-> {}]

SecondFactor == {"setup", "enable", "disable", "regenerate", "login"}
Credential   == {"create", "password"}
Kind(op) == IF op \in SecondFactor THEN SecondFactor ELSE Credential

(* `row` is the id read, 0 where there was none, and `meta` what was read  *)
(* of it.                                                                  *)
NoTask == [op |-> "none", at |-> "idle", user |-> 1, row |-> 0, meta |-> NoMeta,
           stamp |-> 0, admin |-> FALSE, alone |-> TRUE]

AccountTypeOK ==
    /\ users \in Seq([admin: BOOLEAN, deleted: BOOLEAN])
    /\ auths \in Seq([user: UserId, password: Password, meta: Meta])
    /\ \A p \in perms : p.user \in UserId /\ p.sees \in {"all", "user"}
    /\ \A p, q \in perms : p.user = q.user => p = q
    /\ task \in [Client -> [op: SecondFactor \cup Credential
                                \cup {"none", "permissions", "delete"},
                            at: {"idle", "auth", "grant", "write"}, user: UserId,
                            row: 0..(MaxAccountRequests + 1), meta: Meta,
                            stamp: Stamp, admin: BOOLEAN, alone: BOOLEAN]]
    /\ told \in [UserId -> [sure: BOOLEAN, secret: Stamp \cup {-1},
                            codes: SUBSET (Stamp \X {1, 2})]]
    /\ given \in [UserId -> [sure: BOOLEAN, password: Password]]
    /\ accepted \in 0..MaxAccountRequests

(* The administrator of the setup, with a second factor or without.        *)
AccountInit ==
    /\ users = <<[admin |-> TRUE, deleted |-> FALSE]>>
    /\ \E p \in Password, meta \in {NoMeta, Ready(0, 0)} :
          /\ auths = <<[user |-> 1, password |-> p, meta |-> meta]>>
          /\ told = [u \in UserId |->
                       IF u = 1 THEN [sure |-> TRUE, secret |-> meta.secret,
                                      codes |-> meta.codes]
                       ELSE Unsure]
          /\ given = [u \in UserId |-> [sure |-> u = 1, password |-> p]]
    /\ perms = {[user |-> 1, sees |-> "all"]}
    /\ task = [c \in Client |-> NoTask]
    /\ accepted = 0

-----------------------------------------------------------------------------
UserLives(u) == u \in DOMAIN users /\ ~users[u].deleted
AuthsOf(u)   == {i \in DOMAIN auths : auths[i].user = u}

(* getUserPasswordAuth, `first`: the row of the lowest id, or 0.           *)
FirstAuth(u) ==
    IF AuthsOf(u) = {} THEN 0
    ELSE CHOOSE i \in AuthsOf(u) : \A j \in AuthsOf(u) : i <= j

(* Requests in flight that change the same of the same user.               *)
Meets(k, op, u) ==
    task[k].at # "idle" /\ task[k].user = u /\ task[k].op \in Kind(op)

(* A client's request for a user is accepted, and is next at step `at`.    *)
AcceptTask(c, op, u, at, row, admin) ==
    /\ task[c].at = "idle"
    /\ accepted < MaxAccountRequests
    /\ accepted' = accepted + 1
    /\ task' = [k \in Client |->
                  IF k = c
                  THEN [op |-> op, at |-> at, user |-> u, row |-> row,
                        meta |-> IF row = 0 THEN NoMeta ELSE auths[row].meta,
                        stamp |-> accepted', admin |-> admin,
                        alone |-> \A j \in Client : ~Meets(j, op, u)]
                  ELSE [task[k] EXCEPT !.alone = @ /\ ~Meets(k, op, u)]]

EndTask(c)     == task' = [task EXCEPT ![c] = NoTask] /\ UNCHANGED accepted
Writing(c, op) == task[c].at = "write" /\ task[c].op = op

-----------------------------------------------------------------------------
(* create: the user is inserted first, then the password if there is one.  *)
CreateUser(c) ==
    /\ \E admin, withAuth \in BOOLEAN :
          /\ AcceptTask(c, "create", Len(users) + 1,
                        IF withAuth THEN "auth" ELSE "grant", 0, admin)
          /\ users' = Append(users, [admin |-> admin, deleted |-> FALSE])
    /\ UNCHANGED <<auths, perms, told, given>>

(* What the insert returns, the row of auth, takes the place of the user.  *)
InsertAuth(c) ==
    /\ task[c].at = "auth"
    /\ \E p \in Password :
          /\ auths' = Append(auths, [user |-> task[c].user, password |-> p,
                                     meta |-> NoMeta])
          /\ given' = [given EXCEPT ![task[c].user] =
                         [sure |-> task[c].alone, password |-> p]]
    /\ task' = [task EXCEPT ![c].at = "grant", ![c].row = Len(auths')]
    /\ UNCHANGED <<users, perms, told, accepted>>

(* user_permission has one row per user: a second one is refused.          *)
Grant(c) ==
    /\ task[c].at = "grant"
    /\ LET id == IF task[c].row = 0 THEN task[c].user ELSE task[c].row
       IN  perms' = IF \E p \in perms : p.user = id THEN perms
                    ELSE perms \cup {[user |-> id,
                                      sees |-> IF task[c].admin THEN "all" ELSE "user"]}
    /\ EndTask(c)
    /\ UNCHANGED <<users, auths, told, given>>

-----------------------------------------------------------------------------
(* setPassword: the row is patched if there was one, and else inserted.    *)
ReadForPassword(c, u) ==
    /\ UserLives(u)
    /\ AcceptTask(c, "password", u, "write", FirstAuth(u), FALSE)
    /\ UNCHANGED <<users, auths, perms, told, given>>

(* Bug: a row is inserted in any case.                                     *)
SetPasswordInserting(c) ==
    /\ Writing(c, "password")
    /\ \E p \in Password :
          /\ auths' = Append(auths, [user |-> task[c].user, password |-> p,
                                     meta |-> NoMeta])
          /\ given' = [given EXCEPT ![task[c].user] =
                         [sure |-> task[c].alone, password |-> p]]
    /\ EndTask(c)
    /\ UNCHANGED <<users, perms, told>>

SetPassword(c) ==
    /\ Writing(c, "password")
    /\ \E p \in Password :
          /\ auths' = IF task[c].row = 0
                      THEN Append(auths, [user |-> task[c].user, password |-> p,
                                          meta |-> NoMeta])
                      ELSE [i \in DOMAIN auths |->
                              IF i \in AuthsOf(task[c].user)
                              THEN [auths[i] EXCEPT !.password = p] ELSE auths[i]]
          /\ given' = [given EXCEPT ![task[c].user] =
                         [sure |-> task[c].alone, password |-> p]]
    /\ EndTask(c)
    /\ UNCHANGED <<users, perms, told>>

(* setPermissions, in the same way.                                        *)
ReadForPermissions(c, u) ==
    /\ UserLives(u)
    /\ AcceptTask(c, "permissions", u, "write",
                  IF \E p \in perms : p.user = u THEN 1 ELSE 0, FALSE)
    /\ UNCHANGED <<users, auths, perms, told, given>>

SetPermissions(c) ==
    LET u       == task[c].user
        present == {p \in perms : p.user = u}
    IN  /\ Writing(c, "permissions")
        /\ IF task[c].row = 0 /\ present # {} THEN UNCHANGED perms
           ELSE \E sees \in {"all", "user"} :
                   perms' = (perms \ present) \cup {[user |-> u, sees |-> sees]}
        /\ EndTask(c)
        /\ UNCHANGED <<users, auths, told, given>>

(* delete, of a user other than the one who asks.                          *)
ReadForDelete(c, u) ==
    /\ UserLives(u)
    /\ \E v \in DOMAIN users \ {u} : users[v].admin /\ UserLives(v)
    /\ AcceptTask(c, "delete", u, "write", 0, FALSE)
    /\ UNCHANGED <<users, auths, perms, told, given>>

DeleteUser(c) ==
    /\ Writing(c, "delete")
    /\ users' = [users EXCEPT ![task[c].user].deleted = TRUE]
    /\ EndTask(c)
    /\ UNCHANGED <<auths, perms, told, given>>

-----------------------------------------------------------------------------
(* The requests of the second factor start from the meta of the first row, *)
(* and from what it must hold.                                             *)
Allowed(op, meta) ==
    CASE op = "setup"  -> ~meta.enabled
      [] op = "enable" -> meta.pending # -1
      [] op = "login"  -> meta.secret # -1
      [] OTHER         -> meta.enabled

ReadSecondFactor(c, op, u) ==
    /\ op # "login" => UserLives(u)
    /\ FirstAuth(u) # 0 /\ Allowed(op, auths[FirstAuth(u)].meta)
    /\ AcceptTask(c, op, u, "write", FirstAuth(u), FALSE)
    /\ UNCHANGED <<users, auths, perms, told, given>>

(* The meta that was read is written back, changed; the user is told of a  *)
(* second factor.                                                          *)
WriteMeta(c, meta, factor) ==
    /\ auths' = [auths EXCEPT ![task[c].row].meta = meta]
    /\ told' = [told EXCEPT ![task[c].user] = factor]
    /\ EndTask(c)
    /\ UNCHANGED <<users, perms, given>>

(* A factor that is new as a whole, or changed from the last one.          *)
Whole(c, secret, codes) ==
    [sure |-> task[c].alone, secret |-> secret, codes |-> codes]
Changed(c, codes) ==
    [told[task[c].user] EXCEPT !.sure = @ /\ task[c].alone, !.codes = codes]

StartSetup(c) ==
    /\ Writing(c, "setup")
    /\ WriteMeta(c, [task[c].meta EXCEPT !.pending = task[c].stamp],
                 Changed(c, told[task[c].user].codes))

Enable(c) ==
    /\ Writing(c, "enable")
    /\ WriteMeta(c, Ready(task[c].meta.pending, task[c].stamp),
                 Whole(c, task[c].meta.pending, Codes(task[c].stamp)))

(* Bug: the backup codes outlive the second factor.                        *)
DisableKeepingCodes(c) ==
    /\ Writing(c, "disable")
    /\ WriteMeta(c, [task[c].meta EXCEPT !.secret = -1, !.enabled = FALSE],
                 Whole(c, -1, {}))

Disable(c) ==
    /\ Writing(c, "disable")
    /\ WriteMeta(c, [task[c].meta EXCEPT !.secret = -1, !.enabled = FALSE, !.codes = {}],
                 Whole(c, -1, {}))

RegenerateBackupCodes(c) ==
    /\ Writing(c, "regenerate")
    /\ WriteMeta(c, [task[c].meta EXCEPT !.codes = Codes(task[c].stamp)],
                 Changed(c, Codes(task[c].stamp)))

(* Bug: the code that is used is not taken out.                            *)
LoginForgettingCode(c) ==
    /\ Writing(c, "login")
    /\ \E code \in task[c].meta.codes :
          WriteMeta(c, task[c].meta, Changed(c, told[task[c].user].codes \ {code}))

(* verifyForLogin, with a backup code: it is taken out of those read.  A   *)
(* login with a code of the authenticator changes nothing.                 *)
LoginWithCode(c) ==
    /\ Writing(c, "login")
    /\ \E code \in task[c].meta.codes :
          WriteMeta(c, [task[c].meta EXCEPT !.codes = @ \ {code}],
                    Changed(c, told[task[c].user].codes \ {code}))

(* A request whose code is not accepted changes nothing.                   *)
Refused(c) ==
    /\ task[c].at = "write" /\ task[c].op \in SecondFactor \ {"setup"}
    /\ EndTask(c)
    /\ UNCHANGED <<users, auths, perms, told, given>>

AccountStep(c) ==
    \/ CreateUser(c) \/ InsertAuth(c) \/ Grant(c)
    \/ \E u \in DOMAIN users :
          \/ ReadForPassword(c, u) \/ ReadForPermissions(c, u) \/ ReadForDelete(c, u)
          \/ \E op \in SecondFactor : ReadSecondFactor(c, op, u)
    \/ SetPassword(c) \/ SetPermissions(c) \/ DeleteUser(c)
    \/ StartSetup(c) \/ Enable(c) \/ Disable(c)
    \/ RegenerateBackupCodes(c) \/ LoginWithCode(c) \/ Refused(c)

AccountNext == \E c \in Client : AccountStep(c)

AccountSpec == AccountInit /\ [][AccountNext]_accountVars

-----------------------------------------------------------------------------
(* Every meta stored is one of a sequential history, although each request *)
(* overwrites it with what it read some turns earlier: a second factor is  *)
(* enabled with its secret or absent with its codes, and a setup is only   *)
(* pending while none is enabled.                                          *)
FactorIsWhole ==
    \A i \in DOMAIN auths :
        LET meta == auths[i].meta
        IN  /\ meta.enabled <=> meta.secret # -1
            /\ meta.codes # {} => meta.enabled
            /\ meta.enabled => meta.pending = -1

(* As long as a user's requests about it do not overlap, the second factor *)
(* is the one the user was told of: the secret that was confirmed, and the *)
(* codes last given out, without those used since; passwords may be set at *)
(* any moment meanwhile.                                                   *)
FactorAsTold ==
    \A u \in DOMAIN users : told[u].sure /\ FirstAuth(u) # 0 =>
        /\ auths[FirstAuth(u)].meta.secret = told[u].secret
        /\ auths[FirstAuth(u)].meta.codes = told[u].codes

(* The password a login is checked against is the one last set, if that    *)
(* request met no other that sets one, whatever is done to the second      *)
(* factor in the same row.                                                 *)
PasswordAsGiven ==
    \A u \in DOMAIN users : given[u].sure =>
        FirstAuth(u) # 0 /\ auths[FirstAuth(u)].password = given[u].password
=============================================================================
