------------------------------ MODULE Records ------------------------------
(***************************************************************************)
(* What the backend keeps apart from the hosts and the updater, as it is   *)
(* checked: the configuration of the DDNS rows (DdnsConfig), the migration *)
(* that fills their table (LegacyMigration), their runtime state           *)
(* (DdnsStatus), the accounts (Accounts) and the address ranges of the     *)
(* content networks (IpRanges).                                            *)
(*                                                                         *)
(* The five share no variable, so a behaviour is one of any of them, with  *)
(* the others at rest.                                                     *)
(***************************************************************************)
EXTENDS DdnsConfig, DdnsStatus, Accounts, LegacyMigration, IpRanges, TLC

VARIABLE part       \* the module this is a behaviour of

vars == <<part, configVars, statusVars, accountVars, migrationVars, rangesVars>>

TypeOK ==
    CASE part = "config"    -> ConfigTypeOK
      [] part = "status"    -> StatusTypeOK
      [] part = "accounts"  -> AccountTypeOK
      [] part = "migration" -> MigrationTypeOK
      [] OTHER              -> RangesTypeOK

Init ==
    /\ part \in {"config", "status", "accounts", "migration", "ranges"}
    /\ RangesInit
    /\ ConfigInit
    /\ StatusInit
    /\ part # "status" => ordered /\ rows = [r \in Entry |-> NoRuntime]
    /\ AccountInit
    /\ part # "accounts" =>
          auths = <<[user |-> 1, password |-> auths[1].password, meta |-> NoMeta]>>
    /\ MigrationInit
    /\ part # "migration" =>
          transactional /\ \A r \in Legacy : legacy[r] = [lists |-> {}, is_deleted |-> FALSE]

Next ==
    \/ /\ part = "config"
       /\ ConfigNext
       /\ UNCHANGED <<part, statusVars, accountVars, migrationVars, rangesVars>>
    \/ /\ part = "status"
       /\ StatusNext
       /\ UNCHANGED <<part, configVars, accountVars, migrationVars, rangesVars>>
    \/ /\ part = "accounts"
       /\ AccountNext
       /\ UNCHANGED <<part, configVars, statusVars, migrationVars, rangesVars>>
    \/ /\ part = "migration"
       /\ MigrationNext
       /\ UNCHANGED <<part, configVars, statusVars, accountVars, rangesVars>>
    \/ /\ part = "ranges"
       /\ RangesNext
       /\ UNCHANGED <<part, configVars, statusVars, accountVars, migrationVars>>

Spec == Init /\ [][Next]_vars

Symmetry == Permutations(Handler) \cup Permutations(Password)
=============================================================================
