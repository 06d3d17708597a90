----------------------------- MODULE DdnsConfig -----------------------------
(***************************************************************************)
(* The DDNS configurations: the handlers of                                *)
(* backend/internal/ddns-config.js over the table ddns_configs, the        *)
(* redaction of every row read (backend/models/ddns_config.js), and the    *)
(* config.json built from the rows (ddns-config-builder.js).               *)
(*                                                                         *)
(* A handler reads the row, then patches it in a later turn; the manager's *)
(* reload, whose steps are in DdnsManager, is here a single step.          *)
(***************************************************************************)
EXTENDS Integers

CONSTANTS
    Id,         \* the rows' ids
    Handler,    \* requests in flight at once
    Value       \* values of a credential or of an option

Blank == "blank"    \* an empty, null or missing field

ASSUME IdAssumption == Id # {}
ASSUME ValueAssumption == Blank \notin Value

(* Three providers stand for the classes the builder distinguishes, and    *)
(* three fields for their credentials and options: `token` (api_token,     *)
(* token, password), `key` (Cloudflare's key with email) and `ttl`.        *)
Provider  == {"cloudflare", "duckdns", "desec"}
Field     == {"token", "key", "ttl"}
Sensitive == {"token", "key"}
Cfg       == [Field -> Value \cup {Blank}]

(* The sets of fields any of which must be present, by provider.           *)
Required(provider) ==
    CASE provider = "cloudflare" -> {{"token"}, {"key"}}
      [] provider = "duckdns"    -> {{"token"}}
      [] OTHER                   -> {{}}

(* The fields that reach the provider's settings in config.json.           *)
Emitted(provider) ==
    CASE provider = "cloudflare" -> {"token", "ttl"}
      [] provider = "duckdns"    -> {"token"}
      [] OTHER                   -> Field

Valid(provider, cfg) ==
    \E need \in Required(provider) : \A f \in need : cfg[f] # Blank

Row == [state: {"none", "live", "deleted"}, enabled: BOOLEAN,
        provider: Provider, cfg: Cfg]

Payload == [provider: Provider \cup {Blank},
            enabled: {"on", "off", Blank}, cfg: Cfg]

VARIABLES
    table,      \* ddns_configs
    at,         \* where each handler is, and which operation it runs
    id,         \* the row each handler works on
    seen,       \* the row each handler has read and not patched yet, as the
                \* model returned it
    reloading,  \* a debounced reload is to come
    gaveUp,     \* history: the last reload failed, and none was asked for since
    configJson  \* the settings in config.json

configVars == <<table, at, id, seen, reloading, gaveUp, configJson>>

Op == {"update", "delete", "enable", "disable"}

ConfigTypeOK ==
    /\ table \in [Id -> Row]
    /\ at \in [Handler -> Op \cup {"idle", "patched"}]
    /\ id \in [Handler -> Id]
    /\ seen \in [Handler -> Row]
    /\ reloading \in BOOLEAN
    /\ gaveUp \in BOOLEAN
    /\ \A s \in configJson :
          /\ s.id \in Id /\ s.provider \in Provider
          /\ s.cfg \in [Emitted(s.provider) -> Value \cup {Blank}]

NoRow == [state |-> "none", enabled |-> FALSE, provider |-> "desec",
          cfg |-> [f \in Field |-> Blank]]

ConfigInit ==
    /\ table = [i \in Id |-> NoRow]
    /\ at = [h \in Handler |-> "idle"]
    /\ id = [h \in Handler |-> CHOOSE i \in Id : TRUE]
    /\ seen = [h \in Handler |-> NoRow]
    /\ reloading = FALSE
    /\ gaveUp = FALSE
    /\ configJson = {}

-----------------------------------------------------------------------------
(* What any query of the model returns: credentials come back empty.       *)
Parsed(row) ==
    [row EXCEPT !.cfg = [f \in Field |-> IF f \in Sensitive THEN Blank ELSE @[f]]]

Live(i) == table[i].state = "live"

(* Bug: every provider's settings pass every field through.                *)
SettingsUnfiltered(rows) ==
    {[id |-> i, provider |-> rows[i].provider,
      cfg |-> Parsed(rows[i]).cfg] :
        i \in {k \in Id : rows[k].state = "live" /\ rows[k].enabled}}

(* The settings of config.json, from the rows as the model returns them.   *)
Settings(rows) ==
    {[id |-> i, provider |-> rows[i].provider,
      cfg |-> [f \in Emitted(rows[i].provider) |-> Parsed(rows[i]).cfg[f]]] :
        i \in {k \in Id : rows[k].state = "live" /\ rows[k].enabled}}

-----------------------------------------------------------------------------
(* create: validate, insert, and reload if the row is enabled.             *)
Create(h, i) ==
    /\ at[h] = "idle"
    /\ table[i].state = "none"
    /\ \E p \in Provider, c \in Cfg, e \in BOOLEAN :
          /\ Valid(p, c)
          /\ table' = [table EXCEPT ![i] =
                         [state |-> "live", enabled |-> e, provider |-> p,
                          cfg |-> c]]
          /\ at' = [at EXCEPT ![h] = IF e THEN "patched" ELSE "idle"]
    /\ id' = [id EXCEPT ![h] = i]
    /\ UNCHANGED <<seen, reloading, gaveUp, configJson>>

(* update, delete, enable and disable start by reading the row; enable and *)
(* disable refuse a row that is in the state already.                      *)
Get(h, op, i) ==
    /\ at[h] = "idle"
    /\ Live(i)
    /\ op = "enable" => ~table[i].enabled
    /\ op = "disable" => table[i].enabled
    /\ at' = [at EXCEPT ![h] = op]
    /\ id' = [id EXCEPT ![h] = i]
    /\ seen' = [seen EXCEPT ![h] = Parsed(table[i])]
    /\ UNCHANGED <<table, reloading, gaveUp, configJson>>

(* A field the request leaves blank keeps the value of the row that was    *)
(* read.                                                                   *)
Merge(existing, incoming) ==
    [f \in Field |-> IF incoming[f] = Blank THEN existing[f] ELSE incoming[f]]

(* The handler no longer holds the row it read.                            *)
Continue(h, next) ==
    /\ at' = [at EXCEPT ![h] = next]
    /\ seen' = [seen EXCEPT ![h] = NoRow]

Given(new, old) == IF new = Blank THEN old ELSE new

(* Bug: the row that was read is written back as a whole.                  *)
PatchWholeRow(h) ==
    /\ at[h] = "update"
    /\ table' = [table EXCEPT ![id[h]] = seen[h]]
    /\ Continue(h, "patched")
    /\ UNCHANGED <<id, reloading, gaveUp, configJson>>

(* update: merge, validate, patch.                                         *)
PatchUpdate(h) ==
    /\ at[h] = "update"
    /\ \E data \in Payload :
          LET merged == Merge(seen[h].cfg, data.cfg)
              ok     == Valid(Given(data.provider, seen[h].provider), merged)
          IN  /\ table' = IF ok
                          THEN [table EXCEPT
                                  ![id[h]].cfg = merged,
                                  ![id[h]].provider = Given(data.provider, @),
                                  ![id[h]].enabled =
                                      IF data.enabled = Blank THEN @
                                      ELSE data.enabled = "on"]
                          ELSE table
              /\ Continue(h, IF ok THEN "patched" ELSE "idle")
    /\ UNCHANGED <<id, reloading, gaveUp, configJson>>

PatchDelete(h) ==
    /\ at[h] = "delete"
    /\ table' = [table EXCEPT ![id[h]].state = "deleted"]
    /\ Continue(h, "patched")
    /\ UNCHANGED <<id, reloading, gaveUp, configJson>>

PatchEnabled(h) ==
    /\ at[h] \in {"enable", "disable"}
    /\ table' = [table EXCEPT ![id[h]].enabled = (at[h] = "enable")]
    /\ Continue(h, "patched")
    /\ UNCHANGED <<id, reloading, gaveUp, configJson>>

(* Bug: no reload for a row that is not enabled.                           *)
AskReloadIfEnabled(h) ==
    /\ at[h] = "patched"
    /\ at' = [at EXCEPT ![h] = "idle"]
    /\ reloading' = (reloading \/ table[id[h]].enabled)
    /\ gaveUp' = FALSE
    /\ UNCHANGED <<table, id, seen, configJson>>

(* The patch has returned: the handler asks the manager to reload.         *)
AskReload(h) ==
    /\ at[h] = "patched"
    /\ at' = [at EXCEPT ![h] = "idle"]
    /\ reloading' = TRUE
    /\ gaveUp' = FALSE
    /\ UNCHANGED <<table, id, seen, configJson>>

(* The manager reloads: enabled, live rows are fetched and written ...     *)
Reload ==
    /\ reloading
    /\ reloading' = FALSE
    /\ configJson' = Settings(table)
    /\ UNCHANGED <<table, at, id, seen, gaveUp>>

(* ... or it gives up: its query is refused, there is no ddns-updater to   *)
(* start, or the write fails, which may have emptied the file.  Nothing is *)
(* armed again.                                                            *)
ReloadFails ==
    /\ reloading
    /\ reloading' = FALSE
    /\ gaveUp' = TRUE
    /\ configJson' \in {configJson, {}}
    /\ UNCHANGED <<table, at, id, seen>>

Handle(h) ==
    \/ \E i \in Id : Create(h, i) \/ \E op \in Op : Get(h, op, i)
    \/ PatchUpdate(h)
    \/ PatchDelete(h)
    \/ PatchEnabled(h)
    \/ AskReload(h)

ConfigNext == Reload \/ ReloadFails \/ \E h \in Handler : Handle(h)

ConfigSpec == ConfigInit /\ [][ConfigNext]_configVars

-----------------------------------------------------------------------------
(* config.json follows the table: wherever it differs from what the rows   *)
(* call for, a reload is armed, a handler is about to ask for one, or the  *)
(* reload that was to make up for it failed and nobody has asked since.    *)
ConfigFollowsTable ==
    \/ configJson = Settings(table)
    \/ reloading
    \/ \E h \in Handler : at[h] = "patched"
    \/ gaveUp

(* A deleted row stays deleted, and leaves config.json for good: an update *)
(* that read it before the deletion cannot bring it back.                  *)
DeletedStaysDeleted ==
    [][\A i \in Id : table[i].state = "deleted" =>
          /\ table'[i].state = "deleted"
          /\ (\E s \in configJson' : s.id = i) => \E s \in configJson : s.id = i]_configVars

(* "Provider-specific credentials [...] live alongside the provider        *)
(* field": every entry of config.json has credentials its provider needs.  *)
ConfigHasCredentials ==
    \A s \in configJson :
        \E need \in Required(s.provider) :
            need \subseteq DOMAIN s.cfg /\ \A f \in need : s.cfg[f] # Blank
=============================================================================
