------------------------------ MODULE GeneratedApi ------------------------------
(***************************************************************************)
(* The generated CRUD API of one database of a connection                  *)
(* (api/app/services/papi_service.py, api/app/routers/papi.py): it is      *)
(* enabled and disabled as a whole and per table by the routes of          *)
(* connections.py and by a step of an agent's plan (routers/ai.py), and    *)
(* called by anyone who made a token.                                      *)
(*                                                                         *)
(* Every request has a session of its own with the rows it has read, reads *)
(* no row twice, and a commit writes the fields it changed, not those that *)
(* already were what it set them to.  What provisioning does to the tables,*)
(* the rows served, expiry and the limit of the rate are left out; no code *)
(* revokes a token.                                                        *)
(***************************************************************************)
EXTENDS Integers

CONSTANTS
    Admins,         \* requests that enable or disable
    Callers         \* clients of the API, each of which makes a token and calls with it

VARIABLES
    papiConfig,     \* the row of papi_configs, or NoPapiConfig
    papiTable,      \* the row of papi_table_configs: "on", "off", or NoTableRow
    secretsMade,    \* secrets are numbered
    admin,          \* what each such request does, where it is, and the row it has read
    caller,         \* where each client is, its token, and the secret that was read for it
    ended           \* for the property: the secrets whose time is over

papiVars == <<papiConfig, papiTable, secretsMade, admin, caller, ended>>

NoPapiConfig == [enabled |-> FALSE, secret |-> 0]
NoTableRow == "no row"
Tasks == {"enable", "disable", "enable table", "disable table"}

PapiInit ==
    /\ papiConfig = NoPapiConfig /\ papiTable = NoTableRow
    /\ secretsMade = 0 /\ ended = {}
    /\ admin \in [Admins -> [task : Tasks, at : {"new"}, seen : {NoPapiConfig}, table : {NoTableRow}]]
    /\ caller = [c \in Callers |-> [at |-> "new", token |-> 0, seen |-> 0]]

Goes(a, at) == admin' = [admin EXCEPT ![a].at = at]

-----------------------------------------------------------------------------
(* Enabling and disabling.                                                 *)

\* get_status, before a table is enabled.
ReadStatus(a) ==
    /\ admin[a].task = "enable table" /\ admin[a].at = "new"
    /\ admin' = [admin EXCEPT ![a].seen = papiConfig,
                              ![a].at = IF papiConfig.enabled THEN "table" ELSE "database"]
    /\ UNCHANGED <<papiConfig, papiTable, secretsMade, caller, ended>>

\* The session gives back the row it has read before, if there was one.
ReadConfig(a) ==
    /\ \/ admin[a].task \in {"enable", "disable"} /\ admin[a].at = "new"
       \/ admin[a].at = "database"
    /\ admin' = [admin EXCEPT ![a].at = "commits",
                              ![a].seen = IF @ = NoPapiConfig THEN papiConfig ELSE @]
    /\ UNCHANGED <<papiConfig, papiTable, secretsMade, caller, ended>>

\* Mutated form of SecretOf: who enables again keeps the secret there was.
SecretKept(seen) == IF seen = NoPapiConfig THEN secretsMade' ELSE papiConfig.secret

SecretOf(seen) == secretsMade'

Ends(old, new) ==
    ended' = IF old.enabled /\ (~new.enabled \/ new.secret # old.secret)
             THEN ended \union {old.secret} ELSE ended

\* enable_for_connection commits: one of two that insert the row at once is refused.
CommitEnable(a) ==
    /\ admin[a].at = "commits" /\ admin[a].task # "disable"
    /\ IF admin[a].seen = NoPapiConfig /\ papiConfig # NoPapiConfig
       THEN Goes(a, "refused") /\ UNCHANGED <<papiConfig, secretsMade, ended>>
       ELSE /\ secretsMade' = secretsMade + 1
            /\ papiConfig' = [enabled |-> ~admin[a].seen.enabled \/ papiConfig.enabled,
                              secret |-> SecretOf(admin[a].seen)]
            /\ Ends(papiConfig, papiConfig')
            /\ Goes(a, IF admin[a].task = "enable" THEN "done" ELSE "table")
    /\ UNCHANGED <<papiTable, caller>>

CommitDisable(a) ==
    /\ admin[a].at = "commits" /\ admin[a].task = "disable"
    /\ papiConfig' = IF admin[a].seen.enabled THEN [papiConfig EXCEPT !.enabled = FALSE]
                     ELSE papiConfig
    /\ Ends(papiConfig, papiConfig')
    /\ Goes(a, "done")
    /\ UNCHANGED <<papiTable, secretsMade, caller>>

\* enable_table and disable_table: read the row, then commit.
ReadTable(a) ==
    /\ \/ admin[a].at = "table"
       \/ admin[a].task = "disable table" /\ admin[a].at = "new"
    /\ admin' = [admin EXCEPT ![a].table = papiTable, ![a].at = "commits table"]
    /\ UNCHANGED <<papiConfig, papiTable, secretsMade, caller, ended>>

CommitTable(a) ==
    /\ admin[a].at = "commits table"
    /\ LET seen == admin[a].table
           sets == IF admin[a].task = "enable table" THEN "on" ELSE "off"
       IN  \/ /\ seen = NoTableRow /\ sets = "on" /\ papiTable # NoTableRow
              /\ Goes(a, "refused") /\ UNCHANGED papiTable
           \/ /\ (seen = NoTableRow /\ sets = "on" /\ papiTable = NoTableRow) \/ (seen # NoTableRow /\ seen # sets)
              /\ papiTable' = sets /\ Goes(a, "done")
           \/ /\ seen = sets \/ (seen = NoTableRow /\ sets = "off")
              /\ Goes(a, "done") /\ UNCHANGED papiTable
    /\ UNCHANGED <<papiConfig, secretsMade, caller, ended>>

-----------------------------------------------------------------------------
(* Calls.                                                                  *)

\* _require_enabled, for a token or for a call with one.
ReadSecret(c) ==
    /\ caller[c].at \in {"new", "has token"}
    /\ caller' = IF ~papiConfig.enabled THEN [caller EXCEPT ![c].at = "refused"]
                 ELSE [caller EXCEPT ![c].seen = papiConfig.secret,
                                     ![c].at = IF @ = "new" THEN "may have one" ELSE "shows it"]
    /\ UNCHANGED <<papiConfig, papiTable, secretsMade, admin, ended>>

\* create_token signs with the secret that was read.
CreateToken(c) ==
    /\ caller[c].at = "may have one"
    /\ caller' = [caller EXCEPT ![c].token = caller[c].seen, ![c].at = "has token"]
    /\ UNCHANGED <<papiConfig, papiTable, secretsMade, admin, ended>>

\* validate_token checks the signature with the secret that was read.
ValidateToken(c) ==
    /\ caller[c].at = "shows it"
    /\ caller' = [caller EXCEPT ![c].at = IF caller[c].token = caller[c].seen THEN "authed" ELSE "refused"]
    /\ UNCHANGED <<papiConfig, papiTable, secretsMade, admin, ended>>

\* _require_table_enabled, then the rows; the client may call again.
ServeRows(c) ==
    /\ caller[c].at = "authed"
    /\ caller' = [caller EXCEPT ![c].at = IF papiTable = "on" THEN "served" ELSE "refused"]
    /\ UNCHANGED <<papiConfig, papiTable, secretsMade, admin, ended>>

CallAgain(c) ==
    /\ caller[c].at \in {"served", "refused"} /\ caller[c].token # 0
    /\ caller' = [caller EXCEPT ![c].at = "has token"]
    /\ UNCHANGED <<papiConfig, papiTable, secretsMade, admin, ended>>

PapiNext ==
    \/ \E a \in Admins : \/ ReadStatus(a) \/ ReadConfig(a) \/ CommitEnable(a) \/ CommitDisable(a)
                         \/ ReadTable(a) \/ CommitTable(a)
    \/ \E c \in Callers : \/ ReadSecret(c) \/ CreateToken(c) \/ ValidateToken(c)
                          \/ ServeRows(c) \/ CallAgain(c)

PapiSpec == PapiInit /\ [][PapiNext]_papiVars

-----------------------------------------------------------------------------
Secrets == 0..secretsMade
PapiConfig == [enabled : BOOLEAN, secret : Secrets]

AdminState ==
    [task : Tasks, seen : PapiConfig, table : {"on", "off", NoTableRow},
     at : {"new", "database", "commits", "table", "commits table", "done", "refused"}]
CallerState ==
    [token : Secrets, seen : Secrets,
     at : {"new", "may have one", "has token", "shows it", "authed", "served", "refused"}]

PapiTyped ==
    /\ papiConfig \in PapiConfig /\ papiTable \in {"on", "off", NoTableRow}
    /\ ended \subseteq Secrets
    /\ admin \in [Admins -> AdminState]
    /\ caller \in [Callers -> CallerState]

\* Whoever enables and disables at once, with whatever rows they have read: a token that
\* stopped being good, because its database was disabled or enabled anew, is never good
\* again, and every other token is good as long as nothing of that kind happened to it
\* (enable_for_connection, disable_for_connection, validate_token).
TokensStayDead ==
    \A c \in Callers : caller[c].token # 0 =>
        (caller[c].token \in ended <=> ~(papiConfig.enabled /\ papiConfig.secret = caller[c].token))

==================================================================================
