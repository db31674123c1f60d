------------------------------- MODULE Schema -------------------------------
(***************************************************************************)
(* Start-up of the ccnet user manager (src/net/server/user-mgr.c):         *)
(* ccnet_user_manager_prepare reads the [LDAP] settings, opens the         *)
(* database and runs check_db_table, whose CREATE ... IF NOT EXISTS        *)
(* statements depend on the SQL dialect.  The process may crash between    *)
(* any two statements, a statement may fail, and a supervisor restarts     *)
(* the server, which runs prepare again against the tables already on      *)
(* disk.  The tables and indexes are durable; where prepare had got to is  *)
(* lost with the process.                                                  *)
(***************************************************************************)
EXTENDS Naturals, Sequences

CONSTANTS
    Dialects,      \* the ccnet_db_type values a run may start with
    MaxFaults      \* bound on crashes and failed statements in a behaviour

ASSUME SchemaConstAssumption ==
    /\ Dialects \subseteq {"mysql", "sqlite", "pgsql"}
    /\ MaxFaults \in Nat

VARIABLES
    dialect,   \* ccnet_db_type (db), fixed for the installation
    cfg,       \* the [LDAP] keys present in the configuration file
    phase,     \* where the server process is in its start-up
    pc,        \* the next statement of check_db_table
    tables,    \* the tables on disk
    indexes,   \* the indexes and uniqueness constraints on disk
    useLdap,   \* manager->use_ldap
    faults     \* crashes and failed statements so far

vars == <<dialect, cfg, phase, pc, tables, indexes, useLdap, faults>>

(* The [LDAP] keys try_load_ldap_settings looks up, each present or not.   *)
LdapConfigs == [host : BOOLEAN, base : BOOLEAN, userDn : BOOLEAN,
                password : BOOLEAN]

Phases == {"down", "config", "open", "ddl", "up", "failed"}

(* An index or uniqueness constraint: its name, table, column, and        *)
(* whether it is UNIQUE.                                                   *)
Idx(n, t, c, u) == [name |-> n, table |-> t, col |-> c, unique |-> u]

(* CREATE TABLE IF NOT EXISTS t (... inline constraints ...), and          *)
(* CREATE [UNIQUE] INDEX IF NOT EXISTS i.                                  *)
CreateTable(t, inline) == [kind |-> "table", table |-> t, inline |-> inline]
CreateIndex(i) == [kind |-> "index", table |-> i.table, inline |-> {i}]

(* The statements of check_db_table for MySQL: the keys are inline, and    *)
(* an inline index is named after its column.                              *)
MySQLScript ==
    << CreateTable("EmailUser", {Idx("PRIMARY", "EmailUser", "id", TRUE),
                                 Idx("email", "EmailUser", "email", TRUE)}),
       CreateTable("Binding", {Idx("peer_id", "Binding", "peer_id", TRUE),
                               Idx("email", "Binding", "email", FALSE)}) >>

(* For SQLite: the id is the rowid, and the other indexes are separate     *)
(* statements, two of them named email_index.                              *)
SQLiteScript_BindingFirst ==
    << CreateTable("EmailUser", {Idx("rowid", "EmailUser", "id", TRUE)}),
       CreateTable("Binding", {}),
       CreateIndex(Idx("email_index", "Binding", "email", FALSE)),
       CreateIndex(Idx("email_index", "EmailUser", "email", TRUE)),
       CreateIndex(Idx("peer_index", "Binding", "peer_id", TRUE)) >>
SQLiteScript ==
    << CreateTable("EmailUser", {Idx("rowid", "EmailUser", "id", TRUE)}),
       CreateIndex(Idx("email_index", "EmailUser", "email", TRUE)),
       CreateTable("Binding", {}),
       CreateIndex(Idx("email_index", "Binding", "email", FALSE)),
       CreateIndex(Idx("peer_index", "Binding", "peer_id", TRUE)) >>

(* For PostgreSQL: inline constraints, named <table>_<column>_key.         *)
PgScript ==
    << CreateTable("EmailUser", {Idx("emailuser_pkey", "EmailUser", "id", TRUE),
                                 Idx("emailuser_email_key", "EmailUser",
                                     "email", TRUE)}),
       CreateTable("Binding", {Idx("binding_peer_id_key", "Binding",
                                   "peer_id", TRUE)}) >>

(* check_db_table: the branch on the dialect.                              *)
Script ==
    CASE dialect = "mysql"  -> MySQLScript
      [] dialect = "sqlite" -> SQLiteScript
      [] dialect = "pgsql"  -> PgScript

(* IF NOT EXISTS on an index looks the name up per table in MySQL, and     *)
(* in the whole database (schema) in SQLite and PostgreSQL.                *)
NameTaken(i) ==
    \E j \in indexes : j.name = i.name /\ (dialect # "mysql" \/ j.table = i.table)

(* The indexes after one CREATE ... IF NOT EXISTS: an existing table or a  *)
(* taken name makes it a no-op.                                            *)
IndexesAfter(s) ==
    IF \/ s.kind = "table" /\ s.table \in tables
       \/ s.kind = "index" /\ \E i \in s.inline : NameTaken(i)
    THEN indexes
    ELSE indexes \cup s.inline

(* try_load_ldap_settings fails when HOST is set without BASE, or USER_DN  *)
(* without PASSWORD.                                                       *)
ConfigOK(c) == c.host => c.base /\ (c.userDn => c.password)

Init ==
    /\ dialect \in Dialects
    /\ cfg \in LdapConfigs
    /\ phase = "down"
    /\ pc = 0
    /\ tables = {}
    /\ indexes = {}
    /\ useLdap = FALSE
    /\ faults = 0

(* A new server process: ccnet_user_manager_new, then prepare.             *)
Restart ==
    /\ phase \in {"down", "failed"}
    /\ phase' = "config"
    /\ UNCHANGED <<dialect, cfg, pc, tables, indexes, useLdap, faults>>

(* try_load_ldap_settings; use_ldap is set as soon as HOST is found.       *)
LoadLdapSettings ==
    /\ phase = "config"
    /\ useLdap' = cfg.host
    /\ phase' = IF ConfigOK(cfg) THEN "open" ELSE "failed"
    /\ UNCHANGED <<dialect, cfg, pc, tables, indexes, faults>>

(* open_db: SQLite opens PeerMgr/usermgr.db after creating its directory,  *)
(* which may fail; the others use the session's database.                  *)
OpenDb ==
    /\ phase = "open"
    /\ \/ /\ phase' = "ddl"
          /\ pc' = 1
          /\ UNCHANGED faults
       \/ /\ dialect = "sqlite"
          /\ faults < MaxFaults
          /\ phase' = "failed"
          /\ faults' = faults + 1
          /\ UNCHANGED pc
    /\ UNCHANGED <<dialect, cfg, tables, indexes, useLdap>>

(* A CREATE TABLE without IF NOT EXISTS: an existing table is an error.    *)
ExecStmt_NoIfNotExists ==
    /\ phase = "ddl"
    /\ LET s == Script[pc] IN
         IF s.kind = "table" /\ s.table \in tables
         THEN /\ phase' = "failed"
              /\ UNCHANGED <<pc, tables, indexes>>
         ELSE /\ tables' = tables \cup {s.table}
              /\ indexes' = IndexesAfter(s)
              /\ pc' = pc + 1
              /\ phase' = IF pc = Len(Script) THEN "up" ELSE "ddl"
    /\ UNCHANGED <<dialect, cfg, useLdap, faults>>

(* One statement of check_db_table succeeds; after the last one            *)
(* check_db_table, open_db and prepare return 0 and the manager serves.    *)
ExecStmt ==
    /\ phase = "ddl"
    /\ LET s == Script[pc] IN
         /\ tables' = tables \cup {s.table}
         /\ indexes' = IndexesAfter(s)
    /\ pc' = pc + 1
    /\ phase' = IF pc = Len(Script) THEN "up" ELSE "ddl"
    /\ UNCHANGED <<dialect, cfg, useLdap, faults>>

(* ccnet_db_query returns -1: the statement changes nothing and prepare    *)
(* returns -1, which aborts the server.                                    *)
StmtFails ==
    /\ phase = "ddl"
    /\ faults < MaxFaults
    /\ phase' = "failed"
    /\ faults' = faults + 1
    /\ UNCHANGED <<dialect, cfg, pc, tables, indexes, useLdap>>

(* The process dies at any point; only the tables survive.                 *)
Crash ==
    /\ phase # "down"
    /\ faults < MaxFaults
    /\ phase' = "down"
    /\ pc' = 0
    /\ useLdap' = FALSE
    /\ faults' = faults + 1
    /\ UNCHANGED <<dialect, cfg, tables, indexes>>

Next ==
    \/ Restart
    \/ LoadLdapSettings
    \/ OpenDb
    \/ ExecStmt
    \/ StmtFails
    \/ Crash

(* The supervisor restarts a dead server, and a started process runs its   *)
(* start-up code: weak fairness on each.  Faults are bounded.              *)
Fairness ==
    /\ WF_vars(Restart)
    /\ WF_vars(LoadLdapSettings)
    /\ WF_vars(OpenDb)
    /\ WF_vars(ExecStmt)

Spec == Init /\ [][Next]_vars

FairSpec == Spec /\ Fairness

-----------------------------------------------------------------------------
(* The names and columns of the indexes check_db_table creates.            *)
IdxNames == {"PRIMARY", "email", "peer_id", "rowid", "email_index",
             "peer_index", "emailuser_pkey", "emailuser_email_key",
             "binding_peer_id_key"}
IdxType == [name : IdxNames, table : {"EmailUser", "Binding"},
            col : {"id", "email", "peer_id"}, unique : BOOLEAN]

(* The type invariant.                                                     *)
TypeOK ==
    /\ dialect \in {"mysql", "sqlite", "pgsql"}
    /\ cfg \in LdapConfigs
    /\ phase \in Phases
    /\ pc \in Nat
    /\ tables \subseteq {"EmailUser", "Binding"}
    /\ indexes \subseteq IdxType
    /\ useLdap \in BOOLEAN
    /\ faults \in 0..MaxFaults

HasIndex(t, c, u) == \E i \in indexes : i.table = t /\ i.col = c /\ i.unique = u

(* Whenever the manager serves calls, the store enforces what add and the  *)
(* id lookups rely on: EmailUser exists with a unique id and a UNIQUE      *)
(* email, whichever statement a crash or a failure interrupted in an       *)
(* earlier start.                                                          *)
KeysEnforced ==
    phase = "up" =>
        /\ "EmailUser" \in tables
        /\ HasIndex("EmailUser", "id", TRUE)
        /\ HasIndex("EmailUser", "email", TRUE)

(* Spec section 4.1: once the manager serves, Binding exists with a        *)
(* unique peer_id and a non-unique index on email.                         *)
BindingIndexed ==
    phase = "up" =>
        /\ "Binding" \in tables
        /\ HasIndex("Binding", "peer_id", TRUE)
        /\ HasIndex("Binding", "email", FALSE)

(* Spec section 4.1, "idempotent across restarts": with a valid [LDAP]     *)
(* configuration, start-up re-run over the tables an interrupted start     *)
(* left behind eventually succeeds for good.                               *)
StartupCompletes == ConfigOK(cfg) => <>[](phase = "up")

=============================================================================
