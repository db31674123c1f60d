# TLA+ models of the ccnet user manager

This directory models `src/net/server/user-mgr.c` in TLA+. That file is the
user manager of the ccnet server: the EmailUser table of the relational store,
the optional LDAP directory, and the public calls that route between them.
The project has TLC runs on small instances and TLAPS proofs for every
instance.

## The system

| Part | Code | What it does |
|---|---|---|
| Manager lifecycle | `ccnet_user_manager_new`, `prepare`, `try_load_ldap_settings`, `open_db` | read the `[LDAP]` keys once, open the database |
| Schema Manager | `check_db_table` | creates EmailUser (id auto-increment primary key, email UNIQUE, passwd, is_staff, is_active, ctime) and Binding, in three SQL dialects |
| Credential Hasher | `hash_password` | SHA-1 of the password as 40 hex digits |
| Local Account Store | the SQL of `add`, `remove`, `validate`, `get`, `get_by_id`, `get_emailusers`, `count`, `update` | one statement per call, atomic in the engine |
| Directory Adapter | `ldap_init_and_bind`, `ldap_verify_user_password`, `ldap_list_users`, `ldap_count_users` | bind as the service user, search `(mail=uid)`, bind again as the found DN |
| Account Service | the `ccnet_user_manager_*` calls | route by `use_ldap`, which is set once by `try_load_ldap_settings` when `[LDAP] HOST` is configured |

The precedence rule under LDAP works like this:

- `add` and `remove` do nothing and return 0.
- `validate` accepts a local **staff** row with the right digest at once. Any
  other email goes to the directory search and bind.
- `get` returns a local staff row, or else the first entry of
  `ldap_list_users(email)`, as id 0, not staff, active.
- `get_by_id` returns NULL.
- `list` and `count` ask the directory with the filter `*`.
- `update` runs only when its `is_staff` argument is set.

Without LDAP every call is the local SQL.

Callers are threads that share the manager. Nothing in the code serialises
them, so their calls interleave. A call that talks to LDAP makes several
round trips:

1. the local SELECT;
2. the service bind and the search;
3. the bind as the found DN.

Between these steps, other callers change the table. The directory's own
administrators change entries, and the server can go down or stop answering.

Before any call, `ccnet_user_manager_prepare` runs once per process start:

1. `try_load_ldap_settings` sets `use_ldap` when `[LDAP] HOST` is present, and
   fails when BASE, or the PASSWORD that goes with a USER_DN, is missing;
2. `open_db` opens the database (for SQLite, `PeerMgr/usermgr.db`);
3. `check_db_table` issues the dialect's `CREATE ... IF NOT EXISTS`
   statements one by one, and any failure aborts the start.

The tables outlive the process. A start that dies part-way leaves some of
them behind, and the next start runs the statements again over them.


## The hazards of this code

The hazards are listed, each at the line where it bites, under `hazards` in
PROJECT.json. In short:

- **The filter is not escaped** (l. 195). An email of `*` selects every entry.
- **`ldap_get_dn` may return NULL** (l. 216). The user bind is then skipped
  (l. 161).
- **An empty password is an unauthenticated bind** (l. 222), which servers
  accept.
- **Search and bind are separate round trips** (l. 209-222). The entry can
  change in between.
- **`validate` reads the local row and then calls the directory** (l. 567).
- **No timeout on `ldap_bind_s` and `ldap_search_s`** (l. 201). A server that
  stops answering blocks the caller.
- **`update` under LDAP is gated by its argument**, not by the row (l. 730).
- **A directory failure in `list` looks like an empty directory** (l. 684).
  Paging is ignored under LDAP (l. 684) and passed unchecked to SQL (l. 690).
- **Concurrent adds of one email** are stopped only by the UNIQUE index
  (l. 497).
- **Ids may be handed out again** once the engine forgets its counter (l. 734).
- **Start-up:**
  - a failure or crash part-way through `check_db_table` (l. 361);
  - SQLite's EmailUser and its email key are two statements (l. 377);
  - SQLite's Binding index has the name of EmailUser's, so it is skipped
    (l. 385).
- **An entry without the login attribute** dereferences NULL `vals` (l. 284).
  This is not modelled.

## Modules

| Module | Models | Kind |
|---|---|---|
| `UserMgr.tla` | the calls, the table, the directory, concurrent callers | detailed specification |
| `Accounts.tla` | what the façade promises, every call one atomic step | abstract specification |
| `UserMgrAccounts.tla` | `UserMgr` implements `Accounts` | refinement mapping |
| `Schema.tla` | `prepare`, `try_load_ldap_settings`, `open_db`, `check_db_table` with crashes and restarts | detailed specification |
| `MC_UserMgr.tla` | model values for TLC | model |
| `UserMgrProofs.tla` | TLAPS proofs about `UserMgr` | proofs |
| `UserMgrListProofs.tla` | TLAPS proof that local paging is bounded | proofs |
| `UserMgrAccountsProofs.tla` | TLAPS proof that `UserMgr` refines `Accounts` | proofs |
| `SchemaProofs.tla` | TLAPS proofs about `Schema` | proofs |

### UserMgr

- **Constants:**
  - emails, passwords and DNs;
  - the fixed mail attribute of each DN;
  - the callers, `UseLdap`, the start-up table and the id bound `MaxId`;
  - the paging arguments;
  - `GetDnMayFail`;
  - the empty password `EmptyPw` and `UnauthBind`, whether the server takes
    it as an unauthenticated bind;
  - `MayHang`, whether the server may stop answering.
- **Variables:**

  | Variable | What it holds |
  |---|---|
  | `rows` | the EmailUser table; ctime is omitted because no call reads it |
  | `nextId` | the auto-increment counter |
  | `dirPw` | each entry's password, or NULL when there is no entry |
  | `dirUp` | whether the LDAP server answers (it refuses when down) |
  | `dirHung` | the server holds requests without answering |
  | `th[c]` | where caller `c` is inside a multi-step call, with its locals |
  | `lastReply` | the call that returned last |
  | `everValid` | a history of every credential ever valid under the precedence rule |

- **Actions, one per call or round trip:**
  - `Add`, `Remove`, `Update`, `GetById`, `List` and `Count` are one step
    each.
  - `ValidateLocal`, `LdapSearchUser` and `LdapBindUser` split `validate`.
  - `GetLocal` and `GetLdap` split `get`.
  - A step that talks to the server is disabled while it is hung. The caller
    is blocked inside the synchronous call.
  - `DirSetEntry`, `DirToggle`, `DirHang` and `DirResume` are the directory's
    environment.
- **Helpers:** `LdapListUsers`, `LdapCountUsers`, `BindOk`, `PwMatch`,
  `StaffMatch`, `LocalAnswer` and `Page` translate the helpers and conditions
  they are named after.
- **Mapping:** the `map` of PROJECT.json gives the lines each definition
  translates.

`MC_UserMgr.tla` gives the model values for TLC:

- **Start-up table:** staff `e1`/`p1`, non-staff `e2`/`p2`.
- **Directory:** `d1`→`e1`, `d2`→`e2`.
- **Pages:** `<<-1,-1>>`, `<<0,1>>`, `<<1,1>>`.

### Accounts and the refinement

`Accounts` is the façade as spec §3 and §4.5 describe it, with each call one
atomic step:

- **`Store(c)`:** add, remove, update, get_by_id, list and count. Each moves
  the table from one keyed table to another. A row keeps its id and email, or
  takes an id at or above `nextId`, so an id is never handed out twice.
- **`Validate(c, e, p)`:** returns 0 only when `(e, p)` is valid at that
  moment. Without a directory it returns 0 exactly then.
- **`Get(c, e)`:** returns nothing or one account that `e` has at that moment.
  Without a directory it returns exactly the row of `e`.
- **`Directory`:** entries and availability change on their own.

`UserMgrAccounts` maps `UserMgr` onto it with `INSTANCE Accounts WITH ...`:

- The abstract `dirUp` is `dirUp /\ ~dirHung`. To the façade, a hung server
  is one that does not answer.
- `th`, `everValid` and `dirHung` are hidden.
- Each call takes effect at one of its steps:
  - `validate` at the staff SELECT, at the bind as the found DN, or at the
    search when that fails;
  - `get` at the local SELECT or at the directory search.
  - Every other step of a multi-step call is a stutter.

`Refines == A!Spec` says that `validate` and `get` are linearizable at those
points. This is stronger than `AuthSound`, which accepts credentials valid at
*any* earlier moment.

### Schema

`Schema` models a process start and its faults:

- **Constants:** the dialects a run may start with, and `MaxFaults`, the
  bound on crashes and failed statements in a behaviour.
- **Variables:**
  - `dialect`, and the `[LDAP]` keys `cfg`;
  - `phase`: `down`, `config`, `open`, `ddl`, `up` or `failed`;
  - `pc`, the next statement;
  - the durable `tables` and `indexes`;
  - `useLdap` and `faults`.
- **The statements:** each dialect's sequence (`MySQLScript`, `SQLiteScript`,
  `PgScript`) lists its statements with the indexes and keys each creates.
  - A MySQL inline index is named after its column.
  - PostgreSQL's is named `<table>_<column>_key`.
  - SQLite's indexes are separate statements.
- **`IF NOT EXISTS`:**
  - A `CREATE TABLE` of an existing table does nothing, inline keys included.
  - A `CREATE INDEX` is a no-op when its name is taken. Names are looked up
    per table in MySQL, and per database (schema) in SQLite and PostgreSQL.
- **Actions:**

  | Action | Models |
  |---|---|
  | `Restart` | a new process |
  | `LoadLdapSettings` | `try_load_ldap_settings` |
  | `OpenDb` | `open_db`; SQLite's directory creation may fail |
  | `ExecStmt` | one successful statement; the last one brings the manager `up` |
  | `StmtFails` | `ccnet_db_query < 0`, which aborts the start |
  | `Crash` | the process dies; only the tables survive |

## Properties and runs

| Property | Module | Kind | What it says |
|---|---|---|---|
| `TypeOK` | UserMgr | invariant | the type invariant |
| `AuthSound` | UserMgr | invariant | a `validate` that returns 0 was given credentials in `everValid`, i.e. valid at some moment under the precedence rule |
| `GetSound` | UserMgr | invariant | `get(e)` returns only accounts with email `e`, and under LDAP only a local staff row or the directory account of `e` |
| `ListBounded` | UserMgr | action | `list(start, limit)` returns at most `limit` accounts |
| `ListReportsOutage` | UserMgr | action | `list(-1,-1)` returns nothing only when there is nothing |
| `UpdateHonoured` | UserMgr | action | `update(id, ...)` changes a row it is allowed to change, and leaves others alone (spec §4.5) |
| `CallsReturn` | UserMgr | liveness | a caller inside `validate` or `get` is eventually idle again (spec §5) |
| `Refines` | UserMgrAccounts | refinement | `UserMgr` implements `Accounts` |
| `KeysEnforced` | Schema | invariant | whenever the manager serves, EmailUser exists with unique id and email |
| `BindingIndexed` | Schema | invariant | whenever the manager serves, Binding has a unique peer_id and an index on email (spec §4.1) |
| `StartupCompletes` | Schema | liveness | with a valid `[LDAP]` configuration, start-up eventually succeeds for good (spec §4.1, "idempotent across restarts") |

| Run (cfg) | Instance | Result |
|---|---|---|
| `UserMgr_ldap` | LDAP, 2 callers, 2 emails, 1 DN (mail e2), MaxId 2 | passes `TypeOK`, `AuthSound`, `GetSound` and `Refines`, 97k distinct states under caller symmetry |
| `UserMgr_local` | no LDAP, 1 caller, MaxId 3 | passes `ListBounded` and `Refines` |
| `UserMgr_live` | LDAP, 1 caller, a server that may hang | passes `CallsReturn` under `LiveSpec` |
| `UserMgr_hang` | as `UserMgr_live`, without the server's fairness | `CallsReturn` violated: a bind never returns |
| `UserMgr_wildcard` | adds `*` to the emails | `AuthSound` violated: `validate("*", p1)` succeeds through `d1` |
| `UserMgr_getdn` | `GetDnMayFail` | `AuthSound` violated: NULL DN, any password accepted |
| `UserMgr_unauth` | `UnauthBind`, the empty password among the inputs | `AuthSound` violated: `validate(e1, "")` binds `d1` |
| `UserMgr_demote` | LDAP | `UpdateHonoured` violated: demoting a staff row is ignored |
| `UserMgr_outage` | LDAP | `ListReportsOutage` violated: an outage lists as empty |
| `UserMgr_paging` | LDAP | `ListBounded` violated: `list(0,1)` returns two accounts |
| `Schema_all` | 3 dialects, all 16 `[LDAP]` key sets, 2 faults | passes `KeysEnforced` and `StartupCompletes` under `FairSpec` |
| `Schema_binding` | SQLite, 2 faults | `BindingIndexed` violated: SQLite skips the Binding index |

The violation runs are listed under `findings`.

The local run checks no `TypeOK` and no `AuthSound`:

- `TypeOK` is proved for every instance (`TypeCorrect`).
- Without a directory, `AuthSound` restates `validate`'s own SELECT.
- `Refines` in the same run already requires `validate` to return 0 exactly
  for the valid credentials.

`Schema_binding` runs SQLite alone, so that its trace shows SQLite's skipped
index. PostgreSQL's branch also leaves Binding(email) unindexed: `PgScript`
(l. 400-401) has no such statement. That can be read off the script, and
no run traces it.

**Symmetry.** Caller symmetry is sound in the ldap run. The
callers run the same code on no data of their own. The properties there are
invariants, plus `Refines`, whose `Next` quantifies over all callers alike.

**Why these bounds are enough.**

- Two emails, one staff and one not, cover every branch of the precedence
  rule.
- In the ldap run the one directory entry belongs to e2, the regular user
  with a stale local row. Every branch of the precedence rule is then
  reached: e1 is a local staff row only, and for e2 the directory must win
  over the local row. Its entry's password changes among p1, p2 and none.
  The wildcard, getdn and unauth runs keep two DNs, so a search can match
  the wrong entry.
- Two callers let a table or directory change land between the round trips of
  a `validate` or a `get`.
- `MaxId` 3 in the local run allows a delete followed by a re-insert with a
  fresh id. The id-reuse mutant of `Add` needs exactly that to break
  `Refines`.
- `<<0,1>>` and `<<1,1>>` are pages that start at and after the first row.
- Two faults in the schema runs let a start die between any two statements and
  the next start die again. With SQLite's five statements that includes a
  crash between EmailUser and its unique index.

Every mutant named in PROJECT.json breaks its property under its run's cfg.
Each one is a plausible bug in the mapped code:

- a dropped passwd or staff condition;
- a plaintext password;
- an off-by-one page start;
- an INSERT that reuses the largest free id (SQLite without AUTOINCREMENT);
- a service bind retried until it succeeds;
- a swapped order of SQLite's index statements;
- a `CREATE TABLE` without `IF NOT EXISTS`.

## Fairness

- **`CallsReturn`** is checked under `LiveSpec`.
  - Each caller's in-progress steps are **strongly** fair: a blocked synchronous
    LDAP call completes as soon as the server answers. The server may hang and
    resume over and over, so the step is only enabled from time to time.
  - `DirResume` is weakly fair: the server always answers again in the end.
  - A caller is never obliged to start a call.
- **`HangSpec`** drops the server's fairness, and the call never returns. The
  code has no timeout of its own, so nothing but the server can end the wait.
- **`StartupCompletes`** assumes weak fairness of `Restart`: a supervisor
  restarts a server that died or aborted. It also assumes weak fairness of the
  start-up steps, and a bounded number of faults.
- The schema runs set `CHECK_DEADLOCK FALSE`. Once `up`, start-up is over and
  has no more steps. Serving calls is `UserMgr`'s business.

## What is proved

### UserMgrProofs.tla

The theorems hold for every value of the constants that satisfies the
module's `ASSUME`s:

- `MaxId` is a natural number.
- NULL is distinct from the data.
- Every DN's mail is an email other than `*`.
- The start-up table keeps its keys.
- The set of DNs is finite.

**`TypeCorrect`: `Spec => []TypeOK`.**

- `TypeOK` is not inductive by itself. `Count` needs `Cardinality(rows)` to
  be an integer, so `rows` must be finite.
- The inductive invariant is `TypeInv == TypeOK /\ Keys`. `Keys` says:
  - ids are unique;
  - emails are unique;
  - every id is below `nextId`.
- The keys make `rows` injective into `1..MaxId`, and hence finite (lemma
  `RowsFinite`).
- `Add` keeps the keys because its guard checks the email and it hands out
  `nextId`. `Update` keeps id and email (lemma `UpdatedType`).

**`AuthSafe`: under `~GetDnMayFail`, `Wildcard \notin Emails` and
`~UnauthBind`, `Spec => []AuthSound`.**

- The inductive invariant `AuthInv` is the conjunction of four parts:
  - `TypeInv`;
  - `EverInv`: the credentials valid now are in the history;
  - `AuthSound`;
  - `BindInv`: a caller mid-`validate` runs only under LDAP, with an email and
    a password, and a DN it holds for the bind has that email as its mail.
- `BindInv` carries what the search established across the round trip. The
  bind then succeeds only when `dirPw[dn]` is the password, and that
  credential is valid at that moment.
- TLC checked `AuthInv` as an invariant of the ldap run before it was proved.
- The three hypotheses are necessary. The wildcard, getdn and unauth runs
  violate `AuthSound` exactly when one of them is dropped.

**`GetSafe`: under `Wildcard \notin Emails`, `Spec => []GetSound`.**

- `GetSound` speaks only of `lastReply`. Only the two steps that return from
  `get` can break it: `GetLocal` and `GetLdap`.
- `GetLdap` answers with `DirAccount(DirMail[dn])` for the entries the filter
  `(mail=e)` selects. That is `e`'s own account only when `e` is not `*`, and
  only when the caller in `g_dir` still holds the email it was called with.
- The inductive invariant is `GetInv == TypeInv /\ CallInv /\ GetSound`.
  `CallInv` says that a caller inside `validate` or `get` holds an email of
  `Emails`. A local answer is a row of `Row`, so its id is not 0.
- The theorem needs neither `~GetDnMayFail` nor `~UnauthBind`.
  - TLC checked `GetInv` before it was proved: on the ldap instance it
    finished (447,042 states, with a second entry d1 for e1), and on the getdn and unauth instances it ran
    to its time limit without a violation.
  - With `*` among the emails, TLC finds `GetSound` violated: `get("*")`
    returns another entry's account.

### UserMgrListProofs.tla

**`ListBoundedLocal`: under `~UseLdap`, `Spec => ListBounded`.**

- The action property follows from `[]TypeInv`, because every `List` step
  returns `{AccountOf(r) : r \in Page(pg)}`.
- `RankLess`: a row with a larger id has a larger storage position `Rank`.
  The rows up to it strictly contain the rows up to the other, and the table
  is finite (`RowsFinite`).
- `RankInjective`: distinct rows therefore have distinct positions, because
  the ids are keys.
- `PageBound`: `Rank` injects a page into `start+1..start+limit`, a set of
  `limit` elements, so `FS_Injection` bounds the page.
- `PageAcctsBound`: the accounts are the image of the page. `FS_Surjection`
  bounds them by the page's size.
- Under LDAP, `get_emailusers` ignores start and limit. The paging run shows
  that violation.

### UserMgrAccountsProofs.tla

**`Refinement`: under the same three hypotheses, `Spec => Refines`.**

- `InitMaps`: an initial state of `UserMgr` maps to an initial state of
  `Accounts`. The two `Row` types agree (lemma `RowSame`).
- `StepMaps`: under `AuthInv` before and after, every step of `Next` maps to
  a step of `A!Next` or to a stutter. There is one case per action:
  - the one-statement calls map to `Store` (lemmas `StoreMaps` and
    `StoreSame`);
  - the directory's changes map to `Directory` (lemma `DirMaps`);
  - the linearization steps of `validate` and `get` map to `Validate` and
    `Get`. `BindInv` supplies the fact that the bound DN's mail is the
    email, so a successful bind is a valid credential at that moment;
  - every other step is a stutter of the abstract variables.
- The theorem combines `InitMaps` and `StepMaps` with `AuthInit` and
  `AuthStep`, the lemmas that make `AuthInv` inductive, by PTL.

### SchemaProofs.tla

These theorems assume only `SchemaConstAssumption`: the dialects are among
the three, and `MaxFaults` is a natural number.

**`SchemaTyped`: `Spec => []TypeOK`.**

**`KeysAlwaysEnforced`: `Spec => []KeysEnforced`.**

- `KeysEnforced` is not inductive. It speaks only of `phase = "up"`, and the
  step into `up` is the last statement, which creates nothing on EmailUser.
- The inductive invariant is `SInv == TypeOK /\ PcInv /\ KeyInv`:
  - `PcInv`: during `ddl`, `pc` is a statement of the dialect's script;
  - `KeyInv`: an EmailUser table on disk has its unique id and, outside
    SQLite, its unique email. In SQLite, every index named `email_index` is
    EmailUser's, so SQLite's per-database `IF NOT EXISTS` never skips it.
    Past the first statement EmailUser exists, and in SQLite, past the
    second, its email index does too.
- The tables and indexes only grow (lemma `HasIndexMono`). A crash, a
  failed statement and a restart change neither, and leave `phase` short of
  `up` (lemma `QuietStep`).
- `ExecStep` has one case per statement of each dialect. It shows that the
  statement keeps `KeyInv`. This is where the SQLite ordering matters: the
  EmailUser `email_index` (statement 2) comes before the Binding one
  (statement 4). The `schema_binding` run shows the other side of that
  name clash: Binding's index is the one that is skipped.

**What stays with TLC.**

- **Liveness under fairness**, `CallsReturn` and `StartupCompletes`: the
  prover does not reason about `WF_`/`SF_` and `ENABLED`.
- **`ListReportsOutage`, `UpdateHonoured` and `BindingIndexed`:** TLC finds
  each one violated by what the code does, so they are findings rather than
  theorems.
- **`ListBounded` under LDAP:** it is proved only without a directory, where
  the code honours the limit.

## Not modelled

- **SQL failures** of the calls, other than the UNIQUE conflict. The schema
  statements' failures are modelled.
- **Changes to an entry's mail attribute.** `DirMail` is constant.
- **Multi-valued mail attributes, and an entry without one** (l. 284). The
  latter is a NULL dereference, a crash the model cannot represent.
- **ctime.**
- **The engine's own restart.** InnoDB before 8.0 recomputes AUTO_INCREMENT
  as the largest id plus one. `UserMgr`'s counter never goes back.
  `Refines` states the promise it would break.
- **Composition of `Schema` and `UserMgr`.** They are kept apart: the calls
  run only once `phase = "up"`. `UserMgr` takes the keys `KeysEnforced`
  establishes as its Row type and start-up assumption, and `use_ldap` as its
  constant `UseLdap`.
