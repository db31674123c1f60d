---------------------------- MODULE SchemaProofs ----------------------------
(***************************************************************************)
(* Proofs about the start-up of the user manager, for every set of         *)
(* dialects and every bound on faults: the state stays typed, and the      *)
(* manager serves only once EmailUser has its keys, however many starts    *)
(* died part-way through check_db_table before.                            *)
(***************************************************************************)
EXTENDS Schema, TLAPS

EmailKey == Idx("email_index", "EmailUser", "email", TRUE)

(* Why the keys are there when the manager comes up:                       *)
(*  - EmailUser is created with its primary key, and in MySQL and          *)
(*    PostgreSQL with its UNIQUE email, in one statement;                  *)
(*  - in SQLite the only index ever named email_index is EmailUser's,      *)
(*    because its statement runs before Binding's in every start;          *)
(*  - a start that has passed a statement has its effect on disk.          *)
PcInv == phase = "ddl" => pc \in 1..Len(Script)

KeyInv ==
    /\ "EmailUser" \in tables => HasIndex("EmailUser", "id", TRUE)
    /\ dialect # "sqlite" /\ "EmailUser" \in tables =>
          HasIndex("EmailUser", "email", TRUE)
    /\ dialect = "sqlite" =>
          \A i \in indexes : i.name = "email_index" => i = EmailKey
    /\ phase = "ddl" /\ pc > 1 => "EmailUser" \in tables
    /\ phase = "ddl" /\ dialect = "sqlite" /\ pc > 2 => EmailKey \in indexes
    /\ KeysEnforced

SInv == TypeOK /\ PcInv /\ KeyInv

(* check_db_table's branch on the dialect.                                *)
LEMMA ScriptIs ==
    /\ dialect = "mysql"  => Script = MySQLScript
    /\ dialect = "sqlite" => Script = SQLiteScript
    /\ dialect = "pgsql"  => Script = PgScript
  BY Zenon DEF Script

(* The statements check_db_table runs in each dialect, one by one.        *)
LEMMA MySQLStmts ==
    ASSUME dialect = "mysql"
    PROVE  /\ Script[1] =
                CreateTable("EmailUser", {Idx("PRIMARY", "EmailUser", "id", TRUE),
                                          Idx("email", "EmailUser", "email", TRUE)})
           /\ Script[2] =
                CreateTable("Binding", {Idx("peer_id", "Binding", "peer_id", TRUE),
                                        Idx("email", "Binding", "email", FALSE)})
<1>1. Script = MySQLScript
  BY ScriptIs
<1>2. QED
  BY <1>1 DEF MySQLScript

LEMMA PgStmts ==
    ASSUME dialect = "pgsql"
    PROVE  /\ Script[1] =
                CreateTable("EmailUser",
                  {Idx("emailuser_pkey", "EmailUser", "id", TRUE),
                   Idx("emailuser_email_key", "EmailUser", "email", TRUE)})
           /\ Script[2] =
                CreateTable("Binding",
                  {Idx("binding_peer_id_key", "Binding", "peer_id", TRUE)})
<1>1. Script = PgScript
  BY ScriptIs
<1>2. QED
  BY <1>1 DEF PgScript

LEMMA SQLiteStmts ==
    ASSUME dialect = "sqlite"
    PROVE  /\ Script[1] =
                CreateTable("EmailUser", {Idx("rowid", "EmailUser", "id", TRUE)})
           /\ Script[2] = CreateIndex(EmailKey)
           /\ Script[3] = CreateTable("Binding", {})
           /\ Script[4] =
                CreateIndex(Idx("email_index", "Binding", "email", FALSE))
           /\ Script[5] =
                CreateIndex(Idx("peer_index", "Binding", "peer_id", TRUE))
<1>1. Script = SQLiteScript
  BY ScriptIs
<1>2. QED
  BY <1>1 DEF SQLiteScript, EmailKey

LEMMA ScriptLen ==
    ASSUME dialect \in {"mysql", "sqlite", "pgsql"}
    PROVE  /\ dialect = "sqlite" => Len(Script) = 5
           /\ dialect # "sqlite" => Len(Script) = 2
  BY ScriptIs DEF MySQLScript, SQLiteScript, PgScript

LEMMA ScriptNonEmpty ==
    ASSUME dialect \in {"mysql", "sqlite", "pgsql"}
    PROVE  Len(Script) \in Nat /\ Len(Script) >= 2
<1>1. Len(Script) \in {2, 5}
  BY ScriptLen
<1>2. QED
  BY <1>1

(* The statements are fixed by the dialect.                                *)
LEMMA ScriptStable ==
    ASSUME dialect' = dialect
    PROVE  Script' = Script
  BY DEF Script

LEMMA SInit == Init => SInv
<1> SUFFICES ASSUME Init PROVE SInv
  OBVIOUS
<1>1. dialect \in {"mysql", "sqlite", "pgsql"}
  BY SchemaConstAssumption DEF Init
<1>2. useLdap \in BOOLEAN
  BY Zenon DEF Init
<1>3. TypeOK
  BY <1>1, <1>2, SchemaConstAssumption DEF Init, TypeOK, Phases
<1>4. QED
  BY <1>3 DEF Init, SInv, PcInv, KeyInv, KeysEnforced, HasIndex

(* A step that leaves the tables and indexes alone and does not enter     *)
(* check_db_table, or re-enters it at its first statement, keeps SInv.    *)
LEMMA QuietStep ==
    ASSUME SInv, UNCHANGED <<dialect, cfg, tables, indexes>>,
           phase' \in Phases, pc' \in Nat,
           useLdap' \in BOOLEAN, faults' \in 0..MaxFaults,
           phase' = "ddl" => pc' = 1,
           phase' # "up"
    PROVE  SInv'
<1>0. TypeOK
  BY DEF SInv
<1>1. TypeOK'
  BY <1>0, SchemaConstAssumption DEF TypeOK
<1>2. PcInv'
  <2>0. dialect \in {"mysql", "sqlite", "pgsql"}
    BY <1>0 DEF TypeOK
  <2>1. Len(Script) >= 1
    BY <2>0, ScriptNonEmpty
  <2>2. Script' = Script
    BY ScriptStable
  <2>3. QED
    BY <2>1, <2>2 DEF PcInv
<1>3. KeyInv'
  BY DEF SInv, KeyInv, KeysEnforced, HasIndex
<1>4. QED
  BY <1>1, <1>2, <1>3 DEF SInv

(* A statement of check_db_table: what it creates, on which table.        *)
StmtType == [kind : {"table", "index"}, table : {"EmailUser", "Binding"},
             inline : SUBSET IdxType]

LEMMA IdxTyped ==
    /\ Idx("PRIMARY", "EmailUser", "id", TRUE) \in IdxType
    /\ Idx("email", "EmailUser", "email", TRUE) \in IdxType
    /\ Idx("peer_id", "Binding", "peer_id", TRUE) \in IdxType
    /\ Idx("email", "Binding", "email", FALSE) \in IdxType
    /\ Idx("emailuser_pkey", "EmailUser", "id", TRUE) \in IdxType
    /\ Idx("emailuser_email_key", "EmailUser", "email", TRUE) \in IdxType
    /\ Idx("binding_peer_id_key", "Binding", "peer_id", TRUE) \in IdxType
    /\ Idx("rowid", "EmailUser", "id", TRUE) \in IdxType
    /\ Idx("email_index", "EmailUser", "email", TRUE) \in IdxType
    /\ Idx("email_index", "Binding", "email", FALSE) \in IdxType
    /\ Idx("peer_index", "Binding", "peer_id", TRUE) \in IdxType
  BY DEF Idx, IdxType, IdxNames

LEMMA CreateTyped ==
    ASSUME NEW t \in {"EmailUser", "Binding"}, NEW S \in SUBSET IdxType,
           NEW i \in IdxType
    PROVE  CreateTable(t, S) \in StmtType /\ CreateIndex(i) \in StmtType
  BY DEF CreateTable, CreateIndex, StmtType, IdxType

(* Each statement of check_db_table creates a table or an index of the    *)
(* two tables.                                                             *)
LEMMA StmtsTyped ==
    /\ CreateTable("EmailUser", {Idx("PRIMARY", "EmailUser", "id", TRUE),
                                  Idx("email", "EmailUser", "email", TRUE)}) \in StmtType
    /\ CreateTable("Binding", {Idx("peer_id", "Binding", "peer_id", TRUE),
                                Idx("email", "Binding", "email", FALSE)}) \in StmtType
    /\ CreateTable("EmailUser",
             {Idx("emailuser_pkey", "EmailUser", "id", TRUE),
              Idx("emailuser_email_key", "EmailUser", "email", TRUE)}) \in StmtType
    /\ CreateTable("Binding",
             {Idx("binding_peer_id_key", "Binding", "peer_id", TRUE)}) \in StmtType
    /\ CreateTable("EmailUser", {Idx("rowid", "EmailUser", "id", TRUE)}) \in StmtType
    /\ CreateIndex(EmailKey) \in StmtType
    /\ CreateTable("Binding", {}) \in StmtType
    /\ CreateIndex(Idx("email_index", "Binding", "email", FALSE)) \in StmtType
    /\ CreateIndex(Idx("peer_index", "Binding", "peer_id", TRUE)) \in StmtType
<1>1. CreateTable("EmailUser", {Idx("PRIMARY", "EmailUser", "id", TRUE),
                               Idx("email", "EmailUser", "email", TRUE)})
        \in StmtType
  BY Zenon, IdxTyped, CreateTyped
<1>2. CreateTable("Binding", {Idx("peer_id", "Binding", "peer_id", TRUE),
                             Idx("email", "Binding", "email", FALSE)})
        \in StmtType
  BY Zenon, IdxTyped, CreateTyped
<1>3. CreateTable("EmailUser",
          {Idx("emailuser_pkey", "EmailUser", "id", TRUE),
           Idx("emailuser_email_key", "EmailUser", "email", TRUE)})
        \in StmtType
  BY Zenon, IdxTyped, CreateTyped
<1>4. CreateTable("Binding",
          {Idx("binding_peer_id_key", "Binding", "peer_id", TRUE)})
        \in StmtType
  BY Zenon, IdxTyped, CreateTyped
<1>5. CreateTable("EmailUser", {Idx("rowid", "EmailUser", "id", TRUE)})
        \in StmtType
  BY Zenon, IdxTyped, CreateTyped
<1>6. CreateIndex(EmailKey)
        \in StmtType
  BY Zenon, IdxTyped, CreateTyped DEF EmailKey
<1>7. CreateTable("Binding", {})
        \in StmtType
  BY Zenon, IdxTyped, CreateTyped
<1>8. CreateIndex(Idx("email_index", "Binding", "email", FALSE))
        \in StmtType
  BY Zenon, IdxTyped, CreateTyped
<1>9. CreateIndex(Idx("peer_index", "Binding", "peer_id", TRUE))
        \in StmtType
  BY Zenon, IdxTyped, CreateTyped
<1>10. QED
  BY Zenon, <1>1, <1>2, <1>3, <1>4, <1>5, <1>6, <1>7, <1>8, <1>9

(* Every statement of check_db_table, in each dialect, is of that type.   *)
LEMMA ScriptTyped ==
    ASSUME dialect \in {"mysql", "sqlite", "pgsql"}
    PROVE  \A k \in 1..Len(Script) : Script[k] \in StmtType
<1>1. CASE dialect = "mysql"
  <2>1. Len(Script) = 2
    BY <1>1, ScriptLen
  <2>2. \A k \in 1..2 : Script[k] \in StmtType
    BY <1>1, MySQLStmts, StmtsTyped
  <2>3. QED
    BY <2>1, <2>2
<1>2. CASE dialect = "pgsql"
  <2>1. Len(Script) = 2
    BY <1>2, ScriptLen
  <2>2. \A k \in 1..2 : Script[k] \in StmtType
    BY <1>2, PgStmts, StmtsTyped
  <2>3. QED
    BY <2>1, <2>2
<1>3. CASE dialect = "sqlite"
  <2>1. Len(Script) = 5
    BY <1>3, ScriptLen
  <2>2. \A k \in 1..5 : Script[k] \in StmtType
    <3>1. TAKE k \in 1..5
    <3>2. k = 1 \/ k = 2 \/ k = 3 \/ k = 4 \/ k = 5
      OBVIOUS
    <3>3. QED
      BY <3>2, <1>3, SQLiteStmts, StmtsTyped, Zenon
  <2>3. QED
    BY <2>1, <2>2
<1>4. QED
  BY <1>1, <1>2, <1>3

(* An index on disk stays there while indexes only grow.                 *)
LEMMA HasIndexMono ==
    ASSUME NEW t, NEW c, NEW u, indexes \subseteq indexes', HasIndex(t, c, u)
    PROVE  HasIndex(t, c, u)'
  BY DEF HasIndex

(* An index with those columns on disk after the step.                    *)
LEMMA HasIndexOf ==
    ASSUME NEW n, NEW t, NEW c, NEW u, Idx(n, t, c, u) \in indexes'
    PROVE  HasIndex(t, c, u)'
  BY DEF HasIndex, Idx

(* One statement of check_db_table keeps SInv: its effect on disk is the  *)
(* one the later statements and the serving manager count on.             *)
LEMMA ExecStep ==
    ASSUME SInv, ExecStmt
    PROVE  SInv'
<1> DEFINE s == Script[pc]
<1>0. /\ TypeOK /\ KeyInv /\ phase = "ddl"
      /\ dialect \in {"mysql", "sqlite", "pgsql"}
      /\ UNCHANGED <<dialect, cfg, useLdap, faults>>
  BY DEF SInv, ExecStmt, TypeOK
<1>1. pc \in 1..Len(Script) /\ Script' = Script
  BY ScriptStable DEF SInv, PcInv, ExecStmt
<1>2. /\ tables' = tables \cup {s.table}
      /\ indexes' = IndexesAfter(s)
      /\ pc' = pc + 1
  BY DEF ExecStmt
<1>3. phase' = IF pc = Len(Script) THEN "up" ELSE "ddl"
  BY DEF ExecStmt
<1>4. /\ tables \subseteq tables' /\ indexes \subseteq indexes'
      /\ indexes' \subseteq indexes \cup s.inline
  BY <1>2 DEF IndexesAfter
<1>5. TypeOK' /\ PcInv'
  <2>1. s \in StmtType
    BY <1>0, <1>1, ScriptTyped
  <2>2. tables' \subseteq {"EmailUser", "Binding"}
    BY <1>0, <1>2, <2>1 DEF TypeOK, StmtType
  <2>3. indexes' \subseteq IdxType
    BY <1>0, <1>4, <2>1 DEF TypeOK, StmtType
  <2>4. pc' \in Nat /\ phase' \in Phases
    BY <1>1, <1>2, <1>3 DEF Phases
  <2>5. TypeOK'
    BY <1>0, <2>2, <2>3, <2>4, Zenon DEF TypeOK
  <2>6. PcInv'
    BY <1>1, <1>2, <1>3 DEF PcInv
  <2>7. QED
    BY <2>5, <2>6
<1>6. "EmailUser" \in tables => /\ HasIndex("EmailUser", "id", TRUE)'
                                /\ dialect # "sqlite" =>
                                      HasIndex("EmailUser", "email", TRUE)'
  BY <1>0, <1>4, HasIndexMono DEF KeyInv
(* A statement after the first: EmailUser is there with its keys.         *)
<1>7. pc > 1 => /\ "EmailUser" \in tables'
                /\ HasIndex("EmailUser", "id", TRUE)'
                /\ dialect # "sqlite" => HasIndex("EmailUser", "email", TRUE)'
  BY <1>0, <1>4, <1>6 DEF KeyInv
(* In SQLite, no statement adds an index named email_index other than     *)
(* EmailUser's, and from the third statement on that one is on disk.     *)
<1>8. ASSUME dialect = "sqlite"
      PROVE  KeyInv'
  <2>0. dialect' = "sqlite"
    BY <1>0, <1>8
  <2>1. ASSUME \A i \in indexes' : i.name = "email_index" => i \in indexes \/ i = EmailKey
        PROVE  \A i \in indexes' : i.name = "email_index" => i = EmailKey
    BY <2>1, <1>0, <1>8 DEF KeyInv
  <2>2. CASE pc = 1
    <3>1. s = CreateTable("EmailUser", {Idx("rowid", "EmailUser", "id", TRUE)})
      BY <1>8, <2>2, SQLiteStmts
    <3>2. /\ "EmailUser" \in tables'
          /\ HasIndex("EmailUser", "id", TRUE)'
          /\ \A i \in indexes' : i.name = "email_index" => i \in indexes
      <4>1. CASE "EmailUser" \in tables
        <5>1. indexes' = indexes /\ tables' = tables
          BY <4>1, <1>2, <3>1 DEF IndexesAfter, CreateTable
        <5>2. HasIndex("EmailUser", "id", TRUE)'
          BY <4>1, <1>6
        <5>3. QED
          BY <4>1, <5>1, <5>2
      <4>2. CASE "EmailUser" \notin tables
        <5>1. indexes' = indexes \cup {Idx("rowid", "EmailUser", "id", TRUE)}
          BY <4>2, <1>2, <3>1 DEF IndexesAfter, CreateTable
        <5>2. "EmailUser" \in tables'
          BY <1>2, <3>1 DEF CreateTable
        <5>3. HasIndex("EmailUser", "id", TRUE)'
          BY <5>1, HasIndexOf
        <5>4. \A i \in indexes' : i.name = "email_index" => i \in indexes
          BY <5>1 DEF Idx
        <5>5. QED
          BY <5>2, <5>3, <5>4
      <4>3. QED
        BY <4>1, <4>2
    <3>3. phase' = "ddl" /\ ~(pc' > 2)
      BY <1>0, <1>2, <1>3, <1>8, <2>2, ScriptLen
    <3>4. QED
      BY <2>0, <2>1, <3>2, <3>3, Zenon DEF KeyInv, KeysEnforced
  <2>3. CASE pc = 2
    <3>1. s = CreateIndex(EmailKey)
      BY <1>8, <2>3, SQLiteStmts
    <3>2. EmailKey \in indexes'
      <4>1. CASE NameTaken(EmailKey)
        BY <4>1, <1>0, <1>2, <1>8, <3>1
        DEF IndexesAfter, CreateIndex, NameTaken, KeyInv, EmailKey, Idx
      <4>2. CASE ~NameTaken(EmailKey)
        BY <4>2, <1>2, <3>1 DEF IndexesAfter, CreateIndex
      <4>3. QED
        BY <4>1, <4>2
    <3>3. \A i \in indexes' : i.name = "email_index" => i \in indexes \/ i = EmailKey
      BY <1>4, <3>1 DEF CreateIndex
    <3>4. "EmailUser" \in tables' /\ HasIndex("EmailUser", "id", TRUE)'
      BY <1>7, <2>3 DEF HasIndex
    <3>5. phase' = "ddl"
      BY <1>0, <1>2, <1>3, <1>8, <2>3, ScriptLen
    <3>6. QED
      BY <2>0, <2>1, <3>2, <3>3, <3>4, <3>5, Zenon DEF KeyInv, KeysEnforced
  <2>4. CASE pc = 3
    <3>1. s = CreateTable("Binding", {})
      BY <1>8, <2>4, SQLiteStmts
    <3>2. indexes' = indexes
      BY <1>4, <3>1 DEF CreateTable
    <3>3. EmailKey \in indexes
      BY <1>0, <1>8, <2>4 DEF KeyInv
    <3>4. "EmailUser" \in tables' /\ HasIndex("EmailUser", "id", TRUE)'
      BY <1>7, <2>4 DEF HasIndex
    <3>5. phase' = "ddl"
      BY <1>0, <1>2, <1>3, <1>8, <2>4, ScriptLen
    <3>6. QED
      BY <2>0, <2>1, <3>2, <3>3, <3>4, <3>5, Zenon DEF KeyInv, KeysEnforced
  <2>5. CASE pc = 4
    <3>1. s = CreateIndex(Idx("email_index", "Binding", "email", FALSE))
      BY <1>8, <2>5, SQLiteStmts
    <3>2. EmailKey \in indexes
      BY <1>0, <1>8, <2>5 DEF KeyInv
    <3>3. NameTaken(Idx("email_index", "Binding", "email", FALSE))
      BY <1>8, <3>2 DEF NameTaken, EmailKey, Idx
    <3>4. indexes' = indexes
      <4>1. \E i \in s.inline : NameTaken(i)
        <5>1. Idx("email_index", "Binding", "email", FALSE) \in s.inline
          BY <3>1 DEF CreateIndex
        <5>2. QED
          BY <5>1, <3>3
      <4>2. s.kind = "index"
        BY <3>1 DEF CreateIndex
      <4>3. QED
        BY <1>2, <4>1, <4>2 DEF IndexesAfter
    <3>5. "EmailUser" \in tables' /\ HasIndex("EmailUser", "id", TRUE)'
      BY <1>7, <2>5 DEF HasIndex
    <3>6. phase' = "ddl"
      BY <1>0, <1>2, <1>3, <1>8, <2>5, ScriptLen
    <3>7. QED
      BY <2>0, <2>1, <3>2, <3>4, <3>5, <3>6, Zenon DEF KeyInv, KeysEnforced
  <2>6. CASE pc = 5
    <3>1. s = CreateIndex(Idx("peer_index", "Binding", "peer_id", TRUE))
      BY <1>8, <2>6, SQLiteStmts
    <3>2. \A i \in indexes' : i.name = "email_index" => i \in indexes
      BY <1>4, <3>1 DEF CreateIndex, Idx
    <3>3. EmailKey \in indexes'
      BY <1>0, <1>4, <1>8, <2>6 DEF KeyInv
    <3>4. HasIndex("EmailUser", "email", TRUE)'
      BY <3>3, HasIndexOf DEF EmailKey
    <3>5. "EmailUser" \in tables' /\ HasIndex("EmailUser", "id", TRUE)'
      BY <1>7, <2>6 DEF HasIndex
    <3>6. QED
      BY <2>0, <2>1, <3>2, <3>3, <3>4, <3>5, Zenon DEF KeyInv, KeysEnforced
  <2>7. QED
    BY <1>0, <1>1, <1>8, <2>2, <2>3, <2>4, <2>5, <2>6, ScriptLen
(* In MySQL and PostgreSQL the first statement creates EmailUser with     *)
(* both keys inline, and the second is the last.                           *)
<1>9. ASSUME dialect # "sqlite"
      PROVE  KeyInv'
  <2>0. dialect' # "sqlite"
    BY <1>0, <1>9
  <2>1. CASE pc = 1
    <3>1. /\ "EmailUser" \in tables'
          /\ HasIndex("EmailUser", "id", TRUE)'
          /\ HasIndex("EmailUser", "email", TRUE)'
      <4>1. CASE "EmailUser" \in tables
        <5>1. "EmailUser" \in tables'
          BY <4>1, <1>2
        <5>2. QED
          BY <4>1, <5>1, <1>6, <1>9
      <4>2. CASE "EmailUser" \notin tables /\ dialect = "mysql"
        <5>0. s = CreateTable("EmailUser", {Idx("PRIMARY", "EmailUser", "id", TRUE),
                                            Idx("email", "EmailUser", "email", TRUE)})
          BY <4>2, <2>1, MySQLStmts
        <5>1. indexes' = indexes \cup {Idx("PRIMARY", "EmailUser", "id", TRUE),
                                       Idx("email", "EmailUser", "email", TRUE)}
          BY <4>2, <1>2, <5>0 DEF IndexesAfter, CreateTable
        <5>2. "EmailUser" \in tables'
          BY <1>2, <5>0 DEF CreateTable
        <5>3. /\ Idx("PRIMARY", "EmailUser", "id", TRUE) \in indexes'
              /\ Idx("email", "EmailUser", "email", TRUE) \in indexes'
          BY <5>1
        <5>4. QED
          BY <5>2, <5>3, HasIndexOf
      <4>3. CASE "EmailUser" \notin tables /\ dialect = "pgsql"
        <5>0. s = CreateTable("EmailUser", {Idx("emailuser_pkey", "EmailUser", "id", TRUE),
                                            Idx("emailuser_email_key", "EmailUser", "email", TRUE)})
          BY <4>3, <2>1, PgStmts
        <5>1. indexes' = indexes \cup {Idx("emailuser_pkey", "EmailUser", "id", TRUE),
                                       Idx("emailuser_email_key", "EmailUser", "email", TRUE)}
          BY <4>3, <1>2, <5>0 DEF IndexesAfter, CreateTable
        <5>2. "EmailUser" \in tables'
          BY <1>2, <5>0 DEF CreateTable
        <5>3. /\ Idx("emailuser_pkey", "EmailUser", "id", TRUE) \in indexes'
              /\ Idx("emailuser_email_key", "EmailUser", "email", TRUE) \in indexes'
          BY <5>1
        <5>4. QED
          BY <5>2, <5>3, HasIndexOf
      <4>4. QED
        BY <1>0, <1>9, <4>1, <4>2, <4>3
    <3>2. phase' = "ddl"
      BY <1>0, <1>2, <1>3, <1>9, <2>1, ScriptLen
    <3>3. QED
      BY <2>0, <3>1, <3>2, Zenon DEF KeyInv, KeysEnforced
  <2>2. CASE pc = 2
    <3>1. /\ "EmailUser" \in tables'
          /\ HasIndex("EmailUser", "id", TRUE)'
          /\ HasIndex("EmailUser", "email", TRUE)'
      BY <1>7, <1>9, <2>2 DEF HasIndex
    <3>2. QED
      BY <2>0, <3>1, Zenon DEF KeyInv, KeysEnforced
  <2>3. Len(Script) = 2
    BY <1>0, <1>9, ScriptLen
  <2>4. QED
    BY <1>1, <2>1, <2>2, <2>3
<1>10. QED
  BY <1>5, <1>8, <1>9 DEF SInv

LEMMA SStep == SInv /\ [Next]_vars => SInv'
<1> SUFFICES ASSUME SInv, [Next]_vars PROVE SInv'
  OBVIOUS
<1>0. TypeOK /\ Len(Script) \in Nat /\ Len(Script) >= 2
  BY ScriptNonEmpty DEF SInv, TypeOK
<1>1. CASE Restart
  <2>1. UNCHANGED <<dialect, cfg, tables, indexes>>
    BY <1>1 DEF Restart
  <2>2. /\ phase' \in Phases
        /\ phase' = "ddl" => pc' = 1
        /\ phase' # "up"
    BY <1>1 DEF Restart, Phases
  <2>3. pc' \in Nat /\ faults' \in 0..MaxFaults
    BY <1>0, <1>1, SchemaConstAssumption DEF Restart, TypeOK
  <2>4. useLdap' \in BOOLEAN
    BY <1>0, <1>1, Zenon DEF Restart, TypeOK
  <2>5. QED
    BY <2>1, <2>2, <2>3, <2>4, QuietStep
<1>2. CASE LoadLdapSettings
  <2>1. UNCHANGED <<dialect, cfg, tables, indexes>>
    BY <1>2 DEF LoadLdapSettings
  <2>2. /\ phase' \in Phases
        /\ phase' = "ddl" => pc' = 1
        /\ phase' # "up"
    BY <1>2 DEF LoadLdapSettings, Phases
  <2>3. pc' \in Nat /\ faults' \in 0..MaxFaults
    BY <1>0, <1>2, SchemaConstAssumption DEF LoadLdapSettings, TypeOK
  <2>4. useLdap' \in BOOLEAN
    BY <1>0, <1>2, Zenon DEF LoadLdapSettings, TypeOK, LdapConfigs
  <2>5. QED
    BY <2>1, <2>2, <2>3, <2>4, QuietStep
<1>3. CASE OpenDb
  <2>1. UNCHANGED <<dialect, cfg, tables, indexes>>
    BY <1>3 DEF OpenDb
  <2>2. /\ phase' \in Phases
        /\ phase' = "ddl" => pc' = 1
        /\ phase' # "up"
    BY <1>3 DEF OpenDb, Phases
  <2>3. pc' \in Nat /\ faults' \in 0..MaxFaults
    BY <1>0, <1>3, SchemaConstAssumption DEF OpenDb, TypeOK
  <2>4. useLdap' \in BOOLEAN
    BY <1>0, <1>3, Zenon DEF OpenDb, TypeOK
  <2>5. QED
    BY <2>1, <2>2, <2>3, <2>4, QuietStep
<1>4. CASE ExecStmt
  BY <1>4, ExecStep
<1>5. CASE StmtFails
  <2>1. UNCHANGED <<dialect, cfg, tables, indexes>>
    BY <1>5 DEF StmtFails
  <2>2. /\ phase' \in Phases
        /\ phase' = "ddl" => pc' = 1
        /\ phase' # "up"
    BY <1>5 DEF StmtFails, Phases
  <2>3. pc' \in Nat /\ faults' \in 0..MaxFaults
    BY <1>0, <1>5, SchemaConstAssumption DEF StmtFails, TypeOK
  <2>4. useLdap' \in BOOLEAN
    BY <1>0, <1>5, Zenon DEF StmtFails, TypeOK
  <2>5. QED
    BY <2>1, <2>2, <2>3, <2>4, QuietStep
<1>6. CASE Crash
  <2>1. UNCHANGED <<dialect, cfg, tables, indexes>>
    BY <1>6 DEF Crash
  <2>2. /\ phase' \in Phases
        /\ phase' = "ddl" => pc' = 1
        /\ phase' # "up"
    BY <1>6 DEF Crash, Phases
  <2>3. pc' \in Nat /\ faults' \in 0..MaxFaults
    BY <1>0, <1>6, SchemaConstAssumption DEF Crash, TypeOK
  <2>4. useLdap' \in BOOLEAN
    BY <1>0, <1>6, Zenon DEF Crash, TypeOK
  <2>5. QED
    BY <2>1, <2>2, <2>3, <2>4, QuietStep
<1>7. CASE UNCHANGED vars
  BY <1>7, ScriptStable DEF vars, SInv, TypeOK, PcInv, KeyInv, KeysEnforced, HasIndex
<1>8. QED
  BY <1>1, <1>2, <1>3, <1>4, <1>5, <1>6, <1>7 DEF Next

(* The start-up state stays typed, whatever the dialect and the faults.   *)
THEOREM SchemaTyped == Spec => []TypeOK
  BY SInit, SStep, PTL DEF Spec, SInv

(* Whenever the manager serves calls, EmailUser exists with a unique id    *)
(* and a UNIQUE email, for every number of crashes and failed statements  *)
(* in check_db_table: the keys add relies on are never missing.           *)
THEOREM KeysAlwaysEnforced == Spec => []KeysEnforced
<1>1. SInv => KeysEnforced
  BY DEF SInv, KeyInv
<1>2. QED
  BY <1>1, SInit, SStep, PTL DEF Spec
=============================================================================
