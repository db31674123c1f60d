--------------------------- MODULE UserMgrProofs ---------------------------
(***************************************************************************)
(* Machine-checked proofs about UserMgr, for every value of its constants  *)
(* that satisfies the module's assumptions.                                *)
(***************************************************************************)
EXTENDS UserMgr, FiniteSetTheorems, TLAPS

(* The keys the EmailUser table keeps: PRIMARY KEY (id), UNIQUE (email),  *)
(* and the auto-increment counter above every id handed out.              *)
Keys ==
    /\ \A r, q \in rows : r.id = q.id => r = q
    /\ \A r, q \in rows : r.email = q.email => r = q
    /\ \A r \in rows : r.id < nextId

TypeInv == TypeOK /\ Keys

(* What a caller inside validate or get holds: such a call runs only     *)
(* under LDAP, and a DN kept for the bind was found by searching for the  *)
(* caller's own email.                                                    *)
BindInv ==
    \A c \in Callers :
        /\ th[c].pc # "idle" => UseLdap /\ th[c].email \in Emails
        /\ th[c].pc \in {"v_search", "v_bind"} => th[c].pw \in Passwords
        /\ th[c].pc = "v_bind" => /\ th[c].dn \in DNs
                                  /\ DirMail[th[c].dn] = th[c].email

(* The history holds every credential valid now.                          *)
EverInv == ValidCreds \subseteq everValid

AuthInv == TypeInv /\ BindInv /\ EverInv /\ AuthSound

-----------------------------------------------------------------------------
(* A table whose ids are distinct is finite: id maps it into 1..MaxId.    *)
LEMMA RowsFinite ==
    ASSUME NEW S \in SUBSET Row, \A r, q \in S : r.id = q.id => r = q
    PROVE  IsFiniteSet(S)
<1>1. IsFiniteSet(1..MaxId)
  BY MaxIdAssumption, FS_Interval
<1>2. [r \in S |-> r.id] \in Injection(S, 1..MaxId)
  BY DEF Injection, IsInjective, Row
<1>3. QED
  BY <1>1, <1>2, FS_Injection

(* The accounts the calls build are accounts.                             *)
LEMMA AccountOfType ==
    ASSUME NEW r \in Row
    PROVE  AccountOf(r) \in Account
  BY MaxIdAssumption DEF Row, Account, AccountOf

LEMMA DirAccountType ==
    ASSUME NEW dn \in DNs
    PROVE  DirAccount(DirMail[dn]) \in Account
  BY DirMailAssumption, MaxIdAssumption DEF DirAccount, Account

(* update keeps a row a row, with its id and email.                       *)
LEMMA UpdatedType ==
    ASSUME NEW r \in Row, NEW p \in Passwords, NEW s \in BOOLEAN,
           NEW a \in ActiveFlags
    PROVE  /\ Updated(r, p, s, a) \in Row
           /\ Updated(r, p, s, a).id = r.id
           /\ Updated(r, p, s, a).email = r.email
  BY ArgsAssumption DEF Row, Updated, Digests

(* A call's return leaves th and lastReply typed.                         *)
LEMMA ReturnType ==
    ASSUME NEW c \in Callers, th \in [Callers -> Local], NEW op \in Ops,
           NEW e \in Emails \cup {NULL}, NEW p \in Passwords \cup {NULL},
           NEW code \in Int \cup {NULL}, NEW accts \in SUBSET Account,
           Return(c, op, e, p, code, accts)
    PROVE  th' \in [Callers -> Local] /\ lastReply' \in {NULL} \cup Reply
  BY DEF Return, Reply, Local, Idle, PCs

(* The history only ever collects pairs of an email and a password.       *)
LEMMA RecordValidType ==
    ASSUME everValid \subseteq Emails \X Passwords, RecordValid
    PROVE  everValid' \subseteq Emails \X Passwords
  BY DEF RecordValid, ValidCreds

-----------------------------------------------------------------------------
LEMMA TypeInit == Init => TypeInv
<1> SUFFICES ASSUME Init PROVE TypeInv
  OBVIOUS
<1>1. rows \subseteq Row
  BY InitialRowsAssumption DEF Init
<1>2. Keys
  BY InitialRowsAssumption DEF Init, Keys
<1>3. nextId \in 1..MaxId + 1
  BY MaxIdAssumption DEF Init
<1>4. th \in [Callers -> Local]
  BY DEF Init, Idle, Local, PCs
<1>5. everValid \subseteq Emails \X Passwords
  BY DEF Init, ValidCreds
<1>6. QED
  BY <1>1, <1>2, <1>3, <1>4, <1>5 DEF Init, TypeOK, TypeInv


(* A step that changes neither the table nor the directory keeps TypeInv  *)
(* once it keeps th and lastReply typed.                                  *)
LEMMA ReadOnlyStep ==
    ASSUME TypeInv, UNCHANGED <<rows, nextId, dirPw, dirUp, dirHung, everValid>>,
           th' \in [Callers -> Local], lastReply' \in {NULL} \cup Reply
    PROVE  TypeInv'
  BY DEF TypeInv, TypeOK, Keys

(* A step that only sets th[c] to Idle, or to a local record, is typed.   *)
LEMMA ReturnCodeType ==
    ASSUME NEW c \in Callers, th \in [Callers -> Local], NEW op \in Ops,
           NEW STATE e, NEW STATE p, NEW STATE code,
           e \in Emails \cup {NULL}, p \in Passwords \cup {NULL},
           code \in Int, ReturnCode(c, op, e, p, code)
    PROVE  th' \in [Callers -> Local] /\ lastReply' \in {NULL} \cup Reply
  BY ReturnType DEF ReturnCode

LEMMA ReturnAcctsType ==
    ASSUME NEW c \in Callers, th \in [Callers -> Local], NEW op \in Ops,
           NEW e \in Emails \cup {NULL}, NEW accts \in SUBSET Account,
           ReturnAccts(c, op, e, accts)
    PROVE  th' \in [Callers -> Local] /\ lastReply' \in {NULL} \cup Reply
  BY ReturnType, NullAssumption DEF ReturnAccts

LEMMA TypeStep == TypeInv /\ [Next]_vars => TypeInv'
<1> SUFFICES ASSUME TypeInv, [Next]_vars PROVE TypeInv'
  OBVIOUS
<1>0. /\ rows \subseteq Row
      /\ th \in [Callers -> Local]
      /\ nextId \in 1..MaxId + 1
      /\ everValid \subseteq Emails \X Passwords
      /\ lastReply \in {NULL} \cup Reply
  BY DEF TypeInv, TypeOK
<1>1. ASSUME NEW c \in Callers, NEW e \in Emails, NEW p \in Passwords,
             NEW s \in BOOLEAN, NEW a \in ActiveFlags, Add(c, e, p, s, a)
      PROVE  TypeInv'
  <2>1. th' \in [Callers -> Local] /\ lastReply' \in {NULL} \cup Reply
    <3>1. \E code \in {0, -1} : ReturnCode(c, "add", e, p, code)
      BY <1>1 DEF Add
    <3>2. QED
      BY <1>0, <3>1, ReturnCodeType DEF Ops
  <2>2. everValid' \subseteq Emails \X Passwords
    BY <1>0, <1>1, RecordValidType DEF Add
  <2>3. CASE UNCHANGED <<rows, nextId>>
    BY <1>1, <2>1, <2>2, <2>3 DEF Add, TypeInv, TypeOK, Keys
  <2>4. CASE /\ \A r \in rows : r.email # e
             /\ nextId <= MaxId
             /\ rows' = rows \cup {[id |-> nextId, email |-> e, passwd |-> Digest(p),
                                    is_staff |-> s, is_active |-> a]}
             /\ nextId' = nextId + 1
    <3>1. [id |-> nextId, email |-> e, passwd |-> Digest(p),
           is_staff |-> s, is_active |-> a] \in Row
      BY <1>0, <2>4, ArgsAssumption DEF Row, Digests
    <3>2. Keys'
      BY <1>0, <2>4, MaxIdAssumption DEF TypeInv, Keys, Row
    <3>3. QED
      BY <1>0, <1>1, <2>1, <2>2, <2>4, <3>1, <3>2, MaxIdAssumption
      DEF Add, TypeInv, TypeOK
  <2>5. QED
    BY <1>1, <2>3, <2>4 DEF Add
<1>2. ASSUME NEW c \in Callers, NEW e \in Emails, Remove(c, e)
      PROVE  TypeInv'
  <2>1. th' \in [Callers -> Local] /\ lastReply' \in {NULL} \cup Reply
    BY <1>0, <1>2, ReturnCodeType DEF Remove, Ops
  <2>2. everValid' \subseteq Emails \X Passwords
    BY <1>0, <1>2, RecordValidType DEF Remove
  <2>3. rows' \subseteq rows
    BY <1>2 DEF Remove
  <2>4. QED
    BY <1>0, <1>2, <2>1, <2>2, <2>3 DEF Remove, TypeInv, TypeOK, Keys
<1>3. ASSUME NEW c \in Callers, NEW e \in Emails, NEW p \in Passwords,
             ValidateLocal(c, e, p)
      PROVE  TypeInv'
  <2>1. UNCHANGED <<rows, nextId, dirPw, dirUp, dirHung, everValid>>
    BY <1>3 DEF ValidateLocal
  <2>2. CASE ReturnCode(c, "validate", e, p, IF PwMatch(e, p) # {} THEN 0 ELSE -1)
    BY <1>0, <2>1, <2>2, ReadOnlyStep, ReturnCodeType DEF Ops
  <2>3. CASE ReturnCode(c, "validate", e, p, 0)
    BY <1>0, <2>1, <2>3, ReadOnlyStep, ReturnCodeType DEF Ops
  <2>4. CASE /\ th' = [th EXCEPT ![c] = [pc |-> "v_search", email |-> e, pw |-> p,
                                          dn |-> NULL]]
             /\ UNCHANGED lastReply
    <3>1. th' \in [Callers -> Local]
      BY <1>0, <2>4 DEF Local, PCs
    <3>2. QED
      BY <1>0, <2>1, <2>4, <3>1, ReadOnlyStep
  <2>5. QED
    BY <1>3, <2>2, <2>3, <2>4 DEF ValidateLocal
<1>4. ASSUME NEW c \in Callers, LdapSearchUser(c)
      PROVE  TypeInv'
  <2>1. /\ th[c].email \in Emails \cup {NULL}
        /\ th[c].pw \in Passwords \cup {NULL}
    BY <1>0 DEF Local
  <2>2. UNCHANGED <<rows, nextId, dirPw, dirUp, dirHung, everValid>>
    BY <1>4 DEF LdapSearchUser
  <2>3. CASE ReturnCode(c, "validate", th[c].email, th[c].pw, -1)
    <3>1. th' \in [Callers -> Local] /\ lastReply' \in {NULL} \cup Reply
      BY <1>0, <2>1, <2>3, ReturnCodeType DEF Ops
    <3>2. QED
      BY <2>2, <3>1, ReadOnlyStep
  <2>4. CASE /\ \E dn \in DNs \cup {NULL} :
                   th' = [th EXCEPT ![c].pc = "v_bind", ![c].dn = dn]
             /\ UNCHANGED lastReply
    <3>1. PICK dn \in DNs \cup {NULL} :
                th' = [th EXCEPT ![c].pc = "v_bind", ![c].dn = dn]
      BY <2>4
    <3>2. [th[c] EXCEPT !.pc = "v_bind", !.dn = dn] \in Local
      BY <1>0 DEF Local, PCs
    <3>3. th' \in [Callers -> Local]
      BY <1>0, <3>1, <3>2
    <3>4. QED
      BY <1>0, <2>2, <2>4, <3>3, ReadOnlyStep
  <2>5. QED
    BY <1>4, <2>3, <2>4 DEF LdapSearchUser, Matches
<1>5. ASSUME NEW c \in Callers, LdapBindUser(c)
      PROVE  TypeInv'
  <2>1. /\ th[c].email \in Emails \cup {NULL}
        /\ th[c].pw \in Passwords \cup {NULL}
    BY <1>0 DEF Local
  <2>2. UNCHANGED <<rows, nextId, dirPw, dirUp, dirHung, everValid>>
    BY <1>5 DEF LdapBindUser
  <2>3. \E code \in {0, -1} : ReturnCode(c, "validate", th[c].email, th[c].pw, code)
    BY <1>5 DEF LdapBindUser
  <2>4. th' \in [Callers -> Local] /\ lastReply' \in {NULL} \cup Reply
    BY <1>0, <2>1, <2>3, ReturnCodeType DEF Ops
  <2>5. QED
    BY <2>2, <2>4, ReadOnlyStep
<1>6. ASSUME NEW c \in Callers, NEW e \in Emails, GetLocal(c, e)
      PROVE  TypeInv'
  <2>1. CASE ReturnAccts(c, "get", e, {})
    BY <1>0, <1>6, <2>1, ReadOnlyStep, ReturnAcctsType DEF GetLocal, Ops
  <2>2. CASE \E r \in rows : ReturnAccts(c, "get", e, {AccountOf(r)})
    BY <1>0, <1>6, <2>2, ReadOnlyStep, ReturnAcctsType, AccountOfType
    DEF GetLocal, Ops
  <2>3. CASE /\ th' = [th EXCEPT ![c] = [Idle EXCEPT !.pc = "g_dir", !.email = e]]
             /\ UNCHANGED lastReply
    <3>1. th' \in [Callers -> Local]
      BY <1>0, <2>3 DEF Local, PCs, Idle
    <3>2. UNCHANGED <<rows, nextId, dirPw, dirUp, dirHung, everValid>>
      BY <1>6 DEF GetLocal
    <3>3. QED
      BY <1>0, <2>3, <3>1, <3>2, ReadOnlyStep
  <2>4. QED
    BY <1>6, <2>1, <2>2, <2>3 DEF GetLocal, LocalAnswer
<1>7. ASSUME NEW c \in Callers, GetLdap(c)
      PROVE  TypeInv'
  <2>1. th[c].email \in Emails \cup {NULL}
    BY <1>0 DEF Local
  <2>2. LdapListUsers(th[c].email) \subseteq Account
    BY DirAccountType DEF LdapListUsers, Matches
  <2>3. \E accts \in SUBSET Account : ReturnAccts(c, "get", th[c].email, accts)
    BY <1>7, <2>2 DEF GetLdap
  <2>4. th' \in [Callers -> Local] /\ lastReply' \in {NULL} \cup Reply
    BY <1>0, <2>1, <2>3, ReturnAcctsType DEF Ops
  <2>5. QED
    BY <1>7, <2>4, ReadOnlyStep DEF GetLdap
<1>8. ASSUME NEW c \in Callers, NEW i \in 1..MaxId, GetById(c, i)
      PROVE  TypeInv'
  <2>0. UNCHANGED <<rows, nextId, dirPw, dirUp, dirHung, everValid>>
    BY <1>8 DEF GetById
  <2>1. CASE ReturnAccts(c, "get_by_id", NULL, {})
    <3>1. th' \in [Callers -> Local] /\ lastReply' \in {NULL} \cup Reply
      BY <1>0, <2>1, ReturnAcctsType DEF Ops
    <3>2. QED
      BY <2>0, <3>1, ReadOnlyStep
  <2>2. CASE \E r \in rows : ReturnAccts(c, "get_by_id", NULL, {AccountOf(r)})
    BY <1>0, <1>8, <2>2, ReadOnlyStep, ReturnAcctsType, AccountOfType
    DEF GetById, Ops
  <2>3. QED
    BY <1>8, <2>1, <2>2 DEF GetById
<1>9. ASSUME NEW c \in Callers, NEW pg \in PageArgs, List(c, pg)
      PROVE  TypeInv'
  <2>1. LdapListUsers(Wildcard) \in SUBSET Account
    BY DirAccountType DEF LdapListUsers, Matches
  <2>2. {AccountOf(r) : r \in Page(pg)} \in SUBSET Account
    BY <1>0, AccountOfType DEF Page
  <2>3. {} \in SUBSET Account
    OBVIOUS
  <2>4. QED
    BY <1>0, <1>9, <2>1, <2>2, <2>3, ReadOnlyStep, ReturnAcctsType DEF List, Ops
<1>10. ASSUME NEW c \in Callers, Count(c)
       PROVE  TypeInv'
  <2>1. LdapCountUsers(Wildcard) \in Int
    <3>1. Cardinality(Matches(Wildcard)) \in Int
      BY FiniteAssumption, FS_Subset, FS_CardinalityType DEF Matches
    <3>2. QED
      BY <3>1 DEF LdapCountUsers
  <2>2. Cardinality(rows) \in Int
    BY <1>0, RowsFinite, FS_CardinalityType DEF TypeInv, Keys
  <2>3. QED
    BY <1>0, <1>10, <2>1, <2>2, ReadOnlyStep, ReturnCodeType DEF Count, Ops
<1>11. ASSUME NEW c \in Callers, NEW i \in 1..MaxId, NEW p \in Passwords,
              NEW s \in BOOLEAN, NEW a \in ActiveFlags, Update(c, i, p, s, a)
       PROVE  TypeInv'
  <2>1. th' \in [Callers -> Local] /\ lastReply' \in {NULL} \cup Reply
    <3>1. ReturnCode(c, "update", NULL, p, 0)
      BY <1>11 DEF Update
    <3>2. QED
      BY <1>0, <3>1, ReturnCodeType DEF Ops
  <2>2. everValid' \subseteq Emails \X Passwords
    BY <1>0, <1>11, RecordValidType DEF Update
  <2>3. CASE rows' = rows
    BY <1>0, <1>11, <2>1, <2>2, <2>3 DEF Update, TypeInv, TypeOK, Keys
  <2>4. CASE rows' = {IF r.id = i THEN Updated(r, p, s, a) ELSE r : r \in rows}
    <3>1. \A r \in rows : /\ (IF r.id = i THEN Updated(r, p, s, a) ELSE r) \in Row
                          /\ (IF r.id = i THEN Updated(r, p, s, a) ELSE r).id = r.id
                          /\ (IF r.id = i THEN Updated(r, p, s, a) ELSE r).email = r.email
      BY <1>0, UpdatedType
    <3>2. rows' \subseteq Row
      BY <2>4, <3>1
    <3>3. Keys'
      BY <1>11, <2>4, <3>1 DEF Update, TypeInv, Keys
    <3>4. QED
      BY <1>0, <1>11, <2>1, <2>2, <3>2, <3>3 DEF Update, TypeInv, TypeOK
  <2>5. QED
    BY <1>11, <2>3, <2>4 DEF Update
<1>12. ASSUME NEW dn \in DNs, NEW p \in Passwords \cup {NULL}, DirSetEntry(dn, p)
       PROVE  TypeInv'
  BY <1>0, <1>12, RecordValidType DEF DirSetEntry, TypeInv, TypeOK, Keys
<1>13. CASE DirToggle \/ DirHang \/ DirResume
  BY <1>0, <1>13 DEF DirToggle, DirHang, DirResume, TypeInv, TypeOK, Keys
<1>14. CASE UNCHANGED vars
  BY <1>14 DEF vars, TypeInv, TypeOK, Keys
<1>15. QED
  BY <1>1, <1>2, <1>3, <1>4, <1>5, <1>6, <1>7, <1>8, <1>9, <1>10, <1>11,
     <1>12, <1>13, <1>14 DEF Next

(* Type correctness: every reachable state of the user manager is typed   *)
(* and its table keeps its keys.                                          *)
THEOREM TypeCorrect == Spec => []TypeOK
<1>1. Spec => []TypeInv
  BY TypeInit, TypeStep, PTL DEF Spec
<1>2. QED
  BY <1>1, PTL DEF TypeInv
-----------------------------------------------------------------------------
(* Authentication soundness.                                              *)

(* A return from any call but validate leaves no caller mid-validate that *)
(* was not there before and says nothing about credentials.               *)
LEMMA ReturnOther ==
    ASSUME NEW c \in Callers, th \in [Callers -> Local], BindInv,
           NEW op, op # "validate", NEW STATE e, NEW STATE p, NEW STATE code,
           NEW STATE accts, Return(c, op, e, p, code, accts)
    PROVE  BindInv' /\ AuthSound'
  BY DEF Return, BindInv, AuthSound, Idle

(* A validate that returns 0 for credentials in the history keeps         *)
(* AuthSound.                                                             *)
LEMMA ReturnValidate ==
    ASSUME NEW c \in Callers, th \in [Callers -> Local], BindInv,
           NEW STATE e, NEW STATE p, NEW STATE code,
           Return(c, "validate", e, p, code, {}),
           code = 0 => <<e, p>> \in everValid'
    PROVE  BindInv' /\ AuthSound'
  BY DEF Return, BindInv, AuthSound, Idle

(* The valid credentials depend only on the table and the directory's     *)
(* passwords.                                                             *)
LEMMA ValidKeep ==
    ASSUME UNCHANGED <<rows, dirPw, everValid>>, EverInv
    PROVE  EverInv'
  BY DEF EverInv, ValidCreds

LEMMA RecordEver ==
    ASSUME RecordValid
    PROVE  EverInv' /\ everValid \subseteq everValid'
  BY DEF RecordValid, EverInv

(* A step that leaves the reply alone and only grows the history keeps    *)
(* AuthSound.                                                             *)
LEMMA AuthKeep ==
    ASSUME AuthSound, UNCHANGED lastReply, everValid \subseteq everValid'
    PROVE  AuthSound'
  BY DEF AuthSound

LEMMA AuthInit == Init => AuthInv
<1> SUFFICES ASSUME Init PROVE AuthInv
  OBVIOUS
<1>1. TypeInv
  BY TypeInit
<1>2. BindInv
  BY DEF Init, BindInv, Idle
<1>3. EverInv /\ AuthSound
  BY DEF Init, EverInv, AuthSound
<1>4. QED
  BY <1>1, <1>2, <1>3 DEF AuthInv

LEMMA AuthStep ==
    ASSUME ~GetDnMayFail, Wildcard \notin Emails, ~UnauthBind
    PROVE  AuthInv /\ [Next]_vars => AuthInv'
<1> SUFFICES ASSUME AuthInv, [Next]_vars PROVE AuthInv'
  OBVIOUS
<1>0. /\ TypeInv /\ BindInv /\ EverInv /\ AuthSound
      /\ th \in [Callers -> Local]
  BY DEF AuthInv, TypeInv, TypeOK
<1>1. TypeInv'
  BY <1>0, TypeStep
<1> SUFFICES BindInv' /\ EverInv' /\ AuthSound'
  BY <1>1 DEF AuthInv
<1>2. ASSUME NEW c \in Callers, NEW e \in Emails, NEW p \in Passwords,
             NEW s \in BOOLEAN, NEW a \in ActiveFlags, Add(c, e, p, s, a)
      PROVE  BindInv' /\ EverInv' /\ AuthSound'
  <2>1. \E code \in {0, -1} : Return(c, "add", e, p, code, {})
    BY <1>2 DEF Add, ReturnCode
  <2>2. QED
    BY <1>0, <1>2, <2>1, ReturnOther, RecordEver DEF Add
<1>3. ASSUME NEW c \in Callers, NEW e \in Emails, Remove(c, e)
      PROVE  BindInv' /\ EverInv' /\ AuthSound'
  BY <1>0, <1>3, ReturnOther, RecordEver DEF Remove, ReturnCode
<1>4. ASSUME NEW c \in Callers, NEW i \in 1..MaxId, NEW p \in Passwords,
             NEW s \in BOOLEAN, NEW a \in ActiveFlags, Update(c, i, p, s, a)
      PROVE  BindInv' /\ EverInv' /\ AuthSound'
  BY <1>0, <1>4, ReturnOther, RecordEver DEF Update, ReturnCode
<1>5. ASSUME NEW c \in Callers, NEW e \in Emails, NEW p \in Passwords,
             ValidateLocal(c, e, p)
      PROVE  BindInv' /\ EverInv' /\ AuthSound'
  <2>1. UNCHANGED <<rows, nextId, dirPw, dirUp, dirHung, everValid>>
    BY <1>5 DEF ValidateLocal
  <2>2. EverInv'
    BY <1>0, <2>1, ValidKeep
  <2>3. CASE /\ ~UseLdap
             /\ ReturnCode(c, "validate", e, p, IF PwMatch(e, p) # {} THEN 0 ELSE -1)
    <3>1. PwMatch(e, p) # {} => <<e, p>> \in ValidCreds
      BY <2>3 DEF PwMatch, ValidCreds
    <3>2. QED
      BY <1>0, <2>1, <2>2, <2>3, <3>1, ReturnValidate DEF ReturnCode, EverInv
  <2>4. CASE /\ UseLdap
             /\ StaffMatch(e, p)
             /\ ReturnCode(c, "validate", e, p, 0)
    <3>1. <<e, p>> \in ValidCreds
      BY <2>4 DEF StaffMatch, PwMatch, ValidCreds
    <3>2. QED
      BY <1>0, <2>1, <2>2, <2>4, <3>1, ReturnValidate DEF ReturnCode, EverInv
  <2>5. CASE /\ UseLdap
             /\ th' = [th EXCEPT ![c] = [pc |-> "v_search", email |-> e, pw |-> p,
                                         dn |-> NULL]]
             /\ UNCHANGED lastReply
    <3>1. BindInv'
      BY <1>0, <2>5 DEF BindInv
    <3>2. QED
      BY <1>0, <2>1, <2>2, <2>5, <3>1, AuthKeep
  <2>6. QED
    BY <1>5, <2>3, <2>4, <2>5 DEF ValidateLocal
<1>6. ASSUME NEW c \in Callers, LdapSearchUser(c)
      PROVE  BindInv' /\ EverInv' /\ AuthSound'
  <2>1. UNCHANGED <<rows, nextId, dirPw, dirUp, dirHung, everValid>>
    BY <1>6 DEF LdapSearchUser
  <2>2. EverInv'
    BY <1>0, <2>1, ValidKeep
  <2>3. /\ th[c].pc = "v_search"
        /\ UseLdap /\ th[c].email \in Emails /\ th[c].pw \in Passwords
    BY <1>0, <1>6 DEF LdapSearchUser, BindInv
  <2>4. CASE ReturnCode(c, "validate", th[c].email, th[c].pw, -1)
    <3>1. Return(c, "validate", th[c].email, th[c].pw, -1, {})
      BY <2>4 DEF ReturnCode
    <3>2. -1 = 0 => <<th[c].email, th[c].pw>> \in everValid'
      OBVIOUS
    <3>3. BindInv' /\ AuthSound'
      BY <1>0, <3>1, <3>2, ReturnValidate
    <3>4. QED
      BY <2>2, <3>3
  <2>5. CASE /\ \E dn \in Matches(th[c].email) :
                   th' = [th EXCEPT ![c].pc = "v_bind", ![c].dn = dn]
             /\ UNCHANGED lastReply
    <3>1. PICK dn \in Matches(th[c].email) :
                th' = [th EXCEPT ![c].pc = "v_bind", ![c].dn = dn]
      BY <2>5
    <3>2. dn \in DNs /\ DirMail[dn] = th[c].email
      BY <2>3 DEF Matches
    <3>3. BindInv'
      BY <1>0, <2>3, <3>1, <3>2 DEF BindInv, Local
    <3>4. QED
      BY <1>0, <2>1, <2>2, <2>5, <3>3, AuthKeep
  <2>6. QED
    BY <1>6, <2>4, <2>5 DEF LdapSearchUser
<1>7. ASSUME NEW c \in Callers, LdapBindUser(c)
      PROVE  BindInv' /\ EverInv' /\ AuthSound'
  <2>1. UNCHANGED <<rows, nextId, dirPw, dirUp, dirHung, everValid>>
    BY <1>7 DEF LdapBindUser
  <2>2. EverInv'
    BY <1>0, <2>1, ValidKeep
  <2>3. /\ th[c].pc = "v_bind" /\ UseLdap
        /\ th[c].email \in Emails /\ th[c].pw \in Passwords
        /\ th[c].dn \in DNs /\ DirMail[th[c].dn] = th[c].email
    BY <1>0, <1>7 DEF LdapBindUser, BindInv
  <2>4. BindOk(th[c].dn, th[c].pw) => <<th[c].email, th[c].pw>> \in ValidCreds
    BY <2>3, NullAssumption DEF BindOk, ValidCreds
  <2>5. QED
    BY <1>0, <1>7, <2>1, <2>2, <2>4, ReturnValidate
    DEF LdapBindUser, ReturnCode, EverInv
<1>8. ASSUME NEW c \in Callers, NEW e \in Emails, GetLocal(c, e)
      PROVE  BindInv' /\ EverInv' /\ AuthSound'
  <2>1. UNCHANGED <<rows, nextId, dirPw, dirUp, dirHung, everValid>>
    BY <1>8 DEF GetLocal
  <2>2. EverInv'
    BY <1>0, <2>1, ValidKeep
  <2>3. CASE \E accts : ReturnAccts(c, "get", e, accts)
    BY <1>0, <2>2, <2>3, ReturnOther DEF ReturnAccts
  <2>4. CASE /\ UseLdap
             /\ th' = [th EXCEPT ![c] = [Idle EXCEPT !.pc = "g_dir", !.email = e]]
             /\ UNCHANGED lastReply
    <3>1. BindInv'
      BY <1>0, <2>4 DEF BindInv, Idle
    <3>2. QED
      BY <1>0, <2>1, <2>2, <2>4, <3>1, AuthKeep
  <2>5. QED
    BY <1>8, <2>3, <2>4 DEF GetLocal
<1>9. ASSUME NEW c \in Callers,
             \/ GetLdap(c) \/ Count(c)
             \/ \E i \in 1..MaxId : GetById(c, i)
             \/ \E pg \in PageArgs : List(c, pg)
      PROVE  BindInv' /\ EverInv' /\ AuthSound'
  <2>1. UNCHANGED <<rows, nextId, dirPw, dirUp, dirHung, everValid>>
    BY <1>9 DEF GetLdap, Count, GetById, List
  <2>2. EverInv'
    BY <1>0, <2>1, ValidKeep
  <2>3. \E op \in {"get", "get_by_id", "list", "count"} :
          \E e, p, code, accts : Return(c, op, e, p, code, accts)
    BY <1>9 DEF GetLdap, Count, GetById, List, ReturnAccts, ReturnCode
  <2>4. QED
    BY <1>0, <2>2, <2>3, ReturnOther
<1>10. ASSUME NEW dn \in DNs, NEW p \in Passwords \cup {NULL}, DirSetEntry(dn, p)
       PROVE  BindInv' /\ EverInv' /\ AuthSound'
  BY <1>0, <1>10, RecordEver, AuthKeep DEF DirSetEntry, BindInv
<1>11. CASE DirToggle \/ DirHang \/ DirResume
  BY <1>0, <1>11, ValidKeep, AuthKeep DEF DirToggle, DirHang, DirResume, BindInv
<1>12. CASE UNCHANGED vars
  BY <1>0, <1>12, ValidKeep, AuthKeep DEF vars, BindInv
<1>13. QED
  <2>1. GetDnMayFail = FALSE
    BY GetDnAssumption
  <2>2. \A c \in Callers : LdapSearchUser(c) =>
           \/ ReturnCode(c, "validate", th[c].email, th[c].pw, -1)
           \/ /\ \E dn \in Matches(th[c].email) :
                    th' = [th EXCEPT ![c].pc = "v_bind", ![c].dn = dn]
              /\ UNCHANGED lastReply
    BY <2>1 DEF LdapSearchUser
  <2>3. QED
    BY <1>2, <1>3, <1>4, <1>5, <1>6, <1>7, <1>8, <1>9, <1>10, <1>11, <1>12
    DEF Next

(* Authentication is sound for every instance of the constants in which  *)
(* ldap_get_dn never fails, no email a caller passes is the filter        *)
(* wildcard "*", and the server refuses a bind with a DN and an empty     *)
(* password: validate returns 0 only for credentials the precedence rule *)
(* accepted at some moment, however callers, table updates and directory  *)
(* edits interleave.  The runs UserMgr_getdn, UserMgr_wildcard and        *)
(* UserMgr_unauth show that none of the three hypotheses can be dropped.  *)
THEOREM AuthSafe ==
    ASSUME ~GetDnMayFail, Wildcard \notin Emails, ~UnauthBind
    PROVE  Spec => []AuthSound
<1>1. Init => AuthInv
  BY AuthInit
<1>2. AuthInv /\ [Next]_vars => AuthInv'
  BY AuthStep
<1>3. QED
  BY <1>1, <1>2, PTL DEF Spec, AuthInv
-----------------------------------------------------------------------------
(* Soundness of get.                                                      *)

(* A caller inside validate or get holds the email it was called with.   *)
CallInv == \A c \in Callers : th[c].pc # "idle" => th[c].email \in Emails

GetInv == TypeInv /\ CallInv /\ GetSound

(* A return from any call but get leaves no caller with a stray email and *)
(* says nothing about accounts.                                           *)
LEMMA GetReturnOther ==
    ASSUME NEW c \in Callers, th \in [Callers -> Local], CallInv,
           NEW op, op # "get", NEW STATE e, NEW STATE p, NEW STATE code,
           NEW STATE accts, Return(c, op, e, p, code, accts)
    PROVE  CallInv' /\ GetSound'
  BY DEF Return, CallInv, GetSound, Idle

(* A get that returns accounts of its email, staff or from the directory *)
(* under LDAP, keeps GetSound.                                            *)
LEMMA GetReturnGet ==
    ASSUME NEW c \in Callers, th \in [Callers -> Local], CallInv,
           NEW STATE e, NEW STATE accts, ReturnAccts(c, "get", e, accts),
           \A a \in accts : /\ a.email = e
                            /\ UseLdap => \/ a.is_staff /\ a.id # 0
                                          \/ a = DirAccount(e)
    PROVE  CallInv' /\ GetSound'
  BY DEF ReturnAccts, Return, CallInv, GetSound, Idle

(* A step that touches neither the callers nor the reply keeps both.      *)
LEMMA GetKeep ==
    ASSUME CallInv, GetSound, UNCHANGED <<th, lastReply>>
    PROVE  CallInv' /\ GetSound'
  BY DEF CallInv, GetSound

LEMMA GetInit == Init => GetInv
<1> SUFFICES ASSUME Init PROVE GetInv
  OBVIOUS
<1>1. TypeInv
  BY TypeInit
<1>2. CallInv /\ GetSound
  BY DEF Init, CallInv, GetSound, Idle
<1>3. QED
  BY <1>1, <1>2 DEF GetInv

LEMMA GetStep ==
    ASSUME Wildcard \notin Emails
    PROVE  GetInv /\ [Next]_vars => GetInv'
<1> SUFFICES ASSUME GetInv, [Next]_vars PROVE GetInv'
  OBVIOUS
<1>0. /\ TypeInv /\ CallInv /\ GetSound
      /\ th \in [Callers -> Local]
      /\ rows \subseteq Row
  BY DEF GetInv, TypeInv, TypeOK
<1>1. TypeInv'
  BY <1>0, TypeStep
<1> SUFFICES CallInv' /\ GetSound'
  BY <1>1 DEF GetInv
<1>2. ASSUME NEW c \in Callers,
             \/ \E e \in Emails, p \in Passwords, s \in BOOLEAN, a \in ActiveFlags :
                   Add(c, e, p, s, a)
             \/ \E e \in Emails : Remove(c, e)
             \/ LdapBindUser(c) \/ Count(c)
             \/ \E i \in 1..MaxId : GetById(c, i)
             \/ \E pg \in PageArgs : List(c, pg)
             \/ \E i \in 1..MaxId, p \in Passwords, s \in BOOLEAN, a \in ActiveFlags :
                   Update(c, i, p, s, a)
      PROVE  CallInv' /\ GetSound'
  <2>1. \E op \in {"add", "remove", "validate", "count", "get_by_id", "list",
                   "update"} :
          \E e, p, code, accts : Return(c, op, e, p, code, accts)
    BY <1>2 DEF Add, Remove, LdapBindUser, Count, GetById, List, Update,
                ReturnAccts, ReturnCode
  <2>2. QED
    BY <1>0, <2>1, GetReturnOther
<1>3. ASSUME NEW c \in Callers, NEW e \in Emails, NEW p \in Passwords,
             ValidateLocal(c, e, p)
      PROVE  CallInv' /\ GetSound'
  <2>1. CASE \E code : ReturnCode(c, "validate", e, p, code)
    BY <1>0, <2>1, GetReturnOther DEF ReturnCode
  <2>2. CASE /\ th' = [th EXCEPT ![c] = [pc |-> "v_search", email |-> e, pw |-> p,
                                         dn |-> NULL]]
             /\ UNCHANGED lastReply
    BY <1>0, <2>2 DEF CallInv, GetSound
  <2>3. QED
    BY <1>3, <2>1, <2>2 DEF ValidateLocal
<1>4. ASSUME NEW c \in Callers, LdapSearchUser(c)
      PROVE  CallInv' /\ GetSound'
  <2>1. th[c].pc = "v_search"
    BY <1>4 DEF LdapSearchUser
  <2>2. CASE ReturnCode(c, "validate", th[c].email, th[c].pw, -1)
    BY <1>0, <2>2, GetReturnOther DEF ReturnCode
  <2>3. CASE /\ \E dn : th' = [th EXCEPT ![c].pc = "v_bind", ![c].dn = dn]
             /\ UNCHANGED lastReply
    BY <1>0, <2>1, <2>3 DEF CallInv, GetSound
  <2>4. QED
    BY <1>4, <2>2, <2>3 DEF LdapSearchUser
<1>5. ASSUME NEW c \in Callers, NEW e \in Emails, GetLocal(c, e)
      PROVE  CallInv' /\ GetSound'
  <2>1. CASE ReturnAccts(c, "get", e, {})
    BY <1>0, <2>1, GetReturnGet
  <2>2. ASSUME NEW r \in LocalAnswer(e), ReturnAccts(c, "get", e, {AccountOf(r)})
        PROVE  CallInv' /\ GetSound'
    <3>1. r \in Row /\ r.email = e /\ (UseLdap => r.is_staff)
      BY <1>0 DEF LocalAnswer
    <3>2. AccountOf(r).email = e /\ (UseLdap => AccountOf(r).is_staff)
          /\ AccountOf(r).id # 0
      BY <3>1, MaxIdAssumption DEF AccountOf, Row
    <3>3. QED
      BY <1>0, <2>2, <3>2, GetReturnGet
  <2>3. CASE /\ th' = [th EXCEPT ![c] = [Idle EXCEPT !.pc = "g_dir", !.email = e]]
             /\ UNCHANGED lastReply
    BY <1>0, <2>3 DEF CallInv, GetSound, Idle
  <2>4. QED
    BY <1>5, <2>1, <2>2, <2>3 DEF GetLocal
(* The directory answers get(e) only with entries whose mail is e: e is   *)
(* not the wildcard, so the filter (mail=e) selects nothing else.         *)
<1>6. ASSUME NEW c \in Callers, GetLdap(c)
      PROVE  CallInv' /\ GetSound'
  <2> DEFINE e == th[c].email
  <2>1. th[c].pc = "g_dir" /\ e \in Emails
    BY <1>0, <1>6 DEF GetLdap, CallInv
  <2>2. \A a \in LdapListUsers(e) : a = DirAccount(e)
    BY <2>1 DEF LdapListUsers, Matches
  <2>3. CASE ReturnAccts(c, "get", e, {})
    BY <1>0, <2>3, GetReturnGet
  <2>4. ASSUME NEW a \in LdapListUsers(e), ReturnAccts(c, "get", e, {a})
        PROVE  CallInv' /\ GetSound'
    <3>1. a = DirAccount(e) /\ a.email = e
      BY <2>2 DEF DirAccount
    <3>2. QED
      BY <1>0, <2>4, <3>1, GetReturnGet
  <2>5. QED
    BY <1>6, <2>3, <2>4 DEF GetLdap
<1>7. CASE \/ \E dn \in DNs, p \in Passwords \cup {NULL} : DirSetEntry(dn, p)
           \/ DirToggle \/ DirHang \/ DirResume \/ UNCHANGED vars
  BY <1>0, <1>7, GetKeep DEF DirSetEntry, DirToggle, DirHang, DirResume, vars
<1>8. QED
  BY <1>2, <1>3, <1>4, <1>5, <1>6, <1>7 DEF Next

(* get is sound for every instance of the constants in which no email a  *)
(* caller passes is the filter wildcard "*": get(e) returns only accounts *)
(* of e and, under LDAP, only a local staff row or the directory's entry, *)
(* however callers, table updates and directory edits interleave, and     *)
(* whether or not ldap_get_dn may fail or the server accepts an           *)
(* unauthenticated bind.  With "*" among the emails, get("*") returns     *)
(* whichever entry the search lists first.                                *)
THEOREM GetSafe ==
    ASSUME Wildcard \notin Emails
    PROVE  Spec => []GetSound
<1>1. Init => GetInv
  BY GetInit
<1>2. GetInv /\ [Next]_vars => GetInv'
  BY GetStep
<1>3. QED
  BY <1>1, <1>2, PTL DEF Spec, GetInv
=============================================================================
