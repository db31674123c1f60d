----------------------- MODULE UserMgrAccountsProofs -----------------------
(***************************************************************************)
(* The user manager implements the atomic façade Accounts, for every       *)
(* value of the constants, when ldap_get_dn cannot fail, no email is "*"   *)
(* and the server refuses empty-password binds.  The proof runs along the  *)
(* inductive invariant AuthInv of UserMgrProofs: its BindInv says what a   *)
(* caller inside validate or get holds, which justifies the reply at the   *)
(* step the call takes effect.                                             *)
(***************************************************************************)
EXTENDS UserMgrAccounts, UserMgrProofs

(* The two modules describe the same rows.                                 *)
LEMMA RowSame == A!Row = Row
  BY DEF A!Row, Row, Digests, Digest, A!Digest

LEMMA InitMaps == Init => A!Init
<1> SUFFICES ASSUME Init PROVE A!Init
  OBVIOUS
<1>1. TypeInv
  BY TypeInit
<1>2. rows \in SUBSET A!Row
  BY <1>1, RowSame DEF TypeInv, TypeOK
<1>3. A!Keyed(rows, nextId)
  BY <1>1 DEF TypeInv, Keys, A!Keyed
<1>4. QED
  BY <1>1, <1>2, <1>3 DEF Init, A!Init, TypeInv, TypeOK

(* A one-statement call that keeps the keys, hands out ids only from       *)
(* nextId on, and leaves the directory alone is a Store of the façade.     *)
LEMMA StoreMaps ==
    ASSUME TypeInv, TypeInv', NEW c \in Callers,
           nextId' \in nextId..MaxId + 1,
           \A r \in rows' : r.id >= nextId \/ \E q \in rows : q.id = r.id /\ q.email = r.email,
           lastReply'.caller = c, lastReply'.op \in A!StoreOps,
           UNCHANGED <<dirPw, dirUp, dirHung>>
    PROVE  A!Store(c)
<1>1. rows' \in SUBSET A!Row
  BY RowSame DEF TypeInv, TypeOK
<1>2. A!Keyed(rows', nextId')
  BY DEF TypeInv, Keys, A!Keyed
<1>3. QED
  BY <1>1, <1>2 DEF A!Store

(* A step that leaves the table and the counter alone keeps them keyed.   *)
LEMMA StoreSame ==
    ASSUME TypeInv, UNCHANGED <<rows, nextId>>
    PROVE  /\ nextId' \in nextId..MaxId + 1
           /\ \A r \in rows' : r.id >= nextId \/ \E q \in rows : q.id = r.id /\ q.email = r.email
  BY DEF TypeInv, TypeOK

(* A step of the directory's environment is a Directory step.             *)
LEMMA DirMaps ==
    ASSUME TypeInv', UNCHANGED <<rows, nextId, lastReply>>
    PROVE  A!Directory
  BY DEF TypeInv, TypeOK, A!Directory

(* The accounts get returns are those of the façade.                       *)
LEMMA AccountOfSame ==
    ASSUME NEW r
    PROVE  A!AccountOf(r) = AccountOf(r)
  BY DEF A!AccountOf, AccountOf

(* Each step of the manager is a step of the façade or leaves what the     *)
(* façade sees unchanged: the calls of one statement are Store steps,      *)
(* validate and get take effect at the step that returns (or at the staff *)
(* SELECT), their other steps stutter, and the directory's changes are     *)
(* Directory steps.                                                        *)
LEMMA StepMaps ==
    ASSUME ~GetDnMayFail, Wildcard \notin Emails, ~UnauthBind
    PROVE  AuthInv /\ AuthInv' /\ [Next]_vars => [A!Next]_A!vars
<1> SUFFICES ASSUME AuthInv, AuthInv', [Next]_vars PROVE [A!Next]_A!vars
  OBVIOUS
<1>0. TypeInv /\ TypeInv' /\ BindInv
  BY DEF AuthInv
<1>1. ASSUME NEW c \in Callers, NEW e \in Emails, NEW p \in Passwords,
             NEW s \in BOOLEAN, NEW a \in ActiveFlags, Add(c, e, p, s, a)
      PROVE  A!Store(c)
  <2>1. nextId' \in nextId..MaxId + 1
    BY <1>0, <1>1 DEF Add, TypeInv, TypeOK
  <2>2. \A r \in rows' : r.id >= nextId \/ \E q \in rows : q.id = r.id /\ q.email = r.email
    <3>1. CASE UNCHANGED <<rows, nextId>>
      BY <3>1
    <3>2. CASE rows' = rows \cup {[id |-> nextId, email |-> e, passwd |-> Digest(p),
                                   is_staff |-> s, is_active |-> a]}
      BY <1>0, <3>2 DEF TypeInv, TypeOK
    <3>3. QED
      BY <1>1, <3>1, <3>2 DEF Add
  <2>3. QED
    BY <1>0, <1>1, <2>1, <2>2, StoreMaps DEF Add, ReturnCode, Return, A!StoreOps
<1>2. ASSUME NEW c \in Callers, NEW e \in Emails, Remove(c, e)
      PROVE  A!Store(c)
  <2>1. nextId' \in nextId..MaxId + 1
    BY <1>0, <1>2 DEF Remove, TypeInv, TypeOK
  <2>2. \A r \in rows' : r.id >= nextId \/ \E q \in rows : q.id = r.id /\ q.email = r.email
    BY <1>2 DEF Remove
  <2>3. QED
    BY <1>0, <1>2, <2>1, <2>2, StoreMaps DEF Remove, ReturnCode, Return, A!StoreOps
<1>3. ASSUME NEW c \in Callers, NEW i \in 1..MaxId, NEW p \in Passwords,
             NEW s \in BOOLEAN, NEW a \in ActiveFlags, Update(c, i, p, s, a)
      PROVE  A!Store(c)
  <2>1. nextId' \in nextId..MaxId + 1
    BY <1>0, <1>3 DEF Update, TypeInv, TypeOK
  <2>2. \A r \in rows' : r.id >= nextId \/ \E q \in rows : q.id = r.id /\ q.email = r.email
    <3>1. \A r \in rows : /\ Updated(r, p, s, a).id = r.id
                          /\ Updated(r, p, s, a).email = r.email
      BY <1>0, UpdatedType DEF TypeInv, TypeOK
    <3>2. QED
      BY <1>3, <3>1 DEF Update
  <2>3. QED
    BY <1>0, <1>3, <2>1, <2>2, StoreMaps DEF Update, ReturnCode, Return, A!StoreOps
<1>4. ASSUME NEW c \in Callers,
             \/ \E i \in 1..MaxId : GetById(c, i)
             \/ \E pg \in PageArgs : List(c, pg)
             \/ Count(c)
      PROVE  A!Store(c)
  <2>1. UNCHANGED <<rows, nextId, dirPw, dirUp, dirHung>>
        /\ lastReply'.caller = c /\ lastReply'.op \in A!StoreOps
    BY <1>4 DEF GetById, List, Count, ReturnCode, ReturnAccts, Return, A!StoreOps
  <2>2. QED
    BY <1>0, <2>1, StoreSame, StoreMaps
<1>5. ASSUME NEW c \in Callers, NEW e \in Emails, NEW p \in Passwords,
             ValidateLocal(c, e, p)
      PROVE  [A!Next]_A!vars
  <2>1. CASE ~UseLdap
    <3>1. A!Valid(e, p) <=> PwMatch(e, p) # {}
      BY <2>1 DEF A!Valid, PwMatch, A!Digest, Digest
    <3>2. A!Validate(c, e, p)
      BY <1>5, <2>1, <3>1 DEF ValidateLocal, ReturnCode, Return, A!Validate
    <3>3. QED
      BY <3>2 DEF A!Next
  <2>2. CASE UseLdap /\ StaffMatch(e, p)
    <3>1. A!Valid(e, p)
      BY <2>2 DEF A!Valid, StaffMatch, PwMatch, A!Digest, Digest
    <3>2. A!Validate(c, e, p)
      BY <1>5, <2>2, <3>1 DEF ValidateLocal, ReturnCode, Return, A!Validate
    <3>3. QED
      BY <3>2 DEF A!Next
  <2>3. CASE UseLdap /\ ~StaffMatch(e, p)
    BY <1>5, <2>3 DEF ValidateLocal, A!vars
  <2>4. QED
    BY <2>1, <2>2, <2>3
<1>6. ASSUME NEW c \in Callers, LdapSearchUser(c)
      PROVE  [A!Next]_A!vars
  <2>1. /\ UseLdap /\ th[c].email \in Emails /\ th[c].pw \in Passwords
    BY <1>0, <1>6 DEF LdapSearchUser, BindInv
  <2>2. CASE lastReply' = lastReply
    BY <1>6, <2>2 DEF LdapSearchUser, A!vars
  <2>3. CASE lastReply' # lastReply
    <3>1. lastReply' = [caller |-> c, op |-> "validate", email |-> th[c].email,
                        pw |-> th[c].pw, code |-> -1, accts |-> {}]
      BY <1>6, <2>3 DEF LdapSearchUser, ReturnCode, Return
    <3>2. A!Validate(c, th[c].email, th[c].pw)
      BY <1>6, <2>1, <3>1 DEF LdapSearchUser, A!Validate
    <3>3. QED
      BY <2>1, <3>2 DEF A!Next
  <2>4. QED
    BY <2>2, <2>3
<1>7. ASSUME NEW c \in Callers, LdapBindUser(c)
      PROVE  [A!Next]_A!vars
  <2>1. /\ UseLdap /\ th[c].email \in Emails /\ th[c].pw \in Passwords
        /\ th[c].dn \in DNs /\ DirMail[th[c].dn] = th[c].email
    BY <1>0, <1>7 DEF LdapBindUser, BindInv
  <2>2. BindOk(th[c].dn, th[c].pw) => A!Valid(th[c].email, th[c].pw)
    BY <2>1, NullAssumption DEF BindOk, A!Valid
  <2>3. A!Validate(c, th[c].email, th[c].pw)
    BY <1>7, <2>1, <2>2 DEF LdapBindUser, ReturnCode, Return, A!Validate
  <2>4. QED
    BY <2>1, <2>3 DEF A!Next
<1>8. ASSUME NEW c \in Callers, NEW e \in Emails, GetLocal(c, e)
      PROVE  [A!Next]_A!vars
  <2>1. CASE ~UseLdap /\ \A r \in rows : r.email # e
    <3>1. A!Answers(e) = {}
      BY <2>1 DEF A!Answers
    <3>2. A!Get(c, e)
      BY <1>8, <2>1, <3>1 DEF GetLocal, ReturnAccts, Return, A!Get, LocalAnswer
    <3>3. QED
      BY <3>2 DEF A!Next
  <2>2. CASE \E r \in LocalAnswer(e) : ReturnAccts(c, "get", e, {AccountOf(r)})
    <3>1. PICK r \in LocalAnswer(e) : ReturnAccts(c, "get", e, {AccountOf(r)})
      BY <2>2
    <3>2. AccountOf(r) \in A!Answers(e)
      BY AccountOfSame DEF LocalAnswer, A!Answers
    <3>3. ~UseLdap => A!Answers(e) = {AccountOf(r)}
      BY <1>0, AccountOfSame DEF LocalAnswer, A!Answers, TypeInv, Keys
    <3>4. A!Get(c, e)
      BY <1>8, <3>1, <3>2, <3>3 DEF GetLocal, ReturnAccts, Return, A!Get
    <3>5. QED
      BY <3>4 DEF A!Next
  <2>3. CASE UseLdap /\ LocalAnswer(e) = {} /\ UNCHANGED lastReply
    BY <1>8, <2>3 DEF GetLocal, A!vars
  <2>4. QED
    BY <1>8, <2>1, <2>2, <2>3 DEF GetLocal
<1>9. ASSUME NEW c \in Callers, GetLdap(c)
      PROVE  [A!Next]_A!vars
  <2> DEFINE e == th[c].email
  <2>1. UseLdap /\ e \in Emails /\ ~dirHung
    BY <1>0, <1>9 DEF GetLdap, BindInv
  <2>2. LdapListUsers(e) \subseteq A!Answers(e)
    BY <2>1, DirMailAssumption DEF LdapListUsers, Matches, A!Answers, DirAccount, A!DirAccount
  <2>3. A!Get(c, e)
    BY <1>9, <2>1, <2>2 DEF GetLdap, ReturnAccts, Return, A!Get
  <2>4. QED
    BY <2>1, <2>3 DEF A!Next
<1>10. ASSUME \/ \E dn \in DNs, p \in Passwords \cup {NULL} : DirSetEntry(dn, p)
              \/ DirToggle \/ DirHang \/ DirResume
       PROVE  A!Directory
  BY <1>0, <1>10, DirMaps DEF DirSetEntry, DirToggle, DirHang, DirResume
<1>11. CASE UNCHANGED vars
  BY <1>11 DEF vars, A!vars
<1>12. QED
  BY <1>1, <1>2, <1>3, <1>4, <1>5, <1>6, <1>7, <1>8, <1>9, <1>10, <1>11
  DEF Next, A!Next

(* The manager implements the façade: every behaviour of UserMgr, with th, *)
(* everValid and dirHung hidden and a hung server seen as one that does    *)
(* not answer, is a behaviour of Accounts, in which validate and get are  *)
(* atomic and ids are never handed out twice.                              *)
THEOREM Refinement ==
    ASSUME ~GetDnMayFail, Wildcard \notin Emails, ~UnauthBind
    PROVE  Spec => Refines
<1>1. Init => A!Init
  BY InitMaps
<1>2. AuthInv /\ AuthInv' /\ [Next]_vars => [A!Next]_A!vars
  BY StepMaps
<1>3. Init => AuthInv
  BY AuthInit
<1>4. AuthInv /\ [Next]_vars => AuthInv'
  BY AuthStep
<1>5. QED
  BY <1>1, <1>2, <1>3, <1>4, PTL DEF Spec, Refines, A!Spec
=============================================================================
