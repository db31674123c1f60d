------------------------------ MODULE UserMgr ------------------------------
(***************************************************************************)
(* The user manager of ccnet, src/net/server/user-mgr.c: the EmailUser     *)
(* table of the relational store, the optional LDAP directory, and the     *)
(* public calls that route between them (add, remove, validate, get,       *)
(* get_by_id, list, count, update).                                        *)
(*                                                                         *)
(* Callers run concurrently and share the database handle.  A call that    *)
(* issues one SQL statement is one step: the engine makes the statement    *)
(* atomic.  A call that also talks to LDAP is split at each round trip:    *)
(* the SELECT on the local table, the service bind + search, and the bind  *)
(* as the found DN.  Between those steps other callers update the table    *)
(* and the directory's own administrators change entries, and the          *)
(* directory may become unreachable.                                       *)
(***************************************************************************)
EXTENDS Integers, FiniteSets

CONSTANTS
    Emails,        \* the email strings callers pass (may contain Wildcard)
    Wildcard,      \* the string "*", which an LDAP filter reads as "any"
    Passwords,     \* plaintext passwords
    DNs,           \* distinguished names of the directory's user entries
    DirMail,       \* DirMail[dn]: the login attribute ("mail") of entry dn
    Callers,       \* threads calling the public API concurrently
    UseLdap,       \* manager->use_ldap: an [LDAP] HOST is configured
    InitialRows,   \* the EmailUser table when the manager starts
    MaxId,         \* bound on the table's auto-increment counter
    PageArgs,      \* the <<start, limit>> pairs callers pass to list
    ActiveFlags,   \* the is_active values callers pass
    GetDnMayFail,  \* whether ldap_get_dn may return NULL (decoding error)
    EmptyPw,       \* the empty password ""
    UnauthBind,    \* the server takes a bind with a DN and an empty password
                   \* as an unauthenticated bind and accepts it
    MayHang,       \* the server may stop answering without closing the socket
    NULL           \* NULL pointer / absent value

(* hash_password: SHA1 of the plaintext as 40 hex characters.  Different  *)
(* passwords have different digests; a digest is never a plaintext.       *)
Digest(p) == <<"sha1", p>>
Digests == {Digest(p) : p \in Passwords}

(* A row of EmailUser (ctime is left out: no call reads or changes it).  *)
Row == [id : 1..MaxId, email : Emails, passwd : Digests,
        is_staff : BOOLEAN, is_active : BOOLEAN]

(* A CcnetEmailUser as the calls return it: the row without its passwd.   *)
Account == [id : 0..MaxId, email : Emails, is_staff : BOOLEAN,
            is_active : BOOLEAN]

ASSUME UseLdapAssumption == UseLdap \in BOOLEAN
ASSUME MaxIdAssumption == MaxId \in Nat
ASSUME NullAssumption == NULL \notin Emails \cup Passwords \cup DNs
ASSUME DirMailAssumption == DirMail \in [DNs -> Emails \ {Wildcard}]
ASSUME GetDnAssumption == GetDnMayFail \in BOOLEAN
ASSUME ServerAssumption == UnauthBind \in BOOLEAN /\ MayHang \in BOOLEAN
(* The table at start-up obeys its UNIQUE (email) and PRIMARY KEY (id).   *)
ASSUME InitialRowsAssumption ==
    /\ InitialRows \subseteq Row
    /\ \A r, q \in InitialRows : r.email = q.email \/ r.id = q.id => r = q
ASSUME FiniteAssumption == IsFiniteSet(DNs)
ASSUME ArgsAssumption == PageArgs \subseteq Int \X Int /\ ActiveFlags \subseteq BOOLEAN

VARIABLES
    rows,       \* the EmailUser table
    nextId,     \* the engine's AUTOINCREMENT counter for EmailUser.id
    dirPw,      \* dirPw[dn]: the entry's password, NULL when it has no entry
    dirUp,      \* whether the LDAP server answers binds and searches
    dirHung,    \* the server holds requests without answering (no timeout)
    th,         \* th[c]: where caller c is inside a call, and its locals
    lastReply,  \* the call that returned last: caller, call, arguments, result
    everValid   \* history: every <<email, password>> that has been a valid login

vars == <<rows, nextId, dirPw, dirUp, dirHung, th, lastReply, everValid>>

Ops == {"add", "remove", "validate", "get", "get_by_id", "list", "count",
        "update"}
PCs == {"idle", "v_search", "v_bind", "g_dir"}
Local == [pc : PCs, email : Emails \cup {NULL}, pw : Passwords \cup {NULL},
          dn : DNs \cup {NULL}]
Idle == [pc |-> "idle", email |-> NULL, pw |-> NULL, dn |-> NULL]
Reply == [caller : Callers, op : Ops, email : Emails \cup {NULL},
          pw : Passwords \cup {NULL}, code : Int \cup {NULL},
          accts : SUBSET Account]

-----------------------------------------------------------------------------
(* The credentials the façade promises to accept (spec §4.5): without a    *)
(* directory the local table decides; with one, local staff rows and the   *)
(* directory's entries do, and a non-staff row's local password counts for *)
(* nothing.                                                                 *)
ValidCreds ==
    {ep \in Emails \X Passwords :
        IF UseLdap
        THEN \/ \E r \in rows : r.email = ep[1] /\ r.passwd = Digest(ep[2])
                                /\ r.is_staff
             \/ \E dn \in DNs : DirMail[dn] = ep[1] /\ dirPw[dn] = ep[2]
        ELSE \E r \in rows : r.email = ep[1] /\ r.passwd = Digest(ep[2])}

(* Every step records the credentials valid in its new state.             *)
RecordValid == everValid' = everValid \cup ValidCreds'

-----------------------------------------------------------------------------
(* get_emailuser_cb / get_emailusers_cb: a row read into a CcnetEmailUser. *)
AccountOf(r) == [id |-> r.id, email |-> r.email, is_staff |-> r.is_staff,
                 is_active |-> r.is_active]

(* ldap_list_users: an entry becomes id 0, its mail, not staff, active.   *)
DirAccount(e) == [id |-> 0, email |-> e, is_staff |-> FALSE, is_active |-> TRUE]

(* Mutant: the SELECT forgets the passwd condition.                      *)
PwMatch_EmailOnly(e, p) == {r \in rows : r.email = e}

(* The rows of "SELECT ... WHERE email='e' AND passwd='digest'".          *)
PwMatch(e, p) == {r \in rows : r.email = e /\ r.passwd = Digest(p)}

(* The entries the filter "(mail=uid)" selects under the base; "*" is the *)
(* presence filter and selects every entry that has a mail.              *)
Matches(uid) == {dn \in DNs : dirPw[dn] # NULL
                              /\ (uid = Wildcard \/ DirMail[dn] = uid)}

(* ldap_list_users(uid): NULL (the empty list) when the service bind or   *)
(* the search fails, else one account per entry the filter selects.      *)
LdapListUsers(uid) ==
    IF dirUp THEN {DirAccount(DirMail[dn]) : dn \in Matches(uid)} ELSE {}

(* ldap_count_users(uid): -1 when the bind or the search fails.           *)
LdapCountUsers(uid) == IF dirUp THEN Cardinality(Matches(uid)) ELSE -1

(* Mutant: the staff check on the local row is dropped.                   *)
StaffMatch_AnyRow(e, p) == PwMatch(e, p) # {}

(* validate under LDAP: the local row with this password is staff.        *)
StaffMatch(e, p) == \E r \in PwMatch(e, p) : r.is_staff

(* Mutant: get under LDAP returns any local row.                          *)
LocalAnswer_AnyRow(e) == {r \in rows : r.email = e}

(* The local rows get_emailuser returns at once: under LDAP ("lookup admin *)
(* first") only a staff row.                                              *)
LocalAnswer(e) == {r \in rows : r.email = e /\ (UseLdap => r.is_staff)}

(* Mutant: update stores the plaintext (hash_password not called).        *)
Updated_Plain(r, p, s, a) ==
    [r EXCEPT !.passwd = p, !.is_staff = s, !.is_active = a]

(* The row after "UPDATE EmailUser SET passwd, is_staff, is_active".      *)
Updated(r, p, s, a) ==
    [r EXCEPT !.passwd = Digest(p), !.is_staff = s, !.is_active = a]

(* ldap_init_and_bind(host, dn, password) succeeds: with dn NULL it never *)
(* calls ldap_bind_s and returns the handle; an empty password makes the  *)
(* simple bind unauthenticated, which some servers accept.                *)
BindOk(dn, pw) ==
    \/ dn = NULL
    \/ dirUp /\ (dirPw[dn] = pw \/ (UnauthBind /\ pw = EmptyPw))

(* Storage position of a row: a SELECT without ORDER BY returns rows in  *)
(* id order on these engines.                                            *)
Rank(r) == Cardinality({q \in rows : q.id <= r.id})

(* Mutant: the page starts one row early.                                  *)
Page_InclusiveStart(pg) ==
    IF pg = <<-1, -1>> THEN rows
    ELSE {r \in rows : pg[1] <= Rank(r) /\ Rank(r) <= pg[1] + pg[2]}

(* The page of "SELECT * FROM EmailUser LIMIT start, limit", rows taken  *)
(* in storage (id) order.                                                 *)
Page(pg) == IF pg = <<-1, -1>> THEN rows
            ELSE {r \in rows : pg[1] < Rank(r) /\ Rank(r) <= pg[1] + pg[2]}

(* A call returns: an int status or count, or accounts (a NULL account    *)
(* is the empty set, one account a singleton, a GList the set of them).   *)
Return(c, op, e, p, code, accts) ==
    /\ th' = [th EXCEPT ![c] = Idle]
    /\ lastReply' = [caller |-> c, op |-> op, email |-> e, pw |-> p,
                      code |-> code, accts |-> accts]
ReturnCode(c, op, e, p, code) == Return(c, op, e, p, code, {})
ReturnAccts(c, op, e, accts) == Return(c, op, e, NULL, NULL, accts)

-----------------------------------------------------------------------------
Init ==
    /\ rows = InitialRows
    /\ nextId \in {n \in 1..MaxId + 1 : \A r \in rows : r.id < n}
    /\ dirPw \in [DNs -> Passwords \cup {NULL}]
    /\ dirUp \in BOOLEAN
    /\ dirHung = FALSE
    /\ th = [c \in Callers |-> Idle]
    /\ lastReply = NULL
    /\ everValid = ValidCreds

(* Mutant: the INSERT takes the least id above those in use, as SQLite    *)
(* does for an INTEGER PRIMARY KEY without AUTOINCREMENT, so the id of a  *)
(* removed last row is handed out again.                                  *)
Add_ReuseId(c, e, p, s, a) ==
    LET above == {n \in 1..MaxId + 1 : \A r \in rows : r.id < n}
        id == CHOOSE n \in above : \A m \in above : n <= m
    IN /\ th[c].pc = "idle"
       /\ ~UseLdap
       /\ \A r \in rows : r.email # e
       /\ id <= MaxId
       /\ rows' = rows \cup {[id |-> id, email |-> e, passwd |-> Digest(p),
                              is_staff |-> s, is_active |-> a]}
       /\ nextId' = id + 1
       /\ ReturnCode(c, "add", e, p, 0)
       /\ UNCHANGED <<dirPw, dirUp, dirHung>>
       /\ RecordValid

(* ccnet_user_manager_add_emailuser: a no-op returning 0 under LDAP;      *)
(* otherwise an INSERT that the UNIQUE index on email rejects.            *)
Add(c, e, p, s, a) ==
    /\ th[c].pc = "idle"
    /\ \/ /\ UseLdap
          /\ UNCHANGED <<rows, nextId>>
          /\ ReturnCode(c, "add", e, p, 0)
       \/ /\ ~UseLdap
          /\ \E r \in rows : r.email = e
          /\ UNCHANGED <<rows, nextId>>
          /\ ReturnCode(c, "add", e, p, -1)
       \/ /\ ~UseLdap
          /\ \A r \in rows : r.email # e
          /\ nextId <= MaxId
          /\ rows' = rows \cup {[id |-> nextId, email |-> e, passwd |-> Digest(p),
                                 is_staff |-> s, is_active |-> a]}
          /\ nextId' = nextId + 1
          /\ ReturnCode(c, "add", e, p, 0)
    /\ UNCHANGED <<dirPw, dirUp, dirHung>>
    /\ RecordValid

(* ccnet_user_manager_remove_emailuser: DELETE by email, no-op under LDAP. *)
Remove(c, e) ==
    /\ th[c].pc = "idle"
    /\ rows' = IF UseLdap THEN rows ELSE {r \in rows : r.email # e}
    /\ ReturnCode(c, "remove", e, NULL, 0)
    /\ UNCHANGED <<nextId, dirPw, dirUp, dirHung>>
    /\ RecordValid

(* ccnet_user_manager_validate_emailuser, its SELECT on the local table:  *)
(* under LDAP a staff row with the password returns 0 at once, anything   *)
(* else goes on to ldap_verify_user_password.                             *)
ValidateLocal(c, e, p) ==
    /\ th[c].pc = "idle"
    /\ \/ /\ ~UseLdap
          /\ ReturnCode(c, "validate", e, p, IF PwMatch(e, p) # {} THEN 0 ELSE -1)
       \/ /\ UseLdap
          /\ StaffMatch(e, p)
          /\ ReturnCode(c, "validate", e, p, 0)
       \/ /\ UseLdap
          /\ ~StaffMatch(e, p)
          /\ th' = [th EXCEPT ![c] = [pc |-> "v_search", email |-> e, pw |-> p,
                                      dn |-> NULL]]
          /\ UNCHANGED lastReply
    /\ UNCHANGED <<rows, nextId, dirPw, dirUp, dirHung, everValid>>

(* Mutant: the service bind is retried until the server takes it.         *)
LdapSearchUser_RetryBind(c) ==
    LET t == th[c] IN
    /\ t.pc = "v_search"
    /\ ~dirHung
    /\ dirUp
    /\ \/ /\ Matches(t.email) = {}
          /\ ReturnCode(c, "validate", t.email, t.pw, -1)
       \/ /\ Matches(t.email) # {}
          /\ \E dn \in Matches(t.email) \cup (IF GetDnMayFail THEN {NULL} ELSE {}) :
                th' = [th EXCEPT ![c].pc = "v_bind", ![c].dn = dn]
          /\ UNCHANGED lastReply
    /\ UNCHANGED <<rows, nextId, dirPw, dirUp, dirHung, everValid>>

(* ldap_verify_user_password up to ldap_get_dn: bind as the service user, *)
(* search "(mail=uid)", take the first entry the server returns and its DN. *)
LdapSearchUser(c) ==
    LET t == th[c] IN
    /\ t.pc = "v_search"
    /\ ~dirHung
    /\ \/ /\ ~dirUp \/ Matches(t.email) = {}
          /\ ReturnCode(c, "validate", t.email, t.pw, -1)
       \/ /\ dirUp
          /\ Matches(t.email) # {}
          /\ \E dn \in Matches(t.email) \cup (IF GetDnMayFail THEN {NULL} ELSE {}) :
                th' = [th EXCEPT ![c].pc = "v_bind", ![c].dn = dn]
          /\ UNCHANGED lastReply
    /\ UNCHANGED <<rows, nextId, dirPw, dirUp, dirHung, everValid>>

(* ldap_verify_user_password from the unbind on: bind again as the DN     *)
(* with the caller's password; the call succeeds iff that bind does.      *)
LdapBindUser(c) ==
    LET t == th[c] IN
    /\ t.pc = "v_bind"
    /\ t.dn = NULL \/ ~dirHung
    /\ ReturnCode(c, "validate", t.email, t.pw, IF BindOk(t.dn, t.pw) THEN 0 ELSE -1)
    /\ UNCHANGED <<rows, nextId, dirPw, dirUp, dirHung, everValid>>

(* ccnet_user_manager_get_emailuser, its SELECT on the local table: under *)
(* LDAP only a staff row is returned, anything else goes to the directory. *)
GetLocal(c, e) ==
    /\ th[c].pc = "idle"
    /\ \/ /\ ~UseLdap
          /\ \A r \in rows : r.email # e
          /\ ReturnAccts(c, "get", e, {})
       \/ \E r \in LocalAnswer(e) : ReturnAccts(c, "get", e, {AccountOf(r)})
       \/ /\ UseLdap
          /\ LocalAnswer(e) = {}
          /\ th' = [th EXCEPT ![c] = [Idle EXCEPT !.pc = "g_dir", !.email = e]]
          /\ UNCHANGED lastReply
    /\ UNCHANGED <<rows, nextId, dirPw, dirUp, dirHung, everValid>>

(* ccnet_user_manager_get_emailuser under LDAP: ldap_list_users(email)    *)
(* and the head of its list; NULL when the bind or search fails or no     *)
(* entry matches.                                                          *)
GetLdap(c) ==
    LET t == th[c] IN
    /\ t.pc = "g_dir"
    /\ ~dirHung
    /\ \/ /\ LdapListUsers(t.email) = {}
          /\ ReturnAccts(c, "get", t.email, {})
       \/ \E a \in LdapListUsers(t.email) : ReturnAccts(c, "get", t.email, {a})
    /\ UNCHANGED <<rows, nextId, dirPw, dirUp, dirHung, everValid>>

(* ccnet_user_manager_get_emailuser_by_id: NULL under LDAP.               *)
GetById(c, i) ==
    /\ th[c].pc = "idle"
    /\ \/ /\ UseLdap \/ \A r \in rows : r.id # i
          /\ ReturnAccts(c, "get_by_id", NULL, {})
       \/ /\ ~UseLdap
          /\ \E r \in rows : r.id = i /\ ReturnAccts(c, "get_by_id", NULL, {AccountOf(r)})
    /\ UNCHANGED <<rows, nextId, dirPw, dirUp, dirHung, everValid>>

(* ccnet_user_manager_get_emailusers: under LDAP ldap_list_users("*"),    *)
(* whose NULL on a failed bind or search is the empty list; otherwise      *)
(* SELECT * with LIMIT start, limit unless both are -1.                   *)
List(c, pg) ==
    /\ th[c].pc = "idle"
    /\ UseLdap => ~dirHung
    /\ ReturnAccts(c, "list", NULL,
                   IF UseLdap THEN LdapListUsers(Wildcard)
                              ELSE {AccountOf(r) : r \in Page(pg)})
    /\ UNCHANGED <<rows, nextId, dirPw, dirUp, dirHung, everValid>>

(* ccnet_user_manager_count_emailusers: ldap_count_users("*"), -1 when    *)
(* the directory fails, or SELECT COUNT of the table.                    *)
Count(c) ==
    /\ th[c].pc = "idle"
    /\ UseLdap => ~dirHung
    /\ ReturnCode(c, "count", NULL, NULL,
              IF UseLdap THEN LdapCountUsers(Wildcard) ELSE Cardinality(rows))
    /\ UNCHANGED <<rows, nextId, dirPw, dirUp, dirHung, everValid>>

(* ccnet_user_manager_update_emailuser: UPDATE ... WHERE id, which under  *)
(* LDAP runs only when the new is_staff argument is set; else returns 0.  *)
Update(c, i, p, s, a) ==
    /\ th[c].pc = "idle"
    /\ rows' = IF ~UseLdap \/ s
               THEN {IF r.id = i THEN Updated(r, p, s, a) ELSE r : r \in rows}
               ELSE rows
    /\ ReturnCode(c, "update", NULL, p, 0)
    /\ UNCHANGED <<nextId, dirPw, dirUp, dirHung>>
    /\ RecordValid

-----------------------------------------------------------------------------
(* The directory's environment: its administrators create, delete and     *)
(* re-password entries, and the server goes down and comes back.          *)
DirSetEntry(dn, p) ==
    /\ UseLdap
    /\ dirPw' = [dirPw EXCEPT ![dn] = p]
    /\ UNCHANGED <<rows, nextId, dirUp, dirHung, th, lastReply>>
    /\ RecordValid

DirToggle ==
    /\ UseLdap
    /\ dirUp' = ~dirUp
    /\ UNCHANGED <<rows, nextId, dirPw, dirHung, th, lastReply, everValid>>

(* The server stops answering: a request already sent, or sent now, waits *)
(* in ldap_bind_s or ldap_search_s, which have no timeout.                *)
DirHang ==
    /\ UseLdap /\ MayHang /\ ~dirHung
    /\ dirHung' = TRUE
    /\ UNCHANGED <<rows, nextId, dirPw, dirUp, th, lastReply, everValid>>

DirResume ==
    /\ dirHung
    /\ dirHung' = FALSE
    /\ UNCHANGED <<rows, nextId, dirPw, dirUp, th, lastReply, everValid>>

Next ==
    \/ \E c \in Callers :
          \/ \E e \in Emails, p \in Passwords, s \in BOOLEAN, a \in ActiveFlags :
                Add(c, e, p, s, a)
          \/ \E e \in Emails : Remove(c, e) \/ GetLocal(c, e)
          \/ \E e \in Emails, p \in Passwords : ValidateLocal(c, e, p)
          \/ LdapSearchUser(c) \/ LdapBindUser(c) \/ GetLdap(c) \/ Count(c)
          \/ \E i \in 1..MaxId : GetById(c, i)
          \/ \E pg \in PageArgs : List(c, pg)
          \/ \E i \in 1..MaxId, p \in Passwords, s \in BOOLEAN, a \in ActiveFlags :
                Update(c, i, p, s, a)
    \/ \E dn \in DNs, p \in Passwords \cup {NULL} : DirSetEntry(dn, p)
    \/ DirToggle \/ DirHang \/ DirResume

Spec == Init /\ [][Next]_vars

(* A caller is a thread that the scheduler keeps running: a request it    *)
(* waits on completes once the server answers.  The steps of a call in   *)
(* progress are strongly fair, since a server may hang and resume again *)
(* again; a caller is never obliged to start a call.                      *)
CallerFairness ==
    \A c \in Callers : /\ SF_vars(LdapSearchUser(c))
                      /\ SF_vars(LdapBindUser(c))
                      /\ SF_vars(GetLdap(c))

(* A server that always answers again in the end.                         *)
LiveSpec == Spec /\ CallerFairness /\ WF_vars(DirResume)

(* A server that may stop answering for good.                             *)
HangSpec == Spec /\ CallerFairness

-----------------------------------------------------------------------------
(* Every variable holds a value of its type.                              *)
TypeOK ==
    /\ rows \subseteq Row
    /\ nextId \in 1..MaxId + 1
    /\ dirPw \in [DNs -> Passwords \cup {NULL}]
    /\ dirUp \in BOOLEAN
    /\ dirHung \in BOOLEAN
    /\ th \in [Callers -> Local]
    /\ lastReply \in {NULL} \cup Reply
    /\ everValid \subseteq Emails \X Passwords

(* Authentication is sound: validate(email, password) returns 0 only for  *)
(* credentials that the façade's precedence rule accepted at some moment  *)
(* — a local staff row under LDAP, a directory entry, or any local row    *)
(* without LDAP — across concurrent updates, directory edits and outages. *)
AuthSound ==
    lastReply # NULL /\ lastReply.op = "validate" /\ lastReply.code = 0
        => <<lastReply.email, lastReply.pw>> \in everValid

(* get(email) returns an account for that email, and under LDAP it is      *)
(* either a local staff row or a directory account (id 0, not staff):      *)
(* a non-staff local row never shadows the directory.                      *)
GetSound ==
    lastReply # NULL /\ lastReply.op = "get"
        => \A a \in lastReply.accts :
              /\ a.email = lastReply.email
              /\ UseLdap => \/ a.is_staff /\ a.id # 0
                            \/ a = DirAccount(lastReply.email)

(* Paging is honoured (spec §8: "list(0, 2) returns at most 2 rows"): a   *)
(* list call with a limit returns at most that many accounts.             *)
ListBounded ==
    [][\A c \in Callers, pg \in PageArgs :
          List(c, pg) /\ pg[2] >= 0 => Cardinality(lastReply'.accts) <= pg[2]]_vars

(* The accounts of all accounts (spec §4.4: a failed bind or search is     *)
(* reported as unavailable, never as an empty success): list(-1, -1)       *)
(* returns no account only when there is none.                            *)
NoAccounts == IF UseLdap THEN Matches(Wildcard) = {} ELSE rows = {}
ListReportsOutage ==
    [][\A c \in Callers :
          List(c, <<-1, -1>>) /\ lastReply'.accts = {} => NoAccounts]_vars

(* update keeps the authority rule (spec §4.5): an update that returns 0   *)
(* rewrites the target row when it is staff or there is no directory, and  *)
(* under a directory leaves a regular user's row alone.                   *)
UpdateHonoured ==
    [][\A c \in Callers, i \in 1..MaxId, p \in Passwords, s \in BOOLEAN,
          a \in ActiveFlags :
          Update(c, i, p, s, a) =>
             \A r \in rows :
                r.id = i => IF ~UseLdap \/ r.is_staff
                            THEN Updated(r, p, s, a) \in rows'
                            ELSE r \in rows']_vars

(* Every call returns (spec §5: an unreachable directory must not hang    *)
(* the service): a caller inside validate or get is eventually idle again, *)
(* through outages, directory edits and other callers' writes.            *)
CallsReturn == \A c \in Callers : th[c].pc # "idle" ~> th[c].pc = "idle"
=============================================================================
