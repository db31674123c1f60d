------------------------------ MODULE Accounts ------------------------------
(***************************************************************************)
(* What the account façade of ccnet's user manager promises its callers   *)
(* (spec sections 3 and 4.5), with every call one atomic step:             *)
(*   - a call that is one SQL statement moves the table from one keyed     *)
(*     table to another, and never hands out an id twice;                  *)
(*   - validate(e, p) returns 0 only for credentials valid at that moment  *)
(*     under the precedence rule, and without a directory exactly then;    *)
(*   - get(e) returns nothing, or one account e has at that moment;        *)
(*     without a directory exactly the row of e;                           *)
(*   - the directory changes on its own.                                   *)
(* Under a directory, a failing directory call may make validate and get  *)
(* return nothing, so those promises are one-sided there.                  *)
(***************************************************************************)
EXTENDS Integers

CONSTANTS Emails, Passwords, DNs, DirMail, Callers, UseLdap, MaxId, NULL

VARIABLES
    rows,       \* the account table
    nextId,     \* the least id never handed out
    dirPw,      \* each directory entry's password, NULL for no entry
    dirUp,      \* whether the directory answers
    lastReply   \* the call that returned last

vars == <<rows, nextId, dirPw, dirUp, lastReply>>

Digest(p) == <<"sha1", p>>

Row == [id : 1..MaxId, email : Emails, passwd : {Digest(p) : p \in Passwords},
        is_staff : BOOLEAN, is_active : BOOLEAN]

AccountOf(r) == [id |-> r.id, email |-> r.email, is_staff |-> r.is_staff,
                 is_active |-> r.is_active]

DirAccount(e) == [id |-> 0, email |-> e, is_staff |-> FALSE, is_active |-> TRUE]

(* The calls that are one SQL statement on the table.                      *)
StoreOps == {"add", "remove", "update", "get_by_id", "list", "count"}

(* Spec section 3: ids and emails each identify at most one row, and every *)
(* id in use was handed out.                                               *)
Keyed(rs, n) ==
    /\ \A r, q \in rs : r.email = q.email \/ r.id = q.id => r = q
    /\ \A r \in rs : r.id < n

(* The credentials validate accepts: local staff rows and directory        *)
(* entries under a directory, the local rows without one.                  *)
Valid(e, p) ==
    \/ \E r \in rows : /\ r.email = e /\ r.passwd = Digest(p)
                       /\ UseLdap => r.is_staff
    \/ UseLdap /\ \E dn \in DNs : DirMail[dn] = e /\ dirPw[dn] = p

(* The accounts get(e) may answer with: under a directory a local staff    *)
(* row or, while the directory answers, the entry with mail e.             *)
Answers(e) ==
    {AccountOf(r) : r \in {q \in rows : q.email = e /\ (UseLdap => q.is_staff)}}
    \cup (IF UseLdap /\ dirUp /\ \E dn \in DNs : DirMail[dn] = e /\ dirPw[dn] # NULL
          THEN {DirAccount(e)} ELSE {})

Init ==
    /\ rows \in SUBSET Row
    /\ nextId \in 1..MaxId + 1
    /\ Keyed(rows, nextId)
    /\ dirPw \in [DNs -> Passwords \cup {NULL}]
    /\ dirUp \in BOOLEAN
    /\ lastReply = NULL

(* A one-statement call: a row keeps its id and email or takes a fresh id. *)
Store(c) ==
    /\ rows' \in SUBSET Row
    /\ nextId' \in nextId..MaxId + 1
    /\ Keyed(rows', nextId')
    /\ \A r \in rows' : r.id >= nextId \/ \E q \in rows : q.id = r.id /\ q.email = r.email
    /\ lastReply'.caller = c
    /\ lastReply'.op \in StoreOps
    /\ UNCHANGED <<dirPw, dirUp>>

Validate(c, e, p) ==
    /\ \E code \in IF ~Valid(e, p) THEN {-1}
                   ELSE IF UseLdap THEN {0, -1} ELSE {0} :
          lastReply' = [caller |-> c, op |-> "validate", email |-> e, pw |-> p,
                        code |-> code, accts |-> {}]
    /\ UNCHANGED <<rows, nextId, dirPw, dirUp>>

Get(c, e) ==
    /\ \E accts \in IF UseLdap THEN {{}} \cup {{a} : a \in Answers(e)}
                    ELSE {Answers(e)} :
          lastReply' = [caller |-> c, op |-> "get", email |-> e, pw |-> NULL,
                        code |-> NULL, accts |-> accts]
    /\ UNCHANGED <<rows, nextId, dirPw, dirUp>>

(* The directory's administrators and its availability.                   *)
Directory ==
    /\ dirPw' \in [DNs -> Passwords \cup {NULL}]
    /\ dirUp' \in BOOLEAN
    /\ UNCHANGED <<rows, nextId, lastReply>>

Next ==
    \/ Directory
    \/ \E c \in Callers :
          \/ \E e \in Emails, p \in Passwords : Validate(c, e, p)
          \/ \E e \in Emails : Get(c, e)
          \/ Store(c)

Spec == Init /\ [][Next]_vars
=============================================================================
