---------------------------- MODULE MC_UserMgr ----------------------------
(* Small instances of UserMgr for TLC: two accounts, two directory        *)
(* entries, two passwords.                                                *)
EXTENDS UserMgrAccounts, TLC

CONSTANTS e1, e2, star, p1, p2, d1, d2, c1, c2, pe

(* e1 is a local staff account (the admin) that the directory also holds; *)
(* e2 a regular user with a stale local row, as left by a deployment     *)
(* that ran without LDAP before.                                         *)
MCInitialRows ==
    {[id |-> 1, email |-> e1, passwd |-> Digest(p1), is_staff |-> TRUE,
      is_active |-> TRUE],
     [id |-> 2, email |-> e2, passwd |-> Digest(p2), is_staff |-> FALSE,
      is_active |-> TRUE]}

MCDirMail == [d \in {d1, d2} |-> IF d = d1 THEN e1 ELSE e2]

(* Two entries sharing one mail: the search picks either.                 *)
MCDirMailShared == [d \in {d1, d2} |-> e2]

(* A single entry for e2, the regular user whose stale local row must not *)
(* shadow it; the admin e1 is local only.                                 *)
MCDirMailUser == [d \in {d1} |-> e2]

(* A single entry, for runs where the directory is not consulted.         *)
MCDirMailOne == [d \in {d1} |-> e1]

MCPageArgs == {<<-1, -1>>, <<0, 1>>, <<1, 1>>}

(* list(-1, -1) only, for runs that are not about paging.                  *)
MCPageAll == {<<-1, -1>>}

(* The callers are threads running the same code on no data of their own: *)
(* swapping them maps behaviours to behaviours.                          *)
MCCallerSymmetry == Permutations({c1, c2})
=============================================================================
