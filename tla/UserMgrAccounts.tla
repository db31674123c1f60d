-------------------------- MODULE UserMgrAccounts --------------------------
(***************************************************************************)
(* The user manager implements the atomic façade of Accounts.  Callers'   *)
(* positions inside multi-step calls (th), the history everValid and the  *)
(* hung state of the LDAP server are hidden; a hung server is, to the     *)
(* façade, a directory that does not answer.  Each call takes effect at   *)
(* one of its steps: validate at the staff SELECT or at the bind as the   *)
(* found DN (or at the search, when that fails), get at the local SELECT  *)
(* or at the directory search.                                            *)
(***************************************************************************)
EXTENDS UserMgr

A == INSTANCE Accounts WITH rows <- rows, nextId <- nextId, dirPw <- dirPw,
                            dirUp <- dirUp /\ ~dirHung, lastReply <- lastReply

(* Every behaviour of the manager, seen through the mapping, is one of the *)
(* façade: validate and get are linearizable at the steps named above, and *)
(* add, remove and update keep the table keyed and never reuse an id.     *)
Refines == A!Spec
=============================================================================
