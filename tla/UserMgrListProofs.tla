------------------------- MODULE UserMgrListProofs -------------------------
(***************************************************************************)
(* Paging of ccnet_user_manager_get_emailusers on the local table: the     *)
(* rows' storage positions are distinct, so a LIMIT start, limit page      *)
(* holds at most limit rows.                                               *)
(***************************************************************************)
EXTENDS UserMgrProofs

(* The rows at or before r in storage (id) order.                         *)
Upto(r) == {q \in rows : q.id <= r.id}

(* A row stored later has a larger position.                              *)
LEMMA RankLess ==
    ASSUME TypeInv, NEW r \in rows, NEW q \in rows, r.id < q.id
    PROVE  Rank(r) < Rank(q)
<1>1. IsFiniteSet(rows)
  BY RowsFinite DEF TypeInv, TypeOK, Keys
<1>2. rows \subseteq Row
  BY DEF TypeInv, TypeOK
<1>3. Upto(r) \subseteq Upto(q)
  BY <1>2 DEF Upto, Row
<1>4. q \in Upto(q) /\ q \notin Upto(r)
  BY <1>2 DEF Upto, Row
<1>5. IsFiniteSet(Upto(q))
  BY <1>1, FS_Subset DEF Upto
<1>6. /\ Cardinality(Upto(r)) <= Cardinality(Upto(q))
      /\ Cardinality(Upto(q)) = Cardinality(Upto(r)) => Upto(q) = Upto(r)
  BY <1>3, <1>5, FS_Subset
<1>7. Cardinality(Upto(r)) \in Nat /\ Cardinality(Upto(q)) \in Nat
  BY <1>3, <1>5, FS_Subset, FS_CardinalityType
<1>8. QED
  BY <1>4, <1>6, <1>7 DEF Rank, Upto

LEMMA RankType ==
    ASSUME TypeInv, NEW r \in rows
    PROVE  Rank(r) \in Nat
<1>1. IsFiniteSet(rows)
  BY RowsFinite DEF TypeInv, TypeOK, Keys
<1>2. IsFiniteSet(Upto(r))
  BY <1>1, FS_Subset DEF Upto
<1>3. QED
  BY <1>2, FS_CardinalityType DEF Rank, Upto

(* Distinct rows have distinct positions.                                 *)
LEMMA RankInjective ==
    ASSUME TypeInv, NEW r \in rows, NEW q \in rows, r # q
    PROVE  Rank(r) # Rank(q)
<1>1. r.id # q.id /\ r.id \in Int /\ q.id \in Int
  BY DEF TypeInv, TypeOK, Keys, Row
<1>2. r.id < q.id \/ q.id < r.id
  BY <1>1
<1>3. Rank(r) \in Nat /\ Rank(q) \in Nat
  BY RankType
<1>4. CASE r.id < q.id
  <2>1. Rank(r) < Rank(q)
    BY <1>4, RankLess
  <2>2. QED
    BY <1>3, <2>1
<1>5. CASE q.id < r.id
  <2>1. Rank(q) < Rank(r)
    BY <1>5, RankLess
  <2>2. QED
    BY <1>3, <2>1
<1>6. QED
  BY <1>2, <1>4, <1>5

(* A page with a limit holds at most limit rows: their positions are      *)
(* distinct and lie in start+1..start+limit.                              *)
LEMMA PageBound ==
    ASSUME TypeInv, NEW pg \in Int \X Int, pg[2] >= 0
    PROVE  IsFiniteSet(Page(pg)) /\ Cardinality(Page(pg)) <= pg[2]
<1> DEFINE P == {r \in rows : pg[1] < Rank(r) /\ Rank(r) <= pg[1] + pg[2]}
           I == (pg[1] + 1)..(pg[1] + pg[2])
<1>1. Page(pg) = P
  BY DEF Page
<1>2. [r \in P |-> Rank(r)] \in Injection(P, I)
  <2>1. \A r \in P : Rank(r) \in I
    BY RankType
  <2>2. \A r, q \in P : r # q => Rank(r) # Rank(q)
    BY RankInjective
  <2>3. QED
    BY <2>1, <2>2 DEF Injection, IsInjective
<1>3. IsFiniteSet(I) /\ Cardinality(I) = pg[2]
  <2>1. pg[1] + 1 \in Int /\ pg[1] + pg[2] \in Int
    OBVIOUS
  <2>2. Cardinality(I) = IF pg[1] + 1 > pg[1] + pg[2] THEN 0
                         ELSE (pg[1] + pg[2]) - (pg[1] + 1) + 1
    BY <2>1, FS_Interval
  <2>3. IsFiniteSet(I)
    BY <2>1, FS_Interval
  <2>4. QED
    BY <2>2, <2>3
<1>4. IsFiniteSet(P) /\ Cardinality(P) <= Cardinality(I)
  BY <1>2, <1>3, FS_Injection
<1>5. QED
  BY <1>1, <1>3, <1>4

(* The accounts list returns from a page are at most as many as its rows. *)
LEMMA PageAcctsBound ==
    ASSUME TypeInv, NEW pg \in Int \X Int, pg[2] >= 0
    PROVE  Cardinality({AccountOf(r) : r \in Page(pg)}) <= pg[2]
<1> DEFINE T == {AccountOf(r) : r \in Page(pg)}
<1>1. IsFiniteSet(Page(pg)) /\ Cardinality(Page(pg)) <= pg[2]
  BY PageBound
<1>2. [r \in Page(pg) |-> AccountOf(r)] \in Surjection(Page(pg), T)
  BY DEF Surjection
<1>3. Cardinality(T) <= Cardinality(Page(pg)) /\ Cardinality(T) \in Nat
  <2>1. IsFiniteSet(T) /\ Cardinality(T) <= Cardinality(Page(pg))
    BY <1>1, <1>2, FS_Surjection
  <2>2. QED
    BY <2>1, FS_CardinalityType
<1>4. Cardinality(Page(pg)) \in Nat
  BY <1>1, FS_CardinalityType
<1>5. QED
  BY <1>1, <1>3, <1>4

(* Paging is honoured without a directory (spec section 8): whatever the *)
(* table's history of adds, removes and updates, list(start, limit) with *)
(* a limit returns at most limit accounts.  Under LDAP get_emailusers    *)
(* ignores start and limit, and the paging run shows the violation.      *)
THEOREM ListBoundedLocal ==
    ASSUME ~UseLdap
    PROVE  Spec => ListBounded
<1>1. TypeInv => \A c \in Callers, pg \in PageArgs :
                    List(c, pg) /\ pg[2] >= 0 => Cardinality(lastReply'.accts) <= pg[2]
  <2> SUFFICES ASSUME TypeInv, NEW c \in Callers, NEW pg \in PageArgs,
                      List(c, pg), pg[2] >= 0
               PROVE  Cardinality(lastReply'.accts) <= pg[2]
    OBVIOUS
  <2>1. pg \in Int \X Int
    BY ArgsAssumption
  <2>2. lastReply'.accts = {AccountOf(r) : r \in Page(pg)}
    BY DEF List, ReturnAccts, Return
  <2>3. QED
    BY <2>1, <2>2, PageAcctsBound
<1>2. Spec => []TypeInv
  BY TypeInit, TypeStep, PTL DEF Spec
<1>3. QED
  BY <1>1, <1>2, PTL DEF ListBounded
=============================================================================
