------------------------- MODULE Accounting_proofs -------------------------
(***************************************************************************)
(* Proofs about Accounting, for any books and any number of dates.         *)
(*                                                                         *)
(* The argument: an id of a reconciliation is used once, and the lines it  *)
(* joins are of two moves at least (LedgerOK).  The one a call has read of *)
(* its move therefore still joins that line and one of another move, or    *)
(* joins nothing any more, and then the move has not stayed paid (CallOK). *)
(* The lines of a posted move add up to nil, and so do those of any set of *)
(* whole moves: get_cash_balance adds up such a set.                       *)
(***************************************************************************)
EXTENDS Accounting, FiniteSetTheorems, WellFoundedInduction, TLAPS

-----------------------------------------------------------------------------
(* Induction over finite sets, by a least counterexample *)

LEMMA LeastNumber ==
    ASSUME NEW S \in SUBSET Nat, S # {}
    PROVE  \E n \in S : \A k \in S : n <= k
<1> DEFINE lt == OpToRel(<, Nat)
<1>1. IsWellFoundedOn(lt, Nat)
  BY NatLessThanWellFounded
<1>2. PICK n \in S : \A k \in S : ~(<<k, n>> \in lt)
  <2> HIDE DEF lt
  <2>1. QED BY <1>1, WFMin
<1>3. ASSUME NEW k \in S, k < n PROVE FALSE
  <2>1. <<k, n>> \in Nat \X Nat /\ <<k, n>>[1] < <<k, n>>[2]
    BY <1>3
  <2>2. <<k, n>> \in lt
    BY <2>1, Zenon DEF OpToRel
  <2>3. QED BY <1>2, <2>2
<1>4. \A k \in S : n <= k
  BY <1>3
<1>5. QED BY <1>4

\* Of some finite sets, one from which nothing can be taken to get another.
LEMMA SmallestSet ==
    ASSUME NEW F, F # {}, \A s \in F : IsFiniteSet(s)
    PROVE  \E s \in F : \A x \in s : s \ {x} \notin F
<1> DEFINE N == {Cardinality(s) : s \in F}
<1>1. N \in SUBSET Nat /\ N # {}
  BY FS_CardinalityType
<1>2. PICK n \in N : \A k \in N : n <= k
  BY <1>1, LeastNumber
<1>3. PICK s \in F : n = Cardinality(s)
  BY <1>2
<1>4. ASSUME NEW x \in s, s \ {x} \in F PROVE FALSE
  <2>1. Cardinality(s \ {x}) = n - 1
    BY <1>3, FS_RemoveElement
  <2>2. Cardinality(s \ {x}) \in N
    BY <1>4
  <2>3. n \in Nat /\ n <= n - 1
    BY <1>1, <1>2, <2>1, <2>2
  <2>4. QED BY <2>3
<1>5. QED BY <1>3, <1>4

-----------------------------------------------------------------------------
(* Sums of amounts *)

Pick(s) == CHOOSE x \in s : TRUE

\* What AmountOf adds up for s, if g tells the sums of smaller sets.
Added(g, s) == IF s = {} THEN 0 ELSE amount[Pick(s)] + g[s \ {Pick(s)}]

IsSum(g, S) == g = [s \in SUBSET S |-> Added(g, s)]

LEMMA AmountIsSum == \A S : AmountOf(S) = (CHOOSE g : IsSum(g, S))[S]
BY DEF AmountOf, SumFunctionOnSet, FoldFunctionOnSet, MapThenFoldSet, IsSum,
       Added, Pick

LEMMA SetsAreFinite ==
    /\ IsFiniteSet(Line) /\ amount \in [Line -> Int]
    /\ \A S \in SUBSET Line : IsFiniteSet(S)
BY AccountingConstants, FS_Subset

LEMMA PickIn == \A s : s # {} => Pick(s) \in s
BY DEF Pick

LEMMA AddedIsInt ==
    ASSUME NEW S \in SUBSET Line, NEW g \in [SUBSET S -> Int], NEW s \in SUBSET S
    PROVE  Added(g, s) \in Int
BY SetsAreFinite, PickIn DEF Added

\* There is such a function: each number of rounds makes it right for sets of
\* one line more.
LEMMA SumExists ==
    ASSUME NEW S \in SUBSET Line
    PROVE  \E g \in [SUBSET S -> Int] : IsSum(g, S)
<1> DEFINE Right(g, n) ==
      \A s \in SUBSET S : Cardinality(s) <= n => g[s] = Added(g, s)
           Bad == {n \in Nat : \A g \in [SUBSET S -> Int] : ~Right(g, n)}
<1>1. \A s \in SUBSET S : IsFiniteSet(s) /\ Cardinality(s) \in Nat
  BY SetsAreFinite, FS_CardinalityType, FS_Subset
<1>2. Bad = {}
  <2>1. SUFFICES ASSUME Bad # {} PROVE FALSE
    OBVIOUS
  <2>2. PICK n \in Bad : \A k \in Bad : n <= k
    BY <2>1, LeastNumber
  <2>3. n # 0
    <3> DEFINE z == [s \in SUBSET S |-> 0]
    <3>1. ASSUME NEW s \in SUBSET S, Cardinality(s) <= 0 PROVE z[s] = Added(z, s)
      <4>1. s = {}
        BY <1>1, <3>1, FS_EmptySet
      <4>2. QED BY <4>1 DEF Added
    <3>2. z \in [SUBSET S -> Int] /\ Right(z, 0)
      BY <3>1
    <3>3. QED BY <3>2
  <2>4. n - 1 \in Nat /\ n - 1 \notin Bad
    BY <2>2, <2>3
  <2>5. PICK g \in [SUBSET S -> Int] : Right(g, n - 1)
    BY <2>4
  <2> DEFINE h == [s \in SUBSET S |-> Added(g, s)]
  <2>6. h \in [SUBSET S -> Int]
    BY AddedIsInt
  <2>7. ASSUME NEW s \in SUBSET S, Cardinality(s) <= n PROVE h[s] = Added(h, s)
    <3>1. CASE s = {}
      BY <3>1 DEF Added
    <3>2. CASE s # {}
      <4> DEFINE t == s \ {Pick(s)}
      <4>1. Pick(s) \in s /\ t \in SUBSET S
        BY <3>2, PickIn
      <4>2. Cardinality(t) <= n - 1
        BY <1>1, <2>4, <2>7, <4>1, FS_RemoveElement
      <4>3. g[t] = Added(g, t)
        BY <2>5, <4>1, <4>2
      <4>4. h[t] = g[t]
        BY <4>1, <4>3
      <4>5. QED BY <3>2, <4>4 DEF Added
    <3>3. QED BY <3>1, <3>2
  <2>8. Right(h, n)
    BY <2>7
  <2> HIDE DEF h, Right
  <2>9. QED BY <2>2, <2>6, <2>8
<1>3. Cardinality(S) \in Nat /\ \A s \in SUBSET S : Cardinality(s) <= Cardinality(S)
  BY <1>1, FS_Subset
<1>4. PICK g \in [SUBSET S -> Int] : Right(g, Cardinality(S))
  BY <1>2, <1>3
<1>5. \A s \in SUBSET S : g[s] = Added(g, s)
  BY <1>3, <1>4
<1>6. g = [s \in SUBSET S |-> Added(g, s)]
  BY <1>5
<1>7. QED BY <1>6 DEF IsSum

\* Two such functions agree where both are defined.
LEMMA SumsAgree ==
    ASSUME NEW S \in SUBSET Line, NEW g, IsSum(g, S),
           NEW T \in SUBSET S, NEW h, IsSum(h, T)
    PROVE  g[T] = h[T]
<1> DEFINE F == {s \in SUBSET T : g[s] # h[s]}
<1>1. /\ \A s \in SUBSET S : g[s] = Added(g, s)
      /\ \A s \in SUBSET T : h[s] = Added(h, s)
  BY DEF IsSum
<1>2. SUFFICES ASSUME F # {} PROVE FALSE
  OBVIOUS
<1>3. PICK s \in F : \A x \in s : s \ {x} \notin F
  <2>1. \A s \in F : IsFiniteSet(s)
    BY SetsAreFinite
  <2> HIDE DEF F
  <2>2. QED BY <1>2, <2>1, SmallestSet
<1>4. s # {}
  BY <1>1 DEF Added
<1>5. Pick(s) \in s
  BY <1>4, PickIn
<1>6. g[s \ {Pick(s)}] = h[s \ {Pick(s)}]
  BY <1>3, <1>5
<1>7. QED BY <1>1, <1>4, <1>6 DEF Added

\* The equation that the fold stands for.
LEMMA AmountEquation ==
    ASSUME NEW S \in SUBSET Line
    PROVE  /\ AmountOf(S) \in Int
           /\ S = {} => AmountOf(S) = 0
           /\ S # {} => /\ Pick(S) \in S
                        /\ AmountOf(S) = amount[Pick(S)] + AmountOf(S \ {Pick(S)})
<1> DEFINE Sum(T) == CHOOSE g : IsSum(g, T)
<1>1. ASSUME NEW T \in SUBSET Line PROVE IsSum(Sum(T), T) /\ AmountOf(T) = Sum(T)[T]
  BY SumExists, AmountIsSum
<1> HIDE DEF Sum
<1>2. AmountOf(S) = Added(Sum(S), S)
  BY <1>1 DEF IsSum
<1>3. AmountOf(S) \in Int
  <2>1. PICK g \in [SUBSET S -> Int] : IsSum(g, S)
    BY SumExists
  <2>2. Sum(S)[S] = g[S]
    BY <1>1, <2>1, SumsAgree
  <2>3. QED BY <1>1, <2>1, <2>2
<1>4. ASSUME S # {}
      PROVE  /\ Pick(S) \in S
             /\ AmountOf(S) = amount[Pick(S)] + AmountOf(S \ {Pick(S)})
  <2> DEFINE T == S \ {Pick(S)}
  <2>1. Pick(S) \in S /\ T \in SUBSET S /\ T \in SUBSET Line
    BY <1>4, PickIn
  <2>2. AmountOf(T) = Sum(T)[T] /\ IsSum(Sum(T), T) /\ IsSum(Sum(S), S)
    BY <1>1, <2>1
  <2> HIDE DEF T
  <2>3. Sum(S)[T] = Sum(T)[T]
    BY <2>1, <2>2, SumsAgree
  <2>4. QED BY <1>2, <1>4, <2>1, <2>2, <2>3 DEF Added, T
<1>5. QED BY <1>2, <1>3, <1>4 DEF Added

\* A line that is taken away takes its amount away, whichever the fold picks
\* first.
LEMMA AmountWithout ==
    ASSUME NEW S \in SUBSET Line, NEW x \in S
    PROVE  AmountOf(S) = amount[x] + AmountOf(S \ {x})
<1> DEFINE F == {s \in SUBSET Line :
                   \E y \in s : AmountOf(s) # amount[y] + AmountOf(s \ {y})}
<1>1. SUFFICES ASSUME F # {} PROVE FALSE
  OBVIOUS
<1>2. PICK s \in F : \A y \in s : s \ {y} \notin F
  <2>1. \A s \in F : IsFiniteSet(s)
    BY SetsAreFinite
  <2> HIDE DEF F
  <2>2. QED BY <1>1, <2>1, SmallestSet
<1>3. PICK y \in s : AmountOf(s) # amount[y] + AmountOf(s \ {y})
  BY <1>2
<1> DEFINE c == Pick(s)
           r == s \ {y, c}
<1>4. c \in s /\ AmountOf(s) = amount[c] + AmountOf(s \ {c})
  BY <1>2, <1>3, AmountEquation
<1> HIDE DEF c
<1>5. y # c
  BY <1>3, <1>4
<1>6. (s \ {c}) \ {y} = r /\ (s \ {y}) \ {c} = r
  OBVIOUS
<1>7. AmountOf(s \ {c}) = amount[y] + AmountOf(r)
  BY <1>2, <1>3, <1>4, <1>5, <1>6
<1>8. AmountOf(s \ {y}) = amount[c] + AmountOf(r)
  BY <1>2, <1>3, <1>4, <1>5, <1>6
<1>9. amount[y] \in Int /\ amount[c] \in Int /\ AmountOf(r) \in Int
  <2>1. r \in SUBSET Line /\ y \in Line /\ c \in Line
    BY <1>2, <1>3, <1>4
  <2> HIDE DEF r
  <2>2. QED BY <2>1, SetsAreFinite, AmountEquation
<1> HIDE DEF r
<1>10. QED BY <1>3, <1>4, <1>7, <1>8, <1>9

LEMMA AmountOfBoth ==
    ASSUME NEW S \in SUBSET Line, NEW T \in SUBSET Line, S \cap T = {}
    PROVE  AmountOf(S \cup T) = AmountOf(S) + AmountOf(T)
<1> DEFINE F == {t \in SUBSET T : AmountOf(S \cup t) # AmountOf(S) + AmountOf(t)}
<1>1. SUFFICES ASSUME F # {} PROVE FALSE
  OBVIOUS
<1>2. PICK t \in F : \A y \in t : t \ {y} \notin F
  <2>1. \A t \in F : IsFiniteSet(t)
    BY SetsAreFinite
  <2> HIDE DEF F
  <2>2. QED BY <1>1, <2>1, SmallestSet
<1>3. AmountOf(S) \in Int
  BY AmountEquation
<1>4. t # {}
  <2>1. SUFFICES ASSUME t = {} PROVE FALSE
    OBVIOUS
  <2>2. S \cup t = S /\ AmountOf(t) = 0
    BY <2>1, AmountEquation
  <2>3. QED BY <1>2, <1>3, <2>2
<1>5. PICK y \in t : TRUE
  BY <1>4
<1>6. (S \cup t) \ {y} = S \cup (t \ {y})
  BY <1>2, <1>5
<1>7. AmountOf(S \cup t) = amount[y] + AmountOf(S \cup (t \ {y}))
  BY <1>2, <1>5, <1>6, AmountWithout
<1>8. AmountOf(t) = amount[y] + AmountOf(t \ {y})
  BY <1>2, <1>5, AmountWithout
<1>9. AmountOf(S \cup (t \ {y})) = AmountOf(S) + AmountOf(t \ {y})
  BY <1>2, <1>5
<1>10. amount[y] \in Int /\ AmountOf(t \ {y}) \in Int
  BY <1>2, <1>5, SetsAreFinite, AmountEquation
<1>11. QED BY <1>2, <1>3, <1>7, <1>8, <1>9, <1>10

\* Lines that are all of their moves come to nothing: each move does.
LEMMA WholeMovesBalance ==
    ASSUME NEW S \in SUBSET Line,
           \A l \in S, k \in Line : MoveOf[k] = MoveOf[l] => k \in S
    PROVE  AmountOf(S) = 0
<1> DEFINE Whole(s) == \A l \in s, k \in Line : MoveOf[k] = MoveOf[l] => k \in s
           F == {s \in SUBSET Line : Whole(s) /\ AmountOf(s) # 0}
           N == {Cardinality(s) : s \in F}
<1>1. SUFFICES ASSUME F # {} PROVE FALSE
  OBVIOUS
<1>2. \A s \in F : IsFiniteSet(s) /\ Cardinality(s) \in Nat
  BY SetsAreFinite, FS_CardinalityType
<1>3. PICK s \in F : \A t \in F : Cardinality(s) <= Cardinality(t)
  <2>1. N \in SUBSET Nat /\ N # {}
    BY <1>1, <1>2
  <2>2. PICK n \in N : \A k \in N : n <= k
    <3> HIDE DEF N
    <3>1. QED BY <2>1, LeastNumber
  <2>3. QED BY <2>2
<1>4. s # {}
  BY <1>3, AmountEquation
<1>5. PICK l \in s : TRUE
  BY <1>4
<1> DEFINE M == {k \in Line : MoveOf[k] = MoveOf[l]}
           t == s \ M
<1>6. M \in SUBSET s /\ l \in M /\ t \in SUBSET Line /\ M \in SUBSET Line
  BY <1>3, <1>5
<1>7. AmountOf(M) = 0
  BY <1>3, <1>5, AccountingConstants, DoubleEntry
<1>8. AmountOf(s) = AmountOf(t) + AmountOf(M)
  <2>1. s = t \cup M /\ t \cap M = {}
    BY <1>6
  <2>2. AmountOf(t \cup M) = AmountOf(t) + AmountOf(M)
    BY <1>6, <2>1, AmountOfBoth
  <2>3. QED BY <2>1, <2>2
<1>9. AmountOf(t) \in Int
  BY <1>6, AmountEquation
<1>10. AmountOf(t) # 0
  BY <1>3, <1>7, <1>8, <1>9
<1>11. Whole(t)
  BY <1>3, <1>5
<1>12. Cardinality(t) < Cardinality(s)
  <2>1. Cardinality(t) <= Cardinality(s) /\ (Cardinality(s) = Cardinality(t) => s = t)
    BY <1>2, <1>3, FS_Subset
  <2>2. s # t
    BY <1>5, <1>6
  <2>3. Cardinality(t) \in Nat /\ Cardinality(s) \in Nat
    BY <1>6, <1>2, SetsAreFinite, FS_CardinalityType
  <2>4. QED BY <2>1, <2>2, <2>3
<1>13. t \in F
  BY <1>6, <1>10, <1>11
<1>14. Cardinality(t) \in Nat /\ Cardinality(s) \in Nat
  BY <1>2, <1>13
<1>15. QED BY <1>3, <1>12, <1>13, <1>14

-----------------------------------------------------------------------------
(* The books *)

BookStep ==
    \/ \E g \in Group : Unreconcile(g) \/ \E L \in SUBSET Receivable : Reconcile(g, L)
    \/ \E m \in Move : SetState(m) \/ DeleteMove(m)

LEMMA ReconcileEffect ==
    ASSUME TypeOK, LedgerOK, NEW g \in Group, NEW L \in SUBSET Receivable, Reconcile(g, L)
    PROVE  /\ L \in SUBSET Line /\ LinesIn(g) = {} /\ LinesIn(g)' = L
           /\ \A l \in L : full_reconcile_id[l] = NONE /\ MoveOf[l] \in posted
           /\ \A l \in Line \ L : full_reconcile_id'[l] = full_reconcile_id[l]
           /\ \A l \in L : full_reconcile_id'[l] = g
           /\ \A h \in Group \ {g} : LinesIn(h)' = LinesIn(h)
           /\ UNCHANGED <<existing, posted>> /\ used' = used \cup {g}
<1>1. /\ L \in SUBSET Line /\ g \notin used
      /\ full_reconcile_id' = [l \in Line |-> IF l \in L THEN g ELSE full_reconcile_id[l]]
      /\ \A l \in L : full_reconcile_id[l] = NONE /\ MoveOf[l] \in posted
  BY AccountingConstants DEF Reconcile
<1>2. LinesIn(g) = {}
  BY <1>1, AccountingConstants DEF LinesIn, LedgerOK
<1>3. QED BY <1>1, <1>2, AccountingConstants DEF Reconcile, LinesIn

LEMMA UnreconcileEffect ==
    ASSUME TypeOK, NEW g \in Group, Unreconcile(g)
    PROVE  /\ LinesIn(g)' = {}
           /\ \A l \in LinesIn(g) : full_reconcile_id'[l] = NONE
           /\ \A l \in Line \ LinesIn(g) : full_reconcile_id'[l] = full_reconcile_id[l]
           /\ \A h \in Group \ {g} : LinesIn(h)' = LinesIn(h)
           /\ UNCHANGED <<existing, posted, used>>
BY AccountingConstants DEF Unreconcile, LinesIn, TypeOK

\* Lines of more than one move: not all are of the move m.
LEMMA SeveralMoves ==
    ASSUME NEW L, Cardinality({MoveOf[l] : l \in L}) > 1, NEW m
    PROVE  \E l \in L : MoveOf[l] # m
<1> SUFFICES ASSUME \A l \in L : MoveOf[l] = m PROVE FALSE
  OBVIOUS
<1>1. {MoveOf[l] : l \in L} = {} \/ {MoveOf[l] : l \in L} = {m}
  OBVIOUS
<1>2. Cardinality({}) = 0 /\ Cardinality({m}) = 1
  BY FS_EmptySet, FS_Singleton
<1>3. QED BY <1>1, <1>2

LEMMA BookType ==
    ASSUME TypeOK, BookStep
    PROVE  TypeOK'
<1> USE DEF TypeOK, booksVars, callVars, StillPaid
<1>1. ASSUME NEW g \in Group, Unreconcile(g) PROVE TypeOK'
  BY <1>1 DEF Unreconcile
<1>2. ASSUME NEW g \in Group, NEW L \in SUBSET Receivable, Reconcile(g, L) PROVE TypeOK'
  BY <1>2 DEF Reconcile
<1>3. ASSUME NEW m \in Move, SetState(m) PROVE TypeOK'
  BY <1>3 DEF SetState
<1>4. ASSUME NEW m \in Move, DeleteMove(m) PROVE TypeOK'
  BY <1>4 DEF DeleteMove
<1>5. QED BY <1>1, <1>2, <1>3, <1>4 DEF BookStep

LEMMA BookLedger ==
    ASSUME TypeOK, LedgerOK, BookStep
    PROVE  LedgerOK'
<1>1. ASSUME NEW g \in Group, NEW L \in SUBSET Receivable, Reconcile(g, L)
      PROVE  LedgerOK'
  <2>1. \A m \in Move : \E l \in LinesIn(g)' : MoveOf[l] # m
    <3>1. LinesIn(g)' = L
      BY <1>1, ReconcileEffect
    <3>2. Cardinality({MoveOf[l] : l \in L}) > 1
      BY <1>1 DEF Reconcile
    <3>3. \A m : \E l \in L : MoveOf[l] # m
      BY <3>2, SeveralMoves
    <3>4. QED BY <3>1, <3>3
  <2>2. \A h \in Group, m \in Move :
            LinesIn(h)' # {} => \E l \in LinesIn(h)' : MoveOf[l] # m
    BY <1>1, <2>1, ReconcileEffect DEF LedgerOK
  <2>3. \A l \in Line : full_reconcile_id'[l] # NONE =>
                            MoveOf[l] \in posted' /\ full_reconcile_id'[l] \in used'
    BY <1>1, ReconcileEffect DEF LedgerOK
  <2>4. QED BY <2>2, <2>3 DEF LedgerOK
<1>2. ASSUME NEW g \in Group, Unreconcile(g) PROVE LedgerOK'
  <2>1. \A h \in Group, m \in Move :
            LinesIn(h)' # {} => \E l \in LinesIn(h)' : MoveOf[l] # m
    BY <1>2, UnreconcileEffect DEF LedgerOK
  <2>2. \A l \in Line : full_reconcile_id'[l] # NONE =>
                            MoveOf[l] \in posted' /\ full_reconcile_id'[l] \in used'
    BY <1>2, UnreconcileEffect DEF LedgerOK
  <2>3. QED BY <2>1, <2>2 DEF LedgerOK
<1>3. ASSUME NEW m \in Move, SetState(m) PROVE LedgerOK'
  BY <1>3 DEF SetState, LedgerOK, Reconciled, LinesOf, LinesIn
<1>4. ASSUME NEW m \in Move, DeleteMove(m) PROVE LedgerOK'
  BY <1>4 DEF DeleteMove, LedgerOK, LinesIn
<1>5. QED BY <1>1, <1>2, <1>3, <1>4 DEF BookStep

\* A reconciliation a call has read keeps a line of its move, or is gone for good,
\* and then the move is no longer paid.
LEMMA BookKeeps ==
    ASSUME TypeOK, LedgerOK, CallOK, BookStep, pc = "payments"
    PROVE  /\ full_rec_id \in used'
           /\ \/ LinesIn(full_rec_id)' = {} /\ ~paid_throughout'
              \/ \E i \in Reconciled(move_id)' : full_reconcile_id'[i] = full_rec_id
<1>1. /\ move_id \in Move /\ move_id' = move_id /\ full_rec_id' = full_rec_id
      /\ full_rec_id \in used /\ full_rec_id \in Group
      /\ paid_throughout' = (paid_throughout /\ move_id \in Move /\ Paid(move_id)')
  BY DEF BookStep, Unreconcile, Reconcile, SetState, DeleteMove, StillPaid, callVars,
         CallOK, TypeOK
<1>2. CASE LinesIn(full_rec_id) = {} /\ ~paid_throughout
  <2>1. ASSUME NEW g \in Group, Unreconcile(g) PROVE LinesIn(full_rec_id)' = {}
    BY <1>1, <1>2, <2>1, UnreconcileEffect
  <2>2. ASSUME NEW g \in Group, NEW L \in SUBSET Receivable, Reconcile(g, L)
        PROVE  LinesIn(full_rec_id)' = {}
    BY <1>1, <1>2, <2>2, ReconcileEffect DEF Reconcile
  <2>3. ASSUME NEW m \in Move, SetState(m) \/ DeleteMove(m)
        PROVE  LinesIn(full_rec_id)' = {}
    BY <1>1, <1>2, <2>3 DEF SetState, DeleteMove, LinesIn
  <2>4. used \subseteq used'
    BY DEF BookStep, Unreconcile, Reconcile, SetState, DeleteMove
  <2>5. QED BY <1>1, <1>2, <2>1, <2>2, <2>3, <2>4 DEF BookStep
<1>3. CASE \E i \in Reconciled(move_id) : full_reconcile_id[i] = full_rec_id
  <2>1. PICK i \in Reconciled(move_id) : full_reconcile_id[i] = full_rec_id
    BY <1>3
  <2>2. /\ i \in Line /\ MoveOf[i] = move_id /\ move_id \in existing
        /\ full_reconcile_id[i] # NONE /\ move_id \in posted
        /\ i \in LinesIn(full_rec_id)
    BY <2>1 DEF Reconciled, LinesOf, LinesIn, LedgerOK
  <2>3. ASSUME NEW g \in Group, Unreconcile(g), g = full_rec_id
        PROVE  LinesIn(full_rec_id)' = {} /\ ~paid_throughout' /\ full_rec_id \in used'
    <3>1. LinesIn(full_rec_id)' = {} /\ full_reconcile_id'[i] = NONE
          /\ UNCHANGED <<existing, used>>
      BY <1>1, <2>2, <2>3, UnreconcileEffect DEF LinesIn
    <3>2. ASSUME paid_throughout' PROVE FALSE
      <4>1. Paid(move_id) /\ Paid(move_id)'
        BY <1>1, <3>2 DEF CallOK
      <4>2. i \in Receivable
        BY <2>1, <4>1 DEF Paid
      <4>3. i \in Reconciled(move_id)'
        BY <1>1, <2>2, <3>1, <4>1, <4>2 DEF Paid, LinesOf
      <4>4. QED BY <3>1, <4>3 DEF Reconciled
    <3>3. QED BY <1>1, <3>1, <3>2
  <2>4. ASSUME NEW g \in Group, Unreconcile(g), g # full_rec_id
        PROVE  /\ full_reconcile_id'[i] = full_rec_id /\ move_id \in existing'
               /\ full_rec_id \in used'
    BY <1>1, <2>1, <2>2, <2>4, UnreconcileEffect DEF LinesIn
  <2>5. ASSUME NEW g \in Group, NEW L \in SUBSET Receivable, Reconcile(g, L)
        PROVE  /\ full_reconcile_id'[i] = full_rec_id /\ move_id \in existing'
               /\ full_rec_id \in used'
    BY <1>1, <2>1, <2>2, <2>5, ReconcileEffect
  <2>6. ASSUME NEW m \in Move, SetState(m) \/ DeleteMove(m)
        PROVE  /\ full_reconcile_id'[i] = full_rec_id /\ move_id \in existing'
               /\ full_rec_id \in used'
    BY <1>1, <2>1, <2>2, <2>6 DEF SetState, DeleteMove
  <2>7. ASSUME full_reconcile_id'[i] = full_rec_id, move_id \in existing'
        PROVE  i \in Reconciled(move_id)'
    BY <1>1, <2>1, <2>2, <2>7 DEF Reconciled, LinesOf
  <2>8. QED BY <2>3, <2>4, <2>5, <2>6, <2>7 DEF BookStep
<1>4. QED BY <1>2, <1>3 DEF CallOK

\* The reconciliation a trace has read keeps its line, or is gone for good.
LEMMA BookTrace ==
    ASSUME TypeOK, LedgerOK, TraceOK, BookStep
    PROVE  TraceOK'
<1>1. /\ UNCHANGED callVars
      /\ used \subseteq used'
  BY DEF BookStep, Unreconcile, Reconcile, SetState, DeleteMove
<1>2. ASSUME pc = "trace_group"
      PROVE  LinesIn(full_rec_id)' = {} \/ LinesIn(full_rec_id)' = LinesIn(full_rec_id)
  <2>1. full_rec_id \in Group /\ full_rec_id \in used /\ full_rec_id' = full_rec_id
    BY <1>1, <1>2 DEF TraceOK, TypeOK, callVars
  <2>2. ASSUME NEW g \in Group, Unreconcile(g)
        PROVE  LinesIn(full_rec_id)' = {} \/ LinesIn(full_rec_id)' = LinesIn(full_rec_id)
    BY <2>1, <2>2, UnreconcileEffect
  <2>3. ASSUME NEW g \in Group, NEW L \in SUBSET Receivable, Reconcile(g, L)
        PROVE  LinesIn(full_rec_id)' = LinesIn(full_rec_id)
    <3>1. full_rec_id \in Group \ {g}
      BY <2>1, <2>3 DEF Reconcile
    <3>2. \A h \in Group \ {g} : LinesIn(h)' = LinesIn(h)
      BY <2>3, ReconcileEffect
    <3>3. QED BY <2>1, <3>1, <3>2 DEF LinesIn
  <2>4. ASSUME NEW m \in Move, SetState(m) \/ DeleteMove(m)
        PROVE  LinesIn(full_rec_id)' = LinesIn(full_rec_id)
    BY <2>1, <2>4 DEF SetState, DeleteMove, LinesIn
  <2>5. QED BY <2>2, <2>3, <2>4 DEF BookStep
<1>3. TraceIsWhole'
  BY <1>1 DEF TraceOK, TraceIsWhole, callVars
<1>4. QED BY <1>1, <1>2, <1>3 DEF TraceOK, callVars

LEMMA BookCall ==
    ASSUME TypeOK, LedgerOK, CallOK, PaidIsSeen, BothSides, BookStep
    PROVE  CallOK' /\ PaidIsSeen' /\ BothSides'
<1>1. /\ UNCHANGED <<booksVars, callVars>>
      /\ paid_throughout' = (paid_throughout /\ move_id \in Move /\ Paid(move_id)')
  BY DEF BookStep, Unreconcile, Reconcile, SetState, DeleteMove, StillPaid
<1>2. BothSides'
  BY <1>1 DEF BothSides, callVars
<1>3. PaidIsSeen'
  BY <1>1 DEF PaidIsSeen, callVars, booksVars
<1>4. CallOK'
  <2>1. pc = "payments" =>
            /\ full_rec_id \in used'
            /\ \/ LinesIn(full_rec_id)' = {} /\ ~paid_throughout'
               \/ \E i \in Reconciled(move_id)' : full_reconcile_id'[i] = full_rec_id
    BY BookKeeps
  <2>2. QED BY <1>1, <2>1 DEF CallOK, callVars, booksVars
<1>5. QED BY <1>2, <1>3, <1>4

-----------------------------------------------------------------------------
(* The calls *)

CallStep ==
    \/ \E m \in Move : BeginDaysToPay(m) \/ BeginResolve(m) \/ is_closing_entry(m)
    \/ \E l \in Line : BeginTrace(l)
    \/ ReadTracedLine \/ ReadGroup
    \/ ReadMove \/ ReadReconciledLine \/ ReadPayments
    \/ ReadMovePartner \/ ReadPartner
    \/ \E j \in Journal : get_cash_balance(j)
    \/ get_cash_account_ids
    \/ \E m \in Move, limit \in {NONE, 1} :
           get_posted_move_lines({l \in Line : MoveOf[l] = m}, limit)
    \/ Fail

LEMMA StepsAre == Next <=> BookStep \/ CallStep
BY DEF Next, BookStep, CallStep

LEMMA CallFrame == CallStep => UNCHANGED <<booksVars, ledgerVars>>
BY DEF CallStep, BeginDaysToPay, BeginResolve, is_closing_entry, BeginTrace,
       ReadTracedLine, ReadGroup, ReadMove, ReadReconciledLine, ReadPayments,
       ReadMovePartner, ReadPartner, get_cash_balance, get_cash_account_ids,
       get_posted_move_lines, Answer, Fail

\* What one of the functions that read once leaves behind.
LEMMA AnswerEffect ==
    ASSUME CallOK, NEW function, NEW value, Answer(function, value)
    PROVE  /\ pc' = "done" /\ kind' = function /\ answer' = value
           /\ ~paid_throughout
           /\ UNCHANGED <<move_id, move_line_id, full_rec_id, payment_date, days_to_pay,
                          partner, booksVars, ledgerVars, paid_throughout>>
BY DEF Answer, CallOK

\* The functions that read once.
AnswerStep ==
    \/ \E m \in Move : is_closing_entry(m)
    \/ \E j \in Journal : get_cash_balance(j)
    \/ get_cash_account_ids
    \/ \E m \in Move, limit \in {NONE, 1} :
           get_posted_move_lines({l \in Line : MoveOf[l] = m}, limit)

\* The lines of a journal's posted entries are all of their entries' lines.
LEMMA JournalBalances == \A j : AmountOf(LinesOfJournal(j)) = 0
<1> SUFFICES ASSUME NEW j PROVE AmountOf(LinesOfJournal(j)) = 0
  OBVIOUS
<1>1. /\ LinesOfJournal(j) \in SUBSET Line
      /\ \A l \in LinesOfJournal(j), k \in Line :
             MoveOf[k] = MoveOf[l] => k \in LinesOfJournal(j)
  BY DEF LinesOfJournal, Posted
<1>2. QED BY <1>1, WholeMovesBalance

LEMMA AnswersRight ==
    ASSUME TypeOK, CallOK, AnswerStep
    PROVE  TypeOK' /\ CallOK' /\ PaidIsSeen' /\ BothSides'
<1>1. PICK function \in Function :
          \E value : /\ Answer(function, value) /\ lines' \in SUBSET Line
                     /\ function = "get_cash_balance" => value = 0
  <2>1. ASSUME NEW m \in Move, is_closing_entry(m)
        PROVE  /\ \E value : Answer("is_closing_entry", value)
               /\ lines' = lines
    BY <2>1 DEF is_closing_entry
  <2>2. ASSUME NEW j \in Journal, get_cash_balance(j)
        PROVE  Answer("get_cash_balance", 0) /\ lines' = lines
    BY <2>2, JournalBalances DEF get_cash_balance
  <2>3. ASSUME get_cash_account_ids
        PROVE  /\ \E value : Answer("get_cash_account_ids", value)
               /\ lines' = lines
    BY <2>3 DEF get_cash_account_ids
  <2>4. ASSUME NEW m \in Move, NEW limit \in {NONE, 1},
               get_posted_move_lines({l \in Line : MoveOf[l] = m}, limit)
        PROVE  Answer("get_posted_move_lines", NONE) /\ lines' \in SUBSET Line
    BY <2>4 DEF get_posted_move_lines, Posted
  <2>5. lines \in SUBSET Line
    BY DEF TypeOK
  <2>6. QED BY <2>1, <2>2, <2>3, <2>4, <2>5, Zenon DEF AnswerStep, Function
<1>2. PICK value : /\ Answer(function, value) /\ lines' \in SUBSET Line
                   /\ function = "get_cash_balance" => value = 0
  BY <1>1
<1>3. /\ pc' = "done" /\ kind' = function /\ answer' = value
      /\ ~paid_throughout
      /\ UNCHANGED <<move_id, move_line_id, full_rec_id, payment_date, days_to_pay,
                     partner, booksVars, ledgerVars, paid_throughout>>
  BY <1>2, AnswerEffect
<1>4. TypeOK'
  BY <1>2, <1>3 DEF TypeOK, booksVars, ledgerVars
<1>5. CallOK'
  BY <1>3 DEF CallOK
<1>6. PaidIsSeen' /\ BothSides'
  BY <1>2, <1>3 DEF PaidIsSeen, BothSides
<1>7. QED BY <1>4, <1>5, <1>6

\* The steps of the functions that read more than once: none of them answers.
ReadStep ==
    \/ \E m \in Move : BeginDaysToPay(m) \/ BeginResolve(m)
    \/ \E l \in Line : BeginTrace(l)
    \/ ReadTracedLine \/ ReadGroup
    \/ ReadMove \/ ReadReconciledLine \/ ReadPayments
    \/ ReadMovePartner \/ ReadPartner
    \/ Fail

LEMMA DaysType ==
    ASSUME NEW a \in Date, NEW b \in Date
    PROVE  Days(a, b) \in Date
BY AccountingConstants DEF Days, Date

LEMMA ReadPaymentsEffect ==
    ASSUME TypeOK, CallOK, ReadPayments
    PROVE  \/ PaymentLines = {} /\ UNCHANGED <<payment_date, days_to_pay>>
           \/ \E l \in PaymentLines :
                  /\ l \in Line /\ MoveOf[l] \in Move
                  /\ payment_date' = date[MoveOf[l]] /\ payment_date' \in Date
                  /\ days_to_pay' \in Date
<1>1. invoice_date[move_id] \in Date
  BY DEF ReadPayments, CallOK, TypeOK
<1>2. \A l \in PaymentLines : l \in Line /\ MoveOf[l] \in Move /\ date[MoveOf[l]] \in Date
  BY AccountingConstants DEF PaymentLines, LinesIn, TypeOK
<1>3. \A l \in PaymentLines : Days(date[MoveOf[l]], invoice_date[move_id]) \in Date
  BY <1>1, <1>2, DaysType
<1>4. QED BY <1>2, <1>3 DEF ReadPayments

LEMMA ReadsType ==
    ASSUME TypeOK, CallOK, ReadStep
    PROVE  TypeOK'
<1> USE DEF TypeOK, booksVars, ledgerVars
<1>1. ASSUME NEW m \in Move, BeginDaysToPay(m) \/ BeginResolve(m) PROVE TypeOK'
  BY <1>1 DEF BeginDaysToPay, BeginResolve, Function, Paid
<1>2. ASSUME NEW l \in Line, BeginTrace(l) PROVE TypeOK'
  BY <1>2 DEF BeginTrace, Function
<1>3. CASE ReadTracedLine
  BY <1>3 DEF ReadTracedLine, CallOK
<1>4. CASE ReadGroup \/ ReadMove \/ ReadMovePartner \/ Fail
  BY <1>4 DEF ReadGroup, ReadMove, ReadMovePartner, Fail, LinesIn
<1>5. CASE ReadReconciledLine
  BY <1>5 DEF ReadReconciledLine, Reconciled, LinesOf
<1>6. CASE ReadPayments
  <2>1. payment_date' \in Date \cup {NONE} /\ days_to_pay' \in Date \cup {NONE}
    BY <1>6, ReadPaymentsEffect
  <2>2. QED BY <1>6, <2>1 DEF ReadPayments
<1>7. CASE ReadPartner
  BY <1>7, AccountingConstants DEF ReadPartner, CallOK
<1>8. QED BY <1>1, <1>2, <1>3, <1>4, <1>5, <1>6, <1>7 DEF ReadStep

\* A payment is there to be read as long as the move is paid.
LEMMA PaidHasPayments ==
    ASSUME TypeOK, LedgerOK, CallOK, pc = "payments", paid_throughout
    PROVE  PaymentLines # {}
<1>1. /\ LinesIn(full_rec_id) # {} /\ full_rec_id \in Group /\ move_id \in Move
  <2>1. PICK i \in Reconciled(move_id) : full_reconcile_id[i] = full_rec_id
    BY DEF CallOK
  <2>2. i \in LinesIn(full_rec_id)
    BY <2>1 DEF Reconciled, LinesOf, LinesIn
  <2>3. QED BY <2>2 DEF CallOK, TypeOK
<1>2. QED BY <1>1 DEF LedgerOK, PaymentLines

\* A move that is paid is there, with a reconciled line.
LEMMA PaidIsThere ==
    ASSUME NEW m, Paid(m)
    PROVE  m \in existing /\ Reconciled(m) # {}
BY DEF Paid, Reconciled, LinesOf

LEMMA ReadsCall ==
    ASSUME TypeOK, LedgerOK, CallOK, PaidIsSeen, ReadStep
    PROVE  CallOK' /\ PaidIsSeen'
<1>0. UNCHANGED <<booksVars, ledgerVars>>
  BY CallFrame DEF ReadStep, CallStep
<1>1. /\ \A m : Reconciled(m)' = Reconciled(m) /\ Paid(m)' = Paid(m)
      /\ \A g : LinesIn(g)' = LinesIn(g)
      /\ full_reconcile_id' = full_reconcile_id /\ used' = used
      /\ invoice_date' = invoice_date /\ existing' = existing
  BY <1>0 DEF booksVars, ledgerVars, Paid, Reconciled, LinesOf, LinesIn
<1>2. ASSUME NEW m \in Move, BeginDaysToPay(m) PROVE CallOK' /\ PaidIsSeen'
  BY <1>1, <1>2 DEF BeginDaysToPay, CallOK, PaidIsSeen
<1>3. ASSUME NEW m \in Move, BeginResolve(m) PROVE CallOK' /\ PaidIsSeen'
  BY <1>1, <1>3 DEF BeginResolve, CallOK, PaidIsSeen
<1>4. ASSUME NEW l \in Line, BeginTrace(l) PROVE CallOK' /\ PaidIsSeen'
  BY <1>1, <1>4 DEF BeginTrace, CallOK, PaidIsSeen
<1>5. CASE ReadTracedLine \/ ReadGroup
  BY <1>1, <1>5 DEF ReadTracedLine, ReadGroup, CallOK, PaidIsSeen
<1>6. CASE ReadMove
  <2>1. paid_throughout => move_id \in existing
    BY PaidIsThere DEF CallOK
  <2>2. QED BY <1>1, <1>6, <2>1 DEF ReadMove, CallOK, PaidIsSeen
<1>7. CASE ReadReconciledLine
  <2>1. CASE Reconciled(move_id) = {}
    <3>1. ~paid_throughout /\ ~paid_throughout' /\ pc' = "done"
      BY <1>7, <2>1, PaidIsThere DEF ReadReconciledLine, CallOK
    <3>2. QED BY <3>1 DEF CallOK, PaidIsSeen
  <2>2. CASE Reconciled(move_id) # {}
    <3>1. PICK l \in Reconciled(move_id) :
              full_rec_id' = full_reconcile_id[l] /\ pc' = "payments"
      BY <1>7, <2>2 DEF ReadReconciledLine
    <3>2. UNCHANGED <<move_id, kind, paid_throughout>> /\ pc = "line"
      BY <1>7 DEF ReadReconciledLine
    <3>3. l \in Reconciled(move_id)' /\ full_reconcile_id'[l] = full_rec_id'
          /\ full_rec_id' \in used'
      BY <1>1, <3>1, <3>2 DEF Reconciled, LinesOf, LedgerOK
    <3>4. QED BY <1>1, <3>1, <3>2, <3>3 DEF CallOK, PaidIsSeen
  <2>3. QED BY <2>1, <2>2
<1>8. CASE ReadPayments
  <2>1. /\ pc = "payments" /\ pc' = "done"
        /\ UNCHANGED <<kind, move_id, paid_throughout>>
    BY <1>8 DEF ReadPayments
  <2>2. paid_throughout => days_to_pay' \in Date
    BY <1>8, <2>1, PaidHasPayments, ReadPaymentsEffect
  <2>3. paid_throughout => days_to_pay' # NONE /\ days_to_pay' >= 0
    BY <2>2, AccountingConstants DEF Date
  <2>4. QED BY <1>1, <2>1, <2>3 DEF CallOK, PaidIsSeen
<1>9. CASE ReadMovePartner \/ ReadPartner
  BY <1>1, <1>9 DEF ReadMovePartner, ReadPartner, CallOK, PaidIsSeen
<1>10. CASE Fail
  BY <1>1, <1>10 DEF Fail, CallOK, PaidIsSeen
<1>11. QED
  BY <1>2, <1>3, <1>4, <1>5, <1>6, <1>7, <1>8, <1>9, <1>10 DEF ReadStep

LEMMA CallTrace ==
    ASSUME TypeOK, LedgerOK, CallOK, TraceOK, CallStep
    PROVE  TraceOK'
<1>0. /\ \A g : LinesIn(g)' = LinesIn(g)
      /\ used' = used
  BY CallFrame DEF ledgerVars, LinesIn
<1>1. CASE AnswerStep
  BY <1>1
  DEF AnswerStep, is_closing_entry, get_cash_balance, get_cash_account_ids,
      get_posted_move_lines, Answer, TraceOK, TraceIsWhole
<1>2. CASE ReadTracedLine
  <2>1. /\ pc = "trace_line" /\ lines' = lines /\ move_line_id' = move_line_id
        /\ move_line_id \in Line
        /\ pc' = IF full_rec_id' = NONE THEN "done" ELSE "trace_group"
        /\ full_rec_id' # NONE => full_rec_id' = full_reconcile_id[move_line_id]
    BY <1>2 DEF ReadTracedLine, CallOK
  <2>2. full_rec_id' # NONE =>
            full_rec_id' \in used /\ move_line_id \in LinesIn(full_rec_id')
    BY <2>1 DEF LedgerOK, LinesIn
  <2>3. LinesIn(full_rec_id)' = LinesIn(full_rec_id')
    BY <1>0 DEF LinesIn
  <2>4. QED BY <1>0, <2>1, <2>2, <2>3 DEF TraceOK, TraceIsWhole
<1>3. CASE ReadGroup
  <2>1. /\ pc = "trace_group" /\ pc' = "done" /\ move_line_id' = move_line_id
        /\ lines' = LinesIn(full_rec_id)
        /\ full_rec_id \in Group
    BY <1>3 DEF ReadGroup, TraceOK, TypeOK
  <2>2. ASSUME lines' # {}
        PROVE  /\ move_line_id \in lines'
               /\ \E l \in lines' : MoveOf[l] # MoveOf[move_line_id]
    <3>1. move_line_id \in LinesIn(full_rec_id)
      BY <2>1, <2>2 DEF TraceOK
    <3>2. MoveOf[move_line_id] \in Move
      BY <3>1, AccountingConstants DEF LinesIn
    <3>3. QED BY <2>1, <3>1, <3>2 DEF LedgerOK
  <2>3. QED BY <2>1, <2>2 DEF TraceOK, TraceIsWhole
<1>4. CASE \/ \E m \in Move : BeginDaysToPay(m) \/ BeginResolve(m)
           \/ \E l \in Line : BeginTrace(l)
           \/ ReadMove \/ ReadReconciledLine \/ ReadPayments
           \/ ReadMovePartner \/ ReadPartner \/ Fail
  <2>1. lines = {} /\ lines' = lines /\ pc' # "trace_group"
    BY <1>4
    DEF BeginDaysToPay, BeginResolve, BeginTrace, ReadMove, ReadReconciledLine,
        ReadPayments, ReadMovePartner, ReadPartner, Fail, TraceOK
  <2>2. QED BY <2>1 DEF TraceOK, TraceIsWhole
<1>5. QED BY <1>1, <1>2, <1>3, <1>4 DEF CallStep, AnswerStep

LEMMA ReadsBalance ==
    ASSUME BothSides, ReadStep
    PROVE  BothSides'
BY DEF BothSides, ReadStep, BeginDaysToPay, BeginResolve, BeginTrace,
       ReadTracedLine, ReadGroup, ReadMove, ReadReconciledLine, ReadPayments,
       ReadMovePartner, ReadPartner, Fail

LEMMA CallInv ==
    ASSUME AccountingInv, CallStep
    PROVE  AccountingInv'
<1> USE DEF AccountingInv
<1>1. LedgerOK'
  BY CallFrame DEF LedgerOK, LinesIn, ledgerVars
<1>2. CASE AnswerStep
  BY <1>1, <1>2, AnswersRight, CallTrace
<1>3. CASE ReadStep
  BY <1>1, <1>3, ReadsType, ReadsCall, ReadsBalance, CallTrace
<1>4. QED BY <1>2, <1>3 DEF CallStep, AnswerStep, ReadStep

-----------------------------------------------------------------------------
(* Theorems *)

LEMMA InitInv == Init => AccountingInv
<1> SUFFICES ASSUME Init PROVE AccountingInv
  OBVIOUS
<1>1. TypeOK
  BY DEF Init, TypeOK
<1>2. LedgerOK
  BY AccountingConstants DEF Init, LedgerOK, LinesIn
<1>3. CallOK
  BY DEF Init, CallOK
<1>4. PaidIsSeen /\ BothSides /\ TraceOK
  BY AccountingConstants
  DEF Init, PaidIsSeen, BothSides, TraceOK, TraceIsWhole, Function
<1>5. QED BY <1>1, <1>2, <1>3, <1>4 DEF AccountingInv

LEMMA NextInv == AccountingInv /\ [Next]_vars => AccountingInv'
<1> SUFFICES ASSUME AccountingInv, [Next]_vars PROVE AccountingInv'
  OBVIOUS
<1>1. CASE BookStep
  BY <1>1, BookType, BookLedger, BookCall, BookTrace DEF AccountingInv
<1>2. CASE CallStep
  BY <1>2, CallInv
<1>3. CASE UNCHANGED vars
  BY <1>3 DEF vars, booksVars, ledgerVars, callVars, AccountingInv, TypeOK, LedgerOK,
              CallOK, TraceOK, TraceIsWhole, PaidIsSeen, BothSides, LinesIn, Paid,
              Reconciled, LinesOf
<1>4. QED BY <1>1, <1>2, <1>3, StepsAre

\* The books stay in order, and each call finds in them what it has read, or
\* knows of nothing that was not so.
THEOREM AccountingInvariance == Spec => []AccountingInv
<1>1. QED BY InitInv, NextInv, PTL DEF Spec

\* calculate_days_to_pay answers for every invoice that is paid while it runs.
THEOREM PaidInvoicesHaveDays == Spec => []PaidIsSeen
<1>1. AccountingInv => PaidIsSeen
  BY DEF AccountingInv
<1>2. QED BY <1>1, AccountingInvariance, PTL

\* trace_reconciliation never returns part of a reconciliation, nor another one
\* than that of its line, whatever is booked between its reads.
THEOREM TracesAreWhole == Spec => []TraceIsWhole
<1>1. AccountingInv => TraceIsWhole
  BY DEF AccountingInv, TraceOK
<1>2. QED BY <1>1, AccountingInvariance, PTL

\* Where get_cash_balance departs from its docstring: the "current balance" that
\* it returns is nil for any books, whatever has been paid, posted or deleted.
THEOREM CashIsNil == Spec => []BothSides
<1>1. AccountingInv => BothSides
  BY DEF AccountingInv
<1>2. QED BY <1>1, AccountingInvariance, PTL

\* The payment that calculate_days_to_pay takes is reconciled with the invoice
\* when it is read, not only when the invoice's line was.
THEOREM PaymentsAreOfTheInvoice == Spec => PaymentIsReconciled
<1> DEFINE Reads ==
      payment_date' # payment_date =>
          \E i \in Reconciled(move_id), l \in Line :
              /\ MoveOf[l] # move_id
              /\ full_reconcile_id[l] = full_reconcile_id[i]
              /\ date[MoveOf[l]] = payment_date'
<1>1. ASSUME AccountingInv, [Next]_vars PROVE Reads
  <2>1. SUFFICES ASSUME payment_date' # payment_date PROVE Reads
    OBVIOUS
  <2>2. ReadPayments
    BY <1>1, <2>1
    DEF Next, vars, callVars, Reconcile, Unreconcile, SetState, DeleteMove,
        BeginDaysToPay, BeginResolve, is_closing_entry, BeginTrace, ReadTracedLine,
        ReadGroup, ReadMove, ReadReconciledLine, ReadMovePartner, ReadPartner,
        get_cash_balance, get_cash_account_ids, get_posted_move_lines, Answer, Fail
  <2>3. PICK l \in PaymentLines : l \in Line /\ payment_date' = date[MoveOf[l]]
    BY <1>1, <2>1, <2>2, ReadPaymentsEffect DEF AccountingInv
  <2>4. full_reconcile_id[l] = full_rec_id /\ MoveOf[l] # move_id
        /\ l \in LinesIn(full_rec_id)
    BY <2>3 DEF PaymentLines, LinesIn
  <2>5. PICK i \in Reconciled(move_id) : full_reconcile_id[i] = full_rec_id
    BY <1>1, <2>2, <2>4 DEF AccountingInv, CallOK, ReadPayments
  <2>6. QED BY <2>3, <2>4, <2>5
<1>2. AccountingInv /\ [Next]_vars => [Reads]_vars
  BY <1>1
<1>3. QED BY <1>2, AccountingInvariance, PTL DEF Spec, PaymentIsReconciled

=============================================================================
