---------------------------- MODULE LedgerProofs ----------------------------
(***************************************************************************)
(* What Ledger promises, for any number of goroutines, any accounts, any   *)
(* journals and integers of any width: the books balance, the entries      *)
(* reproduce the balances, journals are whole and the audit log complete.  *)
(*                                                                         *)
(* The trial balance needs sums over sets and over prefixes of a request.  *)
(* Both are recursive functions; what they compute is proved by induction, *)
(* stated for sets because the provers here do not instantiate a theorem   *)
(* whose parameter is an operator: a set of naturals with 0 and the        *)
(* successors of its elements is all of Nat.                               *)
(***************************************************************************)
EXTENDS Ledger, FiniteSetTheorems, WellFoundedInduction, TLAPS

-----------------------------------------------------------------------------
(* Induction.                                                              *)

LEMMA LeastNat ==
  ASSUME NEW S, S \subseteq Nat, S # {}
  PROVE  \E n \in S : \A m \in S : n <= m
<1> DEFINE R == {ss \in Nat \X Nat : ss[1] < ss[2]}
<1>1. IsWellFoundedOn(R, Nat)
  BY NatLessThanWellFounded DEF OpToRel
<1>2. \E n \in S : \A m \in S : ~(<<m, n>> \in R)
  <2> HIDE DEF R
  <2> QED BY <1>1, WFMin
<1>3. PICK n \in S : \A m \in S : ~(<<m, n>> \in R)
  BY <1>2
<1>4. ASSUME NEW m \in S PROVE n <= m
  <2>1. m \in Nat /\ n \in Nat /\ <<m, n>> \notin R
    BY <1>3
  <2> QED BY <2>1
<1> QED BY <1>4

LEMMA NatSetInduction ==
  ASSUME NEW S, 0 \in S, \A n \in Nat : n \in S => n + 1 \in S
  PROVE  \A n \in Nat : n \in S
<1> SUFFICES ASSUME Nat \ S # {} PROVE FALSE
  OBVIOUS
<1>1. PICK n \in Nat \ S : \A m \in Nat \ S : n <= m
  <2>1. Nat \ S \subseteq Nat
    OBVIOUS
  <2> QED BY <2>1, LeastNat
<1>2. n # 0 /\ n - 1 \in Nat
  BY <1>1
<1>3. n - 1 \in S
  BY <1>1, <1>2
<1>4. (n - 1) + 1 = n
  BY <1>1
<1> QED BY <1>1, <1>2, <1>3, <1>4

(* A set that holds a subset of A when it holds all its proper subsets     *)
(* holds every subset of A.                                                *)
LEMMA FiniteSetInduction ==
  ASSUME NEW A, IsFiniteSet(A), NEW F,
         \A T \in SUBSET A : (\A U \in SUBSET T : U # T => U \in F) => T \in F
  PROVE  \A T \in SUBSET A : T \in F
<1> DEFINE O == StrictSubsetOrdering(A)
           B == (SUBSET A) \ F
<1> SUFFICES ASSUME B # {} PROVE FALSE
  OBVIOUS
<1>1. IsWellFoundedOn(O, SUBSET A)
  <2>1. FiniteSubsetsOf(A) = SUBSET A
    BY FS_FiniteSubsetsOfFinite
  <2>2. IsWellFoundedOn(O, FiniteSubsetsOf(A))
    BY FS_StrictSubsetOrderingWellFounded
  <2> HIDE DEF O
  <2> QED BY <2>1, <2>2
<1>2. \E T \in B : \A U \in B : ~(<<U, T>> \in O)
  <2>1. B \subseteq SUBSET A
    OBVIOUS
  <2> HIDE DEF O, B
  <2> QED BY <1>1, <2>1, WFMin
<1>3. PICK T \in B : \A U \in B : ~(<<U, T>> \in O)
  BY <1>2
<1>4. ASSUME NEW U \in SUBSET T, U # T PROVE U \in F
  <2>1. <<U, T>> \in O
    BY <1>4 DEF StrictSubsetOrdering
  <2> QED BY <1>3, <2>1
<1> QED BY <1>3, <1>4

-----------------------------------------------------------------------------
(* int64 arithmetic.                                                       *)

Width == 2 * MaxInt + 2
Int64 == -MaxInt - 1 .. MaxInt

LEMMA DivMod ==
  ASSUME NEW K \in Nat, K > 0, NEW x \in Int
  PROVE  /\ x % K \in 0 .. K - 1
         /\ \E q \in Int : x = q * K + (x % K)
<1>1. x \div K \in Int /\ x = K * (x \div K) + (x % K) /\ 0 <= x % K /\ x % K < K /\ x % K \in Int
  BY Z3
<1>2. x = (x \div K) * K + (x % K)
  BY <1>1, Z3
<1> QED BY <1>1, <1>2

LEMMA ModUnique ==
  ASSUME NEW K \in Nat, NEW a \in Int, NEW c \in Int, a < c + K, c < a + K,
         NEW q \in Int, a = c + q * K
  PROVE  a = c
<1>1. CASE q >= 1
  <2>1. q * K >= K
    BY <1>1, Z3
  <2> QED BY <2>1, Z3
<1>2. CASE q <= -1
  <2>1. q * K <= -K
    BY <1>2, Z3
  <2> QED BY <2>1, Z3
<1>3. CASE q = 0
  BY <1>3, Z3
<1> QED BY <1>1, <1>2, <1>3

LEMMA WrapRange ==
  ASSUME NEW x \in Int
  PROVE  Wrap(x) \in Int64 /\ Wrap(x) \in Int
<1> DEFINE K == 2 * MaxInt + 2
           y == x + MaxInt + 1
<1>1. K \in Nat /\ K > 0 /\ y \in Int
  BY ConstantsAssumption
<1>2. y % K \in 0 .. K - 1
  <2> HIDE DEF K, y
  <2> QED BY <1>1, DivMod
<1>3. Wrap(x) = (y % K) - MaxInt - 1
  BY DEF Wrap
<1> DEFINE m == y % K
<1>4. m \in 0 .. K - 1
  BY <1>2
<1> HIDE DEF m
<1> QED BY <1>3, <1>4, ConstantsAssumption DEF Int64, m

LEMMA WrapCong ==
  ASSUME NEW x \in Int
  PROVE  \E q \in Int : x = Wrap(x) + q * Width
<1> DEFINE K == 2 * MaxInt + 2
           y == x + MaxInt + 1
<1>1. K \in Nat /\ K > 0 /\ y \in Int
  BY ConstantsAssumption
<1>2. \E q \in Int : y = q * K + (y % K)
  <2> HIDE DEF K, y
  <2> QED BY <1>1, DivMod
<1>3. PICK q \in Int : y = q * K + (y % K)
  BY <1>2
<1> DEFINE m == y % K
           n == q * K
<1>4. m \in Int /\ n \in Int /\ y = n + m
  <2>1. m \in Int
    <3> HIDE DEF K, y
    <3> QED BY <1>1, DivMod
  <2>2. n \in Int
    <3> HIDE DEF K
    <3> QED BY <1>1
  <2> QED BY <1>3, <2>1, <2>2
<1>5. Wrap(x) = m - MaxInt - 1 /\ Width = K
  BY DEF Wrap, Width
<1>6. x = Wrap(x) + n
  <2> HIDE DEF m, n
  <2> QED BY <1>4, <1>5, ConstantsAssumption
<1> QED BY <1>5, <1>6

(* Numbers a multiple of the width apart are the same int64.               *)
LEMMA WrapEq ==
  ASSUME NEW x \in Int, NEW y \in Int, NEW q \in Int, x = y + q * Width
  PROVE  Wrap(x) = Wrap(y)
<1>0. Width \in Nat
  BY ConstantsAssumption DEF Width
<1>1. PICK i \in Int : x = Wrap(x) + i * Width
  BY WrapCong
<1>2. PICK j \in Int : y = Wrap(y) + j * Width
  BY WrapCong
<1> DEFINE a == Wrap(x)
           c == Wrap(y)
<1>3. a \in Int /\ c \in Int /\ a < c + Width /\ c < a + Width
  BY WrapRange, ConstantsAssumption DEF Int64, Width
<1> HIDE DEF a, c
<1>4. a = c + (j + q - i) * Width
  <2>1. (j + q - i) * Width = j * Width + q * Width - i * Width
    BY <1>0, Z3
  <2>2. j * Width \in Int /\ q * Width \in Int /\ i * Width \in Int
    BY <1>0
  <2>3. x = a + i * Width /\ y = c + j * Width
    BY <1>1, <1>2 DEF a, c
  <2> DEFINE I == i * Width
             J == j * Width
             Q == q * Width
             T == (j + q - i) * Width
  <2>4. I \in Int /\ J \in Int /\ Q \in Int /\ T = J + Q - I /\ x = y + Q /\ x = a + I /\ y = c + J
    BY <2>1, <2>2, <2>3
  <2> SUFFICES a = c + T
    OBVIOUS
  <2> HIDE DEF I, J, Q, T
  <2> QED BY <1>3, <2>4
<1>5. a = c
  BY <1>0, <1>3, <1>4, ModUnique
<1> QED BY <1>5 DEF a, c

LEMMA WrapId ==
  ASSUME NEW x \in Int64
  PROVE  Wrap(x) = x
<1>0. x \in Int /\ Width \in Nat
  BY ConstantsAssumption DEF Int64, Width
<1>1. PICK q \in Int : x = Wrap(x) + q * Width
  BY <1>0, WrapCong
<1>2. Wrap(x) \in Int /\ x < Wrap(x) + Width /\ Wrap(x) < x + Width
  BY <1>0, WrapRange, ConstantsAssumption DEF Int64, Width
<1> QED BY <1>0, <1>1, <1>2, ModUnique

LEMMA WrapAdd ==
  ASSUME NEW x \in Int, NEW y \in Int
  PROVE  Wrap(Wrap(x) + y) = Wrap(x + y)
<1>1. PICK q \in Int : x = Wrap(x) + q * Width
  BY WrapCong
<1>2. Wrap(x) \in Int /\ q * Width \in Int
  BY WrapRange, ConstantsAssumption DEF Width
<1>3. x + y = (Wrap(x) + y) + q * Width
  <2> DEFINE Q == q * Width
             a == Wrap(x)
  <2>1. x = a + Q /\ a \in Int /\ Q \in Int
    BY <1>1, <1>2
  <2> SUFFICES x + y = (a + y) + Q
    OBVIOUS
  <2> HIDE DEF Q, a
  <2> QED BY <2>1
<1> QED BY <1>2, <1>3, WrapEq

LEMMA WrapSub ==
  ASSUME NEW x \in Int, NEW y \in Int
  PROVE  Wrap(y - Wrap(x)) = Wrap(y - x)
<1>1. PICK q \in Int : x = Wrap(x) + q * Width
  BY WrapCong
<1>2. Wrap(x) \in Int /\ q * Width \in Int
  BY WrapRange, ConstantsAssumption DEF Width
<1>3. y - Wrap(x) = (y - x) + q * Width
  <2> DEFINE Q == q * Width
             a == Wrap(x)
  <2>1. x = a + Q /\ a \in Int /\ Q \in Int
    BY <1>1, <1>2
  <2> SUFFICES y - a = (y - x) + Q
    OBVIOUS
  <2> HIDE DEF Q, a
  <2> QED BY <2>1
<1> QED BY <1>2, <1>3, WrapEq

LEMMA WrapShift ==
  ASSUME NEW x \in Int, NEW y \in Int, NEW d \in Int, Wrap(x) = Wrap(y)
  PROVE  Wrap(x + d) = Wrap(y + d)
BY WrapAdd

(* Two int64 values whose difference wraps to 0 are equal.                 *)
LEMMA WrapZero ==
  ASSUME NEW x \in Int64, NEW y \in Int64, Wrap(x - y) = Wrap(0)
  PROVE  x = y
<1>0. x \in Int /\ y \in Int /\ 0 \in Int64 /\ Width \in Nat
  BY ConstantsAssumption DEF Int64, Width
<1>1. Wrap(x - y) = 0
  BY <1>0, WrapId
<1>2. PICK q \in Int : x - y = 0 + q * Width
  <2>1. x - y \in Int
    BY <1>0
  <2> DEFINE d == x - y
  <2>2. \E q \in Int : d = Wrap(d) + q * Width
    <3> HIDE DEF d
    <3> QED BY <2>1, WrapCong DEF d
  <2> QED BY <1>1, <2>2
<1>3. x < y + Width /\ y < x + Width
  BY <1>0, ConstantsAssumption DEF Int64, Width
<1>4. q * Width \in Int
  BY <1>0
<1>5. x = y + q * Width
  BY <1>0, <1>2, <1>4
<1> QED BY <1>0, <1>3, <1>5, ModUnique

-----------------------------------------------------------------------------
(* Sums of balances.                                                       *)

Pick(S) == CHOOSE a \in S : TRUE

(* One unfolding of the recursion of SumOf.                                *)
Unfold(b, g) ==
  [S \in SUBSET Accounts |-> IF S = {} THEN 0 ELSE Wrap(g[S \ {Pick(S)}] + b[Pick(S)])]

LEMMA AccountsFinite == IsFiniteSet(Accounts)
BY ConstantsAssumption, FS_Union DEF Accounts

LEMMA PickIn == ASSUME NEW S, S # {} PROVE Pick(S) \in S
BY DEF Pick

LEMMA UnfoldType ==
  ASSUME NEW b \in [Accounts -> Int], NEW g \in [SUBSET Accounts -> Int]
  PROVE  Unfold(b, g) \in [SUBSET Accounts -> Int]
<1>1. ASSUME NEW S \in SUBSET Accounts, S # {}
      PROVE  Wrap(g[S \ {Pick(S)}] + b[Pick(S)]) \in Int
  <2>1. Pick(S) \in S /\ S \ {Pick(S)} \in SUBSET Accounts
    BY <1>1, PickIn
  <2>2. g[S \ {Pick(S)}] \in Int /\ b[Pick(S)] \in Int
    BY <2>1
  <2> QED BY <2>2, WrapRange
<1> QED BY <1>1 DEF Unfold

(* The recursion has a solution: unfolding n times settles it for the sets *)
(* of at most n elements.                                                  *)
LEMMA SumExists ==
  ASSUME NEW b \in [Accounts -> Int]
  PROVE  \E g \in [SUBSET Accounts -> Int] : g = Unfold(b, g)
<1> DEFINE Settled(g, n) ==
             \A S \in SUBSET Accounts : Cardinality(S) <= n => g[S] = Unfold(b, g)[S]
           N == {n \in Nat : \E g \in [SUBSET Accounts -> Int] : Settled(g, n)}
<1>0. \A S \in SUBSET Accounts :
        /\ IsFiniteSet(S)
        /\ Cardinality(S) \in Nat
        /\ Cardinality(S) <= Cardinality(Accounts)
  BY AccountsFinite, FS_Subset, FS_CardinalityType
<1>1. 0 \in N
  <2> DEFINE g == [S \in SUBSET Accounts |-> 0]
  <2>1. g \in [SUBSET Accounts -> Int]
    OBVIOUS
  <2>2. ASSUME NEW S \in SUBSET Accounts, Cardinality(S) <= 0 PROVE g[S] = Unfold(b, g)[S]
    <3>1. S = {}
      BY <1>0, <2>2, FS_EmptySet
    <3> QED BY <3>1 DEF Unfold
  <2> HIDE DEF g
  <2> QED BY <2>1, <2>2
<1>2. ASSUME NEW n \in Nat, n \in N PROVE n + 1 \in N
  <2>1. PICK g \in [SUBSET Accounts -> Int] : Settled(g, n)
    BY <1>2
  <2> DEFINE h == Unfold(b, g)
  <2>2. h \in [SUBSET Accounts -> Int]
    BY UnfoldType
  <2>3. ASSUME NEW S \in SUBSET Accounts, Cardinality(S) <= n + 1 PROVE h[S] = Unfold(b, h)[S]
    <3>1. CASE S = {}
      BY <3>1 DEF Unfold
    <3>2. CASE S # {}
      <4>1. Pick(S) \in S /\ S \ {Pick(S)} \in SUBSET Accounts
        BY <3>2, PickIn
      <4>2. Cardinality(S \ {Pick(S)}) <= n
        <5>1. Cardinality(S \ {Pick(S)}) = Cardinality(S) - 1
          BY <1>0, <4>1, FS_RemoveElement
        <5> QED BY <1>0, <2>3, <5>1
      <4>3. g[S \ {Pick(S)}] = h[S \ {Pick(S)}]
        BY <2>1, <4>1, <4>2
      <4> QED BY <3>2, <4>3 DEF Unfold
    <3> QED BY <3>1, <3>2
  <2> HIDE DEF h
  <2> QED BY <2>2, <2>3
<1>3. Cardinality(Accounts) \in N
  <2> HIDE DEF N
  <2> QED BY <1>1, <1>2, AccountsFinite, FS_CardinalityType, NatSetInduction
<1>4. PICK g \in [SUBSET Accounts -> Int] : Settled(g, Cardinality(Accounts))
  BY <1>3
<1>5. \A S \in SUBSET Accounts : g[S] = Unfold(b, g)[S]
  BY <1>0, <1>4
<1>6. Unfold(b, g) \in [SUBSET Accounts -> Int]
  BY UnfoldType
<1> QED BY <1>5, <1>6

LEMMA SumUnfold ==
  ASSUME NEW b \in [Accounts -> Int]
  PROVE  /\ SumOf(b, {}) = 0
         /\ \A S \in SUBSET Accounts :
              /\ SumOf(b, S) \in Int
              /\ S # {} => SumOf(b, S) = Wrap(SumOf(b, S \ {Pick(S)}) + b[Pick(S)])
<1> DEFINE g == CHOOSE g : g = Unfold(b, g)
<1>1. g = Unfold(b, g)
  BY SumExists
<1>2. \A S : SumOf(b, S) = g[S]
  BY DEF SumOf, Unfold, Pick
<1>3. g \in [SUBSET Accounts -> Int]
  <2> HIDE DEF g
  <2> DEFINE F == {S \in SUBSET Accounts : g[S] \in Int}
  <2>1. ASSUME NEW S \in SUBSET Accounts, \A U \in SUBSET S : U # S => U \in F
        PROVE  S \in F
    <3>1. CASE S = {}
      BY <1>1, <3>1 DEF Unfold
    <3>2. CASE S # {}
      <4>1. Pick(S) \in S /\ S \ {Pick(S)} \in SUBSET S /\ S \ {Pick(S)} # S
        BY <3>2, PickIn
      <4>2. g[S \ {Pick(S)}] \in Int /\ b[Pick(S)] \in Int
        BY <2>1, <4>1
      <4>3. g[S] = Wrap(g[S \ {Pick(S)}] + b[Pick(S)])
        BY <1>1, <3>2 DEF Unfold
      <4> QED BY <4>2, <4>3, WrapRange
    <3> QED BY <3>1, <3>2
  <2>2. \A S \in SUBSET Accounts : S \in F
    <3> HIDE DEF F
    <3> QED BY <2>1, AccountsFinite, FiniteSetInduction
  <2>3. g = [S \in SUBSET Accounts |-> g[S]]
    BY <1>1 DEF Unfold
  <2> QED BY <2>2, <2>3
<1> HIDE DEF g
<1>4. \A S \in SUBSET Accounts :
        g[S] = IF S = {} THEN 0 ELSE Wrap(g[S \ {Pick(S)}] + b[Pick(S)])
  BY <1>1 DEF Unfold
<1> QED BY <1>2, <1>3, <1>4

LEMMA SumRange ==
  ASSUME NEW b \in [Accounts -> Int], NEW S \in SUBSET Accounts
  PROVE  SumOf(b, S) \in Int64
<1>0. 0 \in Int64
  BY ConstantsAssumption DEF Int64
<1>1. CASE S = {}
  BY <1>0, <1>1, SumUnfold
<1>2. CASE S # {}
  <2>1. Pick(S) \in S /\ S \ {Pick(S)} \in SUBSET Accounts
    BY <1>2, PickIn
  <2>2. SumOf(b, S \ {Pick(S)}) \in Int /\ b[Pick(S)] \in Int
    BY <2>1, SumUnfold
  <2>3. SumOf(b, S \ {Pick(S)}) + b[Pick(S)] \in Int
    BY <2>2
  <2> QED BY <1>2, <2>3, SumUnfold, WrapRange
<1> QED BY <1>1, <1>2

(* The sum does not depend on the order: any element may come last.        *)
LEMMA SumRemove ==
  ASSUME NEW b \in [Accounts -> Int]
  PROVE  \A S \in SUBSET Accounts : \A a \in S :
           SumOf(b, S) = Wrap(SumOf(b, S \ {a}) + b[a])
<1> DEFINE F == {S \in SUBSET Accounts : \A a \in S : SumOf(b, S) = Wrap(SumOf(b, S \ {a}) + b[a])}
<1>1. ASSUME NEW S \in SUBSET Accounts, \A U \in SUBSET S : U # S => U \in F
      PROVE  S \in F
  <2> SUFFICES ASSUME NEW a \in S PROVE SumOf(b, S) = Wrap(SumOf(b, S \ {a}) + b[a])
    OBVIOUS
  <2> DEFINE c == Pick(S)
             R == S \ {a, c}
  <2>1. c \in S /\ SumOf(b, S) = Wrap(SumOf(b, S \ {c}) + b[c])
    BY PickIn, SumUnfold
  <2> HIDE DEF c
  <2>2. CASE a = c
    BY <2>1, <2>2
  <2>3. CASE a # c
    <3>1. /\ S \ {c} \in F /\ a \in S \ {c} /\ (S \ {c}) \ {a} = R
          /\ S \ {a} \in F /\ c \in S \ {a} /\ (S \ {a}) \ {c} = R
      BY <1>1, <2>1, <2>3
    <3>2. SumOf(b, S \ {c}) = Wrap(SumOf(b, R) + b[a])
      BY <3>1
    <3>3. SumOf(b, S \ {a}) = Wrap(SumOf(b, R) + b[c])
      BY <3>1
    <3> DEFINE r == SumOf(b, R)
               x == b[a]
               y == b[c]
    <3>4. r \in Int /\ x \in Int /\ y \in Int
      BY <2>1, SumUnfold
    <3>5. SumOf(b, S) = Wrap(Wrap(r + x) + y)
      BY <2>1, <3>2
    <3>6. SumOf(b, S \ {a}) = Wrap(r + y)
      BY <3>3
    <3> SUFFICES SumOf(b, S) = Wrap(SumOf(b, S \ {a}) + x)
      OBVIOUS
    <3> HIDE DEF r, x, y
    <3>7. Wrap(Wrap(r + x) + y) = Wrap((r + x) + y)
      BY <3>4, WrapAdd
    <3>8. Wrap(Wrap(r + y) + x) = Wrap((r + y) + x)
      BY <3>4, WrapAdd
    <3>9. (r + x) + y = (r + y) + x
      BY <3>4
    <3> QED BY <3>5, <3>6, <3>7, <3>8, <3>9
  <2> QED BY <2>2, <2>3
<1>2. \A S \in SUBSET Accounts : S \in F
  <2> HIDE DEF F
  <2> QED BY <1>1, AccountsFinite, FiniteSetInduction
<1> QED BY <1>2

(* The sum over S depends on the balances of S alone.                      *)
LEMMA SumLocal ==
  ASSUME NEW b \in [Accounts -> Int], NEW c \in [Accounts -> Int]
  PROVE  \A S \in SUBSET Accounts : (\A a \in S : b[a] = c[a]) => SumOf(b, S) = SumOf(c, S)
<1> DEFINE F == {S \in SUBSET Accounts : (\A a \in S : b[a] = c[a]) => SumOf(b, S) = SumOf(c, S)}
<1>1. ASSUME NEW S \in SUBSET Accounts, \A U \in SUBSET S : U # S => U \in F
      PROVE  S \in F
  <2>1. CASE S = {}
    BY <2>1, SumUnfold
  <2>2. CASE S # {}
    <3> SUFFICES ASSUME \A a \in S : b[a] = c[a] PROVE SumOf(b, S) = SumOf(c, S)
      OBVIOUS
    <3> DEFINE p == Pick(S)
               R == S \ {p}
    <3>1. p \in S /\ R \in SUBSET S /\ R # S
      BY <2>2, PickIn
    <3>2. SumOf(b, S) = Wrap(SumOf(b, R) + b[p]) /\ SumOf(c, S) = Wrap(SumOf(c, R) + c[p])
      BY <2>2, SumUnfold
    <3> HIDE DEF p
    <3>3. SumOf(b, R) = SumOf(c, R)
      BY <1>1, <3>1
    <3>4. b[p] = c[p]
      BY <3>1
    <3> QED BY <3>2, <3>3, <3>4
  <2> QED BY <2>1, <2>2
<1>2. \A S \in SUBSET Accounts : S \in F
  <2> HIDE DEF F
  <2> QED BY <1>1, AccountsFinite, FiniteSetInduction
<1> QED BY <1>2

(* Adding d to one balance of S adds d to the sum; a balance outside S     *)
(* leaves it alone.                                                        *)
LEMMA SumChange ==
  ASSUME NEW b \in [Accounts -> Int], NEW c \in [Accounts -> Int], NEW S \in SUBSET Accounts,
         NEW a \in Accounts, NEW d \in Int,
         c[a] = Wrap(b[a] + d), \A x \in Accounts : x # a => c[x] = b[x]
  PROVE  SumOf(c, S) = IF a \in S THEN Wrap(SumOf(b, S) + d) ELSE SumOf(b, S)
<1> DEFINE R == S \ {a}
<1>3. CASE a \notin S
  <2>1. \A x \in S : c[x] = b[x]
    BY <1>3
  <2>2. SumOf(c, S) = SumOf(b, S)
    BY <2>1, SumLocal
  <2> QED BY <1>3, <2>2
<1>4. CASE a \in S
  <2>1. SumOf(c, R) = SumOf(b, R)
    BY SumLocal
  <2>2. SumOf(c, S) = Wrap(SumOf(c, R) + c[a]) /\ SumOf(b, S) = Wrap(SumOf(b, R) + b[a])
    BY <1>4, SumRemove
  <2> DEFINE r == SumOf(b, R)
             x == b[a]
  <2>3. r \in Int /\ x \in Int
    BY SumUnfold
  <2>4. SumOf(c, S) = Wrap(r + Wrap(x + d)) /\ SumOf(b, S) = Wrap(r + x)
    BY <2>1, <2>2
  <2>5. SumOf(c, S) = Wrap(SumOf(b, S) + d)
    <3> HIDE DEF r, x
    <3>1. Wrap(x + d) \in Int
      BY <2>3, WrapRange
    <3>2. Wrap(r + Wrap(x + d)) = Wrap(Wrap(x + d) + r)
      BY <2>3, <3>1
    <3>3. Wrap(Wrap(x + d) + r) = Wrap((x + d) + r)
      BY <2>3, WrapAdd
    <3>4. Wrap(Wrap(r + x) + d) = Wrap((r + x) + d)
      BY <2>3, WrapAdd
    <3>5. (x + d) + r = (r + x) + d
      BY <2>3
    <3> QED BY <2>4, <3>2, <3>3, <3>4, <3>5
  <2> QED BY <1>4, <2>5
<1> QED BY <1>3, <1>4

-----------------------------------------------------------------------------
(* Totals of a request.                                                    *)

(* One unfolding of the recursion of Totals.                               *)
UnfoldTotal(r, debits, g) ==
  [n \in 0 .. Len(r) |->
     IF n = 0 THEN 0
     ELSE IF (r[n].type = "debit") = debits THEN Wrap(g[n - 1] + r[n].amount)
     ELSE g[n - 1]]

LEMMA RequestEntry ==
  ASSUME NEW r \in Seq(EntryRequest), NEW n \in 1 .. Len(r)
  PROVE  /\ r[n] \in EntryRequest
         /\ r[n].account \in Accounts /\ r[n].type \in EntryTypes /\ r[n].amount \in Int
<1>1. r[n] \in EntryRequest
  OBVIOUS
<1> QED BY <1>1 DEF EntryRequest

LEMMA WrapSum ==
  ASSUME NEW x \in Int, NEW y \in Int
  PROVE  Wrap(x + y) \in Int
<1>1. x + y \in Int
  OBVIOUS
<1> QED BY <1>1, WrapRange

LEMMA UnfoldTotalType ==
  ASSUME NEW r \in Seq(EntryRequest), NEW debits \in BOOLEAN, NEW g \in [0 .. Len(r) -> Int]
  PROVE  UnfoldTotal(r, debits, g) \in [0 .. Len(r) -> Int]
<1>1. ASSUME NEW n \in 0 .. Len(r), n # 0
      PROVE  g[n - 1] \in Int /\ Wrap(g[n - 1] + r[n].amount) \in Int
  <2>1. n - 1 \in 0 .. Len(r) /\ n \in 1 .. Len(r)
    BY <1>1
  <2>2. g[n - 1] \in Int /\ r[n].amount \in Int
    BY <2>1, RequestEntry
  <2> QED BY <2>2, WrapSum
<1> QED BY <1>1 DEF UnfoldTotal

LEMMA TotalExists ==
  ASSUME NEW r \in Seq(EntryRequest), NEW debits \in BOOLEAN
  PROVE  \E g \in [0 .. Len(r) -> Int] : g = UnfoldTotal(r, debits, g)
<1> DEFINE Settled(g, n) == \A i \in 0 .. Len(r) : i <= n => g[i] = UnfoldTotal(r, debits, g)[i]
           N == {n \in Nat : \E g \in [0 .. Len(r) -> Int] : Settled(g, n)}
<1>1. 0 \in N
  <2> DEFINE g == [n \in 0 .. Len(r) |-> 0]
  <2>1. g \in [0 .. Len(r) -> Int]
    OBVIOUS
  <2>2. g[0] = UnfoldTotal(r, debits, g)[0]
    BY DEF UnfoldTotal
  <2>3. \A i \in 0 .. Len(r) : i <= 0 => i = 0
    OBVIOUS
  <2> HIDE DEF g
  <2> QED BY <2>1, <2>2, <2>3
<1>2. ASSUME NEW n \in Nat, n \in N PROVE n + 1 \in N
  <2>1. PICK g \in [0 .. Len(r) -> Int] : Settled(g, n)
    BY <1>2
  <2> DEFINE h == UnfoldTotal(r, debits, g)
  <2>2. h \in [0 .. Len(r) -> Int]
    BY UnfoldTotalType
  <2>3. ASSUME NEW i \in 0 .. Len(r), i <= n + 1 PROVE h[i] = UnfoldTotal(r, debits, h)[i]
    <3>1. CASE i = 0
      BY <3>1 DEF UnfoldTotal
    <3>2. CASE i # 0
      <4>1. i - 1 \in 0 .. Len(r) /\ i - 1 <= n
        BY <2>3, <3>2
      <4>2. g[i - 1] = h[i - 1]
        BY <2>1, <4>1
      <4> QED BY <3>2, <4>2 DEF UnfoldTotal
    <3> QED BY <3>1, <3>2
  <2> HIDE DEF h
  <2> QED BY <2>2, <2>3
<1>3. Len(r) \in N
  <2> HIDE DEF N
  <2> QED BY <1>1, <1>2, NatSetInduction
<1>4. PICK g \in [0 .. Len(r) -> Int] : Settled(g, Len(r))
  BY <1>3
<1>5. \A i \in 0 .. Len(r) : g[i] = UnfoldTotal(r, debits, g)[i]
  BY <1>4
<1>6. UnfoldTotal(r, debits, g) \in [0 .. Len(r) -> Int]
  BY UnfoldTotalType
<1> QED BY <1>5, <1>6

LEMMA TotalUnfold ==
  ASSUME NEW r \in Seq(EntryRequest), NEW debits \in BOOLEAN
  PROVE  /\ Totals(r, debits)[0] = 0
         /\ \A n \in 0 .. Len(r) : Totals(r, debits)[n] \in Int
         /\ \A n \in 1 .. Len(r) :
              Totals(r, debits)[n] = IF (r[n].type = "debit") = debits
                                       THEN Wrap(Totals(r, debits)[n - 1] + r[n].amount)
                                       ELSE Totals(r, debits)[n - 1]
<1> DEFINE g == Totals(r, debits)
<1>1. g = UnfoldTotal(r, debits, g)
  BY TotalExists DEF Totals, UnfoldTotal
<1> HIDE DEF g
<1>2. \A n \in 0 .. Len(r) :
        g[n] = IF n = 0 THEN 0
               ELSE IF (r[n].type = "debit") = debits THEN Wrap(g[n - 1] + r[n].amount)
               ELSE g[n - 1]
  BY <1>1 DEF UnfoldTotal
<1> DEFINE N == {n \in Nat : n <= Len(r) => g[n] \in Int}
<1>3. 0 \in N
  BY <1>2
<1>4. ASSUME NEW n \in Nat, n \in N PROVE n + 1 \in N
  <2> SUFFICES ASSUME n + 1 <= Len(r) PROVE g[n + 1] \in Int
    OBVIOUS
  <2>1. n + 1 \in 1 .. Len(r) /\ (n + 1) - 1 = n /\ g[n] \in Int
    BY <1>4
  <2>2. r[n + 1].amount \in Int
    BY <2>1, RequestEntry
  <2>3. g[n + 1] \in {g[n], Wrap(g[n] + r[n + 1].amount)}
    BY <1>2, <2>1
  <2> QED BY <2>1, <2>2, <2>3, WrapSum
<1>5. \A n \in Nat : n \in N
  <2> HIDE DEF N
  <2> QED BY <1>3, <1>4, NatSetInduction
<1>6. \A n \in 0 .. Len(r) : g[n] \in Int
  BY <1>5
<1>7. 0 \in 0 .. Len(r) /\ \A n \in 1 .. Len(r) : n \in 0 .. Len(r) /\ n # 0
  OBVIOUS
<1>8. g[0] = 0
  BY <1>2, <1>7
<1> QED BY <1>2, <1>6, <1>7, <1>8 DEF g

-----------------------------------------------------------------------------
(* The inductive invariant.                                                *)

(* A request that was let through is balanced; the one being written was   *)
(* also found valid, and its journal is new.                               *)
ReqInv ==
  \A p \in Procs : req[p] # <<>> => Len(req[p]) >= 2 /\ Balanced(req[p])

LockInv ==
  /\ mutex = Free => written = <<>>
  /\ mutex # Free => /\ req[mutex] # <<>> /\ Valid(req[mutex])
                     /\ Len(written) <= Len(req[mutex])
                     /\ journals[jid] = <<>>

(* What the journal being written has posted so far as debits, or as       *)
(* credits.                                                                *)
Posted(debits) == IF mutex = Free THEN 0 ELSE Totals(req[mutex], debits)[Len(written)]

(* While a journal is being written the books are out of balance by what   *)
(* it has posted on one side and not yet on the other.                     *)
GapInv ==
  /\ \A a \in Accounts \ known : balance[a] = 0
  /\ Wrap(SumOf(balance, DebitNormal \cap known) - SumOf(balance, known \ DebitNormal))
       = Wrap(Posted(TRUE) - Posted(FALSE))

(* The entries of the journal being written are the last ones.             *)
BlockInv ==
  /\ \A j \in JournalIds \ {jid} : \E k \in 0 .. Len(entries) : Block(entries, j, journals[j], k)
  /\ mutex # Free => /\ Len(written) <= Len(entries)
                     /\ Block(entries, jid, written, Len(entries) - Len(written))
  /\ \A i \in DOMAIN entries : entries[i].account \in known /\ entries[i].amount > 0

StateInv == TypeOK /\ ReqInv /\ LockInv

LedgerInv == StateInv /\ GapInv /\ BalancesFollowEntries /\ BlockInv /\ AuditTrail

-----------------------------------------------------------------------------
(* Types and the critical section.                                         *)

LEMMA InitState == Init => StateInv
<1> SUFFICES ASSUME Init PROVE StateInv
  OBVIOUS
<1>1. TypeOK
  BY ConstantsAssumption DEF Init, TypeOK, Accounts
<1>2. ReqInv /\ LockInv
  BY ConstantsAssumption DEF Init, ReqInv, LockInv
<1> QED BY <1>1, <1>2 DEF StateInv

LEMMA LedgerEntryType ==
  ASSUME TypeOK, jid \in JournalIds, NEW e \in EntryRequest, NEW b \in Int
  PROVE  LedgerEntry(e, b) \in Entry
BY DEF LedgerEntry, Entry, EntryRequest

LEMMA SignedType ==
  ASSUME NEW e \in EntryRequest
  PROVE  Signed(e) \in Int
BY DEF Signed, EntryRequest

(* The entry WriteEntry is about.                                          *)
LEMMA CurrentEntry ==
  ASSUME StateInv, NEW p \in Procs, mutex = p, Len(written) < Len(req[p])
  PROVE  LET n == Len(written) + 1
             e == req[p][n]
         IN  /\ n \in 1 .. Len(req[p]) /\ n - 1 = Len(written)
             /\ req[p] \in Seq(EntryRequest)
             /\ e \in EntryRequest
             /\ e.account \in known /\ e.account \in Accounts
             /\ e.type \in EntryTypes /\ e.amount \in Int /\ e.amount > 0
             /\ Signed(e) \in Int
             /\ jid \in JournalIds
<1>1. mutex # Free
  BY ConstantsAssumption
<1>2. written \in Seq(Entry) /\ req[p] \in Seq(EntryRequest)
  BY DEF StateInv, TypeOK
<1>3. Len(written) + 1 \in 1 .. Len(req[p]) /\ (Len(written) + 1) - 1 = Len(written)
  BY <1>2
<1>4. Valid(req[p])
  BY <1>1 DEF StateInv, LockInv
<1>5. jid \in JournalIds
  BY <1>1 DEF StateInv, TypeOK
<1> DEFINE e == req[p][Len(written) + 1]
<1>6. /\ e \in EntryRequest /\ e.account \in Accounts
      /\ e.type \in EntryTypes /\ e.amount \in Int
  BY <1>2, <1>3, RequestEntry
<1>7. e.account \in known /\ e.amount > 0
  BY <1>2, <1>3, <1>4 DEF Valid
<1>8. Signed(e) \in Int
  BY <1>6, SignedType
<1> QED BY <1>2, <1>3, <1>5, <1>6, <1>7, <1>8

LEMMA StateStep ==
  ASSUME StateInv, [Next]_vars
  PROVE  StateInv'
<1> USE DEF StateInv
<1>1. ASSUME NEW a \in NewAccounts, CreateAccount(a) PROVE StateInv'
  <2>1. TypeOK'
    BY <1>1 DEF CreateAccount, TypeOK, Accounts
  <2>2. ReqInv' /\ LockInv'
    BY <1>1 DEF CreateAccount, ReqInv, LockInv
  <2> QED BY <2>1, <2>2
<1>2. ASSUME NEW p \in Procs, NEW r \in Requests, Submit(p, r) PROVE StateInv'
  <2>1. r \in Seq(EntryRequest)
    BY ConstantsAssumption
  <2>2. TypeOK'
    BY <1>2, <2>1 DEF Submit, TypeOK, books
  <2>3. ReqInv'
    BY <1>2 DEF Submit, ReqInv, TypeOK
  <2>4. mutex # Free => mutex \in Procs /\ req'[mutex] = req[mutex]
    BY <1>2 DEF Submit, TypeOK, LockInv
  <2>5. LockInv'
    BY <1>2, <2>4 DEF Submit, LockInv, books, Valid
  <2> QED BY <2>2, <2>3, <2>5
<1>3. ASSUME NEW p \in Procs, Reject(p) PROVE StateInv'
  <2>1. TypeOK'
    BY <1>3 DEF Reject, TypeOK, books
  <2>2. ReqInv'
    BY <1>3 DEF Reject, ReqInv, TypeOK
  <2>3. LockInv'
    BY <1>3 DEF Reject, LockInv, books
  <2> QED BY <2>1, <2>2, <2>3
<1>4. ASSUME NEW p \in Procs, NEW j \in JournalIds, Begin(p, j) PROVE StateInv'
  <2>1. p # Free /\ j # NoJournal
    BY ConstantsAssumption
  <2>2. TypeOK'
    BY <1>4, <2>1 DEF Begin, TypeOK, books
  <2>3. ReqInv'
    BY <1>4 DEF Begin, ReqInv
  <2>4. LockInv'
    <3>1. Len(req[p]) \in Nat /\ written = <<>> /\ Len(written) = 0
      BY <1>4 DEF Begin, TypeOK, LockInv
    <3> QED BY <1>4, <2>1, <3>1 DEF Begin, LockInv, books, Valid
  <2> QED BY <2>2, <2>3, <2>4
<1>5. ASSUME NEW p \in Procs, WriteEntry(p) PROVE StateInv'
  <2> DEFINE e == req[p][Len(written) + 1]
             b == Wrap(balance[e.account] + Signed(e))
  <2>0. mutex = p /\ Len(written) < Len(req[p])
    BY <1>5 DEF WriteEntry
  <2>1. e \in EntryRequest /\ e.account \in Accounts /\ Signed(e) \in Int /\ jid \in JournalIds
    BY <2>0, CurrentEntry
  <2>2. b \in Int
    BY <2>1, WrapSum DEF TypeOK
  <2>3. LedgerEntry(e, b) \in Entry
    BY <2>1, <2>2, LedgerEntryType
  <2>4. /\ balance' = [balance EXCEPT ![e.account] = b]
        /\ entries' = Append(entries, LedgerEntry(e, b))
        /\ written' = Append(written, LedgerEntry(e, b))
        /\ UNCHANGED <<known, journals, auditLogs, req, mutex, jid>>
    BY <1>5 DEF WriteEntry
  <2> HIDE DEF e, b
  <2>5. TypeOK'
    <3> DEFINE l == LedgerEntry(e, b)
    <3> HIDE DEF l
    <3>1. entries' \in Seq(Entry) /\ written' \in Seq(Entry)
      BY <2>3, <2>4 DEF TypeOK, l
    <3>2. balance' \in [Accounts -> Int]
      BY <2>1, <2>2, <2>4 DEF TypeOK
    <3> QED BY <2>4, <3>1, <3>2 DEF TypeOK
  <2>6. ReqInv'
    BY <2>4 DEF ReqInv
  <2>7. LockInv'
    <3>1. Len(written') = Len(written) + 1 /\ Len(written) \in Nat /\ Len(req[p]) \in Nat
      BY <2>4 DEF TypeOK
    <3>2. Len(written') <= Len(req[p])
      BY <2>0, <3>1
    <3>3. mutex # Free
      BY <2>0, ConstantsAssumption
    <3> QED BY <2>0, <2>4, <3>2, <3>3 DEF LockInv, Valid
  <2> QED BY <2>5, <2>6, <2>7
<1>6. ASSUME NEW p \in Procs, Finish(p) PROVE StateInv'
  <2>1. jid \in JournalIds
    BY <1>6, ConstantsAssumption DEF Finish, TypeOK
  <2>2. TypeOK'
    <3>1. journals' \in [JournalIds -> Seq(Entry)]
      BY <1>6, <2>1 DEF Finish, TypeOK
    <3>2. auditLogs' \in Seq(JournalIds \cup NewAccounts)
      BY <1>6, <2>1 DEF Finish, TypeOK
    <3> QED BY <1>6, <3>1, <3>2 DEF Finish, TypeOK
  <2>3. ReqInv'
    BY <1>6 DEF Finish, ReqInv, TypeOK
  <2>4. LockInv'
    BY <1>6 DEF Finish, LockInv
  <2> QED BY <2>2, <2>3, <2>4
<1>7. ASSUME UNCHANGED vars PROVE StateInv'
  BY <1>7 DEF vars, books, TypeOK, ReqInv, LockInv, Valid
<1> QED BY <1>1, <1>2, <1>3, <1>4, <1>5, <1>6, <1>7 DEF Next

-----------------------------------------------------------------------------
(* The trial balance.                                                      *)

DebitSide == DebitNormal \cap known
CreditSide == known \ DebitNormal

LEMMA SidesType ==
  ASSUME TypeOK
  PROVE  DebitSide \in SUBSET Accounts /\ CreditSide \in SUBSET Accounts
BY DEF TypeOK, DebitSide, CreditSide

LEMMA SumsType ==
  ASSUME TypeOK
  PROVE  SumOf(balance, DebitSide) \in Int /\ SumOf(balance, CreditSide) \in Int
BY SidesType, SumUnfold DEF TypeOK

LEMMA GapInit == Init => GapInv
<1> SUFFICES ASSUME Init PROVE GapInv
  OBVIOUS
<1> DEFINE F == {S \in SUBSET Accounts : SumOf(balance, S) = 0}
<1>0. balance \in [Accounts -> Int] /\ \A a \in Accounts : balance[a] = 0
  BY DEF Init
<1>1. ASSUME NEW S \in SUBSET Accounts, \A U \in SUBSET S : U # S => U \in F
      PROVE  S \in F
  <2>1. CASE S = {}
    BY <1>0, <2>1, SumUnfold
  <2>2. CASE S # {}
    <3>1. Pick(S) \in S /\ S \ {Pick(S)} \in SUBSET S /\ S \ {Pick(S)} # S
      BY <2>2, PickIn
    <3>2. SumOf(balance, S) = Wrap(SumOf(balance, S \ {Pick(S)}) + balance[Pick(S)])
      BY <1>0, <2>2, SumUnfold
    <3>3. SumOf(balance, S \ {Pick(S)}) = 0 /\ balance[Pick(S)] = 0
      BY <1>0, <1>1, <3>1
    <3>4. 0 \in Int64 /\ 0 + 0 = 0
      BY ConstantsAssumption DEF Int64
    <3> QED BY <3>2, <3>3, <3>4, WrapId
  <2> QED BY <2>1, <2>2
<1>2. \A S \in SUBSET Accounts : S \in F
  <2> HIDE DEF F
  <2> QED BY <1>1, AccountsFinite, FiniteSetInduction
<1>3. known \in SUBSET Accounts
  BY DEF Init, Accounts
<1>4. SumOf(balance, DebitNormal \cap known) = 0 /\ SumOf(balance, known \ DebitNormal) = 0
  BY <1>2, <1>3
<1>5. Posted(TRUE) = 0 /\ Posted(FALSE) = 0
  BY DEF Init, Posted
<1> QED BY <1>0, <1>4, <1>5 DEF GapInv

(* Opening an account whose balance is 0 leaves every sum alone.           *)
LEMMA SumNew ==
  ASSUME NEW b \in [Accounts -> Int], NEW S \in SUBSET Accounts, NEW a \in Accounts \ S,
         b[a] = 0
  PROVE  SumOf(b, S \cup {a}) = SumOf(b, S)
<1>1. S \cup {a} \in SUBSET Accounts /\ a \in S \cup {a} /\ (S \cup {a}) \ {a} = S
  OBVIOUS
<1>2. SumOf(b, S \cup {a}) = Wrap(SumOf(b, S) + b[a])
  BY <1>1, SumRemove
<1>3. SumOf(b, S) \in Int64 /\ SumOf(b, S) \in Int
  BY SumRange, SumUnfold
<1>4. SumOf(b, S) + b[a] = SumOf(b, S)
  BY <1>3
<1> QED BY <1>2, <1>3, <1>4, WrapId

(* An entry moves the gap between the two sides by its amount: up for a    *)
(* debit, down for anything else, whichever side its account is on.        *)
Moves(e) == IF e.type = "debit" THEN e.amount ELSE -e.amount

LEMMA GapMoves ==
  ASSUME TypeOK, NEW e \in EntryRequest, e.account \in known
  PROVE  LET b == [balance EXCEPT ![e.account] = Wrap(@ + Signed(e))]
         IN  Wrap(SumOf(b, DebitSide) - SumOf(b, CreditSide))
               = Wrap((SumOf(balance, DebitSide) - SumOf(balance, CreditSide)) + Moves(e))
<1> DEFINE b == [balance EXCEPT ![e.account] = Wrap(@ + Signed(e))]
           D == SumOf(balance, DebitSide)
           C == SumOf(balance, CreditSide)
           s == Signed(e)
           m == e.amount
<1>1. D \in Int /\ C \in Int
  BY SumsType
<1>2. s \in Int /\ m \in Int /\ e.account \in Accounts /\ -m \in Int
  BY SignedType DEF EntryRequest
<1>3. balance \in [Accounts -> Int]
  BY DEF TypeOK
<1>a. ASSUME NEW S \in SUBSET Accounts
      PROVE  SumOf(b, S)
               = IF e.account \in S THEN Wrap(SumOf(balance, S) + s) ELSE SumOf(balance, S)
  <2> DEFINE a == e.account
  <2>1. a \in Accounts /\ b[a] = Wrap(balance[a] + s) /\ \A x \in Accounts : x # a => b[x] = balance[x]
    BY <1>2, <1>3
  <2>2. b \in [Accounts -> Int]
    <3>1. Wrap(balance[a] + s) \in Int
      BY <1>2, <1>3, WrapSum
    <3> QED BY <1>3, <3>1
  <2> HIDE DEF b, s, a
  <2>3. SumOf(b, S) = IF a \in S THEN Wrap(SumOf(balance, S) + s) ELSE SumOf(balance, S)
    BY <1>2, <1>3, <2>1, <2>2, SumChange
  <2> QED BY <2>3 DEF a
<1>b. DebitSide \in SUBSET Accounts /\ CreditSide \in SUBSET Accounts
  BY SidesType
<1> HIDE DEF b
<1>4. SumOf(b, DebitSide) = IF e.account \in DebitSide THEN Wrap(D + s) ELSE D
  BY <1>a, <1>b
<1>5. SumOf(b, CreditSide) = IF e.account \in CreditSide THEN Wrap(C + s) ELSE C
  BY <1>a, <1>b
<1> SUFFICES Wrap(SumOf(b, DebitSide) - SumOf(b, CreditSide)) = Wrap((D - C) + Moves(e))
  BY DEF b
<1> HIDE DEF D, C, s, m
<1>6. CASE e.account \in DebitNormal
  <2>1. SumOf(b, DebitSide) = Wrap(D + s) /\ SumOf(b, CreditSide) = C
    BY <1>4, <1>5, <1>6 DEF DebitSide, CreditSide
  <2>2. s = Moves(e)
    BY <1>6 DEF s, m, Signed, Moves
  <2>3. Wrap(Wrap(D + s) - C) = Wrap((D + s) - C)
    <3>1. D + s \in Int /\ -C \in Int
      BY <1>1, <1>2
    <3>2. Wrap(Wrap(D + s) + (-C)) = Wrap((D + s) + (-C))
      BY <3>1, WrapAdd
    <3>3. Wrap(D + s) \in Int
      BY <3>1, WrapRange
    <3>4. Wrap(D + s) + (-C) = Wrap(D + s) - C /\ (D + s) + (-C) = (D + s) - C
      BY <1>1, <3>1, <3>3
    <3> QED BY <3>2, <3>4
  <2>4. (D + s) - C = (D - C) + s
    BY <1>1, <1>2
  <2> QED BY <2>1, <2>2, <2>3, <2>4
<1>7. CASE e.account \notin DebitNormal
  <2>1. SumOf(b, DebitSide) = D /\ SumOf(b, CreditSide) = Wrap(C + s)
    BY <1>4, <1>5, <1>7 DEF DebitSide, CreditSide
  <2>2. Moves(e) = -s
    <3>1. CASE e.type = "debit"
      <4>1. s = -m /\ Moves(e) = m
        BY <1>7, <3>1 DEF s, m, Signed, Moves
      <4> QED BY <1>2, <4>1
    <3>2. CASE e.type # "debit"
      <4>1. s = m /\ Moves(e) = -m
        BY <1>7, <3>2 DEF s, m, Signed, Moves
      <4> QED BY <1>2, <4>1
    <3> QED BY <3>1, <3>2
  <2>3. C + s \in Int
    BY <1>1, <1>2
  <2>4. Wrap(D - Wrap(C + s)) = Wrap(D - (C + s))
    BY <1>1, <2>3, WrapSub
  <2>5. D - (C + s) = (D - C) + (-s)
    BY <1>1, <1>2
  <2> QED BY <2>1, <2>2, <2>4, <2>5
<1> QED BY <1>6, <1>7

(* So does the posting of the entry to the totals of its journal.          *)
LEMMA PostedMoves ==
  ASSUME NEW r \in Seq(EntryRequest), NEW n \in 1 .. Len(r)
  PROVE  Wrap(Totals(r, TRUE)[n] - Totals(r, FALSE)[n])
           = Wrap((Totals(r, TRUE)[n - 1] - Totals(r, FALSE)[n - 1]) + Moves(r[n]))
<1> DEFINE D == Totals(r, TRUE)[n - 1]
           C == Totals(r, FALSE)[n - 1]
           m == r[n].amount
<1>1. D \in Int /\ C \in Int /\ m \in Int /\ -m \in Int
  <2>1. n - 1 \in 0 .. Len(r)
    OBVIOUS
  <2>2. m \in Int
    BY RequestEntry
  <2>3. ASSUME NEW d \in BOOLEAN PROVE Totals(r, d)[n - 1] \in Int
    BY <2>1, TotalUnfold
  <2>4. D \in Int /\ C \in Int
    BY <2>3
  <2> HIDE DEF m, D, C
  <2> QED BY <2>2, <2>4
<1>2. Totals(r, TRUE)[n] = IF r[n].type = "debit" THEN Wrap(D + m) ELSE D
  <2>1. (r[n].type = "debit") = TRUE <=> r[n].type = "debit"
    BY Zenon
  <2> QED BY <2>1, TotalUnfold
<1>3. Totals(r, FALSE)[n] = IF r[n].type = "debit" THEN C ELSE Wrap(C + m)
  <2>1. (r[n].type = "debit") = FALSE <=> r[n].type # "debit"
    BY Zenon
  <2> QED BY <2>1, TotalUnfold
<1> HIDE DEF D, C
<1>4. CASE r[n].type = "debit"
  <2>1. Totals(r, TRUE)[n] = Wrap(D + m) /\ Totals(r, FALSE)[n] = C /\ Moves(r[n]) = m
    BY <1>2, <1>3, <1>4 DEF Moves
  <2> HIDE DEF m
  <2>2. D + m \in Int /\ -C \in Int
    BY <1>1
  <2>3. Wrap(Wrap(D + m) + (-C)) = Wrap((D + m) + (-C))
    BY <2>2, WrapAdd
  <2>4. Wrap(D + m) \in Int
    BY <2>2, WrapRange
  <2>5. Wrap(D + m) + (-C) = Wrap(D + m) - C /\ (D + m) + (-C) = (D - C) + m
    BY <1>1, <2>2, <2>4
  <2> QED BY <2>1, <2>3, <2>5 DEF D, C
<1>5. CASE r[n].type # "debit"
  <2>1. Totals(r, TRUE)[n] = D /\ Totals(r, FALSE)[n] = Wrap(C + m) /\ Moves(r[n]) = -m
    BY <1>2, <1>3, <1>5 DEF Moves
  <2> HIDE DEF m
  <2>2. C + m \in Int
    BY <1>1
  <2>3. Wrap(D - Wrap(C + m)) = Wrap(D - (C + m))
    BY <1>1, <2>2, WrapSub
  <2>4. D - (C + m) = (D - C) + (-m)
    BY <1>1
  <2> QED BY <2>1, <2>3, <2>4 DEF D, C
<1> QED BY <1>4, <1>5

LEMMA PostedType ==
  ASSUME StateInv, NEW debits \in BOOLEAN
  PROVE  Posted(debits) \in Int
<1>1. CASE mutex = Free
  BY <1>1 DEF Posted
<1>2. CASE mutex # Free
  <2>1. req[mutex] \in Seq(EntryRequest) /\ Len(written) \in 0 .. Len(req[mutex])
    BY <1>2 DEF StateInv, TypeOK, LockInv
  <2> QED BY <1>2, <2>1, TotalUnfold DEF Posted
<1> QED BY <1>1, <1>2

LEMMA GapStep ==
  ASSUME StateInv, GapInv, [Next]_vars
  PROVE  GapInv'
<1> DEFINE D == SumOf(balance, DebitSide)
           C == SumOf(balance, CreditSide)
           Unknown == \A a \in Accounts \ known : balance[a] = 0
           Gap == Wrap(D - C) = Wrap(Posted(TRUE) - Posted(FALSE))
<1>0. TypeOK /\ balance \in [Accounts -> Int] /\ known \in SUBSET Accounts
  BY DEF StateInv, TypeOK
<1>a. GapInv <=> Unknown /\ Gap
  BY DEF GapInv, DebitSide, CreditSide
<1>b. GapInv' <=> Unknown' /\ Gap'
  BY DEF GapInv, DebitSide, CreditSide
(* Most steps leave the sums and what is posted alone.                     *)
<1>c. ASSUME UNCHANGED <<balance, known>>, Posted(TRUE)' = Posted(TRUE), Posted(FALSE)' = Posted(FALSE)
      PROVE  GapInv'
  <2>1. D' = D /\ C' = C
    BY <1>c DEF DebitSide, CreditSide
  <2>2. Unknown'
    BY <1>a, <1>c
  <2>3. Gap'
    BY <1>a, <1>c, <2>1
  <2> QED BY <1>b, <2>2, <2>3
<1>1. ASSUME NEW a \in NewAccounts, CreateAccount(a) PROVE GapInv'
  <2>0. /\ mutex = Free /\ mutex' = Free /\ balance' = balance /\ known' = known \cup {a}
        /\ a \in Accounts \ known
    BY <1>1 DEF CreateAccount, Accounts
  <2>1. Unknown'
    BY <1>a, <2>0
  <2>2. balance[a] = 0
    BY <1>a, <2>0
  <2>3. DebitSide \in SUBSET Accounts /\ CreditSide \in SUBSET Accounts
    BY <1>0, SidesType
  <2>4. a \in Accounts \ DebitSide /\ a \in Accounts \ CreditSide
    BY <2>0 DEF DebitSide, CreditSide
  <2>5. /\ SumOf(balance, DebitSide \cup {a}) = D
        /\ SumOf(balance, CreditSide \cup {a}) = C
    BY <1>0, <2>2, <2>3, <2>4, SumNew
  <2>6. /\ DebitSide' \in {DebitSide, DebitSide \cup {a}}
        /\ CreditSide' \in {CreditSide, CreditSide \cup {a}}
    <3>1. CASE a \in DebitNormal
      <4>1. DebitSide' = DebitSide \cup {a} /\ CreditSide' = CreditSide
        BY <2>0, <3>1 DEF DebitSide, CreditSide
      <4> QED BY <4>1
    <3>2. CASE a \notin DebitNormal
      <4>1. DebitSide' = DebitSide /\ CreditSide' = CreditSide \cup {a}
        BY <2>0, <3>2 DEF DebitSide, CreditSide
      <4> QED BY <4>1
    <3> QED BY <3>1, <3>2
  <2>7. D' = D /\ C' = C
    BY <2>0, <2>5, <2>6
  <2>8. Posted(TRUE)' = Posted(TRUE) /\ Posted(FALSE)' = Posted(FALSE)
    BY <2>0 DEF Posted
  <2>9. Gap'
    BY <1>a, <2>7, <2>8
  <2> QED BY <1>b, <2>1, <2>9
<1>2. ASSUME NEW p \in Procs, NEW r \in Requests, Submit(p, r) PROVE GapInv'
  <2>1. UNCHANGED <<balance, known, mutex, written>>
    BY <1>2 DEF Submit, books
  <2>2. mutex # Free => req'[mutex] = req[mutex]
    BY <1>2 DEF Submit, StateInv, TypeOK, LockInv
  <2>3. \A d \in BOOLEAN : Posted(d)' = Posted(d)
    BY <2>1, <2>2 DEF Posted
  <2> QED BY <1>c, <2>1, <2>3
<1>3. ASSUME NEW p \in Procs, Reject(p) PROVE GapInv'
  <2>1. UNCHANGED <<balance, known, mutex>> /\ mutex = Free
    BY <1>3 DEF Reject, books
  <2>2. \A d \in BOOLEAN : Posted(d)' = Posted(d)
    BY <2>1 DEF Posted
  <2> QED BY <1>c, <2>1, <2>2
<1>4. ASSUME NEW p \in Procs, NEW j \in JournalIds, Begin(p, j) PROVE GapInv'
  <2>1. UNCHANGED <<balance, known, req, written>> /\ mutex = Free /\ mutex' = p
    BY <1>4 DEF Begin, books
  <2>2. Len(written) = 0 /\ p # Free /\ req[p] \in Seq(EntryRequest)
    BY <2>1, ConstantsAssumption DEF StateInv, TypeOK, LockInv
  <2>3. ASSUME NEW d \in BOOLEAN PROVE Posted(d)' = Posted(d)
    <3>1. Posted(d) = 0
      BY <2>1 DEF Posted
    <3>2. Posted(d)' = Totals(req[p], d)[0]
      BY <2>1, <2>2 DEF Posted
    <3> QED BY <2>2, <3>1, <3>2, TotalUnfold
  <2> QED BY <1>c, <2>1, <2>3
<1>5. ASSUME NEW p \in Procs, WriteEntry(p) PROVE GapInv'
  <2> DEFINE r == req[p]
             n == Len(written) + 1
             e == r[n]
  <2>0. mutex = p /\ mutex # Free /\ Len(written) < Len(req[p])
    BY <1>5, ConstantsAssumption DEF WriteEntry
  <2>1. /\ n \in 1 .. Len(r) /\ n - 1 = Len(written)
        /\ r \in Seq(EntryRequest) /\ e \in EntryRequest
        /\ e.account \in known
    BY <2>0, CurrentEntry
  <2>2. /\ balance' = [balance EXCEPT ![e.account] = Wrap(@ + Signed(e))]
        /\ UNCHANGED <<known, req, mutex>>
    BY <1>5 DEF WriteEntry
  <2>3. Len(written') = n
    BY <1>5 DEF WriteEntry, StateInv, TypeOK
  <2>4. Unknown'
    BY <1>a, <2>1, <2>2
  <2>5. Wrap(D' - C') = Wrap((D - C) + Moves(e))
    <3>1. DebitSide' = DebitSide /\ CreditSide' = CreditSide
      BY <2>2 DEF DebitSide, CreditSide
    <3> DEFINE b == [balance EXCEPT ![e.account] = Wrap(@ + Signed(e))]
    <3>2. D' = SumOf(b, DebitSide) /\ C' = SumOf(b, CreditSide)
      BY <2>2, <3>1
    <3>3. Wrap(SumOf(b, DebitSide) - SumOf(b, CreditSide)) = Wrap((D - C) + Moves(e))
      BY <1>0, <2>1, GapMoves
    <3> HIDE DEF b, e
    <3> QED BY <3>2, <3>3
  <2>6. Wrap(Posted(TRUE)' - Posted(FALSE)') = Wrap((Posted(TRUE) - Posted(FALSE)) + Moves(e))
    <3>1. ASSUME NEW d \in BOOLEAN
          PROVE  Posted(d)' = Totals(r, d)[n] /\ Posted(d) = Totals(r, d)[n - 1]
      BY <2>0, <2>1, <2>2, <2>3 DEF Posted
    <3>2. /\ Posted(TRUE)' = Totals(r, TRUE)[n] /\ Posted(TRUE) = Totals(r, TRUE)[n - 1]
          /\ Posted(FALSE)' = Totals(r, FALSE)[n] /\ Posted(FALSE) = Totals(r, FALSE)[n - 1]
      BY <3>1
    <3> HIDE DEF r, n
    <3> QED BY <2>1, <3>2, PostedMoves
  <2>7. D - C \in Int /\ Posted(TRUE) - Posted(FALSE) \in Int /\ Moves(e) \in Int
    <3>1. D \in Int /\ C \in Int
      BY <1>0, SumsType
    <3>2. Posted(TRUE) \in Int /\ Posted(FALSE) \in Int
      BY PostedType
    <3>3. Moves(e) \in Int
      <4> HIDE DEF e
      <4> QED BY <2>1 DEF Moves, EntryRequest
    <3>4. D - C \in Int
      BY <3>1
    <3>5. Posted(TRUE) - Posted(FALSE) \in Int
      <4> DEFINE x == Posted(TRUE)
                 y == Posted(FALSE)
      <4>1. x \in Int /\ y \in Int
        BY <3>2
      <4>2. x - y \in Int
        <5> HIDE DEF x, y
        <5> QED BY <4>1
      <4> QED BY <4>2
    <3> QED BY <3>3, <3>4, <3>5
  <2>8. Gap'
    <3> DEFINE x == D - C
               y == Posted(TRUE) - Posted(FALSE)
               m == Moves(e)
    <3>1. Wrap(x) = Wrap(y)
      BY <1>a
    <3>2. x \in Int /\ y \in Int /\ m \in Int
      BY <2>7
    <3>3. Wrap(D' - C') = Wrap(x + m) /\ Wrap(Posted(TRUE)' - Posted(FALSE)') = Wrap(y + m)
      BY <2>5, <2>6
    <3> HIDE DEF x, y, m
    <3>4. Wrap(x + m) = Wrap(y + m)
      BY <3>1, <3>2, WrapShift
    <3> QED BY <3>3, <3>4
  <2> QED BY <1>b, <2>4, <2>8
<1>6. ASSUME NEW p \in Procs, Finish(p) PROVE GapInv'
  <2>0. /\ mutex = p /\ mutex # Free /\ mutex' = Free /\ UNCHANGED <<balance, known>>
        /\ Len(written) = Len(req[p])
    BY <1>6, ConstantsAssumption DEF Finish
  <2>1. Balanced(req[p])
    BY <2>0 DEF StateInv, LockInv, ReqInv
  <2>2. Posted(TRUE) = Posted(FALSE)
    BY <2>0, <2>1 DEF Posted, Balanced
  <2>3. Posted(TRUE) \in Int
    BY PostedType
  <2>4. Posted(TRUE) - Posted(FALSE) = 0
    <3> DEFINE x == Posted(TRUE)
               y == Posted(FALSE)
    <3>1. x \in Int /\ x = y
      BY <2>2, <2>3
    <3>2. x - y = 0
      <4> HIDE DEF x, y
      <4> QED BY <3>1
    <3> QED BY <3>2
  <2>5. Posted(TRUE)' = 0 /\ Posted(FALSE)' = 0
    BY <2>0 DEF Posted
  <2>6. Posted(TRUE)' - Posted(FALSE)' = 0
    <3>1. 0 - 0 = 0
      OBVIOUS
    <3> QED BY <2>5, <3>1, Zenon
  <2>7. D' = D /\ C' = C
    BY <2>0 DEF DebitSide, CreditSide
  <2>8. Unknown'
    BY <1>a, <2>0
  <2>9. Gap'
    BY <1>a, <2>4, <2>6, <2>7
  <2> QED BY <1>b, <2>8, <2>9
<1>7. ASSUME UNCHANGED vars PROVE GapInv'
  <2>1. UNCHANGED <<balance, known, mutex, req, written>>
    BY <1>7 DEF vars, books
  <2>2. \A d \in BOOLEAN : Posted(d)' = Posted(d)
    BY <2>1 DEF Posted
  <2> QED BY <1>c, <2>1, <2>2
<1> QED BY <1>1, <1>2, <1>3, <1>4, <1>5, <1>6, <1>7 DEF Next

LEMMA GapBalances == TypeOK /\ GapInv => TrialBalance
<1> SUFFICES ASSUME TypeOK, GapInv, mutex = Free
             PROVE  SumOf(balance, DebitSide) = SumOf(balance, CreditSide)
  BY DEF TrialBalance, DebitSide, CreditSide
<1> DEFINE D == SumOf(balance, DebitSide)
           C == SumOf(balance, CreditSide)
<1>1. D \in Int64 /\ C \in Int64
  BY SumRange, SidesType DEF TypeOK
<1>2. Wrap(D - C) = Wrap(0 - 0)
  BY DEF GapInv, DebitSide, CreditSide, Posted
<1>3. 0 - 0 = 0
  OBVIOUS
<1> HIDE DEF D, C
<1>4. D = C
  BY <1>1, <1>2, <1>3, WrapZero
<1> QED BY <1>4 DEF D, C

-----------------------------------------------------------------------------
(* The entries reproduce the balances.                                     *)

LEMMA LastOwn ==
  ASSUME NEW S, NEW n \in Nat, S \subseteq 1 .. n, S # {}
  PROVE  LET i == CHOOSE i \in S : \A k \in S : k <= i
         IN  i \in S /\ \A k \in S : k <= i
<1> DEFINE T == {n - k : k \in S}
<1>1. T \subseteq Nat /\ T # {}
  OBVIOUS
<1>2. PICK t \in T : \A m \in T : t <= m
  <2> HIDE DEF T
  <2> QED BY <1>1, LeastNat
<1>3. PICK i \in S : t = n - i
  BY <1>2
<1>4. ASSUME NEW k \in S PROVE k <= i
  <2>1. n - k \in T /\ k \in 1 .. n /\ i \in 1 .. n
    OBVIOUS
  <2>2. n - i <= n - k
    BY <1>2, <1>3, <2>1
  <2> QED BY <2>1, <2>2
<1>5. \E j \in S : \A k \in S : k <= j
  BY <1>4
<1> QED BY <1>5

BalanceOf(es, own) ==
  IF own = {} THEN 0 ELSE es[CHOOSE i \in own : \A k \in own : k <= i].balance

LEMMA LastIsBalanceOf ==
  ASSUME NEW es, NEW a, NEW n
  PROVE  LastBalance(es, a, n) = BalanceOf(es, {k \in 1 .. n : es[k].account = a})
BY DEF LastBalance, BalanceOf

(* The balance depends on the first n entries alone.                       *)
LEMMA LastSame ==
  ASSUME NEW n \in Nat, NEW a, NEW es, NEW fs, \A k \in 1 .. n : fs[k] = es[k]
  PROVE  LastBalance(fs, a, n) = LastBalance(es, a, n)
<1> DEFINE own == {k \in 1 .. n : es[k].account = a}
           last == CHOOSE i \in own : \A k \in own : k <= i
<1>1. own = {k \in 1 .. n : fs[k].account = a}
  OBVIOUS
<1>2. LastBalance(es, a, n) = IF own = {} THEN 0 ELSE es[last].balance
  BY DEF LastBalance
<1>3. LastBalance(fs, a, n) = IF own = {} THEN 0 ELSE fs[last].balance
  <2>1. LastBalance(fs, a, n) = BalanceOf(fs, own)
    <3> HIDE DEF own
    <3> QED BY <1>1, LastIsBalanceOf
  <2> QED BY <2>1 DEF BalanceOf
<1>4. own # {} => last \in 1 .. n
  <2>1. own \subseteq 1 .. n
    OBVIOUS
  <2> HIDE DEF own
  <2> QED BY <2>1, LastOwn
<1> HIDE DEF own, last
<1> QED BY <1>2, <1>3, <1>4

(* A new entry is the last one of its account, and of no other.            *)
LEMMA LastAdd ==
  ASSUME NEW n \in Nat, NEW a, NEW es
  PROVE  LastBalance(es, a, n + 1)
           = IF es[n + 1].account = a THEN es[n + 1].balance ELSE LastBalance(es, a, n)
<1> DEFINE own(m) == {k \in 1 .. m : es[k].account = a}
<1>1. CASE es[n + 1].account = a
  <2>1. n + 1 \in own(n + 1) /\ \A k \in own(n + 1) : k <= n + 1
    BY <1>1
  <2>2. own(n + 1) \subseteq 1 .. n + 1 /\ n + 1 \in Nat
    OBVIOUS
  <2> DEFINE last == CHOOSE i \in own(n + 1) : \A k \in own(n + 1) : k <= i
  <2>3. last \in own(n + 1) /\ \A k \in own(n + 1) : k <= last
    <3> HIDE DEF own
    <3> QED BY <2>1
  <2>4. last = n + 1
    <3> HIDE DEF last
    <3>1. last \in 1 .. n + 1 /\ n + 1 <= last
      BY <2>1, <2>3
    <3> QED BY <3>1
  <2>5. LastBalance(es, a, n + 1) = IF own(n + 1) = {} THEN 0 ELSE es[last].balance
    BY DEF LastBalance
  <2> HIDE DEF own, last
  <2> QED BY <1>1, <2>1, <2>4, <2>5
<1>2. CASE es[n + 1].account # a
  <2>1. own(n + 1) = own(n)
    BY <1>2
  <2>2. LastBalance(es, a, n + 1) = BalanceOf(es, own(n + 1)) /\ LastBalance(es, a, n) = BalanceOf(es, own(n))
    BY LastIsBalanceOf
  <2> HIDE DEF own
  <2> QED BY <1>2, <2>1, <2>2
<1> QED BY <1>1, <1>2

LEMMA FollowInit == Init => BalancesFollowEntries
<1> SUFFICES ASSUME Init PROVE BalancesFollowEntries
  OBVIOUS
<1>1. entries = <<>> /\ Len(entries) = 0 /\ DOMAIN entries = {}
  BY DEF Init
<1>2. ASSUME NEW a \in Accounts PROVE LastBalance(entries, a, 0) = 0
  <2>1. {k \in 1 .. 0 : entries[k].account = a} = {}
    OBVIOUS
  <2> QED BY <2>1 DEF LastBalance
<1>3. \A a \in Accounts : balance[a] = 0
  BY DEF Init
<1> QED BY <1>1, <1>2, <1>3 DEF BalancesFollowEntries

LEMMA FollowStep ==
  ASSUME StateInv, BalancesFollowEntries, [Next]_vars
  PROVE  BalancesFollowEntries'
<1>0. entries \in Seq(Entry)
  BY DEF StateInv, TypeOK
<1>1. CASE UNCHANGED <<balance, entries>>
  BY <1>1 DEF BalancesFollowEntries
<1>2. ASSUME NEW p \in Procs, WriteEntry(p) PROVE BalancesFollowEntries'
  <2> DEFINE n == Len(entries)
             e == req[p][Len(written) + 1]
             b == Wrap(balance[e.account] + Signed(e))
             l == LedgerEntry(e, b)
             fs == entries'
  <2>1. mutex = p /\ Len(written) < Len(req[p])
    BY <1>2 DEF WriteEntry
  <2>2. e \in EntryRequest /\ e.account \in Accounts
    BY <2>1, CurrentEntry
  <2>3. balance' = [balance EXCEPT ![e.account] = b] /\ entries' = Append(entries, l)
    BY <1>2 DEF WriteEntry
  <2>4. l.account = e.account /\ l.balance = b /\ Signed(l) = Signed(e)
    BY DEF LedgerEntry, Signed
  <2>5. b = Wrap(balance[e.account] + Signed(e))
    OBVIOUS
  <2> HIDE DEF e, b, l
  <2>6. /\ n \in Nat /\ Len(fs) = n + 1 /\ DOMAIN fs = 1 .. n + 1
        /\ DOMAIN entries = 1 .. n /\ fs[n + 1] = l
        /\ \A k \in 1 .. n : fs[k] = entries[k]
    BY <1>0, <2>3
  <2>8. \A a \in Accounts : balance[a] = LastBalance(entries, a, n)
    BY DEF BalancesFollowEntries
  <2> SUFFICES /\ \A i \in DOMAIN fs :
                    fs[i].balance = Wrap(LastBalance(fs, fs[i].account, i - 1) + Signed(fs[i]))
               /\ \A a \in Accounts : balance'[a] = LastBalance(fs, a, Len(fs))
    BY DEF BalancesFollowEntries, Signed
  <2> HIDE DEF fs
  <2>b. n \in 0 .. n
    BY <2>6
  <2> HIDE DEF n
  <2>7. ASSUME NEW m \in 0 .. n, NEW a PROVE LastBalance(fs, a, m) = LastBalance(entries, a, m)
    <3>1. m \in Nat /\ \A k \in 1 .. m : k \in 1 .. n
      BY <2>6
    <3>2. \A k \in 1 .. m : fs[k] = entries[k]
      BY <2>6, <3>1
    <3> QED BY <3>1, <3>2, LastSame
  <2>9. ASSUME NEW a
        PROVE  LastBalance(fs, a, n + 1)
                 = IF e.account = a THEN b ELSE LastBalance(entries, a, n)
    <3>1. LastBalance(fs, a, n + 1)
            = IF fs[n + 1].account = a THEN fs[n + 1].balance ELSE LastBalance(fs, a, n)
      BY <2>6, LastAdd
    <3>2. LastBalance(fs, a, n) = LastBalance(entries, a, n)
      BY <2>b, <2>7
    <3> QED BY <2>4, <2>6, <3>1, <3>2
  <2>10. ASSUME NEW i \in DOMAIN fs
         PROVE  fs[i].balance = Wrap(LastBalance(fs, fs[i].account, i - 1) + Signed(fs[i]))
    <3>1. CASE i \in 1 .. n
      <4>1. i - 1 \in 0 .. n /\ fs[i] = entries[i] /\ i \in DOMAIN entries
        BY <2>6, <3>1
      <4>2. entries[i].balance
              = Wrap(LastBalance(entries, entries[i].account, i - 1) + Signed(entries[i]))
        BY <4>1 DEF BalancesFollowEntries
      <4>3. LastBalance(fs, entries[i].account, i - 1)
              = LastBalance(entries, entries[i].account, i - 1)
        BY <2>7, <4>1
      <4> QED BY <4>1, <4>2, <4>3
    <3>2. CASE i = n + 1
      <4>1. i - 1 = n
        BY <2>6, <3>2
      <4>2. LastBalance(fs, e.account, n) = balance[e.account]
        BY <2>2, <2>7, <2>8, <2>b
      <4>3. fs[i] = l
        BY <2>6, <3>2
      <4> QED BY <2>4, <2>5, <4>1, <4>2, <4>3
    <3> QED BY <2>6, <3>1, <3>2
  <2>11. ASSUME NEW a \in Accounts PROVE balance'[a] = LastBalance(fs, a, n + 1)
    <3>1. balance'[a] = IF e.account = a THEN b ELSE balance[a]
      BY <2>2, <2>3 DEF StateInv, TypeOK
    <3> QED BY <2>8, <2>9, <3>1
  <2> QED BY <2>6, <2>10, <2>11
<1> QED
  BY <1>1, <1>2 DEF Next, CreateAccount, Submit, Reject, Begin, Finish, books, vars

-----------------------------------------------------------------------------
(* Journals are whole.                                                     *)

LEMMA BlockInit == Init => BlockInv
<1> SUFFICES ASSUME Init PROVE BlockInv
  OBVIOUS
<1>1. ASSUME NEW j \in JournalIds PROVE Block(entries, j, journals[j], 0)
  <2>1. journals[j] = <<>> /\ entries = <<>> /\ Len(journals[j]) = 0
    BY DEF Init
  <2>2. DOMAIN entries = {} /\ DOMAIN journals[j] = {} /\ 0 + 1 .. 0 + Len(journals[j]) = {}
    BY <2>1
  <2> QED BY <2>2 DEF Block
<1>2. 0 \in 0 .. Len(entries) /\ DOMAIN entries = {} /\ mutex = Free
  BY DEF Init
<1> QED BY <1>1, <1>2 DEF BlockInv

(* An entry of another journal added to the list leaves a block alone.     *)
LEMMA BlockSame ==
  ASSUME NEW es \in Seq(Entry), NEW l \in Entry, NEW j, l.journal # j,
         NEW js \in Seq(Entry), NEW k \in 0 .. Len(es), Block(es, j, js, k)
  PROVE  Block(Append(es, l), j, js, k)
<1> DEFINE fs == Append(es, l)
           n == Len(es)
<1>1. /\ n \in Nat /\ DOMAIN fs = 1 .. n + 1 /\ DOMAIN es = 1 .. n
      /\ fs[n + 1] = l /\ \A i \in 1 .. n : fs[i] = es[i]
  OBVIOUS
<1>2. /\ {i \in DOMAIN es : es[i].journal = j} = k + 1 .. k + Len(js)
      /\ \A i \in DOMAIN js : fs[k + i] = es[k + i] /\ es[k + i] = js[i]
  <2>1. {i \in DOMAIN es : es[i].journal = j} = k + 1 .. k + Len(js)
    BY DEF Block
  <2>2. ASSUME NEW i \in DOMAIN js PROVE k + i \in 1 .. n
    <3>1. k + i \in k + 1 .. k + Len(js)
      OBVIOUS
    <3> QED BY <1>1, <2>1, <3>1
  <2> QED BY <1>1, <2>1, <2>2 DEF Block
<1> HIDE DEF fs, n
<1>3. {i \in DOMAIN fs : fs[i].journal = j} = {i \in DOMAIN es : es[i].journal = j}
  BY <1>1
<1> QED BY <1>2, <1>3 DEF Block, fs

(* One of its own at the end of the list extends it.                       *)
LEMMA BlockGrows ==
  ASSUME NEW es \in Seq(Entry), NEW l \in Entry, NEW js \in Seq(Entry),
         Len(js) <= Len(es), Block(es, l.journal, js, Len(es) - Len(js))
  PROVE  Block(Append(es, l), l.journal, Append(js, l), Len(es) - Len(js))
<1> DEFINE fs == Append(es, l)
           ks == Append(js, l)
           n == Len(es)
           m == Len(js)
           j == l.journal
<1>1. /\ n \in Nat /\ DOMAIN fs = 1 .. n + 1 /\ DOMAIN es = 1 .. n
      /\ fs[n + 1] = l /\ \A i \in 1 .. n : fs[i] = es[i]
  OBVIOUS
<1>2. /\ m \in Nat /\ Len(ks) = m + 1 /\ DOMAIN ks = 1 .. m + 1 /\ DOMAIN js = 1 .. m
      /\ ks[m + 1] = l /\ \A i \in 1 .. m : ks[i] = js[i]
  OBVIOUS
<1>3. /\ {i \in DOMAIN es : es[i].journal = j} = (n - m) + 1 .. (n - m) + m
      /\ \A i \in DOMAIN js : es[(n - m) + i] = js[i]
  BY DEF Block
<1>4. m <= n
  OBVIOUS
<1> SUFFICES Block(fs, j, ks, n - m)
  OBVIOUS
<1> HIDE DEF fs, ks, n, m
<1>5. {i \in DOMAIN fs : fs[i].journal = j} = {i \in DOMAIN es : es[i].journal = j} \cup {n + 1}
  BY <1>1
<1>6. {i \in DOMAIN fs : fs[i].journal = j} = (n - m) + 1 .. (n - m) + Len(ks)
  BY <1>1, <1>2, <1>3, <1>4, <1>5
<1>7. ASSUME NEW i \in DOMAIN ks PROVE fs[(n - m) + i] = ks[i]
  <2>1. CASE i \in 1 .. m
    <3>1. (n - m) + i \in 1 .. n
      BY <1>1, <1>2, <1>4, <2>1
    <3> QED BY <1>1, <1>2, <1>3, <2>1, <3>1
  <2>2. CASE i = m + 1
    <3>1. (n - m) + i = n + 1
      BY <1>1, <1>2, <2>2
    <3> QED BY <1>1, <1>2, <2>2, <3>1
  <2> QED BY <1>2, <2>1, <2>2
<1> QED BY <1>6, <1>7 DEF Block

LEMMA BlockStep ==
  ASSUME StateInv, BlockInv, [Next]_vars
  PROVE  BlockInv'
<1>0. entries \in Seq(Entry) /\ written \in Seq(Entry) /\ journals \in [JournalIds -> Seq(Entry)]
  BY DEF StateInv, TypeOK
<1>1. ASSUME NEW a \in NewAccounts, CreateAccount(a) PROVE BlockInv'
  BY <1>1 DEF CreateAccount, BlockInv
<1>2. CASE UNCHANGED <<known, entries, journals, mutex, jid, written>>
  BY <1>2 DEF BlockInv
<1>4. ASSUME NEW p \in Procs, NEW j \in JournalIds, Begin(p, j) PROVE BlockInv'
  <2>1. /\ mutex = Free /\ mutex' = p /\ jid' = j /\ journals[j] = <<>>
        /\ UNCHANGED <<known, entries, journals, written>>
    BY <1>4 DEF Begin, books
  <2>2. jid = NoJournal /\ written = <<>> /\ Len(written) = 0
    BY <2>1 DEF StateInv, TypeOK, LockInv
  <2>3. JournalIds \ {jid} = JournalIds
    BY <2>2, ConstantsAssumption
  <2>4. \A i \in JournalIds : \E k \in 0 .. Len(entries) : Block(entries, i, journals[i], k)
    BY <2>3 DEF BlockInv
  <2>5. Len(entries) \in Nat /\ Len(entries) - Len(written) = Len(entries)
    BY <1>0, <2>2
  <2>6. Block(entries, j, written, Len(entries))
    <3>1. PICK k \in 0 .. Len(entries) : Block(entries, j, journals[j], k)
      BY <2>4
    <3>2. /\ k + 1 .. k + Len(written) = {}
          /\ Len(entries) + 1 .. Len(entries) + Len(written) = {}
          /\ DOMAIN written = {}
      BY <2>2, <2>5
    <3> QED BY <2>1, <2>2, <3>1, <3>2 DEF Block
  <2>7. \A i \in JournalIds \ {j} : \E k \in 0 .. Len(entries) : Block(entries, i, journals[i], k)
    BY <2>4
  <2>8. Len(written) <= Len(entries)
    BY <2>2, <2>5
  <2>9. \A i \in DOMAIN entries : entries[i].account \in known /\ entries[i].amount > 0
    BY DEF BlockInv
  <2> QED BY <2>1, <2>5, <2>6, <2>7, <2>8, <2>9 DEF BlockInv
<1>5. ASSUME NEW p \in Procs, WriteEntry(p) PROVE BlockInv'
  <2> DEFINE e == req[p][Len(written) + 1]
             b == Wrap(balance[e.account] + Signed(e))
             l == LedgerEntry(e, b)
             n == Len(entries)
             m == Len(written)
  <2>1. mutex = p /\ mutex # Free /\ Len(written) < Len(req[p])
    BY <1>5, ConstantsAssumption DEF WriteEntry
  <2>2. /\ e \in EntryRequest /\ e.account \in Accounts /\ Signed(e) \in Int
        /\ jid \in JournalIds /\ e.account \in known /\ e.amount > 0
    BY <2>1, CurrentEntry
  <2>3. l \in Entry
    <3>1. b \in Int
      BY <2>2, WrapSum DEF StateInv, TypeOK
    <3> HIDE DEF b, e
    <3> QED BY <2>2, <3>1, LedgerEntryType DEF StateInv
  <2>4. /\ entries' = Append(entries, l) /\ written' = Append(written, l)
        /\ UNCHANGED <<known, journals, mutex, jid>>
    BY <1>5 DEF WriteEntry
  <2>5. l.journal = jid /\ l.account \in known /\ l.amount > 0
    BY <2>2 DEF LedgerEntry
  <2> HIDE DEF e, b, l
  <2>6. /\ n \in Nat /\ m \in Nat /\ Len(entries') = n + 1 /\ Len(written') = m + 1
        /\ DOMAIN entries' = 1 .. n + 1 /\ DOMAIN entries = 1 .. n
        /\ entries'[n + 1] = l /\ \A i \in 1 .. n : entries'[i] = entries[i]
    BY <1>0, <2>4
  <2>7. m <= n /\ Block(entries, jid, written, n - m)
    BY <2>1 DEF BlockInv
  <2>8. Block(entries', jid, written', n - m)
    BY <1>0, <2>3, <2>4, <2>5, <2>7, BlockGrows
  <2>9. ASSUME NEW j \in JournalIds \ {jid}
        PROVE  \E k \in 0 .. Len(entries') : Block(entries', j, journals[j], k)
    <3>1. PICK k \in 0 .. n : Block(entries, j, journals[j], k)
      BY DEF BlockInv
    <3>2. Block(Append(entries, l), j, journals[j], k)
      BY <1>0, <2>3, <2>5, <3>1, BlockSame
    <3>3. k \in 0 .. n + 1
      BY <2>6
    <3> QED BY <2>4, <2>6, <3>2, <3>3
  <2>10. ASSUME NEW i \in DOMAIN entries' PROVE entries'[i].account \in known /\ entries'[i].amount > 0
    <3>1. CASE i \in 1 .. n
      BY <2>6, <3>1 DEF BlockInv
    <3>2. CASE i = n + 1
      BY <2>5, <2>6, <3>2
    <3> QED BY <2>6, <3>1, <3>2
  <2>11. (n + 1) - (m + 1) = n - m /\ m + 1 <= n + 1
    BY <2>6, <2>7
  <2> HIDE DEF n, m
  <2>12. Len(entries') - Len(written') = n - m /\ Len(written') <= Len(entries')
    BY <2>6, <2>11
  <2> QED BY <2>4, <2>8, <2>9, <2>10, <2>12 DEF BlockInv
<1>6. ASSUME NEW p \in Procs, Finish(p) PROVE BlockInv'
  <2>1. /\ mutex # Free /\ mutex' = Free /\ jid' = NoJournal
        /\ journals' = [journals EXCEPT ![jid] = written] /\ UNCHANGED <<known, entries>>
    BY <1>6, ConstantsAssumption DEF Finish
  <2>2. jid \in JournalIds
    BY <2>1 DEF StateInv, TypeOK
  <2>3. ASSUME NEW j \in JournalIds PROVE \E k \in 0 .. Len(entries) : Block(entries, j, journals'[j], k)
    <3>1. CASE j # jid
      <4>1. journals'[j] = journals[j]
        BY <1>0, <2>1, <3>1
      <4> QED BY <3>1, <4>1 DEF BlockInv
    <3>2. CASE j = jid
      <4>1. journals'[j] = written
        BY <1>0, <2>1, <2>2, <3>2
      <4>2. Len(entries) - Len(written) \in 0 .. Len(entries)
        BY <1>0, <2>1 DEF BlockInv
      <4>3. Block(entries, j, written, Len(entries) - Len(written))
        BY <2>1, <3>2 DEF BlockInv
      <4> QED BY <4>1, <4>2, <4>3
    <3> QED BY <3>1, <3>2
  <2>4. \A i \in DOMAIN entries : entries[i].account \in known /\ entries[i].amount > 0
    BY DEF BlockInv
  <2> QED BY <2>1, <2>3, <2>4 DEF BlockInv
<1> QED
  BY <1>1, <1>2, <1>4, <1>5, <1>6 DEF Next, Submit, Reject, books, vars

LEMMA BlocksComplete == StateInv /\ BlockInv => JournalsComplete
<1> SUFFICES ASSUME StateInv, BlockInv PROVE JournalsComplete
  OBVIOUS
<1>1. ASSUME NEW j \in JournalIds
      PROVE  \E k \in 0 .. Len(entries) :
               Block(entries, j, IF j = jid THEN written ELSE journals[j], k)
  <2>1. CASE j # jid
    BY <2>1 DEF BlockInv
  <2>2. CASE j = jid
    <3>1. mutex # Free
      BY <2>2, ConstantsAssumption DEF StateInv, TypeOK
    <3>2. Len(entries) - Len(written) \in 0 .. Len(entries)
      BY <3>1 DEF StateInv, TypeOK, BlockInv
    <3>3. Block(entries, j, written, Len(entries) - Len(written))
      BY <2>2, <3>1 DEF BlockInv
    <3> QED BY <2>2, <3>2, <3>3
  <2> QED BY <2>1, <2>2
<1>2. \A i \in DOMAIN entries : entries[i].account \in known /\ entries[i].amount > 0
  BY DEF BlockInv
<1> QED BY <1>1, <1>2 DEF JournalsComplete

-----------------------------------------------------------------------------
(* The audit log.                                                          *)

LEMMA AuditInit == Init => AuditTrail
<1> SUFFICES ASSUME Init PROVE AuditTrail
  OBVIOUS
<1>1. auditLogs = <<>> /\ DOMAIN auditLogs = {} /\ known = SystemAccounts
      /\ \A j \in JournalIds : journals[j] = <<>>
  BY DEF Init
<1> QED BY <1>1 DEF AuditTrail

(* A record about something new keeps the records distinct.                *)
LEMMA AuditAdd ==
  ASSUME NEW T, NEW s \in Seq(T), NEW x \in T, x \notin {s[i] : i \in DOMAIN s},
         \A i, k \in DOMAIN s : s[i] = s[k] => i = k, NEW t, t = Append(s, x)
  PROVE  /\ {t[i] : i \in DOMAIN t} = {s[i] : i \in DOMAIN s} \cup {x}
         /\ \A i, k \in DOMAIN t : t[i] = t[k] => i = k
<1> DEFINE n == Len(s)
<1>1. /\ n \in Nat /\ DOMAIN t = 1 .. n + 1 /\ DOMAIN s = 1 .. n
      /\ t[n + 1] = x /\ \A i \in 1 .. n : t[i] = s[i]
  OBVIOUS
<1> HIDE DEF n
<1>2. {t[i] : i \in DOMAIN t} = {s[i] : i \in DOMAIN s} \cup {x}
  <2>1. DOMAIN t = DOMAIN s \cup {n + 1}
    BY <1>1
  <2> QED BY <1>1, <2>1
<1>3. ASSUME NEW i \in DOMAIN t, NEW k \in DOMAIN t, t[i] = t[k] PROVE i = k
  <2>1. CASE i \in 1 .. n /\ k \in 1 .. n
    BY <1>1, <1>3, <2>1
  <2>2. CASE i = n + 1 /\ k \in 1 .. n
    BY <1>1, <1>3, <2>2
  <2>3. CASE i \in 1 .. n /\ k = n + 1
    BY <1>1, <1>3, <2>3
  <2>4. CASE i = n + 1 /\ k = n + 1
    BY <2>4
  <2> QED BY <1>1, <2>1, <2>2, <2>3, <2>4
<1> QED BY <1>2, <1>3

LEMMA AuditStep ==
  ASSUME StateInv, AuditTrail, [Next]_vars
  PROVE  AuditTrail'
<1> DEFINE Logged == {auditLogs[i] : i \in DOMAIN auditLogs}
           Filed == {j \in JournalIds : journals[j] # <<>>}
           Opened == known \ SystemAccounts
           Distinct == \A i, k \in DOMAIN auditLogs : auditLogs[i] = auditLogs[k] => i = k
<1>0. /\ auditLogs \in Seq(JournalIds \cup NewAccounts)
      /\ journals \in [JournalIds -> Seq(Entry)]
      /\ Opened \subseteq NewAccounts
      /\ Logged = Filed \cup Opened /\ Distinct
  BY DEF StateInv, TypeOK, AuditTrail, Accounts
<1>1. CASE UNCHANGED <<known, journals, auditLogs>>
  BY <1>1 DEF AuditTrail
<1>2. ASSUME NEW a \in NewAccounts, CreateAccount(a) PROVE AuditTrail'
  <2>1. /\ a \notin known /\ known' = known \cup {a} /\ journals' = journals
        /\ auditLogs' = Append(auditLogs, a)
    BY <1>2 DEF CreateAccount
  <2>2. a \notin Logged
    BY <1>0, <2>1, ConstantsAssumption
  <2>3. Logged' = Logged \cup {a} /\ Distinct'
    <3> DEFINE T == JournalIds \cup NewAccounts
    <3>1. auditLogs \in Seq(T) /\ a \in T
      BY <1>0
    <3>2. auditLogs' = Append(auditLogs, a) /\ a \notin Logged /\ Distinct
      BY <1>0, <2>1, <2>2
    <3> HIDE DEF T
    <3> QED BY <3>1, <3>2, AuditAdd
  <2>4. Filed' = Filed /\ Opened' = Opened \cup {a}
    BY <2>1, ConstantsAssumption
  <2> QED BY <1>0, <2>3, <2>4 DEF AuditTrail
<1>3. ASSUME NEW p \in Procs, Finish(p) PROVE AuditTrail'
  <2>1. /\ mutex = p /\ mutex # Free /\ Len(written) = Len(req[p])
        /\ journals' = [journals EXCEPT ![jid] = written]
        /\ auditLogs' = Append(auditLogs, jid) /\ known' = known
    BY <1>3, ConstantsAssumption DEF Finish
  <2>2. jid \in JournalIds /\ journals[jid] = <<>>
    BY <2>1 DEF StateInv, TypeOK, LockInv
  <2>3. written # <<>>
    <3>1. req[p] # <<>> /\ req[p] \in Seq(EntryRequest)
      BY <2>1 DEF StateInv, TypeOK, LockInv
    <3>2. Len(req[p]) # 0
      BY <3>1
    <3> QED BY <2>1, <3>2
  <2>4. jid \notin Logged
    BY <1>0, <2>2, ConstantsAssumption
  <2>5. Logged' = Logged \cup {jid} /\ Distinct'
    <3> DEFINE T == JournalIds \cup NewAccounts
    <3>1. auditLogs \in Seq(T) /\ jid \in T
      BY <1>0, <2>2
    <3>2. auditLogs' = Append(auditLogs, jid) /\ jid \notin Logged /\ Distinct
      BY <1>0, <2>1, <2>4
    <3> HIDE DEF T
    <3> QED BY <3>1, <3>2, AuditAdd
  <2>6. Filed' = Filed \cup {jid} /\ Opened' = Opened
    BY <1>0, <2>1, <2>2, <2>3
  <2> QED BY <1>0, <2>5, <2>6 DEF AuditTrail
<1> QED
  BY <1>1, <1>2, <1>3 DEF Next, Submit, Reject, Begin, WriteEntry, books, vars

-----------------------------------------------------------------------------
(* What holds of every behavior.                                           *)

LEMMA InvInit == Init => LedgerInv
BY InitState, GapInit, FollowInit, BlockInit, AuditInit DEF LedgerInv

LEMMA InvStep == LedgerInv /\ [Next]_vars => LedgerInv'
BY StateStep, GapStep, FollowStep, BlockStep, AuditStep DEF LedgerInv

(* Every state of the service satisfies the inductive invariant.           *)
THEOREM Invariance == Spec => []LedgerInv
BY InvInit, InvStep, PTL DEF Spec

(* The maps and lists of the service hold what they are declared to hold,  *)
(* and the mutex is held exactly while a journal is being written.         *)
THEOREM TypeCorrect == Spec => []TypeOK
<1>1. LedgerInv => TypeOK
  BY DEF LedgerInv, StateInv
<1> QED BY Invariance, <1>1, PTL

(* Whenever GetTrialBalance can read the balances, debit-normal and        *)
(* credit-normal accounts balance out, in int64 arithmetic.                *)
THEOREM BooksBalance == Spec => []TrialBalance
<1>1. LedgerInv => TrialBalance
  BY GapBalances DEF LedgerInv, StateInv
<1> QED BY Invariance, <1>1, PTL

(* The entries CreateJournalEntry appends reproduce every balance.         *)
THEOREM EntriesExplainBalances == Spec => []BalancesFollowEntries
<1>1. LedgerInv => BalancesFollowEntries
  BY DEF LedgerInv
<1> QED BY Invariance, <1>1, PTL

(* CreateJournalEntry writes a journal whole or not at all.                *)
THEOREM JournalsWhole == Spec => []JournalsComplete
<1>1. LedgerInv => JournalsComplete
  BY BlocksComplete DEF LedgerInv
<1> QED BY Invariance, <1>1, PTL

(* logAudit is called once for every journal and every account opened.     *)
THEOREM AuditComplete == Spec => []AuditTrail
<1>1. LedgerInv => AuditTrail
  BY DEF LedgerInv
<1> QED BY Invariance, <1>1, PTL
=============================================================================
