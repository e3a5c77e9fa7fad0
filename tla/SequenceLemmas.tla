---------------------------- MODULE SequenceLemmas ----------------------------
(***************************************************************************)
(* Induction and recursion over the natural numbers, in the form the       *)
(* provers can instantiate (sets and functions in place of operators), and *)
(* what they give about sequences: the lemmas the other proof modules of   *)
(* this directory share.                                                   *)
(***************************************************************************)
EXTENDS Selection, SequencesExt, SequenceTheorems, FiniteSetTheorems,
        WellFoundedInduction, TLAPS

-----------------------------------------------------------------------------
(* Induction and recursion *)

\* A nonempty set of natural numbers has a least element.
LEMMA Least ==
  ASSUME NEW T \in SUBSET Nat, T # {}
  PROVE  \E x \in T : \A y \in T : x <= y
<1> DEFINE R == {r \in Nat \X Nat : r[1] < r[2]}
<1>1. IsWellFoundedOn(R, Nat)
  BY NatLessThanWellFounded DEF OpToRel
<1>2. PICK x \in T : \A y \in T : ~(<<y, x>> \in R)
  <2> HIDE DEF R
  <2> QED BY <1>1, WFMin
<1>3. ASSUME NEW y \in T PROVE x <= y
  <2>1. x \in Nat /\ y \in Nat /\ <<y, x>> \in Nat \X Nat
    OBVIOUS
  <2>2. <<y, x>>[1] = y /\ <<y, x>>[2] = x
    OBVIOUS
  <2>3. ~(y < x)
    BY <1>2, <2>1, <2>2
  <2> QED BY <2>1, <2>3
<1> QED BY <1>3

\* So has a nonempty set of integers that is bounded from below ...
LEMMA LeastOf ==
  ASSUME NEW lo \in Int, NEW S \in SUBSET Int, S # {}, \A y \in S : lo <= y
  PROVE  \E x \in S : \A y \in S : x <= y
<1> DEFINE T == {k \in Nat : lo + k \in S}
<1>1. \A y \in S : y - lo \in Nat /\ lo + (y - lo) = y
  OBVIOUS
<1>2. \A y \in S : y - lo \in T
  BY <1>1
<1>3. T \in SUBSET Nat /\ T # {}
  BY <1>2
<1>4. PICK k \in T : \A l \in T : k <= l
  <2> HIDE DEF T
  <2> QED BY <1>3, Least
<1>5. ASSUME NEW y \in S PROVE lo + k <= y
  <2>1. k <= y - lo
    BY <1>2, <1>4
  <2> QED BY <2>1
<1> QED BY <1>4, <1>5

\* ... and one bounded from above has a greatest element.
LEMMA GreatestOf ==
  ASSUME NEW hi \in Int, NEW S \in SUBSET Int, S # {}, \A y \in S : y <= hi
  PROVE  \E x \in S : \A y \in S : x >= y
<1> DEFINE T == {0 - y : y \in S}
<1>1. T \in SUBSET Int /\ T # {} /\ 0 - hi \in Int /\ \A z \in T : 0 - hi <= z
  <2>1. \A y \in S : 0 - y \in Int /\ 0 - hi <= 0 - y
    OBVIOUS
  <2>2. T # {}
    OBVIOUS
  <2> QED BY <2>1, <2>2
<1>2. PICK z \in T : \A u \in T : z <= u
  <2> HIDE DEF T
  <2> QED BY <1>1, LeastOf
<1>3. PICK x \in S : z = 0 - x
  BY <1>2
<1>4. ASSUME NEW y \in S PROVE x >= y
  <2>1. 0 - y \in T /\ z <= 0 - y
    BY <1>2
  <2> QED BY <1>3, <2>1
<1> QED BY <1>4

\* A set with 0 and, with each number, the next one has all of them.
LEMMA Induction ==
  ASSUME NEW T \in SUBSET Nat, 0 \in T, \A n \in T : n + 1 \in T
  PROVE  \A n \in Nat : n \in T
<1> SUFFICES ASSUME Nat \ T # {} PROVE FALSE
  OBVIOUS
<1>1. PICK n \in Nat \ T : \A k \in Nat \ T : n <= k
  BY Least
<1>2. n - 1 \in Nat \ T
  BY <1>1
<1> QED BY <1>1, <1>2

\* What holds at 0 and passes from each number below n to the next.
LEMMA InductionUpTo ==
  ASSUME NEW n \in Nat, NEW T, 0 \in T, \A k \in 0..n : k \in T /\ k < n => k + 1 \in T
  PROVE  \A k \in 0..n : k \in T
<1> DEFINE U == {k \in Nat : k <= n => k \in T}
<1>1. 0 \in U
  OBVIOUS
<1>2. \A k \in U : k + 1 \in U
  OBVIOUS
<1>3. \A k \in Nat : k \in U
  <2>1. U \in SUBSET Nat
    OBVIOUS
  <2> HIDE DEF U
  <2> QED BY <1>1, <1>2, <2>1, Induction
<1> QED BY <1>3

\* A function can be defined by recursion along 0..n ...
LEMMA RecursionExists ==
  ASSUME NEW A, NEW base \in A, NEW n \in Nat, NEW step \in [1..n -> [A -> A]]
  PROVE  \E f \in [0..n -> A] : f[0] = base /\ \A i \in 1..n : f[i] = step[i][f[i - 1]]
<1> DEFINE Good(k, f) == f[0] = base /\ \A i \in 1..k : f[i] = step[i][f[i - 1]]
           T == {k \in Nat : k <= n => \E f \in [0..k -> A] : Good(k, f)}
<1>1. 0 \in T
  <2>1. [i \in 0..0 |-> base] \in [0..0 -> A] /\ Good(0, [i \in 0..0 |-> base])
    OBVIOUS
  <2> QED BY <2>1
<1>2. ASSUME NEW k \in T PROVE k + 1 \in T
  <2> SUFFICES ASSUME k + 1 <= n PROVE \E f \in [0..(k + 1) -> A] : Good(k + 1, f)
    OBVIOUS
  <2>1. PICK f \in [0..k -> A] : Good(k, f)
    BY <1>2
  <2>2. f[k] \in A /\ step[k + 1] \in [A -> A]
    BY <1>2
  <2> DEFINE g == [i \in 0..(k + 1) |-> IF i = k + 1 THEN step[k + 1][f[k]] ELSE f[i]]
  <2>3. g \in [0..(k + 1) -> A]
    BY <2>2, <1>2
  <2>4. Good(k + 1, g)
    BY <2>1, <2>2, <1>2
  <2> QED BY <2>3, <2>4
<1>3. n \in T
  <2> HIDE DEF T
  <2>1. T \subseteq Nat BY DEF T
  <2> QED BY <1>1, <1>2, <2>1, Induction
<1> QED BY <1>3

\* ... and one that satisfies such a recursion has its values in A.
LEMMA RecursionType ==
  ASSUME NEW A, NEW base \in A, NEW n \in Nat, NEW step \in [1..n -> [A -> A]],
         NEW f, f[0] = base, \A i \in 1..n : f[i - 1] \in A => f[i] = step[i][f[i - 1]]
  PROVE  \A i \in 0..n : f[i] \in A
<1> DEFINE T == {k \in 0..n : f[k] \in A}
<1>1. 0 \in T
  OBVIOUS
<1>2. ASSUME NEW k \in 0..n, k \in T, k < n PROVE k + 1 \in T
  <2>1. f[k] \in A /\ k + 1 \in 1..n /\ (k + 1) - 1 = k
    BY <1>2
  <2>2. f[k + 1] = step[k + 1][f[k]]
    BY <2>1
  <2> QED BY <2>1, <2>2
<1>3. \A k \in 0..n : k \in T
  <2> HIDE DEF T
  <2> QED BY <1>1, <1>2, InductionUpTo
<1> QED BY <1>3

-----------------------------------------------------------------------------
(* The elements of a sequence *)

LEMMA ElementsType ==
  ASSUME NEW T, NEW s \in Seq(T)
  PROVE  ToSet(s) \subseteq T /\ (s # <<>> => Head(s) \in ToSet(s) /\ Head(s) = s[1])
<1>1. \A i \in DOMAIN s : s[i] \in T
  BY LenProperties
<1>2. ASSUME s # <<>> PROVE Head(s) \in ToSet(s) /\ Head(s) = s[1]
  <2>1. Len(s) \in Nat \ {0} /\ DOMAIN s = 1..Len(s)
    BY <1>2, EmptySeq, LenProperties
  <2>2. Head(s) = s[1] /\ 1 \in DOMAIN s
    BY <1>2, <2>1
  <2> QED BY <2>2 DEF ToSet
<1> QED BY <1>1, <1>2 DEF ToSet

LEMMA ElementsOfEmpty == ToSet(<<>>) = {}
<1>1. DOMAIN <<>> = {}
  <2>1. <<>> \in Seq({}) /\ Len(<<>>) = 0
    BY EmptySeq
  <2> QED BY <2>1, LenProperties
<1> QED BY <1>1 DEF ToSet

LEMMA ElementsOfAppend ==
  ASSUME NEW T, NEW s \in Seq(T), NEW e \in T
  PROVE  ToSet(Append(s, e)) = ToSet(s) \cup {e}
<1> DEFINE t == Append(s, e)
<1>1. /\ t \in Seq(T) /\ Len(t) = Len(s) + 1
      /\ \A i \in 1..Len(s) : t[i] = s[i]
      /\ t[Len(s) + 1] = e
  BY AppendProperties
<1>2. Len(s) \in Nat /\ DOMAIN s = 1..Len(s) /\ DOMAIN t = 1..(Len(s) + 1)
  BY <1>1, LenProperties
<1> HIDE DEF t
<1>3. \A i \in DOMAIN t : i \in DOMAIN s \/ i = Len(s) + 1
  BY <1>2
<1>4. \A i \in DOMAIN s : i \in DOMAIN t
  BY <1>2
<1>5. Len(s) + 1 \in DOMAIN t
  BY <1>2
<1> QED BY <1>1, <1>2, <1>3, <1>4, <1>5 DEF ToSet

LEMMA ElementsOfTail ==
  ASSUME NEW T, NEW s \in Seq(T), s # <<>>
  PROVE  ToSet(s) = {Head(s)} \cup ToSet(Tail(s))
<1> DEFINE t == Tail(s)
<1>1. /\ t \in Seq(T) /\ Len(t) = Len(s) - 1
      /\ \A i \in 1..Len(t) : t[i] = s[i + 1]
  BY HeadTailProperties
<1>2. Len(s) \in Nat \ {0} /\ DOMAIN s = 1..Len(s) /\ DOMAIN t = 1..Len(t)
  BY <1>1, LenProperties, EmptySeq
<1>3. Head(s) = s[1]
  BY ElementsType
<1> HIDE DEF t
<1>4. \A i \in DOMAIN s : i = 1 \/ (i - 1 \in DOMAIN t /\ t[i - 1] = s[i])
  <2>1. \A i \in DOMAIN s : i # 1 => i - 1 \in 1..Len(t) /\ (i - 1) + 1 = i
    BY <1>1, <1>2
  <2> QED BY <1>1, <1>2, <2>1
<1>5. \A i \in DOMAIN t : i + 1 \in DOMAIN s /\ t[i] = s[i + 1]
  BY <1>1, <1>2
<1>6. 1 \in DOMAIN s
  BY <1>2
<1>7. ToSet(s) \subseteq {Head(s)} \cup ToSet(t)
  BY <1>3, <1>4 DEF ToSet
<1>8. {Head(s)} \cup ToSet(t) \subseteq ToSet(s)
  BY <1>3, <1>5, <1>6 DEF ToSet
<1> QED BY <1>7, <1>8 DEF t

\* Without repetitions.
LEMMA DistinctAppend ==
  ASSUME NEW T, NEW s \in Seq(T), IsInjective(s), NEW e \in T, e \notin ToSet(s)
  PROVE  IsInjective(Append(s, e))
<1> DEFINE t == Append(s, e)
<1>1. /\ t \in Seq(T) /\ Len(t) = Len(s) + 1
      /\ \A i \in 1..Len(s) : t[i] = s[i]
      /\ t[Len(s) + 1] = e
  BY AppendProperties
<1>2. Len(s) \in Nat /\ DOMAIN s = 1..Len(s) /\ DOMAIN t = 1..(Len(s) + 1)
  BY <1>1, LenProperties
<1> HIDE DEF t
<1>3. \A i \in DOMAIN t : (i \in DOMAIN s /\ t[i] = s[i]) \/ (i = Len(s) + 1 /\ t[i] = e)
  BY <1>1, <1>2
<1>4. \A i \in DOMAIN s : s[i] # e
  BY DEF ToSet
<1>5. IsInjective(t)
  BY <1>3, <1>4 DEF IsInjective
<1> QED BY <1>5 DEF t

LEMMA DistinctTail ==
  ASSUME NEW T, NEW s \in Seq(T), s # <<>>, IsInjective(s)
  PROVE  IsInjective(Tail(s)) /\ Head(s) \notin ToSet(Tail(s))
<1> DEFINE t == Tail(s)
<1>1. /\ t \in Seq(T) /\ Len(t) = Len(s) - 1
      /\ \A i \in 1..Len(t) : t[i] = s[i + 1]
  BY HeadTailProperties
<1>2. Len(s) \in Nat \ {0} /\ DOMAIN s = 1..Len(s) /\ DOMAIN t = 1..Len(t)
  BY <1>1, LenProperties, EmptySeq
<1>3. Head(s) = s[1]
  BY ElementsType
<1> HIDE DEF t
<1>4. \A i \in DOMAIN t : i + 1 \in DOMAIN s /\ i + 1 # 1 /\ t[i] = s[i + 1] /\ i \in Nat
  BY <1>1, <1>2
<1>5. IsInjective(t)
  BY <1>4 DEF IsInjective
<1>6. Head(s) \notin ToSet(t)
  <2>1. 1 \in DOMAIN s
    BY <1>2
  <2> QED BY <1>3, <1>4, <2>1 DEF IsInjective, ToSet
<1> QED BY <1>5, <1>6 DEF t

-----------------------------------------------------------------------------
(* Selections *)

LEMMA SelectedRecursion ==
  ASSUME NEW T, NEW s \in Seq(T), NEW S
  PROVE  /\ SelectedOfFirst(s, S) \in [0..Len(s) -> Seq(T)]
         /\ SelectedOfFirst(s, S)[0] = <<>>
         /\ \A n \in 1..Len(s) :
              SelectedOfFirst(s, S)[n] =
                IF s[n] \in S THEN Append(SelectedOfFirst(s, S)[n - 1], s[n])
                              ELSE SelectedOfFirst(s, S)[n - 1]
<1> DEFINE F == SelectedOfFirst(s, S)
           N == Len(s)
           A == Seq(T)
           Body(f, n) == IF s[n] \in S THEN Append(f[n - 1], s[n]) ELSE f[n - 1]
           P(f) == f = [n \in 0..N |-> IF n = 0 THEN <<>> ELSE Body(f, n)]
           step == [n \in 1..N |-> [q \in A |-> IF s[n] \in S THEN Append(q, s[n]) ELSE q]]
<1>1. N \in Nat /\ <<>> \in A
  BY LenProperties, EmptySeq
<1>2. step \in [1..N -> [A -> A]]
  BY AppendProperties, LenProperties, ElementOfSeq
<1>3. \A n \in 1..N : n - 1 \in 0..N /\ n \in 0..N /\ n # 0
  BY <1>1
<1>4. \E f : P(f)
  <2>1. PICK f \in [0..N -> A] : f[0] = <<>> /\ \A i \in 1..N : f[i] = step[i][f[i - 1]]
    <3> DEFINE b == <<>>
    <3>1. b \in A /\ N \in Nat
      BY <1>1
    <3> HIDE DEF step, A, N, b, P, Body
    <3>2. \E f \in [0..N -> A] : f[0] = b /\ \A i \in 1..N : f[i] = step[i][f[i - 1]]
      BY <1>2, <3>1, RecursionExists, SMTT(40)
    <3> QED BY <3>2 DEF b
  <2>2. \A n \in 1..N : f[n] = Body(f, n)
    BY <1>3, <2>1
  <2>3. P(f)
    <3> HIDE DEF step, N, A, Body
    <3>1. \A n \in 0..N : n = 0 \/ n \in 1..N
      BY <1>1
    <3>2. \A n \in 0..N : f[n] = IF n = 0 THEN <<>> ELSE Body(f, n)
      BY <1>3, <2>1, <2>2, <3>1
    <3> QED BY <2>1, <3>2
  <2> QED BY <2>3
<1>5. F = CHOOSE f : P(f)
  BY Zenon DEF SelectedOfFirst
<1>6. P(F)
  <2> HIDE DEF P
  <2> QED BY <1>4, <1>5
<1>7. /\ F = [n \in 0..N |-> F[n]]
      /\ F[0] = <<>>
      /\ \A n \in 1..N : F[n] = Body(F, n)
  <2> HIDE DEF F, N, Body
  <2>1. 0 \in 0..N
    BY <1>1
  <2> QED BY <1>6, <1>3, <2>1
<1>8. \A n \in 1..N : F[n - 1] \in A => F[n] = step[n][F[n - 1]]
  <2> HIDE DEF F
  <2> QED BY <1>7
<1>9. F \in [0..N -> A]
  <2> DEFINE b == <<>>
  <2>1. b \in A /\ F[0] = b
    BY <1>1, <1>7
  <2> HIDE DEF step, A, N, F, b, P, Body
  <2>2. \A i \in 0..N : F[i] \in A
    BY <1>1, <1>2, <1>8, <2>1, RecursionType
  <2> QED BY <1>7, <2>2
<1> QED BY <1>7, <1>9

\* A selection has the elements of the sequence that are in the set, and
\* repeats none that the sequence does not repeat.
LEMMA SelectedElements ==
  ASSUME NEW T, NEW s \in Seq(T), NEW S
  PROVE  /\ Selected(s, S) \in Seq(T)
         /\ ToSet(Selected(s, S)) = ToSet(s) \cap S
         /\ IsInjective(s) => IsInjective(Selected(s, S))
<1> DEFINE F == SelectedOfFirst(s, S)
           N == Len(s)
           First(n) == {s[i] : i \in 1..n}
           Good(n) == ToSet(F[n]) = First(n) \cap S /\ (IsInjective(s) => IsInjective(F[n]))
           K == {n \in 0..N : Good(n)}
<1>1. /\ F \in [0..N -> Seq(T)]
      /\ F[0] = <<>>
      /\ \A n \in 1..N : F[n] = IF s[n] \in S THEN Append(F[n - 1], s[n]) ELSE F[n - 1]
  BY SelectedRecursion
<1>2. N \in Nat /\ DOMAIN s = 1..N /\ \A n \in 1..N : s[n] \in T
  BY LenProperties
<1> HIDE DEF F, N
<1>3. 0 \in K
  <2>1. First(0) = {}
    OBVIOUS
  <2>2. ToSet(F[0]) = {}
    BY <1>1, ElementsOfEmpty
  <2>3. IsInjective(F[0])
    BY <2>2 DEF ToSet, IsInjective
  <2> QED BY <1>2, <2>1, <2>2, <2>3
<1>4. ASSUME NEW n \in 0..N, n \in K, n < N PROVE n + 1 \in K
  <2>1. n + 1 \in 1..N /\ (n + 1) - 1 = n /\ n + 1 \in 0..N
    BY <1>2, <1>4
  <2>2. F[n + 1] = IF s[n + 1] \in S THEN Append(F[n], s[n + 1]) ELSE F[n]
    BY <1>1, <2>1
  <2>3. First(n + 1) = First(n) \cup {s[n + 1]}
    <3>1. \A i \in 1..(n + 1) : i \in 1..n \/ i = n + 1
      BY <2>1
    <3>2. \A i \in 1..n : i \in 1..(n + 1)
      BY <2>1
    <3>3. n + 1 \in 1..(n + 1)
      BY <2>1
    <3> QED BY <3>1, <3>2, <3>3
  <2>4. F[n] \in Seq(T) /\ s[n + 1] \in T
    BY <1>1, <1>2, <2>1
  <2>5. Good(n)
    BY <1>4
  <2>6. IsInjective(s) => s[n + 1] \notin First(n)
    <3>1. \A i \in 1..n : i \in DOMAIN s /\ i # n + 1
      BY <1>2, <1>4
    <3> QED BY <1>2, <2>1, <3>1 DEF IsInjective
  <2>7. CASE s[n + 1] \in S
    <3>1. ToSet(F[n + 1]) = ToSet(F[n]) \cup {s[n + 1]}
      BY <2>2, <2>4, <2>7, ElementsOfAppend
    <3>2. IsInjective(s) => IsInjective(F[n + 1])
      BY <2>2, <2>4, <2>5, <2>6, <2>7, DistinctAppend
    <3> HIDE DEF First
    <3> QED BY <2>1, <2>3, <2>5, <2>7, <3>1, <3>2
  <2>8. CASE s[n + 1] \notin S
    <3> HIDE DEF First
    <3> QED BY <2>1, <2>2, <2>3, <2>5, <2>8
  <2> QED BY <2>7, <2>8
<1>5. N \in K
  <2> HIDE DEF K
  <2>1. \A n \in 0..N : n \in K
    BY <1>2, <1>3, <1>4, InductionUpTo
  <2> QED BY <1>2, <2>1
<1>6. First(N) = ToSet(s)
  BY <1>2 DEF ToSet
<1>7. Selected(s, S) = F[N] /\ F[N] \in Seq(T)
  BY <1>1, <1>2 DEF Selected, F, N
<1> HIDE DEF First
<1> QED BY <1>5, <1>6, <1>7

-----------------------------------------------------------------------------
(* Parts and copies of sequences *)

\* A sequence has finitely many elements.
LEMMA ElementsFinite ==
  ASSUME NEW T, NEW s \in Seq(T)
  PROVE  IsFiniteSet(ToSet(s)) /\ Cardinality(ToSet(s)) \in Nat
<1>1. s \in [1..Len(s) -> T] /\ Len(s) \in Nat /\ DOMAIN s = 1..Len(s)
  BY LenProperties
<1>2. s \in Surjection(1..Len(s), ToSet(s))
  BY <1>1 DEF Surjection, ToSet
<1>3. IsFiniteSet(1..Len(s))
  BY <1>1, FS_Interval
<1> QED BY <1>2, <1>3, FS_Surjection, FS_CardinalityType

\* Reversing a sequence keeps its elements.
LEMMA ReverseType ==
  ASSUME NEW T, NEW s \in Seq(T)
  PROVE  Reverse(s) \in Seq(T) /\ Len(Reverse(s)) = Len(s)
<1>1. Len(s) \in Nat /\ \A i \in 1..Len(s) : s[i] \in T
  BY LenProperties
<1>2. Reverse(s) \in [1..Len(s) -> T]
  BY <1>1 DEF Reverse
<1> QED BY <1>1, <1>2, SeqDef, LenProperties

\* An inserted element moves those after it by one place.
LEMMA InsertedElements ==
  ASSUME NEW T, NEW s \in Seq(T), NEW i \in 1..(Len(s) + 1), NEW e \in T
  PROVE  /\ InsertAt(s, i, e) \in Seq(T) /\ Len(InsertAt(s, i, e)) = Len(s) + 1
         /\ \A j \in 1..(Len(s) + 1) :
              InsertAt(s, i, e)[j] = IF j < i THEN s[j] ELSE IF j = i THEN e ELSE s[j - 1]
<1> DEFINE N == Len(s)
           left == SubSeq(s, 1, i - 1)
           right == SubSeq(s, i, N)
           mid == left \o <<e>>
<1>1. N \in Nat /\ i \in Int /\ 1 <= i /\ i <= N + 1 /\ \A j \in 1..N : s[j] \in T
  BY LenProperties
<1>2. /\ left \in Seq(T) /\ Len(left) = i - 1 /\ \A j \in 1..(i - 1) : left[j] = s[j]
  <2>1. 1 \in Int /\ i - 1 \in Int /\ \A j \in 1..(i - 1) : s[j] \in T /\ 1 + j - 1 = j
    BY <1>1
  <2>2. /\ left \in Seq(T) /\ Len(left) = IF 1 <= i - 1 THEN i - 1 - 1 + 1 ELSE 0
        /\ \A j \in 1..(i - 1 - 1 + 1) : left[j] = s[1 + j - 1]
    BY <2>1, SubSeqProperties
  <2> HIDE DEF left
  <2> QED BY <1>1, <2>1, <2>2
<1>3. /\ right \in Seq(T) /\ Len(right) = N - i + 1
      /\ \A j \in 1..(N - i + 1) : right[j] = s[i + j - 1]
  <2>1. i \in Int /\ N \in Int /\ \A j \in i..N : s[j] \in T
    BY <1>1
  <2>2. /\ right \in Seq(T) /\ Len(right) = IF i <= N THEN N - i + 1 ELSE 0
        /\ \A j \in 1..(N - i + 1) : right[j] = s[i + j - 1]
    BY <2>1, SubSeqProperties
  <2> HIDE DEF right
  <2> QED BY <1>1, <2>2
<1>4. <<e>> \in Seq(T) /\ Len(<<e>>) = 1 /\ <<e>>[1] = e
  OBVIOUS
<1> HIDE DEF left, right
<1>5. /\ mid \in Seq(T) /\ Len(mid) = i
      /\ \A j \in 1..i : mid[j] = IF j <= i - 1 THEN left[j] ELSE <<e>>[j - (i - 1)]
  <2>1. (i - 1) + 1 = i
    BY <1>1
  <2> QED BY <1>2, <1>4, <2>1, ConcatProperties
<1>6. \A j \in 1..i : mid[j] = IF j < i THEN s[j] ELSE e
  <2>1. \A j \in 1..i : j < i => j <= i - 1 /\ j \in 1..(i - 1)
    BY <1>1
  <2>2. \A j \in 1..i : ~(j < i) => ~(j <= i - 1) /\ j - (i - 1) = 1
    BY <1>1
  <2> HIDE DEF mid
  <2> QED BY <1>2, <1>4, <1>5, <2>1, <2>2
<1> HIDE DEF mid
<1>7. InsertAt(s, i, e) = mid \o right
  BY DEF InsertAt, mid, left, right, N
<1>8. /\ mid \o right \in Seq(T) /\ Len(mid \o right) = N + 1
      /\ \A j \in 1..(N + 1) : (mid \o right)[j] = IF j <= i THEN mid[j] ELSE right[j - i]
  <2>1. Len(mid) + Len(right) = N + 1
    BY <1>1, <1>3, <1>5
  <2>2. /\ mid \o right \in Seq(T) /\ Len(mid \o right) = Len(mid) + Len(right)
        /\ \A j \in 1..(Len(mid) + Len(right)) :
             (mid \o right)[j] = IF j <= Len(mid) THEN mid[j] ELSE right[j - Len(mid)]
    BY <1>3, <1>5, ConcatProperties
  <2> HIDE DEF N
  <2> QED BY <1>5, <2>1, <2>2
<1>9. ASSUME NEW j \in 1..(N + 1)
      PROVE  (mid \o right)[j] = IF j < i THEN s[j] ELSE IF j = i THEN e ELSE s[j - 1]
  <2>1. CASE j <= i
    <3>1. j \in 1..i
      BY <1>1, <2>1
    <3> QED BY <1>1, <1>6, <1>8, <2>1, <3>1
  <2>2. CASE j > i
    <3>1. j - i \in 1..(N - i + 1) /\ i + (j - i) - 1 = j - 1 /\ ~(j <= i) /\ ~(j < i) /\ j # i
      BY <1>1, <2>2
    <3>2. right[j - i] = s[j - 1]
      <4>1. right[j - i] = s[i + (j - i) - 1]
        BY <1>3, <3>1
      <4> QED BY <3>1, <4>1
    <3>3. (mid \o right)[j] = right[j - i]
      BY <1>8, <3>1
    <3>4. ~(j < i) /\ j # i
      BY <3>1
    <3> QED BY <3>2, <3>3, <3>4, Zenon
  <2>3. j <= i \/ j > i
    BY <1>1
  <2> QED BY <2>1, <2>2, <2>3, Zenon
<1> QED BY <1>7, <1>8, <1>9 DEF N

\* An element that is not selected may be inserted anywhere, if the others are
\* selected as before.
LEMMA SelectedInsert ==
  ASSUME NEW T, NEW s \in Seq(T), NEW i \in 1..(Len(s) + 1), NEW e \in T,
         NEW S, NEW R, e \notin R, \A x \in ToSet(s) : x \in R <=> x \in S
  PROVE  Selected(InsertAt(s, i, e), R) = Selected(s, S)
<1> DEFINE t == InsertAt(s, i, e)
           N == Len(s)
           F == SelectedOfFirst(s, S)
           G == SelectedOfFirst(t, R)
           Good(n) == G[n] = IF n < i THEN F[n] ELSE F[n - 1]
           K == {n \in 0..(N + 1) : Good(n)}
<1>1. N \in Nat /\ i \in Int /\ 1 <= i /\ i <= N + 1 /\ \A j \in 1..N : s[j] \in R <=> s[j] \in S
  BY LenProperties DEF ToSet
<1>2. /\ t \in Seq(T) /\ Len(t) = N + 1
      /\ \A j \in 1..(N + 1) : t[j] = IF j < i THEN s[j] ELSE IF j = i THEN e ELSE s[j - 1]
  BY InsertedElements
<1>3. /\ F[0] = <<>>
      /\ \A n \in 1..N : F[n] = IF s[n] \in S THEN Append(F[n - 1], s[n]) ELSE F[n - 1]
  BY SelectedRecursion
<1> HIDE DEF t
<1>4. /\ G[0] = <<>>
      /\ \A n \in 1..(N + 1) : G[n] = IF t[n] \in R THEN Append(G[n - 1], t[n]) ELSE G[n - 1]
  BY <1>2, SelectedRecursion
<1> HIDE DEF F, G, N
<1>5. 0 \in K
  BY <1>1, <1>3, <1>4
<1>6. ASSUME NEW n \in 0..(N + 1), n \in K, n < N + 1 PROVE n + 1 \in K
  <2>1. /\ n + 1 \in 1..(N + 1) /\ n + 1 \in 0..(N + 1) /\ (n + 1) - 1 = n /\ n \in Nat
        /\ Good(n)
    BY <1>1, <1>6
  <2>2. G[n + 1] = IF t[n + 1] \in R THEN Append(G[n], t[n + 1]) ELSE G[n]
    BY <1>4, <2>1
  <2>3. CASE n + 1 < i
    <3>1. n + 1 \in 1..N /\ n < i
      BY <1>1, <2>1, <2>3
    <3>2. t[n + 1] = s[n + 1] /\ G[n] = F[n]
      BY <1>2, <2>1, <2>3, <3>1
    <3>3. F[n + 1] = IF s[n + 1] \in S THEN Append(F[n], s[n + 1]) ELSE F[n]
      BY <1>3, <2>1, <3>1
    <3>4. G[n + 1] = F[n + 1]
      BY <1>1, <2>2, <3>1, <3>2, <3>3
    <3> QED BY <2>1, <2>3, <3>4
  <2>4. CASE n + 1 = i
    <3>1. t[n + 1] = e /\ n < i /\ ~(n + 1 < i)
      BY <1>2, <2>1, <2>4
    <3>2. G[n + 1] = G[n] /\ G[n] = F[n]
      BY <2>1, <2>2, <3>1
    <3> QED BY <2>1, <3>1, <3>2
  <2>5. CASE n + 1 > i
    <3>1. n \in 1..N /\ ~(n < i) /\ ~(n + 1 < i) /\ n + 1 # i
      BY <1>1, <2>1, <2>5
    <3>2. t[n + 1] = s[n] /\ G[n] = F[n - 1]
      BY <1>2, <2>1, <3>1
    <3>3. F[n] = IF s[n] \in S THEN Append(F[n - 1], s[n]) ELSE F[n - 1]
      BY <1>3, <3>1
    <3>4. G[n + 1] = F[n]
      BY <1>1, <2>2, <3>1, <3>2, <3>3
    <3> QED BY <2>1, <3>1, <3>4
  <2> QED BY <1>1, <2>1, <2>3, <2>4, <2>5
<1>7. N + 1 \in K
  <2> HIDE DEF K
  <2>1. N + 1 \in Nat /\ N + 1 \in 0..(N + 1)
    BY <1>1
  <2>2. \A n \in 0..(N + 1) : n \in K
    BY <1>5, <1>6, <2>1, InductionUpTo
  <2> QED BY <2>1, <2>2
<1>8. G[N + 1] = F[N]
  BY <1>1, <1>7
<1> QED BY <1>2, <1>8 DEF Selected, F, G, N, t
=============================================================================
