----------------------------- MODULE ListLemmas -----------------------------
(***************************************************************************)
(* Lists and recursion over them, for the proofs: the least number with a  *)
(* property exists, hence induction, hence the greatest number below a     *)
(* bound, hence the function that FoldLeft defines by recursion over sets  *)
(* of positions.  The facts are about sets and functions only, so that the *)
(* provers can use them of any operator that is folded.                    *)
(***************************************************************************)
EXTENDS Integers, Sequences, SequencesExt, TLAPS, SequenceTheorems, WellFoundedInduction,
        FiniteSetTheorems

-----------------------------------------------------------------------------
(* Lists.  What is in them does not matter: they are typed by their entries. *)

IsList(l) == l \in Seq({l[i] : i \in DOMAIN l})

\* A function on 1..n is a list.
LEMMA FunctionIsList ==
    ASSUME NEW n \in Nat, NEW f, f = [i \in 1..n |-> f[i]]
    PROVE  IsList(f) /\ Len(f) = n
  <1> DEFINE E == {f[i] : i \in 1..n}
  <1>1. \A i \in 1..n : f[i] \in E
    OBVIOUS
  <1>2. DOMAIN f = 1..n
    OBVIOUS
  <1> HIDE DEF E
  <1>3. f \in [1..n -> E]
    BY <1>1
  <1>4. f \in Seq(E) /\ Len(f) = n
    BY <1>3
  <1> QED
    BY <1>2, <1>4 DEF IsList, E

\* A list is a function on its positions.
LEMMA ListIsFunction ==
    ASSUME NEW l, IsList(l)
    PROVE  Len(l) \in Nat /\ DOMAIN l = 1..Len(l) /\ l = [i \in 1..Len(l) |-> l[i]]
  BY DEF IsList

\* Sequences are lists.
LEMMA SeqIsList ==
    ASSUME NEW S, NEW l \in Seq(S)
    PROVE  IsList(l)
  <1>1. Len(l) \in Nat /\ l = [i \in 1..Len(l) |-> l[i]]
    OBVIOUS
  <1> QED
    BY <1>1, FunctionIsList

\* One more entry at the end
LEMMA ListAppend ==
    ASSUME NEW l, IsList(l), NEW x
    PROVE  /\ IsList(Append(l, x)) /\ Len(Append(l, x)) = Len(l) + 1
           /\ DOMAIN Append(l, x) = 1..(Len(l) + 1)
           /\ \A i \in 1..Len(l) : Append(l, x)[i] = l[i]
           /\ Append(l, x)[Len(l) + 1] = x
  <1> DEFINE E == {l[i] : i \in DOMAIN l} \cup {x}
  <1>1. Len(l) \in Nat /\ DOMAIN l = 1..Len(l) /\ l = [i \in 1..Len(l) |-> l[i]]
    BY ListIsFunction
  <1>2. \A i \in 1..Len(l) : l[i] \in E
    BY <1>1
  <1>3. x \in E
    OBVIOUS
  <1> HIDE DEF E
  <1>4. l \in Seq(E)
    BY <1>1, <1>2
  <1>5. Append(l, x) \in Seq(E)
    BY <1>3, <1>4
  <1>6. IsList(Append(l, x))
    BY <1>5, SeqIsList
  <1> QED
    BY <1>3, <1>4, <1>5, <1>6

-----------------------------------------------------------------------------
(* Numbers *)

\* A non-empty set of numbers has a least one.
LEMMA LeastExists ==
    ASSUME NEW S, S \subseteq Nat, S # {}
    PROVE  \E x \in S : \A y \in S : x <= y
  <1> DEFINE R == OpToRel(<, Nat)
  <1>1. PICK x \in S : \A y \in S : ~(<<y, x>> \in R)
    <2>1. IsWellFoundedOn(R, Nat)
      BY NatLessThanWellFounded
    <2> HIDE DEF R
    <2> QED
      BY <2>1, WFMin
  <1>2. \A y \in S : ~(y < x)
    BY <1>1 DEF OpToRel
  <1> QED
    BY <1>2

\* Induction: a set that holds 0 and every successor holds all numbers.
LEMMA Induction ==
    ASSUME NEW P, 0 \in P, \A k \in Nat : k \in P => k + 1 \in P
    PROVE  Nat \subseteq P
  <1> SUFFICES ASSUME Nat \ P # {} PROVE FALSE
    OBVIOUS
  <1>1. PICK x \in Nat \ P : \A y \in Nat \ P : x <= y
    BY LeastExists
  <1>2. x # 0 /\ x - 1 \in Nat
    BY <1>1
  <1>3. x - 1 \in P
    BY <1>1, <1>2
  <1>4. (x - 1) + 1 = x
    BY <1>1
  <1> QED
    BY <1>1, <1>2, <1>3, <1>4

\* A non-empty set of numbers below a bound has a greatest one.
LEMMA MaxOf ==
    ASSUME NEW n \in Nat, NEW s \in SUBSET (1..n), s # {}
    PROVE  Max(s) \in s /\ \A y \in s : y <= Max(s)
  <1> DEFINE U == {b \in Nat : \A y \in s : y <= b}
  <1>1. n \in U
    OBVIOUS
  <1>2. PICK b \in U : \A c \in U : b <= c
    <2>1. U \subseteq Nat /\ U # {}
      BY <1>1
    <2> HIDE DEF U
    <2> QED
      BY <2>1, LeastExists
  <1>3. b \in s
    <2> SUFFICES ASSUME b \notin s PROVE FALSE
      OBVIOUS
    <2>1. PICK y \in s : y <= b
      BY <1>2
    <2>2. y \in 1..n /\ b - 1 \in Nat
      BY <1>2, <2>1
    <2>3. \A z \in s : z <= b - 1
      BY <1>2
    <2>4. b - 1 \in U
      BY <2>2, <2>3
    <2> QED
      BY <1>2, <2>2, <2>4
  <1>4. \E x \in s : \A y \in s : x >= y
    BY <1>2, <1>3
  <1>5. Max(s) \in s /\ \A y \in s : Max(s) >= y
    BY <1>4 DEF Max
  <1> QED
    BY <1>5

\* The last of the first i positions
LEMMA MaxOfPrefix ==
    ASSUME NEW i \in Nat, i # 0
    PROVE  Max(1..i) = i /\ (1..i) \ {i} = 1..(i - 1)
  <1>1. 1..i \in SUBSET (1..i) /\ i \in 1..i
    OBVIOUS
  <1>2. Max(1..i) \in 1..i /\ i <= Max(1..i)
    BY <1>1, MaxOf
  <1>3. Max(1..i) = i
    BY <1>2
  <1> QED
    BY <1>3

-----------------------------------------------------------------------------
(* Removal *)

\* RemoveFirst shifts what follows a place of the entry by one.
LEMMA RemoveFirstEffect ==
    ASSUME NEW l, IsList(l), NEW n, n \in Range(l)
    PROVE  \E p \in DOMAIN l :
             /\ l[p] = n
             /\ RemoveFirst(l, n) = [i \in 1..(Len(l) - 1) |-> IF i < p THEN l[i] ELSE l[i + 1]]
  <1> DEFINE I == {i \in 1..Len(l) : l[i] = n}
             p == SelectInSeq(l, LAMBDA v : v = n)
             E == {l[i] : i \in DOMAIN l}
  <1>1. DOMAIN l = 1..Len(l) /\ Len(l) \in Nat /\ l \in Seq(E)
    BY ListIsFunction DEF IsList
  <1>2. I # {} /\ I \subseteq Nat
    BY <1>1 DEF Range
  <1>3. p = Min(I)
    BY <1>2 DEF SelectInSeq
  <1>4. RemoveFirst(l, n) = RemoveAt(l, p)
    BY <1>2 DEF RemoveFirst
  <1> HIDE DEF I, p, E
  <1>5. p \in I
    BY <1>2, <1>3, LeastExists DEF Min
  <1>6. p \in 1..Len(l) /\ l[p] = n
    BY <1>5 DEF I
  <1>7. RemoveAt(l, p) = [i \in 1..(Len(l) - 1) |-> IF i < p THEN l[i] ELSE l[i + 1]]
    <2>1. p - 1 \in 0..Len(l) /\ p + 1 \in 1..(Len(l) + 1)
      BY <1>1, <1>6
    <2> DEFINE a == SubSeq(l, 1, p - 1)
               b == SubSeq(l, p + 1, Len(l))
    <2>2. /\ a \in Seq(E) /\ Len(a) = p - 1
          /\ \A i \in 1..(p - 1) : a[i] = l[i]
      <3>1. p - 1 \in Int /\ \A i \in 1..(p - 1) : l[i] \in E
        BY <1>1, <1>6 DEF E
      <3>2. /\ a \in Seq(E)
            /\ Len(a) = IF 1 <= p - 1 THEN (p - 1) - 1 + 1 ELSE 0
            /\ \A i \in 1..((p - 1) - 1 + 1) : a[i] = l[1 + i - 1]
        BY <3>1, SubSeqProperties
      <3> HIDE DEF a
      <3>3. (p - 1) - 1 + 1 = p - 1 /\ \A i \in 1..(p - 1) : 1 + i - 1 = i
        BY <1>1, <1>6
      <3>4. Len(a) = p - 1
        BY <1>1, <1>6, <3>2
      <3> QED
        BY <3>2, <3>3, <3>4
    <2>3. /\ b \in Seq(E) /\ Len(b) = Len(l) - p
          /\ \A i \in 1..(Len(l) - p) : b[i] = l[p + i]
      <3>1. p + 1 \in Int /\ Len(l) \in Int /\ \A i \in (p + 1)..Len(l) : l[i] \in E
        BY <1>1, <1>6 DEF E
      <3>2. /\ b \in Seq(E)
            /\ Len(b) = IF p + 1 <= Len(l) THEN Len(l) - (p + 1) + 1 ELSE 0
            /\ \A i \in 1..(Len(l) - (p + 1) + 1) : b[i] = l[(p + 1) + i - 1]
        BY <3>1, SubSeqProperties
      <3> HIDE DEF a, b
      <3>3. /\ Len(l) - (p + 1) + 1 = Len(l) - p
            /\ \A i \in 1..(Len(l) - p) : (p + 1) + i - 1 = p + i
        BY <1>1, <1>6
      <3>4. Len(b) = Len(l) - p
        <4>1. Len(b) = IF p + 1 <= Len(l) THEN Len(l) - (p + 1) + 1 ELSE 0
          BY <3>2
        <4>2. \A N \in Nat : \A x \in 1..N :
                (IF x + 1 <= N THEN N - (x + 1) + 1 ELSE 0) = N - x
          OBVIOUS
        <4>3. (IF p + 1 <= Len(l) THEN Len(l) - (p + 1) + 1 ELSE 0) = Len(l) - p
          BY <1>1, <1>6, <4>2
        <4> QED
          BY <4>1, <4>3
      <3> QED
        BY <3>2, <3>3, <3>4
    <2> HIDE DEF a, b
    <2> DEFINE c == a \o b
    <2>4. /\ c \in Seq(E) /\ Len(c) = Len(l) - 1
          /\ \A i \in 1..(Len(l) - 1) :
               c[i] = IF i <= Len(a) THEN a[i] ELSE b[i - Len(a)]
      <3>1. /\ c \in Seq(E) /\ Len(c) = Len(a) + Len(b)
            /\ \A i \in 1..(Len(a) + Len(b)) :
                 c[i] = IF i <= Len(a) THEN a[i] ELSE b[i - Len(a)]
        BY <2>2, <2>3, ConcatProperties
      <3>2. Len(a) + Len(b) = Len(l) - 1
        BY <1>1, <1>6, <2>2, <2>3
      <3> HIDE DEF c
      <3> QED
        BY <3>1, <3>2
    <2> HIDE DEF c
    <2>5. \A i \in 1..(Len(l) - 1) : c[i] = IF i < p THEN l[i] ELSE l[i + 1]
      <3> SUFFICES ASSUME NEW i \in 1..(Len(l) - 1)
                   PROVE  c[i] = IF i < p THEN l[i] ELSE l[i + 1]
        OBVIOUS
      <3>1. CASE i < p
        BY <1>1, <1>6, <2>2, <2>4, <3>1
      <3>2. CASE ~(i < p)
        <4>1. i - (p - 1) \in 1..(Len(l) - p) /\ p + (i - (p - 1)) = i + 1
          BY <1>1, <1>6, <3>2
        <4>2. c[i] = b[i - (p - 1)]
          BY <1>1, <1>6, <2>2, <2>4, <3>2
        <4> DEFINE q == i - (p - 1)
        <4> HIDE DEF q
        <4>3. b[q] = l[p + q]
          BY <2>3, <4>1 DEF q
        <4> QED
          BY <3>2, <4>1, <4>2, <4>3 DEF q
      <3> QED
        BY <3>1, <3>2
    <2>6. c = [i \in 1..(Len(l) - 1) |-> c[i]]
      BY <2>4
    <2>7. RemoveAt(l, p) = c
      BY DEF RemoveAt, a, b, c
    <2> QED
      BY <2>5, <2>6, <2>7
  <1> QED
    BY <1>1, <1>4, <1>6, <1>7

-----------------------------------------------------------------------------
(* Folds *)

\* The function of sets of positions that a fold over a sequence of length n goes
\* through: the step for the last position after the steps for the others.
IsFold(it, n, base, step) ==
    it = [s \in SUBSET (1..n) |-> IF s = {} THEN base ELSE step[Max(s)][it[s \ {Max(s)}]]]

LEMMA FoldExists ==
    ASSUME NEW n \in Nat, NEW X, NEW base \in X, NEW step \in [1..n -> [X -> X]]
    PROVE  \E it \in [SUBSET (1..n) -> X] : IsFold(it, n, base, step)
  <1> DEFINE Exists(k) == \E it \in [SUBSET (1..k) -> X] : IsFold(it, k, base, step)
             P == {k \in Nat : k <= n => Exists(k)}
  <1>1. Exists(0)
    <2> DEFINE f == [s \in SUBSET (1..0) |-> base]
    <2>1. f \in [SUBSET (1..0) -> X]
      OBVIOUS
    <2>2. \A s \in SUBSET (1..0) : s = {}
      OBVIOUS
    <2>3. IsFold(f, 0, base, step)
      BY <2>2 DEF IsFold
    <2> QED
      BY <2>1, <2>3
  <1>2. ASSUME NEW k \in Nat, k + 1 <= n, Exists(k)
        PROVE  Exists(k + 1)
    <2>1. PICK f \in [SUBSET (1..k) -> X] : IsFold(f, k, base, step)
      BY <1>2
    <2> DEFINE m == k + 1
               g == [s \in SUBSET (1..m) |-> IF m \notin s THEN f[s] ELSE step[m][f[s \ {m}]]]
    <2>2. m \in 1..n /\ m \in Nat /\ k \in Nat
      BY <1>2
    <2>3. \A s \in SUBSET (1..m) : m \notin s => s \in SUBSET (1..k)
      BY <2>2
    <2>4. \A s \in SUBSET (1..m) : s \ {m} \in SUBSET (1..k)
      BY <2>2
    <2>5. \A s \in SUBSET (1..m) : m \in s => Max(s) = m
      <3> SUFFICES ASSUME NEW s \in SUBSET (1..m), m \in s PROVE Max(s) = m
        OBVIOUS
      <3> HIDE DEF m
      <3>1. Max(s) \in s /\ m <= Max(s)
        BY <2>2, MaxOf
      <3>2. Max(s) \in 1..m
        BY <3>1
      <3> QED
        BY <2>2, <3>1, <3>2
    <2> HIDE DEF m
    <2>6. g \in [SUBSET (1..m) -> X]
      <3> SUFFICES ASSUME NEW s \in SUBSET (1..m)
                   PROVE  (IF m \notin s THEN f[s] ELSE step[m][f[s \ {m}]]) \in X
        OBVIOUS
      <3>1. f[s \ {m}] \in X
        BY <2>4
      <3>2. m \notin s => f[s] \in X
        BY <2>3
      <3> QED
        BY <2>2, <3>1, <3>2
    <2>7. ASSUME NEW s \in SUBSET (1..m)
          PROVE  g[s] = IF s = {} THEN base ELSE step[Max(s)][g[s \ {Max(s)}]]
      <3>1. CASE m \in s
        <4>1. g[s] = step[m][f[s \ {m}]]
          BY <3>1
        <4>2. s \ {m} \in SUBSET (1..m) /\ g[s \ {m}] = f[s \ {m}]
          OBVIOUS
        <4>3. Max(s) = m
          BY <2>5, <3>1
        <4> QED
          BY <3>1, <4>1, <4>2, <4>3
      <3>2. CASE m \notin s
        <4>1. g[s] = f[s] /\ s \in SUBSET (1..k)
          BY <2>3, <3>2
        <4>2. f[s] = IF s = {} THEN base ELSE step[Max(s)][f[s \ {Max(s)}]]
          BY <2>1, <4>1 DEF IsFold
        <4>3. s \ {Max(s)} \in SUBSET (1..m) /\ m \notin s \ {Max(s)}
          BY <3>2
        <4>4. g[s \ {Max(s)}] = f[s \ {Max(s)}]
          BY <4>3
        <4> QED
          BY <4>1, <4>2, <4>4
      <3> QED
        BY <3>1, <3>2
    <2>8. IsFold(g, m, base, step)
      <3>1. g = [s \in SUBSET (1..m) |-> g[s]]
        OBVIOUS
      <3> HIDE DEF g
      <3> QED
        BY <2>7, <3>1 DEF IsFold
    <2> HIDE DEF g
    <2> QED
      BY <2>6, <2>8 DEF m
  <1> HIDE DEF Exists
  <1>3. 0 \in P /\ \A k \in Nat : k \in P => k + 1 \in P
    BY <1>1, <1>2
  <1>4. Nat \subseteq P
    <2> HIDE DEF P
    <2> QED
      BY <1>3, Induction
  <1>5. Exists(n)
    BY <1>4
  <1> QED
    BY <1>5 DEF Exists

\* Its values on the first positions of the sequence.
LEMMA FoldSteps ==
    ASSUME NEW n \in Nat, NEW it, NEW base, NEW step, IsFold(it, n, base, step)
    PROVE  /\ it[1..0] = base
           /\ \A i \in 1..n : it[1..i] = step[i][it[1..(i - 1)]]
  <1>1. 1..0 = {} /\ {} \in SUBSET (1..n)
    OBVIOUS
  <1>2. it[1..0] = base
    BY <1>1 DEF IsFold
  <1>3. ASSUME NEW i \in 1..n
        PROVE  it[1..i] = step[i][it[1..(i - 1)]]
    <2>1. 1..i \in SUBSET (1..n) /\ i \in 1..i /\ i \in Nat
      OBVIOUS
    <2>2. Max(1..i) \in 1..i /\ i <= Max(1..i)
      BY <2>1, MaxOf
    <2>3. Max(1..i) = i
      BY <2>2
    <2>4. (1..i) \ {i} = 1..(i - 1)
      BY <2>1
    <2>5. 1..i # {}
      BY <2>1
    <2>6. it[1..i] = step[Max(1..i)][it[(1..i) \ {Max(1..i)}]]
      BY <2>1, <2>5 DEF IsFold
    <2> QED
      BY <2>3, <2>4, <2>6
  <1> QED
    BY <1>2, <1>3

\* What every round of a loop keeps holds at the end of it.
LEMMA FoldStays ==
    ASSUME NEW n \in Nat, NEW X, NEW it, it[{}] \in X,
           \A s \in SUBSET (1..n) : s # {} /\ it[s \ {Max(s)}] \in X => it[s] \in X
    PROVE  it[1..n] \in X
  <1> DEFINE P == {i \in Nat : i <= n => it[1..i] \in X}
  <1>1. 0 \in P
    <2>1. 1..0 = {}
      OBVIOUS
    <2> QED
      BY <2>1
  <1>2. ASSUME NEW i \in Nat, i \in P PROVE i + 1 \in P
    <2> SUFFICES ASSUME i + 1 <= n PROVE it[1..(i + 1)] \in X
      OBVIOUS
    <2>1. it[1..i] \in X
      BY <1>2
    <2>2. Max(1..(i + 1)) = i + 1 /\ (1..(i + 1)) \ {i + 1} = 1..((i + 1) - 1) /\ (i + 1) - 1 = i
      BY MaxOfPrefix
    <2>3. 1..(i + 1) \in SUBSET (1..n) /\ i + 1 \in 1..(i + 1)
      OBVIOUS
    <2> HIDE DEF Max
    <2> QED
      BY <2>1, <2>2, <2>3
  <1>3. Nat \subseteq P
    <2> HIDE DEF P
    <2> QED
      BY <1>1, <1>2, Induction
  <1> QED
    BY <1>3

-----------------------------------------------------------------------------
(* What is in a list *)

LEMMA ListConcat ==
    ASSUME NEW l, IsList(l), NEW m, IsList(m)
    PROVE  IsList(l \o m) /\ Range(l \o m) = Range(l) \cup Range(m)
  <1> DEFINE E == {l[i] : i \in DOMAIN l} \cup {m[i] : i \in DOMAIN m}
             a == Len(l)
             b == Len(m)
  <1>1. /\ a \in Nat /\ DOMAIN l = 1..a /\ l = [i \in 1..a |-> l[i]]
        /\ b \in Nat /\ DOMAIN m = 1..b /\ m = [i \in 1..b |-> m[i]]
    BY ListIsFunction
  <1>2. (\A i \in 1..a : l[i] \in E) /\ \A i \in 1..b : m[i] \in E
    BY <1>1
  <1> HIDE DEF E
  <1>3. l \in Seq(E) /\ m \in Seq(E)
    BY <1>1, <1>2
  <1>4. PICK c : c = l \o m
    OBVIOUS
  <1>5. /\ c \in Seq(E) /\ DOMAIN c = 1..(a + b)
        /\ \A i \in 1..(a + b) : c[i] = IF i <= a THEN l[i] ELSE m[i - a]
    BY <1>3, <1>4
  <1> HIDE DEF a, b
  <1>6. IsList(c)
    BY <1>5, SeqIsList
  <1>7. a \in Nat /\ b \in Nat
    BY <1>1
  <1>8. Range(l) \subseteq Range(c)
    <2> SUFFICES ASSUME NEW i \in 1..a PROVE l[i] \in Range(c)
      BY <1>1 DEF Range
    <2>1. i \in 1..(a + b) /\ i <= a
      BY <1>1
    <2> QED
      BY <1>5, <2>1 DEF Range
  <1>9. Range(m) \subseteq Range(c)
    <2> SUFFICES ASSUME NEW i \in 1..b PROVE m[i] \in Range(c)
      BY <1>1 DEF Range
    <2>1. i + a \in 1..(a + b) /\ ~(i + a <= a) /\ (i + a) - a = i
      BY <1>1
    <2>2. c[i + a] = m[i]
      BY <1>5, <2>1
    <2> QED
      BY <1>5, <2>1, <2>2 DEF Range
  <1>10. Range(c) \subseteq Range(l) \cup Range(m)
    <2> SUFFICES ASSUME NEW i \in 1..(a + b) PROVE c[i] \in Range(l) \cup Range(m)
      BY <1>5 DEF Range
    <2>1. CASE i <= a
      <3>1. i \in 1..a /\ c[i] = l[i]
        BY <1>5, <1>7, <2>1
      <3> QED
        BY <1>1, <3>1 DEF Range
    <2>2. CASE ~(i <= a)
      <3>1. i - a \in 1..b /\ c[i] = m[i - a]
        BY <1>5, <1>7, <2>2
      <3> QED
        BY <1>1, <3>1 DEF Range
    <2> QED
      BY <2>1, <2>2
  <1> QED
    BY <1>4, <1>6, <1>8, <1>9, <1>10

\* One entry goes, and with it at most its value.
LEMMA RemoveFirstRange ==
    ASSUME NEW l, IsList(l), NEW x, x \in Range(l)
    PROVE  /\ IsList(RemoveFirst(l, x))
           /\ Range(RemoveFirst(l, x)) \subseteq Range(l)
           /\ Range(l) \ {x} \subseteq Range(RemoveFirst(l, x))
  <1> DEFINE n == Len(l)
  <1>1. PICK r : r = RemoveFirst(l, x)
    OBVIOUS
  <1>2. PICK p \in DOMAIN l :
          l[p] = x /\ r = [i \in 1..(n - 1) |-> IF i < p THEN l[i] ELSE l[i + 1]]
    BY <1>1, RemoveFirstEffect
  <1>3. n \in Nat /\ DOMAIN l = 1..n
    BY ListIsFunction
  <1> HIDE DEF n
  <1>4. n - 1 \in Nat /\ DOMAIN r = 1..(n - 1) /\ r = [i \in 1..(n - 1) |-> r[i]]
    BY <1>2, <1>3
  <1>5. IsList(r)
    BY <1>4, FunctionIsList
  <1>6. Range(r) \subseteq Range(l)
    <2>1. \A i \in DOMAIN r : (r[i] = l[i] /\ i \in DOMAIN l) \/ (r[i] = l[i + 1] /\ i + 1 \in DOMAIN l)
      BY <1>2, <1>3
    <2> QED
      BY <2>1 DEF Range
  <1>7. Range(l) \ {x} \subseteq Range(r)
    <2> SUFFICES ASSUME NEW j \in DOMAIN l, l[j] # x PROVE l[j] \in Range(r)
      BY DEF Range
    <2>1. CASE j < p
      <3>1. j \in DOMAIN r /\ r[j] = l[j]
        BY <1>2, <1>3, <2>1
      <3> QED
        BY <3>1 DEF Range
    <2>2. CASE ~(j < p)
      <3>1. j - 1 \in 1..(n - 1) /\ ~(j - 1 < p) /\ (j - 1) + 1 = j
        BY <1>2, <1>3, <2>2
      <3>2. j - 1 \in DOMAIN r /\ r[j - 1] = l[j]
        BY <1>2, <3>1
      <3> QED
        BY <3>2 DEF Range
    <2> QED
      BY <2>1, <2>2
  <1> QED
    BY <1>1, <1>5, <1>6, <1>7

-----------------------------------------------------------------------------
(* Parts of a list, taken by position *)

\* A list of entries of M
LEMMA ListOver ==
    ASSUME NEW l, IsList(l), NEW M, Range(l) \subseteq M
    PROVE  l \in Seq(M)
  <1>1. Len(l) \in Nat /\ DOMAIN l = 1..Len(l) /\ l = [i \in 1..Len(l) |-> l[i]]
    BY ListIsFunction
  <1>2. \A i \in 1..Len(l) : l[i] \in M
    BY <1>1 DEF Range
  <1> QED
    BY <1>1, <1>2

\* f goes through the positions S in ascending order.
Enumerates(f, S) ==
    /\ f \in [1..Cardinality(S) -> S]
    /\ \A i, j \in 1..Cardinality(S) : i < j => f[i] < f[j]

\* It is a list of them and misses none.
LEMMA EnumeratesAll ==
    ASSUME NEW n \in Nat, NEW S, S \subseteq 1..n, NEW f, Enumerates(f, S)
    PROVE  /\ Cardinality(S) \in Nat /\ IsList(f) /\ Len(f) = Cardinality(S)
           /\ DOMAIN f = 1..Cardinality(S)
           /\ \A i \in DOMAIN f : f[i] \in S
           /\ \A x \in S : \E i \in DOMAIN f : f[i] = x
  <1>1. IsFiniteSet(S)
    <2>1. 1 \in Int /\ n \in Int
      OBVIOUS
    <2>2. IsFiniteSet(1..n)
      BY ONLY <2>1, FS_Interval
    <2> QED
      BY <2>2, FS_Subset
  <1>2. PICK c : c = Cardinality(S)
    OBVIOUS
  <1>3. c \in Nat
    BY <1>1, <1>2, FS_CardinalityType
  <1>4. f \in [1..c -> S] /\ \A i, j \in 1..c : i < j => f[i] < f[j]
    BY <1>2 DEF Enumerates
  <1>5. \A i \in 1..c : f[i] \in Nat
    <2>1. S \subseteq Nat
      OBVIOUS
    <2>2. \A i \in 1..c : f[i] \in S
      BY <1>4
    <2> QED
      BY ONLY <2>1, <2>2
  <1>6. \A i, j \in 1..c : f[i] = f[j] => i = j
    <2> SUFFICES ASSUME NEW i \in 1..c, NEW j \in 1..c, f[i] = f[j], i # j PROVE FALSE
      OBVIOUS
    <2>1. i < j \/ j < i
      BY <1>3
    <2> QED
      BY <1>4, <1>5, <2>1
  <1>7. f \in Injection(1..c, S)
    BY <1>4, <1>6 DEF Injection, IsInjective
  <1>8. Cardinality(1..c) = c
    <2>1. 1 \in Int /\ c \in Int
      BY <1>3
    <2>2. Cardinality(1..c) = IF 1 > c THEN 0 ELSE c - 1 + 1
      BY ONLY <2>1, FS_Interval
    <2> QED
      BY <1>3, <2>2
  <1>9. f \in Surjection(1..c, S)
    BY <1>1, <1>2, <1>7, <1>8, FS_Injection
  <1>10. \A x \in S : \E i \in 1..c : f[i] = x
    BY <1>9 DEF Surjection
  <1>11. f = [i \in 1..c |-> f[i]] /\ DOMAIN f = 1..c
    BY <1>4
  <1>12. IsList(f) /\ Len(f) = c
    BY <1>3, <1>11, FunctionIsList
  <1> QED
    BY <1>2, <1>3, <1>4, <1>10, <1>11, <1>12

\* Those up to t are no more than all.
LEMMA UpToCount ==
    ASSUME NEW n \in Nat, NEW S, S \subseteq 1..n, NEW t
    PROVE  Cardinality(S) \in Nat /\ Cardinality({k \in S : k <= t}) \in 0..Cardinality(S)
  <1>1. IsFiniteSet(S)
    <2>1. 1 \in Int /\ n \in Int
      OBVIOUS
    <2>2. IsFiniteSet(1..n)
      BY ONLY <2>1, FS_Interval
    <2> QED
      BY <2>2, FS_Subset
  <1>2. PICK T : T = {k \in S : k <= t}
    OBVIOUS
  <1>3. IsFiniteSet(T) /\ Cardinality(T) <= Cardinality(S)
    BY <1>1, <1>2, FS_Subset
  <1>4. Cardinality(T) \in Nat /\ Cardinality(S) \in Nat
    BY <1>1, <1>3, FS_CardinalityType
  <1> QED
    BY <1>2, <1>3, <1>4

\* The first i entries
FirstOf(s, i) == [j \in 1..i |-> s[j]]

LEMMA ListPrefix ==
    ASSUME NEW s, IsList(s), NEW i \in 0..Len(s), NEW r, r = FirstOf(s, i)
    PROVE  IsList(r) /\ Len(r) = i /\ Range(r) = {s[j] : j \in 1..i}
  <1>1. i \in Nat
    BY ListIsFunction
  <1>2. r = [j \in 1..i |-> r[j]] /\ DOMAIN r = 1..i /\ \A j \in 1..i : r[j] = s[j]
    BY DEF FirstOf
  <1>3. IsList(r) /\ Len(r) = i
    BY <1>1, <1>2, FunctionIsList
  <1> QED
    BY <1>2, <1>3 DEF Range

\* All but the one at k
DropAt(s, k) == [j \in 1..(Len(s) - 1) |-> IF j < k THEN s[j] ELSE s[j + 1]]

LEMMA ListRemoveAt ==
    ASSUME NEW s, IsList(s), NEW k \in DOMAIN s, NEW r, r = DropAt(s, k)
    PROVE  /\ IsList(r) /\ Len(r) = Len(s) - 1
           /\ Range(r) = {s[j] : j \in DOMAIN s \ {k}}
  <1>1. PICK n : n = Len(s)
    OBVIOUS
  <1>2. n \in Nat /\ DOMAIN s = 1..n /\ k \in 1..n
    BY <1>1, ListIsFunction
  <1>3. n - 1 \in Nat /\ r = [j \in 1..(n - 1) |-> r[j]] /\ DOMAIN r = 1..(n - 1)
    BY <1>1, <1>2 DEF DropAt
  <1>4. IsList(r) /\ Len(r) = n - 1
    BY <1>3, FunctionIsList
  <1>5. \A j \in 1..(n - 1) : r[j] = IF j < k THEN s[j] ELSE s[j + 1]
    BY <1>1 DEF DropAt
  <1>6. ASSUME NEW j \in 1..(n - 1)
        PROVE  \E m \in (1..n) \ {k} : r[j] = s[m]
    <2>1. CASE j < k
      <3>1. j \in (1..n) \ {k} /\ r[j] = s[j]
        BY <1>2, <1>5, <2>1
      <3> QED
        BY <3>1
    <2>2. CASE ~(j < k)
      <3>1. j + 1 \in (1..n) \ {k} /\ r[j] = s[j + 1]
        BY <1>2, <1>5, <2>2
      <3> QED
        BY <3>1
    <2> QED
      BY <2>1, <2>2
  <1>7. ASSUME NEW m \in (1..n) \ {k}
        PROVE  \E j \in 1..(n - 1) : r[j] = s[m]
    <2>1. CASE m < k
      <3>1. m \in 1..(n - 1) /\ r[m] = s[m]
        BY <1>2, <1>5, <2>1
      <3> QED
        BY <3>1
    <2>2. CASE ~(m < k)
      <3>1. m - 1 \in 1..(n - 1) /\ ~(m - 1 < k) /\ (m - 1) + 1 = m
        BY <1>2, <2>2
      <3>2. r[m - 1] = s[m]
        BY <1>5, <3>1
      <3> QED
        BY <3>1, <3>2
    <2> QED
      BY <2>1, <2>2
  <1>8. Range(r) = {s[j] : j \in (1..n) \ {k}}
    <2>1. \A j \in DOMAIN r : \E m \in (1..n) \ {k} : r[j] = s[m]
      BY <1>3, <1>6
    <2>2. \A m \in (1..n) \ {k} : \E j \in DOMAIN r : r[j] = s[m]
      BY <1>3, <1>7
    <2> QED
      BY ONLY <2>1, <2>2 DEF Range
  <1> QED
    BY <1>1, <1>2, <1>4, <1>8

\* The first t entries, and what is made of another list behind them
NodesBehind(s, t, l, x) ==
    [i \in 1..(t + Len(l)) |-> IF i <= t THEN s[i] ELSE [id |-> l[i - t], owner |-> x]]

LEMMA ListBehind ==
    ASSUME NEW s, IsList(s), NEW t \in 0..Len(s), NEW l, IsList(l), NEW x,
           NEW r, r = NodesBehind(s, t, l, x)
    PROVE  /\ IsList(r) /\ Len(r) = t + Len(l)
           /\ \A i \in 1..t : i \in DOMAIN r /\ r[i] = s[i]
           /\ Range(r) \subseteq Range(s) \cup {[id |-> y, owner |-> x] : y \in Range(l)}
  <1>1. PICK n, m : n = Len(s) /\ m = Len(l)
    OBVIOUS
  <1>2. n \in Nat /\ DOMAIN s = 1..n /\ m \in Nat /\ DOMAIN l = 1..m /\ t \in 0..n /\ t \in Nat
    BY <1>1, ListIsFunction
  <1>3. t + m \in Nat /\ r = [i \in 1..(t + m) |-> r[i]] /\ DOMAIN r = 1..(t + m)
    BY <1>1, <1>2 DEF NodesBehind
  <1>4. IsList(r) /\ Len(r) = t + m
    BY <1>3, FunctionIsList
  <1>5. \A i \in 1..(t + m) : r[i] = IF i <= t THEN s[i] ELSE [id |-> l[i - t], owner |-> x]
    BY <1>1 DEF NodesBehind
  <1>6. \A i \in 1..t : i \in DOMAIN r /\ r[i] = s[i]
    <2> SUFFICES ASSUME NEW i \in 1..t PROVE i \in DOMAIN r /\ r[i] = s[i]
      OBVIOUS
    <2>1. i \in 1..(t + m) /\ i <= t
      BY <1>2
    <2> QED
      BY <1>3, <1>5, <2>1
  <1>7. ASSUME NEW i \in 1..(t + m)
        PROVE  r[i] \in Range(s) \cup {[id |-> y, owner |-> x] : y \in Range(l)}
    <2>1. CASE i <= t
      <3>1. i \in DOMAIN s
        BY <1>2, <2>1
      <3>2. r[i] = s[i]
        BY <1>5, <2>1
      <3> QED
        BY <3>1, <3>2 DEF Range
    <2>2. CASE ~(i <= t)
      <3>1. i - t \in DOMAIN l /\ r[i] = [id |-> l[i - t], owner |-> x]
        BY <1>2, <1>5, <2>2
      <3>2. l[i - t] \in Range(l)
        BY <3>1 DEF Range
      <3> QED
        BY <3>1, <3>2
    <2> QED
      BY <2>1, <2>2
  <1>8. Range(r) \subseteq Range(s) \cup {[id |-> y, owner |-> x] : y \in Range(l)}
    BY <1>3, <1>7 DEF Range
  <1> QED
    BY <1>1, <1>4, <1>6, <1>8

\* The entries at the positions S
Selected(s, f) == [i \in DOMAIN f |-> s[f[i]]]

LEMMA ListSelect ==
    ASSUME NEW s, IsList(s), NEW S, S \subseteq DOMAIN s, NEW f, Enumerates(f, S),
           NEW r, r = Selected(s, f)
    PROVE  IsList(r) /\ Len(r) = Cardinality(S) /\ Range(r) = {s[k] : k \in S}
  <1>1. PICK n, c : n = Len(s) /\ c = Cardinality(S)
    OBVIOUS
  <1>2. n \in Nat /\ S \subseteq 1..n /\ S \subseteq DOMAIN s
    BY <1>1, ListIsFunction
  <1>3. /\ c \in Nat /\ DOMAIN f = 1..c
        /\ \A i \in DOMAIN f : f[i] \in S
        /\ \A x \in S : \E i \in DOMAIN f : f[i] = x
    BY <1>1, <1>2, EnumeratesAll
  <1>4. r = [i \in 1..c |-> r[i]] /\ DOMAIN r = 1..c /\ \A i \in 1..c : r[i] = s[f[i]]
    BY <1>3 DEF Selected
  <1>5. IsList(r) /\ Len(r) = c
    BY <1>3, <1>4, FunctionIsList
  <1>6. Range(r) = {s[k] : k \in S}
    BY <1>3, <1>4 DEF Range
  <1> QED
    BY <1>1, <1>5, <1>6

\* The entries at K with those at T put behind their first
LinkedBack(s, f, g) ==
    [i \in 1..(Len(f) + Len(g)) |->
       IF i = 1 THEN s[f[1]] ELSE IF i <= Len(g) + 1 THEN s[g[i - 1]] ELSE s[f[i - Len(g)]]]

LEMMA ListBack ==
    ASSUME NEW s, IsList(s), NEW K, K \subseteq DOMAIN s, K # {}, NEW T, T \subseteq DOMAIN s,
           NEW f, Enumerates(f, K), NEW g, Enumerates(g, T), NEW r, r = LinkedBack(s, f, g)
    PROVE  /\ IsList(r) /\ Len(r) = Cardinality(K) + Cardinality(T)
           /\ Range(r) = {s[k] : k \in K \cup T}
  <1>1. PICK n, a, b : n = Len(s) /\ a = Cardinality(K) /\ b = Cardinality(T)
    OBVIOUS
  <1>2. n \in Nat /\ DOMAIN s = 1..n
    BY <1>1, ListIsFunction
  <1>3. /\ a \in Nat /\ DOMAIN f = 1..a /\ Len(f) = a
        /\ \A i \in 1..a : f[i] \in K
        /\ \A x \in K : \E i \in 1..a : f[i] = x
    BY <1>1, <1>2, EnumeratesAll
  <1>4. /\ b \in Nat /\ DOMAIN g = 1..b /\ Len(g) = b
        /\ \A i \in 1..b : g[i] \in T
        /\ \A x \in T : \E i \in 1..b : g[i] = x
    BY <1>1, <1>2, EnumeratesAll
  <1>5. a > 0
    <2>1. PICK x \in K : TRUE
      OBVIOUS
    <2> QED
      BY <1>3, <2>1
  <1>6. /\ a + b \in Nat /\ DOMAIN r = 1..(a + b) /\ r = [i \in 1..(a + b) |-> r[i]]
        /\ \A i \in 1..(a + b) : r[i] = IF i = 1 THEN s[f[1]]
                                       ELSE IF i <= b + 1 THEN s[g[i - 1]] ELSE s[f[i - b]]
    BY <1>3, <1>4 DEF LinkedBack
  <1>7. IsList(r) /\ Len(r) = a + b
    BY <1>6, FunctionIsList
  <1>8. ASSUME NEW i \in 1..(a + b) PROVE \E k \in K \cup T : r[i] = s[k]
    <2>1. CASE i = 1
      <3>1. f[1] \in K /\ r[i] = s[f[1]]
        BY <1>3, <1>5, <1>6, <2>1
      <3> QED
        BY <3>1
    <2>2. CASE i # 1 /\ i <= b + 1
      <3>1. i - 1 \in 1..b /\ r[i] = s[g[i - 1]]
        BY <1>4, <1>6, <2>2
      <3> QED
        BY <1>4, <3>1
    <2>3. CASE i # 1 /\ ~(i <= b + 1)
      <3>1. i - b \in 1..a /\ r[i] = s[f[i - b]]
        BY <1>3, <1>4, <1>6, <2>3
      <3> QED
        BY <1>3, <3>1
    <2> QED
      BY <2>1, <2>2, <2>3
  <1>9. ASSUME NEW k \in T PROVE \E i \in 1..(a + b) : r[i] = s[k]
    <2>1. PICK j \in 1..b : g[j] = k
      BY <1>4
    <2>2. j + 1 \in 1..(a + b) /\ j + 1 # 1 /\ j + 1 <= b + 1 /\ (j + 1) - 1 = j
      BY <1>3, <1>4, <1>5
    <2>3. r[j + 1] = s[k]
      BY <1>6, <2>1, <2>2
    <2> QED
      BY <2>2, <2>3
  <1>10. ASSUME NEW k \in K PROVE \E i \in 1..(a + b) : r[i] = s[k]
    <2>1. PICK j \in 1..a : f[j] = k
      BY <1>3
    <2>2. CASE j = 1
      <3>1. 1 \in 1..(a + b) /\ r[1] = s[f[1]]
        BY <1>3, <1>4, <1>5, <1>6
      <3> QED
        BY <2>1, <2>2, <3>1
    <2>3. CASE j # 1
      <3>1. j + b \in 1..(a + b) /\ j + b # 1 /\ ~(j + b <= b + 1) /\ (j + b) - b = j
        BY <1>3, <1>4, <2>3
      <3>2. r[j + b] = s[k]
        BY <1>6, <2>1, <3>1
      <3> QED
        BY <3>1, <3>2
    <2> QED
      BY <2>2, <2>3
  <1>11. Range(r) = {s[k] : k \in K \cup T}
    <2>1. \A i \in DOMAIN r : \E k \in K \cup T : r[i] = s[k]
      BY <1>6, <1>8
    <2>2. \A k \in K \cup T : \E i \in DOMAIN r : r[i] = s[k]
      BY <1>6, <1>9, <1>10
    <2> QED
      BY ONLY <2>1, <2>2 DEF Range
  <1> QED
    BY <1>1, <1>7, <1>11

=============================================================================
