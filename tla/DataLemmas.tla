----------------------------- MODULE DataLemmas -----------------------------
(***************************************************************************)
(* Facts about the data of the other modules, for every sequence and every *)
(* finite set: what LREM (RemoveFirst) leaves of a list, how the elements  *)
(* of a sequence change with it, what a sum over a set is, that a finite   *)
(* set can be sorted, what a list of lists becomes when it is flattened,   *)
(* and that primitive recursion defines a function.  The sums and lists of *)
(* the community modules are folds, recursive functions; what they are is  *)
(* shown by taking a smallest set or index for which it would be wrong.    *)
(***************************************************************************)
EXTENDS Integers, Sequences, SequencesExt, FiniteSets, FiniteSetsExt,
        SequenceTheorems, FiniteSetTheorems, WellFoundedInduction, TLAPS

\* A sequence of one element.
LEMMA SingletonSeq ==
  ASSUME NEW S, NEW x \in S
  PROVE  <<x>> \in Seq(S) /\ Len(<<x>>) = 1 /\ <<x>>[1] = x
OBVIOUS

\* A non-empty set of indices has a least element: the order of the indices is
\* that of the intervals 1..i under inclusion.
LEMMA LeastIndex ==
  ASSUME NEW I \in SUBSET Nat, I # {}
  PROVE  \E x \in I : \A y \in I : x <= y
<1> DEFINE T == {1..i : i \in I}
<1>1. T \subseteq FiniteSubsetsOf(Nat)
  BY FS_Interval DEF FiniteSubsetsOf
<1>2. T # {}
  OBVIOUS
<1>3. PICK t \in T : \A u \in T : ~ (<<u, t>> \in StrictSubsetOrdering(Nat))
  <2> HIDE DEF T
  <2> QED BY <1>1, <1>2, FS_StrictSubsetOrderingWellFounded, WFMin
<1>4. PICK x \in I : t = 1..x
  OBVIOUS
<1>5. ASSUME NEW y \in I, y < x
      PROVE  FALSE
  <2>1. 1..y \in T /\ 1..y \in SUBSET Nat /\ 1..x \in SUBSET Nat
    OBVIOUS
  <2>2. 1..y \subseteq 1..x
    BY <1>5
  <2>3. x \in 1..x /\ x \notin 1..y
    BY <1>5
  <2>4. <<1..y, 1..x>> \in StrictSubsetOrdering(Nat)
    BY <2>1, <2>2, <2>3 DEF StrictSubsetOrdering
  <2> QED
    BY <1>3, <1>4, <2>1, <2>4
<1> QED
  BY <1>5

\* It is the one that Min returns.
LEMMA MinOfIndices ==
  ASSUME NEW I \in SUBSET Nat, I # {}
  PROVE  Min(I) \in I
BY LeastIndex DEF Min

\* LREM 1 (RemoveFirst) takes one occurrence of e out of the list and keeps the
\* order of the others; a list without e is left as it is.
LEMMA RemoveFirstSpec ==
  ASSUME NEW S, NEW s \in Seq(S), NEW e
  PROVE  LET r == RemoveFirst(s, e) IN
         /\ r \in Seq(S)
         /\ \/ /\ \A i \in 1..Len(s) : s[i] # e
               /\ r = s
            \/ \E k \in 1..Len(s) :
                 /\ s[k] = e
                 /\ Len(r) = Len(s) - 1
                 /\ \A i \in 1..(Len(s) - 1) : r[i] = IF i < k THEN s[i] ELSE s[i + 1]
<1>1. CASE \A i \in 1..Len(s) : s[i] # e
  BY <1>1 DEF RemoveFirst
<1>2. CASE \E i \in 1..Len(s) : s[i] = e
  <2> DEFINE I == {i \in 1..Len(s) : s[i] = e}
             k == Min(I)
             a == SubSeq(s, 1, k - 1)
             b == SubSeq(s, k + 1, Len(s))
  <2>1. k \in I
    <3>1. I \in SUBSET Nat /\ I # {}
      BY <1>2
    <3> QED
      BY <3>1, MinOfIndices
  <2>2. RemoveFirst(s, e) = a \o b
    BY <1>2 DEF RemoveFirst, RemoveAt, SelectInSeq
  <2>3. /\ k \in 1..Len(s) /\ s[k] = e
        /\ Len(s) \in Nat
    BY <2>1
  <2> HIDE DEF k
  <2>4. /\ a \in Seq(S)
        /\ Len(a) = k - 1
        /\ \A i \in 1..(k - 1) : a[i] = s[i]
    BY <2>3, SubSeqProperties
  <2>5. /\ b \in Seq(S)
        /\ Len(b) = Len(s) - k
        /\ \A i \in 1..(Len(s) - k) : b[i] = s[k + i]
    BY <2>3, SubSeqProperties
  <2> HIDE DEF a, b
  <2>6. /\ a \o b \in Seq(S)
        /\ Len(a \o b) = Len(s) - 1
    <3>1. a \o b \in Seq(S) /\ Len(a \o b) = Len(a) + Len(b)
      BY <2>4, <2>5, ConcatProperties
    <3> QED
      BY <3>1, <2>3, <2>4, <2>5
  <2>7. ASSUME NEW i \in 1..(Len(s) - 1)
        PROVE  (a \o b)[i] = IF i < k THEN s[i] ELSE s[i + 1]
    <3>1. CASE i < k
      BY <3>1, <2>3, <2>4, <2>5, <2>7, ConcatProperties
    <3>2. CASE ~ (i < k)
      <4>1. /\ i - (k - 1) \in 1..(Len(s) - k)
            /\ k + (i - (k - 1)) = i + 1
        BY <3>2, <2>3, <2>7
      <4>2. (a \o b)[i] = b[i - (k - 1)]
        BY <3>2, <2>3, <2>4, <2>5, <2>7, ConcatProperties
      <4> QED
        BY <4>1, <4>2, <3>2, <2>5
    <3> QED
      BY <3>1, <3>2
  <2> QED
    BY <2>2, <2>3, <2>6, <2>7
<1> QED
  BY <1>1, <1>2

\* LREM on a list without duplicates leaves no occurrence of e, adds nothing
\* and creates no duplicate.
LEMMA RemoveFirstDistinct ==
  ASSUME NEW S, NEW s \in Seq(S), NEW e,
         \A m, n \in 1..Len(s) : s[m] = s[n] => m = n
  PROVE  LET r == RemoveFirst(s, e) IN
         /\ r \in Seq(S)
         /\ Len(r) <= Len(s)
         /\ \A m, n \in 1..Len(r) : r[m] = r[n] => m = n
         /\ \A n \in 1..Len(r) : r[n] # e /\ \E m \in 1..Len(s) : s[m] = r[n]
<1> DEFINE r == RemoveFirst(s, e)
<1>0. Len(s) \in Nat
  BY LenProperties
<1>1. r \in Seq(S)
  BY RemoveFirstSpec
<1>2. CASE (\A i \in 1..Len(s) : s[i] # e) /\ r = s
  BY <1>0, <1>2
<1>3. CASE \E k \in 1..Len(s) :
             /\ s[k] = e
             /\ Len(r) = Len(s) - 1
             /\ \A i \in 1..(Len(s) - 1) : r[i] = IF i < k THEN s[i] ELSE s[i + 1]
  <2>1. PICK k \in 1..Len(s) :
             /\ s[k] = e
             /\ Len(r) = Len(s) - 1
             /\ \A i \in 1..(Len(s) - 1) : r[i] = IF i < k THEN s[i] ELSE s[i + 1]
    BY <1>3
  <2> HIDE DEF r
  <2>2. ASSUME NEW n \in 1..Len(r)
        PROVE  r[n] # e /\ \E m \in 1..Len(s) : s[m] = r[n]
    BY <1>0, <2>1, <2>2
  <2>3. ASSUME NEW m \in 1..Len(r), NEW n \in 1..Len(r), r[m] = r[n]
        PROVE  m = n
    <3>1. /\ (IF m < k THEN m ELSE m + 1) \in 1..Len(s)
          /\ (IF n < k THEN n ELSE n + 1) \in 1..Len(s)
      BY <1>0, <2>1, <2>3
    <3>2. /\ r[m] = s[IF m < k THEN m ELSE m + 1]
          /\ r[n] = s[IF n < k THEN n ELSE n + 1]
      BY <1>0, <2>1, <2>3
    <3>3. (IF m < k THEN m ELSE m + 1) = (IF n < k THEN n ELSE n + 1)
      BY <2>3, <3>1, <3>2
    <3> QED
      BY <3>3, <1>0, <2>1, <2>3
  <2> QED
    BY <1>0, <1>1, <2>1, <2>2, <2>3 DEF r
<1>4. \/ (\A i \in 1..Len(s) : s[i] # e) /\ r = s
      \/ \E k \in 1..Len(s) :
             /\ s[k] = e
             /\ Len(r) = Len(s) - 1
             /\ \A i \in 1..(Len(s) - 1) : r[i] = IF i < k THEN s[i] ELSE s[i + 1]
  BY RemoveFirstSpec
<1> QED
  BY <1>2, <1>3, <1>4

-----------------------------------------------------------------------------
(* Sequences and their elements.                                           *)

Distinct(s) == \A m, n \in 1..Len(s) : s[m] = s[n] => m = n

\* The elements of a sequence are the values at its positions.
LEMMA ElementsOf ==
  ASSUME NEW S, NEW s \in Seq(S), NEW x
  PROVE  x \in ToSet(s) <=> \E i \in 1..Len(s) : s[i] = x
BY DEF ToSet

\* Appending an element adds it to the elements.
LEMMA ElementsOfAppend ==
  ASSUME NEW S, NEW s \in Seq(S), NEW x \in S
  PROVE  ToSet(Append(s, x)) = ToSet(s) \cup {x}
<1> DEFINE t == Append(s, x)
<1>1. /\ t \in Seq(S) /\ Len(t) = Len(s) + 1 /\ Len(s) \in Nat
      /\ \A i \in 1..Len(s) : t[i] = s[i]
      /\ t[Len(s) + 1] = x
  BY AppendProperties, LenProperties
<1> HIDE DEF t
<1>2. ASSUME NEW y PROVE y \in ToSet(t) <=> y \in ToSet(s) \cup {x}
  <2>1. y \in ToSet(t) <=> \E i \in 1..Len(t) : t[i] = y
    BY <1>1, ElementsOf
  <2>2. y \in ToSet(s) <=> \E i \in 1..Len(s) : s[i] = y
    BY ElementsOf
  <2> QED
    BY <1>1, <2>1, <2>2
<1>3. ToSet(t) = ToSet(s) \cup {x}
  BY <1>2
<1> QED
  BY <1>3 DEF t

LEMMA SeqElement ==
  ASSUME NEW S, NEW q \in Seq(S)
  PROVE  \A p \in DOMAIN q : q[p] \in S
OBVIOUS

\* RPUSH adds an element at the end.
LEMMA Added ==
  ASSUME NEW S, NEW s \in Seq(S), NEW x \in S
  PROVE  /\ Append(s, x) \in Seq(S) /\ Len(s) \in Nat /\ Len(Append(s, x)) = Len(s) + 1
         /\ \A i \in 1..Len(s) : Append(s, x)[i] = s[i]
         /\ Append(s, x)[Len(s) + 1] = x
         /\ ToSet(Append(s, x)) = ToSet(s) \cup {x}
         /\ Distinct(s) /\ x \notin ToSet(s) => Distinct(Append(s, x))
<1>1. /\ Append(s, x) \in Seq(S) /\ Len(s) \in Nat /\ Len(Append(s, x)) = Len(s) + 1
      /\ \A i \in 1..Len(s) : Append(s, x)[i] = s[i]
      /\ Append(s, x)[Len(s) + 1] = x
  OBVIOUS
<1>2. ToSet(Append(s, x)) = ToSet(s) \cup {x}
  BY ElementsOfAppend
<1>3. ASSUME Distinct(s), x \notin ToSet(s)
      PROVE  Distinct(Append(s, x))
  <2>1. \A i \in 1..Len(s) : s[i] # x
    BY <1>3, ElementsOf
  <2> DEFINE t == Append(s, x)
  <2>2. /\ Len(s) \in Nat /\ Len(t) = Len(s) + 1 /\ t[Len(s) + 1] = x
        /\ \A i \in 1..Len(s) : t[i] = s[i]
    BY <1>1
  <2> HIDE DEF t
  <2>3. ASSUME NEW m \in 1..Len(t), NEW n \in 1..Len(t), t[m] = t[n]
        PROVE  m = n
    <3>1. (m \in 1..Len(s) \/ m = Len(s) + 1) /\ (n \in 1..Len(s) \/ n = Len(s) + 1)
      BY <2>2
    <3> QED
      BY <3>1, <2>1, <2>2, <2>3, <1>3 DEF Distinct
  <2>4. Distinct(t)
    BY <2>3 DEF Distinct
  <2> QED
    BY <2>4 DEF t
<1> QED
  BY <1>1, <1>2, <1>3

\* LPOP takes the first element; the others move up.
LEMMA Shifted ==
  ASSUME NEW S, NEW s \in Seq(S), s # <<>>
  PROVE  /\ Head(s) \in S /\ Tail(s) \in Seq(S) /\ Len(s) \in Nat \ {0}
         /\ Head(s) = s[1] /\ Len(Tail(s)) = Len(s) - 1
         /\ \A i \in 1..Len(Tail(s)) : i + 1 \in 1..Len(s) /\ Tail(s)[i] = s[i + 1]
         /\ ToSet(s) = ToSet(Tail(s)) \cup {Head(s)}
         /\ Distinct(s) => Distinct(Tail(s)) /\ Head(s) \notin ToSet(Tail(s))
<1> DEFINE t == Tail(s)
<1>1. /\ Head(s) \in S /\ t \in Seq(S) /\ Len(s) \in Nat /\ Len(s) # 0
      /\ Head(s) = s[1] /\ Len(t) = Len(s) - 1
  OBVIOUS
<1>2. \A i \in 1..Len(t) : i + 1 \in 1..Len(s) /\ t[i] = s[i + 1]
  BY <1>1
<1> HIDE DEF t
<1>3. \A x : x \in ToSet(t) <=> \E i \in 1..Len(t) : t[i] = x
  BY <1>1, ElementsOf
<1>4. \A x : x \in ToSet(s) <=> \E i \in 1..Len(s) : s[i] = x
  BY ElementsOf
<1>5. ToSet(t) \subseteq ToSet(s) /\ Head(s) \in ToSet(s)
  <2>1. 1 \in 1..Len(s)
    BY <1>1
  <2> QED
    BY <1>1, <1>2, <1>3, <1>4, <2>1
<1>6. ASSUME NEW x \in ToSet(s), x # Head(s)
      PROVE  x \in ToSet(t)
  <2>1. PICK i \in 1..Len(s) : s[i] = x
    BY <1>4
  <2>2. i # 1 /\ i - 1 \in 1..Len(t) /\ (i - 1) + 1 = i
    BY <1>1, <1>6, <2>1
  <2>3. t[i - 1] = x
    BY <1>2, <2>1, <2>2
  <2> QED
    BY <1>3, <2>2, <2>3
<1>7. ASSUME Distinct(s)
      PROVE  Distinct(t) /\ Head(s) \notin ToSet(t)
  <2>1. ASSUME NEW m \in 1..Len(t), NEW n \in 1..Len(t), t[m] = t[n]
        PROVE  m = n
    <3>1. m + 1 = n + 1
      BY <1>2, <1>7, <2>1 DEF Distinct
    <3> QED
      BY <3>1
  <2>2. ASSUME NEW m \in 1..Len(t), t[m] = Head(s)
        PROVE  FALSE
    <3>1. 1 \in 1..Len(s) /\ m + 1 \in 1..Len(s) /\ s[m + 1] = s[1]
      BY <1>1, <1>2, <2>2
    <3>2. m + 1 = 1
      BY <1>7, <3>1 DEF Distinct
    <3> QED
      BY <3>2
  <2> QED
    BY <2>1, <2>2, <1>3 DEF Distinct
<1>8. ToSet(s) = ToSet(t) \cup {Head(s)}
  BY <1>5, <1>6
<1> QED
  BY <1>1, <1>2, <1>7, <1>8 DEF t

\* An element put in front of a sequence.
LEMMA Fronted ==
  ASSUME NEW S, NEW l \in Seq(S), NEW x \in S
  PROVE  LET s == <<x>> \o l IN
         /\ s \in Seq(S) /\ Len(s) = Len(l) + 1 /\ Len(l) \in Nat
         /\ s[1] = x
         /\ \A i \in 1..Len(l) : s[i + 1] = l[i]
         /\ s # <<>> /\ Head(s) = x /\ Tail(s) = l
         /\ ToSet(s) = ToSet(l) \cup {x}
<1> DEFINE s == <<x>> \o l
<1>1. <<x>> \in Seq(S) /\ Len(<<x>>) = 1 /\ <<x>>[1] = x /\ Len(l) \in Nat
  BY SingletonSeq, LenProperties
<1>2. s \in Seq(S) /\ Len(s) = Len(l) + 1
  BY <1>1, ConcatProperties
<1>3. s[1] = x
  BY <1>1, ConcatProperties
<1>4. ASSUME NEW i \in 1..Len(l) PROVE s[i + 1] = l[i]
  <2>1. i + 1 \in 1..(Len(<<x>>) + Len(l)) /\ ~ (i + 1 <= Len(<<x>>)) /\ i + 1 - Len(<<x>>) = i
    BY <1>1
  <2> QED
    BY <1>1, <2>1, ConcatProperties
<1> HIDE DEF s
<1>5. s # <<>> /\ Head(s) = x
  BY <1>1, <1>2, <1>3, HeadTailProperties, EmptySeq
<1>6. Tail(s) = l
  <2>1. /\ Tail(s) \in Seq(S) /\ Len(Tail(s)) = Len(l)
        /\ \A i \in 1..Len(Tail(s)) : Tail(s)[i] = s[i + 1]
    BY <1>1, <1>2, <1>5, HeadTailProperties
  <2> QED
    BY <1>4, <2>1, SeqEqual
<1>7. ASSUME NEW y PROVE y \in ToSet(s) <=> y \in ToSet(l) \cup {x}
  <2>1. y \in ToSet(s) <=> \E i \in 1..Len(s) : s[i] = y
    BY <1>2, ElementsOf
  <2>2. y \in ToSet(l) <=> \E i \in 1..Len(l) : l[i] = y
    BY ElementsOf
  <2>3. (\E i \in 1..Len(s) : s[i] = y) => y = x \/ \E i \in 1..Len(l) : l[i] = y
    <3> SUFFICES ASSUME NEW i \in 1..Len(s), s[i] = y, y # x PROVE \E k \in 1..Len(l) : l[k] = y
      OBVIOUS
    <3>1. i - 1 \in 1..Len(l) /\ (i - 1) + 1 = i
      BY <1>1, <1>2, <1>3
    <3> QED
      BY <1>4, <3>1
  <2>4. (y = x \/ \E i \in 1..Len(l) : l[i] = y) => \E i \in 1..Len(s) : s[i] = y
    BY <1>1, <1>2, <1>3, <1>4
  <2> QED
    BY <2>1, <2>2, <2>3, <2>4
<1> QED
  BY <1>1, <1>2, <1>3, <1>4, <1>5, <1>6, <1>7 DEF s

\* A new element in front keeps a sequence free of duplicates.
LEMMA FrontedDistinct ==
  ASSUME NEW S, NEW l \in Seq(S), NEW x \in S, Distinct(l), x \notin ToSet(l)
  PROVE  Distinct(<<x>> \o l)
<1> DEFINE s == <<x>> \o l
<1>1. /\ s \in Seq(S) /\ Len(s) = Len(l) + 1 /\ Len(l) \in Nat
      /\ s[1] = x
      /\ \A i \in 1..Len(l) : s[i + 1] = l[i]
  BY Fronted
<1>2. \A i \in 1..Len(l) : l[i] # x
  BY ElementsOf
<1> HIDE DEF s
<1>3. \A i \in 1..Len(s) : i # 1 => i - 1 \in 1..Len(l) /\ s[i] = l[i - 1]
  <2> SUFFICES ASSUME NEW i \in 1..Len(s), i # 1 PROVE i - 1 \in 1..Len(l) /\ s[i] = l[i - 1]
    OBVIOUS
  <2>1. i - 1 \in 1..Len(l) /\ (i - 1) + 1 = i
    BY <1>1
  <2> QED
    BY <1>1, <2>1
<1>4. ASSUME NEW m \in 1..Len(s), NEW n \in 1..Len(s), s[m] = s[n] PROVE m = n
  <2>1. CASE m = 1 \/ n = 1
    BY <1>1, <1>2, <1>3, <1>4, <2>1
  <2>2. CASE m # 1 /\ n # 1
    <3>1. m - 1 \in 1..Len(l) /\ n - 1 \in 1..Len(l) /\ l[m - 1] = l[n - 1]
      BY <1>3, <1>4, <2>2
    <3>2. m - 1 = n - 1
      BY <3>1 DEF Distinct
    <3> QED
      BY <3>2
  <2> QED
    BY <2>1, <2>2
<1>5. Distinct(s)
  BY <1>4 DEF Distinct
<1> QED
  BY <1>5 DEF s

\* LREM takes exactly one element out of a sequence without duplicates.
LEMMA ElementsRemoved ==
  ASSUME NEW S, NEW s \in Seq(S), NEW e, Distinct(s)
  PROVE  ToSet(RemoveFirst(s, e)) = ToSet(s) \ {e}
<1> DEFINE r == RemoveFirst(s, e)
<1>1. /\ r \in Seq(S) /\ Len(s) \in Nat
      /\ \A n \in 1..Len(r) : r[n] # e /\ \E m \in 1..Len(s) : s[m] = r[n]
  BY RemoveFirstDistinct, LenProperties DEF Distinct
<1>2. \/ /\ \A i \in 1..Len(s) : s[i] # e
         /\ r = s
      \/ \E k \in 1..Len(s) :
           /\ s[k] = e
           /\ Len(r) = Len(s) - 1
           /\ \A i \in 1..(Len(s) - 1) : r[i] = IF i < k THEN s[i] ELSE s[i + 1]
  BY RemoveFirstSpec
<1> HIDE DEF r
<1>3. ASSUME NEW i \in 1..Len(s), s[i] # e PROVE \E n \in 1..Len(r) : r[n] = s[i]
  <2>1. CASE r = s
    BY <1>3, <2>1
  <2>2. CASE \E k \in 1..Len(s) :
           /\ s[k] = e
           /\ Len(r) = Len(s) - 1
           /\ \A n \in 1..(Len(s) - 1) : r[n] = IF n < k THEN s[n] ELSE s[n + 1]
    <3>1. PICK k \in 1..Len(s) :
           /\ s[k] = e
           /\ Len(r) = Len(s) - 1
           /\ \A n \in 1..(Len(s) - 1) : r[n] = IF n < k THEN s[n] ELSE s[n + 1]
      BY <2>2
    <3>2. CASE i < k
      BY <1>1, <1>3, <3>1, <3>2
    <3>3. CASE ~ (i < k)
      <4>1. i - 1 \in 1..(Len(s) - 1) /\ ~ (i - 1 < k) /\ (i - 1) + 1 = i
        BY <1>1, <1>3, <3>1, <3>3
      <4>2. r[i - 1] = s[i]
        BY <3>1, <4>1
      <4> QED
        BY <3>1, <4>1, <4>2
    <3> QED
      BY <3>2, <3>3
  <2> QED
    BY <1>2, <2>1, <2>2
<1>4. ASSUME NEW y PROVE y \in ToSet(r) <=> y \in ToSet(s) \ {e}
  <2>1. y \in ToSet(r) <=> \E n \in 1..Len(r) : r[n] = y
    BY <1>1, ElementsOf
  <2>2. y \in ToSet(s) <=> \E i \in 1..Len(s) : s[i] = y
    BY ElementsOf
  <2> QED
    BY <1>1, <1>3, <2>1, <2>2
<1>5. ToSet(r) = ToSet(s) \ {e}
  BY <1>4
<1> QED
  BY <1>5 DEF r

\* LREM on a list without duplicates, all of it.
LEMMA Removed ==
  ASSUME NEW S, NEW s \in Seq(S), NEW e, Distinct(s)
  PROVE  LET r == RemoveFirst(s, e) IN
         /\ r \in Seq(S) /\ Len(s) \in Nat /\ Len(r) \in Nat
         /\ Distinct(r) /\ ToSet(r) = ToSet(s) \ {e}
         /\ \/ e \notin ToSet(s) /\ r = s
            \/ \E k \in 1..Len(s) :
                 /\ s[k] = e
                 /\ Len(r) = Len(s) - 1
                 /\ \A i \in 1..Len(r) : r[i] = IF i < k THEN s[i] ELSE s[i + 1]
<1> DEFINE r == RemoveFirst(s, e)
<1>1. r \in Seq(S) /\ \A m, n \in 1..Len(r) : r[m] = r[n] => m = n
  BY RemoveFirstDistinct DEF Distinct
<1>2. \/ /\ \A i \in 1..Len(s) : s[i] # e
         /\ r = s
      \/ \E k \in 1..Len(s) :
           /\ s[k] = e
           /\ Len(r) = Len(s) - 1
           /\ \A i \in 1..(Len(s) - 1) : r[i] = IF i < k THEN s[i] ELSE s[i + 1]
  BY RemoveFirstSpec
<1>3. ToSet(r) = ToSet(s) \ {e}
  BY ElementsRemoved
<1>4. Len(s) \in Nat /\ Len(r) \in Nat
  BY <1>1, LenProperties
<1>5. (\A i \in 1..Len(s) : s[i] # e) => e \notin ToSet(s)
  BY ElementsOf
<1> HIDE DEF r
<1>6. \/ e \notin ToSet(s) /\ r = s
      \/ \E k \in 1..Len(s) :
           /\ s[k] = e
           /\ Len(r) = Len(s) - 1
           /\ \A i \in 1..Len(r) : r[i] = IF i < k THEN s[i] ELSE s[i + 1]
  BY <1>2, <1>5
<1>7. Distinct(r)
  BY <1>1 DEF Distinct
<1> QED
  BY <1>1, <1>3, <1>4, <1>6, <1>7 DEF r

\* What is left of a sequence behind its k-th element.
LEMMA Rest ==
  ASSUME NEW S, NEW s \in Seq(S), NEW k \in 1..Len(s)
  PROVE  LET t == SubSeq(s, k + 1, Len(s)) IN
         /\ t \in Seq(S) /\ Len(s) \in Nat /\ Len(t) = Len(s) - k
         /\ \A i \in 1..Len(t) : k + i \in 1..Len(s) /\ t[i] = s[k + i]
         /\ \A i \in 1..Len(s) : i > k => s[i] \in ToSet(t)
         /\ ToSet(t) \subseteq ToSet(s)
<1> DEFINE t == SubSeq(s, k + 1, Len(s))
<1>0. Len(s) \in Nat /\ \A i \in (k + 1)..Len(s) : s[i] \in S
  OBVIOUS
<1>1. /\ t \in Seq(S)
      /\ Len(t) = IF k + 1 <= Len(s) THEN Len(s) - (k + 1) + 1 ELSE 0
      /\ \A i \in 1..(Len(s) - (k + 1) + 1) : t[i] = s[(k + 1) + i - 1]
  BY <1>0, SubSeqProperties
<1> HIDE DEF t
<1>2. Len(t) = Len(s) - k
  <2> DEFINE a == Len(s)
             b == Len(t)
  <2>1. a \in Nat /\ k \in 1..a /\ b = IF k + 1 <= a THEN a - (k + 1) + 1 ELSE 0
    BY <1>0, <1>1
  <2> HIDE DEF a, b
  <2>2. b = a - k
    BY <2>1
  <2> QED
    BY <2>2 DEF a, b
<1>3. \A i \in 1..Len(t) : k + i \in 1..Len(s) /\ t[i] = s[k + i]
  <2> SUFFICES ASSUME NEW i \in 1..Len(t) PROVE k + i \in 1..Len(s) /\ t[i] = s[k + i]
    OBVIOUS
  <2>1. (k + 1) + i - 1 = k + i
    OBVIOUS
  <2> QED
    BY <1>0, <1>1, <1>2, <2>1
<1>4. ASSUME NEW i \in 1..Len(s), i > k PROVE s[i] \in ToSet(t)
  <2>1. i - k \in 1..Len(t) /\ k + (i - k) = i
    BY <1>0, <1>2, <1>4
  <2>2. t[i - k] = s[i]
    BY <1>3, <2>1
  <2> QED
    BY <1>1, <2>1, <2>2, ElementsOf
<1>5. ASSUME NEW x \in ToSet(t) PROVE x \in ToSet(s)
  <2>1. PICK i \in 1..Len(t) : t[i] = x
    BY <1>1, ElementsOf
  <2> QED
    BY <1>3, <2>1, ElementsOf
<1> QED
  BY <1>0, <1>1, <1>2, <1>3, <1>4, <1>5 DEF t

\* Taking one position out of a sequence adds nothing.
LEMMA RemovedAt ==
  ASSUME NEW S, NEW s \in Seq(S), NEW k \in 1..Len(s)
  PROVE  RemoveAt(s, k) \in Seq(S) /\ ToSet(RemoveAt(s, k)) \subseteq ToSet(s)
<1> DEFINE a == SubSeq(s, 1, k - 1)
           b == SubSeq(s, k + 1, Len(s))
<1>1. Len(s) \in Nat /\ \A i \in 1..(k - 1) : i \in 1..Len(s) /\ s[i] \in S
  OBVIOUS
<1>2. /\ a \in Seq(S) /\ Len(a) = k - 1
      /\ \A i \in 1..(k - 1) : a[i] = s[i]
  BY <1>1, SubSeqProperties
<1>3. b \in Seq(S) /\ ToSet(b) \subseteq ToSet(s)
  BY Rest
<1> HIDE DEF a, b
<1>4. a \o b \in Seq(S) /\ RemoveAt(s, k) = a \o b
  BY <1>2, <1>3, ConcatProperties DEF RemoveAt, a, b
<1>5. ASSUME NEW x \in ToSet(a \o b) PROVE x \in ToSet(s)
  <2>1. PICK i \in 1..Len(a \o b) : (a \o b)[i] = x
    BY <1>4, ElementsOf
  <2>0. /\ Len(a) \in Nat /\ Len(b) \in Nat /\ Len(a \o b) = Len(a) + Len(b)
        /\ \A q \in 1..(Len(a) + Len(b)) :
             (a \o b)[q] = IF q <= Len(a) THEN a[q] ELSE b[q - Len(a)]
    BY <1>2, <1>3, ConcatProperties, LenProperties
  <2>2. /\ Len(a) \in Nat /\ Len(b) \in Nat /\ Len(a \o b) = Len(a) + Len(b)
        /\ i \in 1..(Len(a) + Len(b))
        /\ (a \o b)[i] = IF i <= Len(a) THEN a[i] ELSE b[i - Len(a)]
    BY <2>0
  <2>3. CASE i <= Len(a)
    <3>1. i \in 1..(k - 1) /\ i \in 1..Len(s)
      BY <1>1, <1>2, <2>3
    <3>2. s[i] = x
      BY <1>2, <2>1, <2>2, <2>3, <3>1
    <3> QED
      BY <3>1, <3>2, ElementsOf
  <2>4. CASE ~ (i <= Len(a))
    <3>1. i - Len(a) \in 1..Len(b) /\ b[i - Len(a)] = x
      BY <2>1, <2>2, <2>4
    <3>2. x \in ToSet(b)
      BY <1>3, <3>1, ElementsOf
    <3> QED
      BY <1>3, <3>2
  <2> QED
    BY <2>3, <2>4
<1> QED
  BY <1>4, <1>5

\* SelectInSeq finds the first position that passes a test; `good` are those
\* positions.
LEMMA FirstOfIndices ==
  ASSUME NEW s, NEW good \in SUBSET (1..Len(s)), Len(s) \in Nat, good # {}
  PROVE  Min(good) \in good /\ \A i \in 1..Len(s) : i < Min(good) => i \notin good
<1>1. good \in SUBSET Nat
  OBVIOUS
<1>2. Min(good) \in good
  BY <1>1, MinOfIndices
<1>3. \A i \in good : Min(good) <= i
  <2>1. \E x \in good : \A y \in good : x <= y
    BY <1>1, LeastIndex
  <2> QED
    BY <2>1 DEF Min
<1> DEFINE m == Min(good)
<1>4. m \in Nat /\ m \in good /\ \A i \in good : i \in Nat /\ m <= i
  BY <1>1, <1>2, <1>3
<1> HIDE DEF m
<1>5. \A i \in 1..Len(s) : i < m => i \notin good
  BY <1>4
<1> QED
  BY <1>4, <1>5 DEF m

\* Appending to the list appends to what waits.
LEMMA FrontedAppend ==
  ASSUME NEW S, NEW l \in Seq(S), NEW x \in S, NEW y \in S
  PROVE  <<x>> \o Append(l, y) = Append(<<x>> \o l, y)
<1> DEFINE m == Append(l, y)
           s == <<x>> \o l
           a == <<x>> \o m
           b == Append(s, y)
<1>1. /\ m \in Seq(S) /\ Len(m) = Len(l) + 1 /\ Len(l) \in Nat
      /\ \A i \in 1..Len(l) : m[i] = l[i]
      /\ m[Len(l) + 1] = y
  BY AppendProperties, LenProperties
<1>2. /\ s \in Seq(S) /\ Len(s) = Len(l) + 1 /\ s[1] = x
      /\ \A i \in 1..Len(l) : s[i + 1] = l[i]
  BY Fronted
<1> HIDE DEF m
<1>3. /\ a \in Seq(S) /\ Len(a) = Len(m) + 1 /\ a[1] = x
      /\ \A i \in 1..Len(m) : a[i + 1] = m[i]
  BY <1>1, Fronted
<1> HIDE DEF s
<1>4. /\ b \in Seq(S) /\ Len(b) = Len(s) + 1
      /\ \A i \in 1..Len(s) : b[i] = s[i]
      /\ b[Len(s) + 1] = y
  BY <1>2, AppendProperties
<1> HIDE DEF a, b
<1>5. ASSUME NEW i \in 1..Len(a) PROVE a[i] = b[i]
  <2>1. CASE i = 1
    BY <2>1, <1>1, <1>2, <1>3, <1>4
  <2>2. CASE i # 1
    <3>1. i - 1 \in 1..(Len(l) + 1) /\ (i - 1) + 1 = i
      BY <2>2, <1>1, <1>3
    <3>2. a[i] = m[i - 1]
      BY <3>1, <1>1, <1>3
    <3>3. b[i] = m[i - 1]
      BY <3>1, <1>1, <1>2, <1>4
    <3> QED
      BY <3>2, <3>3
  <2> QED
    BY <2>1, <2>2
<1>6. a = b
  BY <1>1, <1>2, <1>3, <1>4, <1>5, SeqEqual
<1> QED
  BY <1>6 DEF a, b, m, s

\* LREM takes the front off what waits, or something behind it.
LEMMA FrontedRemove ==
  ASSUME NEW S, NEW l \in Seq(S), NEW x \in S, NEW e, Distinct(l), x \notin ToSet(l)
  PROVE  RemoveFirst(<<x>> \o l, e) = IF e = x THEN l ELSE <<x>> \o RemoveFirst(l, e)
<1> DEFINE s == <<x>> \o l
<1>1. /\ s \in Seq(S) /\ Len(s) = Len(l) + 1 /\ Len(l) \in Nat
      /\ s[1] = x
      /\ \A i \in 1..Len(l) : s[i + 1] = l[i]
  BY Fronted
<1>2. \A i \in 1..Len(l) : l[i] # x
  BY ElementsOf
<1>i. \A i \in 1..Len(s) : i # 1 => i - 1 \in 1..Len(l) /\ s[i] = l[i - 1]
  <2> SUFFICES ASSUME NEW i \in 1..Len(s), i # 1 PROVE i - 1 \in 1..Len(l) /\ s[i] = l[i - 1]
    OBVIOUS
  <2> HIDE DEF s
  <2>1. i - 1 \in 1..Len(l) /\ (i - 1) + 1 = i
    BY <1>1
  <2> QED
    BY <1>1, <2>1
<1> HIDE DEF s
<1> DEFINE r == RemoveFirst(s, e)
           m == RemoveFirst(l, e)
<1>3. /\ r \in Seq(S)
      /\ \/ /\ \A i \in 1..Len(s) : s[i] # e
            /\ r = s
         \/ \E k \in 1..Len(s) :
              /\ s[k] = e
              /\ Len(r) = Len(s) - 1
              /\ \A i \in 1..(Len(s) - 1) : r[i] = IF i < k THEN s[i] ELSE s[i + 1]
  <2>1. s \in Seq(S)
    BY <1>1
  <2> QED
    BY <2>1, RemoveFirstSpec
<1>4. /\ m \in Seq(S)
      /\ \/ /\ \A i \in 1..Len(l) : l[i] # e
            /\ m = l
         \/ \E k \in 1..Len(l) :
              /\ l[k] = e
              /\ Len(m) = Len(l) - 1
              /\ \A i \in 1..(Len(l) - 1) : m[i] = IF i < k THEN l[i] ELSE l[i + 1]
  BY RemoveFirstSpec
<1> HIDE DEF r, m
<1>5. CASE e = x
  <2>1. ~ \A i \in 1..Len(s) : s[i] # e
    BY <1>1, <1>5
  <2>2. PICK k \in 1..Len(s) :
          /\ s[k] = e
          /\ Len(r) = Len(s) - 1
          /\ \A i \in 1..(Len(s) - 1) : r[i] = IF i < k THEN s[i] ELSE s[i + 1]
    BY <1>3, <2>1
  <2>3. k = 1
    BY <1>2, <1>5, <1>i, <2>2
  <2>4. Len(r) = Len(l) /\ \A i \in 1..Len(l) : r[i] = l[i]
    BY <1>1, <2>2, <2>3
  <2>5. r = l
    BY <1>3, <2>4, SeqEqual
  <2> QED
    BY <1>5, <2>5 DEF r, s
<1>6. CASE e # x
  <2> DEFINE t == <<x>> \o m
  <2>1. /\ t \in Seq(S) /\ Len(t) = Len(m) + 1 /\ Len(m) \in Nat
        /\ t[1] = x
        /\ \A i \in 1..Len(m) : t[i + 1] = m[i]
    BY <1>4, Fronted
  <2>i. \A i \in 1..Len(t) : i # 1 => i - 1 \in 1..Len(m) /\ t[i] = m[i - 1]
    <3> SUFFICES ASSUME NEW i \in 1..Len(t), i # 1 PROVE i - 1 \in 1..Len(m) /\ t[i] = m[i - 1]
      OBVIOUS
    <3> HIDE DEF t
    <3>1. i - 1 \in 1..Len(m) /\ (i - 1) + 1 = i
      BY <2>1
    <3> QED
      BY <2>1, <3>1
  <2>2. CASE \A i \in 1..Len(l) : l[i] # e
    <3>1. m = l
      BY <1>4, <2>2
    <3>2. \A i \in 1..Len(s) : s[i] # e
      BY <1>1, <1>6, <1>i, <2>2
    <3>3. r = s
      BY <1>3, <3>2
    <3> QED
      BY <1>6, <3>1, <3>3 DEF r, s, m
  <2>3. CASE \E i \in 1..Len(l) : l[i] = e
    <3>1. PICK p \in 1..Len(l) :
            /\ l[p] = e
            /\ Len(m) = Len(l) - 1
            /\ \A i \in 1..(Len(l) - 1) : m[i] = IF i < p THEN l[i] ELSE l[i + 1]
      BY <1>4, <2>3
    <3>2. ~ \A i \in 1..Len(s) : s[i] # e
      BY <1>1, <3>1
    <3>3. PICK k \in 1..Len(s) :
            /\ s[k] = e
            /\ Len(r) = Len(s) - 1
            /\ \A i \in 1..(Len(s) - 1) : r[i] = IF i < k THEN s[i] ELSE s[i + 1]
      BY <1>3, <3>2
    <3>4. k # 1
      BY <1>1, <1>6, <3>3
    <3>5. k - 1 = p
      <4>1. k - 1 \in 1..Len(l) /\ l[k - 1] = e
        BY <1>i, <3>3, <3>4
      <4> QED
        BY <3>1, <4>1 DEF Distinct
    <3>6. Len(r) = Len(t)
      BY <1>1, <2>1, <3>1, <3>3
    <3>7. ASSUME NEW i \in 1..Len(r) PROVE r[i] = t[i]
      <4> HIDE DEF t
      <4>1. CASE i = 1
        BY <1>1, <2>1, <3>3, <3>4, <4>1
      <4>2. CASE i # 1
        <5>1. i - 1 \in 1..Len(m) /\ t[i] = m[i - 1]
          BY <2>i, <3>6, <4>2
        <5>2. t[i] = IF i - 1 < p THEN l[i - 1] ELSE l[i]
          BY <1>1, <3>1, <5>1
        <5>3. CASE i < k
          <6>1. r[i] = s[i] /\ s[i] = l[i - 1] /\ i - 1 < p
            BY <1>1, <1>i, <3>3, <3>5, <4>2, <5>3
          <6> QED
            BY <5>2, <6>1
        <5>4. CASE ~ (i < k)
          <6>1. r[i] = s[i + 1] /\ s[i + 1] = l[i] /\ ~ (i - 1 < p)
            BY <1>1, <3>3, <3>5, <5>4
          <6> QED
            BY <5>2, <6>1
        <5> QED
          BY <5>3, <5>4
      <4> QED
        BY <4>1, <4>2
    <3>8. r = t
      <4> HIDE DEF t
      <4> QED
        BY <1>3, <2>1, <3>6, <3>7, SeqEqual
    <3> QED
      BY <1>6, <3>8 DEF r, s, m
  <2> QED
    BY <2>2, <2>3
<1> QED
  BY <1>5, <1>6

-----------------------------------------------------------------------------
(* Sums over finite sets.                                                  *)

\* Among some subsets of a finite set there is one that contains no other.
LEMMA MinimalSubset ==
  ASSUME NEW S, IsFiniteSet(S), NEW B \in SUBSET (SUBSET S), B # {}
  PROVE  \E t \in B : \A u \in B : u \subseteq t => u = t
<1>1. B \subseteq FiniteSubsetsOf(S)
  <2> SUFFICES ASSUME NEW t \in B PROVE t \in FiniteSubsetsOf(S)
    OBVIOUS
  <2>1. t \in SUBSET S
    OBVIOUS
  <2> QED
    BY <2>1, FS_Subset DEF FiniteSubsetsOf
<1>2. PICK t \in B : \A u \in B : ~ (<<u, t>> \in StrictSubsetOrdering(S))
  BY <1>1, FS_StrictSubsetOrderingWellFounded, WFMin
<1>3. ASSUME NEW u \in B, u \subseteq t, u # t
      PROVE  FALSE
  <2>1. <<u, t>> \in (SUBSET S) \X (SUBSET S)
    OBVIOUS
  <2>2. <<u, t>> \in StrictSubsetOrdering(S)
    BY <2>1, <1>3 DEF StrictSubsetOrdering
  <2> QED
    BY <2>2, <1>2
<1> QED
  BY <1>3

\* The functions behind the folds of the community modules: g is the sum of the
\* values of f over every subset of S, taken in the order in which CHOOSE
\* picks the elements.
SumStep(f, g, s) ==
  IF s = {} THEN 0 ELSE LET x == CHOOSE x \in s : TRUE IN f[x] + g[s \ {x}]

Sums(f, S, g) == g = [s \in SUBSET S |-> SumStep(f, g, s)]

SumOver(f, S) == (CHOOSE g : Sums(f, S, g))[S]

\* What the equation of g says of one subset.
LEMMA SumEquation ==
  ASSUME NEW f, NEW S, NEW g, Sums(f, S, g)
  PROVE  /\ g[{}] = 0
         /\ \A s \in SUBSET S : s # {} =>
              \E x \in s : x = (CHOOSE y \in s : TRUE) /\ g[s] = f[x] + g[s \ {x}]
<1>1. \A s \in SUBSET S : g[s] = SumStep(f, g, s)
  BY DEF Sums
<1>2. g[{}] = 0
  BY <1>1 DEF SumStep
<1>3. ASSUME NEW s \in SUBSET S, s # {}
      PROVE  \E x \in s : x = (CHOOSE y \in s : TRUE) /\ g[s] = f[x] + g[s \ {x}]
  <2>1. (CHOOSE y \in s : TRUE) \in s
    BY <1>3
  <2>2. g[s] = f[CHOOSE y \in s : TRUE] + g[s \ {CHOOSE y \in s : TRUE}]
    BY <1>1, <1>3 DEF SumStep
  <2> QED
    BY <2>1, <2>2
<1> QED
  BY <1>2, <1>3

\* There is only one such function.
LEMMA SumUnique ==
  ASSUME NEW f, NEW S, IsFiniteSet(S), NEW g, NEW h, Sums(f, S, g), Sums(f, S, h)
  PROVE  \A s \in SUBSET S : g[s] = h[s]
<1> DEFINE B == {s \in SUBSET S : g[s] # h[s]}
<1>1. SUFFICES ASSUME B # {} PROVE FALSE
  OBVIOUS
<1>2. PICK t \in B : \A u \in B : u \subseteq t => u = t
  <2>1. B \in SUBSET (SUBSET S)
    OBVIOUS
  <2> HIDE DEF B
  <2> QED
    BY <1>1, <2>1, MinimalSubset
<1>3. t # {}
  BY SumEquation
<1>4. PICK x \in t : x = (CHOOSE y \in t : TRUE) /\ g[t] = f[x] + g[t \ {x}]
  BY <1>3, SumEquation
<1>5. PICK z \in t : z = (CHOOSE y \in t : TRUE) /\ h[t] = f[z] + h[t \ {z}]
  BY <1>3, SumEquation
<1>6. t \ {x} \notin B /\ t \ {x} \in SUBSET S
  BY <1>2, <1>4
<1>7. g[t \ {x}] = h[t \ {x}]
  BY <1>6
<1> QED
  BY <1>4, <1>5, <1>7

\* Such a function on a set, restricted to the subsets of a smaller one.
LEMMA SumRestrict ==
  ASSUME NEW f, NEW S, NEW g, Sums(f, S, g), NEW T \in SUBSET S
  PROVE  Sums(f, T, [s \in SUBSET T |-> g[s]])
<1> DEFINE h == [s \in SUBSET T |-> g[s]]
<1>1. ASSUME NEW s \in SUBSET T
      PROVE  g[s] = SumStep(f, h, s)
  <2>1. g[s] = SumStep(f, g, s)
    BY DEF Sums
  <2>2. CASE s = {}
    BY <2>1, <2>2 DEF SumStep
  <2>3. CASE s # {}
    <3>1. PICK x \in s : x = CHOOSE y \in s : TRUE
      BY <2>3
    <3>2. s \ {x} \in SUBSET T
      OBVIOUS
    <3>3. h[s \ {x}] = g[s \ {x}]
      BY <3>2
    <3> QED
      BY <2>1, <2>3, <3>1, <3>3 DEF SumStep
  <2> QED
    BY <2>2, <2>3
<1>2. h = [s \in SUBSET T |-> SumStep(f, h, s)]
  BY <1>1
<1> QED
  BY <1>2 DEF Sums

LEMMA SumChosen ==
  ASSUME NEW f, NEW S, \E g : Sums(f, S, g)
  PROVE  Sums(f, S, CHOOSE g : Sums(f, S, g))
OBVIOUS

\* The value of such a function on a subset is the sum over that subset.
LEMMA SumValue ==
  ASSUME NEW f, NEW S, IsFiniteSet(S), NEW g, Sums(f, S, g), NEW T \in SUBSET S
  PROVE  g[T] = SumOver(f, T)
<1> DEFINE h == [s \in SUBSET T |-> g[s]]
           k == CHOOSE k : Sums(f, T, k)
<1>1. Sums(f, T, h)
  BY SumRestrict
<1>2. Sums(f, T, k)
  BY <1>1, SumChosen
<1>3. IsFiniteSet(T)
  BY FS_Subset
<1>4. h[T] = g[T] /\ T \in SUBSET T
  OBVIOUS
<1> HIDE DEF h, k
<1>5. h[T] = k[T]
  BY <1>1, <1>2, <1>3, <1>4, SumUnique
<1> QED
  BY <1>4, <1>5 DEF SumOver, k

\* Finite sets have one.
LEMMA SumExists ==
  ASSUME NEW f, NEW S, IsFiniteSet(S)
  PROVE  \E g : Sums(f, S, g)
<1> DEFINE B == {s \in SUBSET S : ~ \E g : Sums(f, s, g)}
<1>1. SUFFICES ASSUME B # {} PROVE FALSE
  <2>1. S \in SUBSET S
    OBVIOUS
  <2> QED
    BY <2>1
<1>2. PICK t \in B : \A u \in B : u \subseteq t => u = t
  <2>1. B \in SUBSET (SUBSET S)
    OBVIOUS
  <2> HIDE DEF B
  <2> QED
    BY <1>1, <2>1, MinimalSubset
<1>3. \A s \in SUBSET t : s # t => \E g : Sums(f, s, g)
  BY <1>2
<1>4. \A s \in SUBSET t : IsFiniteSet(s)
  BY FS_Subset
<1> DEFINE v == [s \in SUBSET t |-> IF s = t THEN 0 ELSE SumOver(f, s)]
           g == [s \in SUBSET t |-> SumStep(f, v, s)]
<1>5. ASSUME NEW s \in SUBSET t, s # t
      PROVE  g[s] = v[s]
  <2>1. PICK h : Sums(f, s, h)
    BY <1>3, <1>5
  <2>2. \A u \in SUBSET s : h[u] = SumOver(f, u)
    BY <1>4, <2>1, SumValue
  <2>3. h[s] = SumStep(f, h, s) /\ h[s] = SumOver(f, s)
    BY <2>1, <2>2 DEF Sums
  <2>4. SumStep(f, h, s) = SumStep(f, v, s)
    <3>1. CASE s = {}
      BY <3>1 DEF SumStep
    <3>2. CASE s # {}
      <4>1. PICK x \in s : x = CHOOSE y \in s : TRUE
        BY <3>2
      <4>2. s \ {x} \in SUBSET s /\ s \ {x} \in SUBSET t /\ s \ {x} # t
        BY <1>5
      <4>3. h[s \ {x}] = v[s \ {x}]
        BY <4>2, <2>2
      <4> QED
        BY <3>2, <4>1, <4>3 DEF SumStep
    <3> QED
      BY <3>1, <3>2
  <2> QED
    BY <1>5, <2>3, <2>4
<1>6. ASSUME NEW s \in SUBSET t
      PROVE  SumStep(f, v, s) = SumStep(f, g, s)
  <2>1. CASE s = {}
    BY <2>1 DEF SumStep
  <2>2. CASE s # {}
    <3>1. PICK x \in s : x = CHOOSE y \in s : TRUE
      BY <2>2
    <3>2. s \ {x} \in SUBSET t /\ s \ {x} # t
      BY <3>1
    <3>3. g[s \ {x}] = v[s \ {x}]
      BY <1>5, <3>2
    <3> HIDE DEF g, v
    <3> QED
      BY <2>2, <3>1, <3>3 DEF SumStep
  <2> QED
    BY <2>1, <2>2
<1>7. g = [s \in SUBSET t |-> SumStep(f, g, s)]
  <2>1. \A s \in SUBSET t : g[s] = SumStep(f, v, s)
    OBVIOUS
  <2> QED
    BY <1>6, <2>1
<1>8. Sums(f, t, g)
  BY <1>7 DEF Sums
<1> QED
  BY <1>2, <1>8

\* Whatever satisfies the equation of the sums gives the sum over the whole set.
LEMMA SumIs ==
  ASSUME NEW f, NEW S, IsFiniteSet(S), NEW g, Sums(f, S, g)
  PROVE  g[S] = SumOver(f, S)
<1>1. S \in SUBSET S
  OBVIOUS
<1> QED
  BY <1>1, SumValue

\* What the sum over a finite set is.
LEMMA SumEmpty ==
  ASSUME NEW f
  PROVE  SumOver(f, {}) = 0
<1>1. PICK g : Sums(f, {}, g)
  BY FS_EmptySet, SumExists
<1>2. g[{}] = SumOver(f, {})
  BY <1>1, FS_EmptySet, SumValue
<1> QED
  BY <1>1, <1>2, SumEquation

LEMMA SumFirst ==
  ASSUME NEW f, NEW S, IsFiniteSet(S), S # {}
  PROVE  \E x \in S : SumOver(f, S) = f[x] + SumOver(f, S \ {x})
<1>1. PICK g : Sums(f, S, g)
  BY SumExists
<1>2. S \in SUBSET S
  OBVIOUS
<1>3. PICK x \in S : g[S] = f[x] + g[S \ {x}]
  BY <1>1, <1>2, SumEquation
<1>4. S \ {x} \in SUBSET S
  OBVIOUS
<1>5. g[S] = SumOver(f, S) /\ g[S \ {x}] = SumOver(f, S \ {x})
  <2>1. g[S] = SumOver(f, S)
    BY <1>1, <1>2, SumValue
  <2>2. g[S \ {x}] = SumOver(f, S \ {x})
    BY <1>1, <1>4, SumValue
  <2> QED
    BY <2>1, <2>2
<1> QED
  BY <1>3, <1>5

LEMMA SumType ==
  ASSUME NEW f, NEW S, IsFiniteSet(S), \A x \in S : f[x] \in Int
  PROVE  SumOver(f, S) \in Int
<1> DEFINE B == {s \in SUBSET S : SumOver(f, s) \notin Int}
<1>1. SUFFICES ASSUME B # {} PROVE FALSE
  <2>1. S \in SUBSET S
    OBVIOUS
  <2> QED
    BY <2>1
<1>2. PICK t \in B : \A u \in B : u \subseteq t => u = t
  <2>1. B \in SUBSET (SUBSET S)
    OBVIOUS
  <2> HIDE DEF B
  <2> QED
    BY <1>1, <2>1, MinimalSubset
<1>3. t # {}
  BY SumEmpty
<1>4. PICK x \in t : SumOver(f, t) = f[x] + SumOver(f, t \ {x})
  BY <1>3, FS_Subset, SumFirst
<1>5. t \ {x} \in SUBSET S /\ t \ {x} \notin B
  BY <1>2
<1>6. SumOver(f, t \ {x}) \in Int /\ f[x] \in Int
  BY <1>5
<1> QED
  BY <1>4, <1>6

\* It does not depend on the order: any element may be taken out first.
LEMMA SumRemove ==
  ASSUME NEW f, NEW S, IsFiniteSet(S), \A x \in S : f[x] \in Int, NEW y \in S
  PROVE  SumOver(f, S) = f[y] + SumOver(f, S \ {y})
<1> DEFINE Good(s) == \A z \in s : SumOver(f, s) = f[z] + SumOver(f, s \ {z})
           B == {s \in SUBSET S : ~ Good(s)}
<1>1. SUFFICES ASSUME B # {} PROVE FALSE
  <2>1. S \in SUBSET S
    OBVIOUS
  <2> QED
    BY <2>1
<1>2. PICK t \in B : \A u \in B : u \subseteq t => u = t
  <2>1. B \in SUBSET (SUBSET S)
    OBVIOUS
  <2> HIDE DEF B
  <2> QED
    BY <1>1, <2>1, MinimalSubset
<1>3. \A s \in SUBSET S : SumOver(f, s) \in Int
  BY FS_Subset, SumType
<1>4. t \in SUBSET S /\ ~ Good(t)
  OBVIOUS
<1>5. PICK z \in t : SumOver(f, t) # f[z] + SumOver(f, t \ {z})
  BY <1>4
<1>6. PICK x \in t : SumOver(f, t) = f[x] + SumOver(f, t \ {x})
  BY <1>4, <1>5, FS_Subset, SumFirst
<1>7. x # z
  BY <1>5, <1>6
<1>8. Good(t \ {x}) /\ Good(t \ {z})
  <2>1. t \ {x} \in SUBSET S /\ t \ {x} \notin B /\ t \ {z} \in SUBSET S /\ t \ {z} \notin B
    BY <1>2, <1>4, <1>5, <1>6
  <2> QED
    BY <2>1
<1>9. /\ SumOver(f, t \ {x}) = f[z] + SumOver(f, (t \ {x}) \ {z})
      /\ SumOver(f, t \ {z}) = f[x] + SumOver(f, (t \ {z}) \ {x})
  BY <1>5, <1>6, <1>7, <1>8
<1>10. (t \ {x}) \ {z} = (t \ {z}) \ {x}
  OBVIOUS
<1>11. /\ f[x] \in Int /\ f[z] \in Int /\ SumOver(f, (t \ {z}) \ {x}) \in Int
  BY <1>3, <1>4
<1> DEFINE w == SumOver(f, (t \ {z}) \ {x})
<1>12. SumOver(f, t \ {x}) = f[z] + w /\ SumOver(f, t \ {z}) = f[x] + w /\ w \in Int
  BY <1>9, <1>10, <1>11
<1> HIDE DEF w
<1>13. f[x] + (f[z] + w) = f[z] + (f[x] + w)
  BY <1>11, <1>12
<1> QED
  BY <1>5, <1>6, <1>12, <1>13

LEMMA SumAdd ==
  ASSUME NEW f, NEW S, IsFiniteSet(S), NEW y, y \notin S, \A x \in S \cup {y} : f[x] \in Int
  PROVE  SumOver(f, S \cup {y}) = SumOver(f, S) + f[y]
<1>1. IsFiniteSet(S \cup {y})
  BY FS_AddElement
<1>2. (S \cup {y}) \ {y} = S /\ y \in S \cup {y}
  OBVIOUS
<1>3. SumOver(f, S \cup {y}) = f[y] + SumOver(f, S)
  BY <1>1, <1>2, SumRemove
<1> QED
  BY <1>3, SumType

\* Values that are not negative: a sum over less is not greater.
LEMMA SumNat ==
  ASSUME NEW f, NEW S, IsFiniteSet(S), \A x \in S : f[x] \in Nat
  PROVE  SumOver(f, S) \in Nat
<1> DEFINE B == {s \in SUBSET S : SumOver(f, s) \notin Nat}
<1>1. SUFFICES ASSUME B # {} PROVE FALSE
  <2>1. S \in SUBSET S
    OBVIOUS
  <2> QED
    BY <2>1
<1>2. PICK t \in B : \A u \in B : u \subseteq t => u = t
  <2>1. B \in SUBSET (SUBSET S)
    OBVIOUS
  <2> HIDE DEF B
  <2> QED
    BY <1>1, <2>1, MinimalSubset
<1>3. t # {}
  BY SumEmpty
<1>4. PICK x \in t : SumOver(f, t) = f[x] + SumOver(f, t \ {x})
  BY <1>3, FS_Subset, SumFirst
<1>5. t \ {x} \in SUBSET S /\ t \ {x} \notin B
  BY <1>2
<1>6. SumOver(f, t \ {x}) \in Nat /\ f[x] \in Nat
  BY <1>5
<1> QED
  BY <1>4, <1>6

LEMMA SumDepends ==
  ASSUME NEW f, NEW g, NEW S, IsFiniteSet(S), \A x \in S : f[x] = g[x]
  PROVE  SumOver(f, S) = SumOver(g, S)
<1>1. \A k : Sums(f, S, k) <=> Sums(g, S, k)
  <2> SUFFICES ASSUME NEW k
               PROVE  \A s \in SUBSET S : SumStep(f, k, s) = SumStep(g, k, s)
    BY DEF Sums
  <2> TAKE s \in SUBSET S
  <2>1. CASE s = {}
    BY <2>1 DEF SumStep
  <2>2. CASE s # {}
    <3>1. PICK x \in s : x = CHOOSE y \in s : TRUE
      BY <2>2
    <3> QED
      BY <2>2, <3>1 DEF SumStep
  <2> QED
    BY <2>1, <2>2
<1>2. PICK k : Sums(f, S, k)
  BY SumExists
<1>3. S \in SUBSET S /\ Sums(g, S, k)
  BY <1>1, <1>2
<1> QED
  BY <1>2, <1>3, SumValue

-----------------------------------------------------------------------------
(* Sums of durations.                                                      *)

\* The sum that StaticQueue takes over a set of storage ids.
Durations(S) == MapThenSumSet(LAMBDA id : id.duration, S)

DurationOf(S) == [id \in S |-> id.duration]

\* The fold of the community modules is the sum above.
LEMMA DurationsAreSummed ==
  ASSUME NEW T, NEW S \in SUBSET T, IsFiniteSet(S)
  PROVE  Durations(S) = SumOver(DurationOf(T), S)
<1> DEFINE P(g) == g = [s \in SUBSET S |->
                          IF s = {} THEN 0
                          ELSE LET x == CHOOSE x \in s : TRUE
                               IN  x.duration + g[s \ {x}]]
           k == CHOOSE g : P(g)
<1>1. \A g : Sums(DurationOf(T), S, g) <=> P(g)
  <2> SUFFICES ASSUME NEW g
               PROVE  \A s \in SUBSET S : SumStep(DurationOf(T), g, s) =
                        IF s = {} THEN 0
                        ELSE LET x == CHOOSE x \in s : TRUE
                             IN  x.duration + g[s \ {x}]
    BY DEF Sums
  <2> TAKE s \in SUBSET S
  <2>1. CASE s = {}
    BY <2>1 DEF SumStep
  <2>2. CASE s # {}
    <3>1. PICK x \in s : x = CHOOSE y \in s : TRUE
      BY <2>2
    <3>2. DurationOf(T)[x] = x.duration
      BY DEF DurationOf
    <3> QED
      BY <2>2, <3>1, <3>2 DEF SumStep
  <2> QED
    BY <2>1, <2>2
<1>2. Durations(S) = k[S]
  BY DEF Durations, MapThenSumSet, MapThenFoldSet
<1>3. PICK g : Sums(DurationOf(T), S, g)
  BY SumExists
<1>4. P(k)
  <2>1. P(g)
    BY <1>1, <1>3
  <2> HIDE DEF P
  <2> QED
    BY <2>1, Zenon
<1>5. Sums(DurationOf(T), S, k)
  BY <1>1, <1>4
<1> HIDE DEF P, k
<1>6. S \in SUBSET S
  OBVIOUS
<1> QED
  BY <1>2, <1>5, <1>6, SumValue

\* What an id adds to the sum, and what taking one away, or none, leaves.
LEMMA DurationsChange ==
  ASSUME NEW T, \A id \in T : id.duration \in Nat, NEW S \in SUBSET T, IsFiniteSet(S)
  PROVE  /\ Durations(S) \in Nat
         /\ Durations({}) = 0
         /\ \A id \in T : id \notin S =>
              /\ IsFiniteSet(S \cup {id})
              /\ Durations(S \cup {id}) = Durations(S) + id.duration
         /\ \A id : id.duration \in Nat =>
              /\ IsFiniteSet(S \ {id})
              /\ Durations(S) - id.duration <= Durations(S \ {id})
<1>1. \A x \in T : DurationOf(T)[x] = x.duration /\ DurationOf(T)[x] \in Nat
  BY DEF DurationOf
<1>2. Durations(S) = SumOver(DurationOf(T), S) /\ Durations(S) \in Nat
  BY <1>1, DurationsAreSummed, SumNat
<1>e. Durations({}) = 0
  <2>1. {} \in SUBSET T /\ IsFiniteSet({})
    BY FS_EmptySet
  <2> QED
    BY <2>1, DurationsAreSummed, SumEmpty
<1>3. ASSUME NEW id \in T, id \notin S
      PROVE  /\ IsFiniteSet(S \cup {id})
             /\ Durations(S \cup {id}) = Durations(S) + id.duration
  <2>1. IsFiniteSet(S \cup {id}) /\ S \cup {id} \in SUBSET T
    BY FS_AddElement
  <2>2. Durations(S \cup {id}) = SumOver(DurationOf(T), S \cup {id})
    BY <2>1, DurationsAreSummed
  <2>3. \A x \in S \cup {id} : DurationOf(T)[x] \in Int
    BY <1>1
  <2>4. SumOver(DurationOf(T), S \cup {id}) = SumOver(DurationOf(T), S) + DurationOf(T)[id]
    BY <1>3, <2>3, SumAdd
  <2> QED
    BY <1>1, <1>2, <2>1, <2>2, <2>4
<1>4. ASSUME NEW id, id.duration \in Nat
      PROVE  /\ IsFiniteSet(S \ {id})
             /\ Durations(S) - id.duration <= Durations(S \ {id})
  <2>1. IsFiniteSet(S \ {id}) /\ S \ {id} \in SUBSET T
    BY FS_Subset
  <2>2. CASE id \in S
    <3>1. SumOver(DurationOf(T), S) = DurationOf(T)[id] + SumOver(DurationOf(T), S \ {id})
      BY <1>1, <2>2, SumRemove
    <3>2. SumOver(DurationOf(T), S \ {id}) \in Nat
      BY <1>1, <2>1, SumNat
    <3>3. Durations(S \ {id}) = SumOver(DurationOf(T), S \ {id})
      BY <2>1, DurationsAreSummed
    <3> QED
      BY <1>1, <1>2, <2>1, <2>2, <3>1, <3>2, <3>3
  <2>3. CASE id \notin S
    <3>1. S \ {id} = S
      BY <2>3
    <3>2. Durations(S \ {id}) = Durations(S)
      BY <3>1, Zenon
    <3>3. Durations(S) - id.duration <= Durations(S)
      BY <1>2, <1>4
    <3> QED
      BY <2>1, <3>2, <3>3
  <2> QED
    BY <2>2, <2>3
<1> QED
  BY <1>2, <1>3, <1>4, <1>e

-----------------------------------------------------------------------------
(* Folds over sequences.                                                   *)

\* Some indices have a greatest one, which Max returns.
LEMMA MaxOfIndices ==
  ASSUME NEW n \in Nat, NEW s \in SUBSET (1..n), s # {}
  PROVE  Max(s) \in s /\ \A y \in s : y <= Max(s)
<1> DEFINE I == {n - i : i \in s}
<1>1. I \in SUBSET Nat /\ I # {}
  <2>1. \A i \in 1..n : n - i \in Nat
    OBVIOUS
  <2> QED
    BY <2>1, Zenon
<1>2. PICK x \in I : \A y \in I : x <= y
  <2> HIDE DEF I
  <2> QED
    BY <1>1, LeastIndex
<1>3. PICK i \in s : x = n - i
  OBVIOUS
<1>4. \A y \in s : i >= y
  <2> SUFFICES ASSUME NEW y \in s PROVE i >= y
    OBVIOUS
  <2>1. n - y \in I /\ y \in 1..n /\ i \in 1..n
    OBVIOUS
  <2>2. n - i <= n - y
    BY <1>2, <1>3, <2>1
  <2> QED
    BY <2>1, <2>2
<1> DEFINE m == Max(s)
<1>5. m \in s /\ \A y \in s : m >= y
  BY <1>4 DEF Max
<1> HIDE DEF m
<1>6. \A y \in s : y <= m
  BY <1>5
<1> QED
  BY <1>5, <1>6 DEF m

\* g is the fold of F at the indices in s, given what it is at fewer.
FoldStep(F, base, g, s) ==
  g[s] = IF s = {} THEN base ELSE F[<<Max(s), g[s \ {Max(s)}]>>]

\* FoldLeft is a recursive function on the sets of indices: there is one, and
\* its values are in A when F and its start are.
LEMMA FoldExists ==
  ASSUME NEW n \in Nat, NEW A, NEW base \in A, NEW F \in [(1..n) \X A -> A]
  PROVE  \E g \in [SUBSET (1..n) -> A] :
           \A s \in SUBSET (1..n) : FoldStep(F, base, g, s)
<1> DEFINE Folds(m, g) == /\ g \in [SUBSET (1..m) -> A]
                          /\ \A s \in SUBSET (1..m) : FoldStep(F, base, g, s)
           I == {m \in 0..n : ~ \E g : Folds(m, g)}
<1>1. SUFFICES ASSUME I # {} PROVE FALSE
  <2>1. n \in 0..n
    OBVIOUS
  <2>2. \E g : Folds(n, g)
    BY <1>1, <2>1
  <2> QED
    BY <2>2
<1>2. PICK m \in I : \A k \in I : m <= k
  <2>1. I \in SUBSET Nat
    OBVIOUS
  <2> HIDE DEF I
  <2> QED
    BY <1>1, <2>1, LeastIndex
<1>3. m \in 0..n /\ ~ \E g : Folds(m, g)
  OBVIOUS
<1>4. CASE m = 0
  <2> DEFINE g == [s \in SUBSET (1..m) |-> base]
  <2>1. \A s \in SUBSET (1..m) : s = {}
    BY <1>4
  <2>2. Folds(m, g)
    BY <2>1 DEF FoldStep
  <2> QED
    BY <1>3, <2>2
<1>5. CASE m # 0
  <2>1. m - 1 \in 0..n /\ m - 1 < m /\ m \in 1..n
    BY <1>3, <1>5
  <2>2. m - 1 \notin I
    <3> HIDE DEF I
    <3> QED
      BY <1>2, <1>3, <2>1
  <2>3. PICK h : Folds(m - 1, h)
    BY <2>1, <2>2
  <2> DEFINE g == [s \in SUBSET (1..m) |-> IF m \in s THEN F[<<m, h[s \ {m}]>>] ELSE h[s]]
  <2>4. \A s \in SUBSET (1..m) :
          s \ {m} \in SUBSET (1..(m - 1)) /\ (m \notin s => s \in SUBSET (1..(m - 1)))
    BY <2>1
  <2>5. \A s \in SUBSET (1..m) : m \notin s => g[s] = h[s]
    OBVIOUS
  <2>6. \A s \in SUBSET (1..(m - 1)) : s \in SUBSET (1..m) /\ m \notin s
    BY <2>1
  <2>7. g \in [SUBSET (1..m) -> A]
    <3> SUFFICES ASSUME NEW s \in SUBSET (1..m)
                 PROVE  (IF m \in s THEN F[<<m, h[s \ {m}]>>] ELSE h[s]) \in A
      OBVIOUS
    <3>1. h[s \ {m}] \in A /\ (m \notin s => h[s] \in A)
      BY <2>3, <2>4
    <3>2. <<m, h[s \ {m}]>> \in (1..n) \X A
      BY <2>1, <3>1
    <3>3. F[<<m, h[s \ {m}]>>] \in A
      BY <3>2
    <3> QED
      BY <3>1, <3>3
  <2>8. ASSUME NEW s \in SUBSET (1..m)
        PROVE  FoldStep(F, base, g, s)
    <3>1. CASE m \in s
      <4>1. Max(s) \in s /\ (\A y \in s : y <= Max(s)) /\ m \in Nat
        <5>1. s # {} /\ m \in Nat /\ s \in SUBSET (1..m)
          BY <2>1, <3>1
        <5> QED
          BY <5>1, MaxOfIndices, Zenon
      <4>2. Max(s) = m
        <5> DEFINE x == Max(s)
        <5>1. x \in s /\ \A y \in s : y <= x
          BY <4>1
        <5> HIDE DEF x
        <5>2. x \in 1..m /\ m <= x
          BY <3>1, <5>1
        <5>3. x = m
          BY <5>2, <2>1
        <5> QED
          BY <5>3 DEF x
      <4>3. g[s] = F[<<m, h[s \ {m}]>>]
        BY <3>1
      <4>4. g[s \ {m}] = h[s \ {m}]
        BY <2>4, <2>5, <2>6
      <4> HIDE DEF g
      <4> QED
        BY <3>1, <4>2, <4>3, <4>4 DEF FoldStep
    <3>2. CASE m \notin s
      <4>1. s \in SUBSET (1..(m - 1)) /\ g[s] = h[s]
        BY <2>4, <2>5, <3>2
      <4>2. FoldStep(F, base, h, s)
        BY <2>3, <4>1
      <4>3. s # {} => g[s \ {Max(s)}] = h[s \ {Max(s)}]
        BY <2>5, <2>6, <4>1
      <4> HIDE DEF g
      <4> QED
        BY <4>1, <4>2, <4>3 DEF FoldStep
    <3> QED
      BY <3>1, <3>2
  <2>9. Folds(m, g)
    BY <2>7, <2>8
  <2> QED
    BY <1>3, <2>9
<1> QED
  BY <1>4, <1>5

\* What holds at the start of a fold, and is kept by each of its steps, holds at
\* its end.
LEMMA FoldKeeps ==
  ASSUME NEW n \in Nat, NEW A, NEW g, g[{}] \in A,
         \A s \in SUBSET (1..n) : s # {} => (g[s \ {Max(s)}] \in A => g[s] \in A)
  PROVE  g[1..n] \in A
<1> DEFINE N == 1..n
           B == {s \in SUBSET N : g[s] \notin A}
<1>1. SUFFICES ASSUME B # {} PROVE FALSE
  <2>1. N \in SUBSET N
    OBVIOUS
  <2> QED
    BY <1>1, <2>1
<1>2. PICK t \in B : \A u \in B : u \subseteq t => u = t
  <2>1. B \in SUBSET (SUBSET N)
    OBVIOUS
  <2>2. n \in Int /\ 1 \in Int
    OBVIOUS
  <2>3. IsFiniteSet(N)
    BY <2>2, FS_Interval, Zenon
  <2> HIDE DEF B, N
  <2> QED
    BY <1>1, <2>1, <2>3, MinimalSubset
<1>3. t # {} /\ t \in SUBSET (1..n)
  OBVIOUS
<1>4. Max(t) \in t
  BY <1>3, MaxOfIndices
<1>5. t \ {Max(t)} \notin B
  BY <1>2, <1>4
<1> QED
  BY <1>3, <1>5

-----------------------------------------------------------------------------
(* Sorted lists, and lists of lists.                                       *)

\* A finite set that is not empty has an element with a largest key.
LEMMA LargestKey ==
  ASSUME NEW S, IsFiniteSet(S), S # {}, NEW key, \A x \in S : key[x] \in Int
  PROVE  \E x \in S : \A y \in S : key[y] <= key[x]
<1> DEFINE Top(t) == \E x \in t : \A y \in t : key[y] <= key[x]
           B == {t \in SUBSET S : t # {} /\ ~ Top(t)}
<1>1. SUFFICES ASSUME B # {} PROVE FALSE
  <2>1. S \in SUBSET S
    OBVIOUS
  <2> QED
    BY <1>1, <2>1
<1>2. PICK t \in B : \A u \in B : u \subseteq t => u = t
  <2>1. B \in SUBSET (SUBSET S)
    OBVIOUS
  <2> HIDE DEF B
  <2> QED
    BY <1>1, <2>1, MinimalSubset
<1>3. t \in SUBSET S /\ t # {} /\ ~ Top(t)
  OBVIOUS
<1>4. PICK x \in t : TRUE
  BY <1>3
<1>5. CASE t \ {x} = {}
  <2>1. \A y \in t : y = x
    BY <1>5
  <2>2. key[x] <= key[x]
    BY <1>3, <1>4
  <2> QED
    BY <1>3, <1>4, <2>1, <2>2
<1>6. CASE t \ {x} # {}
  <2>1. t \ {x} \in SUBSET S /\ t \ {x} \notin B
    BY <1>2, <1>3, <1>4
  <2>2. PICK z \in t \ {x} : \A y \in t \ {x} : key[y] <= key[z]
    BY <1>6, <2>1
  <2>3. key[x] \in Int /\ key[z] \in Int /\ \A y \in t : key[y] \in Int
    BY <1>3, <1>4, <2>2
  <2>4. CASE key[x] <= key[z]
    <3>1. \A y \in t : key[y] <= key[z]
      BY <2>2, <2>4
    <3> QED
      BY <1>3, <3>1
  <2>5. CASE key[z] <= key[x]
    <3>1. \A y \in t : key[y] <= key[x]
      BY <2>2, <2>3, <2>5
    <3> QED
      BY <1>3, <1>4, <3>1
  <2> QED
    BY <2>3, <2>4, <2>5
<1> QED
  BY <1>5, <1>6

\* Max returns it, if there is a largest number.
LEMMA MaxOf ==
  ASSUME NEW S, IsFiniteSet(S), S # {}, S \subseteq Int
  PROVE  Max(S) \in S /\ \A y \in S : y <= Max(S)
<1> DEFINE key == [x \in S |-> x]
<1>1. \A x \in S : key[x] \in Int
  OBVIOUS
<1> HIDE DEF key
<1>2. \E x \in S : \A y \in S : key[y] <= key[x]
  BY <1>1, LargestKey
<1>3. \E x \in S : \A y \in S : y <= x
  BY <1>2 DEF key
<1>4. \E x \in S : \A y \in S : x >= y
  BY <1>3
<1>5. Max(S) \in S /\ \A y \in S : Max(S) >= y
  BY <1>4 DEF Max
<1> QED
  BY <1>5

\* s lists the elements of S, each once, by their keys.
Sorts(S, key, s) ==
  /\ s \in [1..Cardinality(S) -> S]
  /\ \A m, n \in 1..Cardinality(S) : m # n => s[m] # s[n]
  /\ \A m, n \in 1..Cardinality(S) : m < n => key[s[m]] <= key[s[n]]

\* Every finite set can be sorted.
LEMMA SortedExists ==
  ASSUME NEW S, IsFiniteSet(S), NEW key, \A x \in S : key[x] \in Int
  PROVE  \E s : Sorts(S, key, s)
<1> DEFINE B == {t \in SUBSET S : ~ \E s : Sorts(t, key, s)}
<1>1. SUFFICES ASSUME B # {} PROVE FALSE
  <2>1. S \in SUBSET S
    OBVIOUS
  <2> QED
    BY <1>1, <2>1
<1>2. PICK t \in B : \A u \in B : u \subseteq t => u = t
  <2>1. B \in SUBSET (SUBSET S)
    OBVIOUS
  <2> HIDE DEF B
  <2> QED
    BY <1>1, <2>1, MinimalSubset
<1>3. t \in SUBSET S /\ ~ \E s : Sorts(t, key, s)
  OBVIOUS
<1>4. t # {}
  <2> SUFFICES ASSUME t = {} PROVE \E s : Sorts(t, key, s)
    BY <1>3
  <2> DEFINE s == [i \in {} |-> 0]
  <2>1. Cardinality(t) = 0 /\ 1..0 = {}
    BY FS_EmptySet
  <2>2. s \in [{} -> t]
    OBVIOUS
  <2> HIDE DEF s
  <2>3. Sorts(t, key, s)
    BY <2>1, <2>2 DEF Sorts
  <2> QED
    BY <2>3
<1>5. IsFiniteSet(t) /\ \A x \in t : key[x] \in Int
  BY <1>3, FS_Subset
<1>6. PICK x \in t : \A y \in t : key[y] <= key[x]
  BY <1>4, <1>5, LargestKey
<1> DEFINE n == Cardinality(t \ {x})
<1>7. /\ n \in Nat /\ Cardinality(t) = n + 1 /\ IsFiniteSet(t \ {x})
  <2>1. IsFiniteSet(t \ {x}) /\ n \in Nat
    BY <1>5, FS_RemoveElement, FS_CardinalityType
  <2>2. Cardinality(t) \in Nat /\ n = Cardinality(t) - 1
    BY <1>5, <1>6, FS_RemoveElement, FS_CardinalityType
  <2> QED
    BY <2>1, <2>2
<1>8. PICK r : Sorts(t \ {x}, key, r)
  <2>1. t \ {x} \in SUBSET S /\ t \ {x} \subseteq t /\ t \ {x} # t
    BY <1>3, <1>6
  <2>2. t \ {x} \notin B
    BY <1>2, <2>1
  <2> QED
    BY <2>1, <2>2
<1>9. /\ r \in [1..n -> t \ {x}]
      /\ \A a, b \in 1..n : a # b => r[a] # r[b]
      /\ \A a, b \in 1..n : a < b => key[r[a]] <= key[r[b]]
  BY <1>8 DEF Sorts
<1> HIDE DEF n
<1> DEFINE s == [i \in 1..(n + 1) |-> IF i = n + 1 THEN x ELSE r[i]]
<1>10. \A i \in 1..(n + 1) : i # n + 1 => i \in 1..n
  BY <1>7
<1>11. n + 1 \in 1..(n + 1) /\ s \in [1..(n + 1) -> t]
  BY <1>7, <1>9, <1>10
<1>12. s[n + 1] = x /\ \A i \in 1..(n + 1) : i # n + 1 => s[i] = r[i] /\ r[i] \in t \ {x}
  BY <1>9, <1>10, <1>11
<1> HIDE DEF s
<1>13. ASSUME NEW a \in 1..(n + 1), NEW b \in 1..(n + 1), a # b
       PROVE  s[a] # s[b]
  BY <1>9, <1>10, <1>12, <1>13
<1>14. ASSUME NEW a \in 1..(n + 1), NEW b \in 1..(n + 1), a < b
       PROVE  key[s[a]] <= key[s[b]]
  <2>1. a # n + 1 /\ a \in 1..n
    BY <1>7, <1>14
  <2>2. CASE b = n + 1
    BY <1>6, <1>12, <2>1, <2>2
  <2>3. CASE b # n + 1
    <3>1. b \in 1..n
      BY <1>10, <2>3
    <3> QED
      BY <1>9, <1>12, <1>14, <2>1, <2>3, <3>1
  <2> QED
    BY <2>2, <2>3
<1>15. Sorts(t, key, s)
  BY <1>7, <1>11, <1>13, <1>14 DEF Sorts
<1> QED
  BY <1>3, <1>15

\* n numbers of 1..n that ascend are 1, 2, ... n.
LEMMA AscendingIsIdentity ==
  ASSUME NEW n \in Nat, NEW h \in [1..n -> 1..n],
         \A a, b \in 1..n : a < b => h[a] < h[b]
  PROVE  \A i \in 1..n : h[i] = i
<1>1. \A i \in 1..n : i <= h[i]
  <2> DEFINE I == {i \in 1..n : ~ (i <= h[i])}
  <2>1. SUFFICES ASSUME I # {} PROVE FALSE
    OBVIOUS
  <2>2. PICK i \in I : \A k \in I : i <= k
    <3>1. I \in SUBSET Nat
      OBVIOUS
    <3> HIDE DEF I
    <3> QED
      BY <2>1, <3>1, LeastIndex
  <2>3. i \in 1..n /\ h[i] \in 1..n /\ h[i] < i
    OBVIOUS
  <2>4. i - 1 \in 1..n /\ i - 1 < i /\ i - 1 \notin I
    BY <2>2, <2>3
  <2>5. i - 1 <= h[i - 1] /\ h[i - 1] < h[i] /\ h[i - 1] \in Int
    BY <2>3, <2>4
  <2> QED
    BY <2>3, <2>5
<1>2. \A i \in 1..n : h[i] <= i
  <2> DEFINE W == {k \in 1..n : ~ (h[k] <= k)}
             I == {n - i : i \in W}
  <2>1. SUFFICES ASSUME I # {} PROVE FALSE
    OBVIOUS
  <2>2. PICK d \in I : \A k \in I : d <= k
    <3>1. I \in SUBSET Nat
      <4>1. \A i \in W : n - i \in Nat
        OBVIOUS
      <4> HIDE DEF W
      <4> QED
        BY <4>1
    <3> HIDE DEF I
    <3> QED
      BY <2>1, <3>1, LeastIndex
  <2>3. PICK i \in 1..n : d = n - i /\ ~ (h[i] <= i)
    OBVIOUS
  <2>4. h[i] \in 1..n /\ i < h[i]
    BY <2>3
  <2>5. i + 1 \in 1..n /\ n - (i + 1) < d
    BY <2>3, <2>4
  <2>6. h[i + 1] <= i + 1
    <3>1. n - (i + 1) \notin I
      <4>1. n - (i + 1) \in Int /\ d \in Int /\ ~ (d <= n - (i + 1))
        BY <2>3, <2>5
      <4> HIDE DEF I
      <4> QED
        BY <2>2, <4>1
    <3> QED
      BY <2>5, <3>1
  <2>7. h[i] < h[i + 1] /\ h[i + 1] \in Int
    BY <2>3, <2>5
  <2> QED
    BY <2>4, <2>6, <2>7
<1> QED
  BY <1>1, <1>2

\* The recursive function behind FlattenSeq.
Flattens(seqs, n, g) ==
  g = [i \in 1..n |-> IF i = 1 THEN seqs[i] ELSE g[i - 1] \o seqs[i]]

LEMMA FlattenExists ==
  ASSUME NEW n \in Nat, NEW seqs
  PROVE  \E g : Flattens(seqs, n, g)
<1> DEFINE I == {m \in 0..n : ~ \E g : Flattens(seqs, m, g)}
<1>1. SUFFICES ASSUME I # {} PROVE FALSE
  <2>1. n \in 0..n
    OBVIOUS
  <2> QED
    BY <1>1, <2>1
<1>2. PICK m \in I : \A k \in I : m <= k
  <2>1. I \in SUBSET Nat
    OBVIOUS
  <2> HIDE DEF I
  <2> QED
    BY <1>1, <2>1, LeastIndex
<1>3. m \in 0..n /\ ~ \E g : Flattens(seqs, m, g)
  OBVIOUS
<1>4. CASE m = 0
  <2> DEFINE g == [i \in 1..0 |-> seqs[i]]
  <2>1. 1..0 = {}
    OBVIOUS
  <2>2. g = [i \in 1..0 |-> IF i = 1 THEN seqs[i] ELSE g[i - 1] \o seqs[i]]
    BY <2>1
  <2> HIDE DEF g
  <2>3. Flattens(seqs, m, g)
    BY <1>4, <2>2 DEF Flattens
  <2> QED
    BY <1>3, <2>3
<1>5. CASE m # 0
  <2>1. m - 1 \in 0..n /\ ~ (m <= m - 1)
    BY <1>3, <1>5
  <2>2. m - 1 \notin I
    <3> HIDE DEF I
    <3> QED
      BY <1>2, <2>1
  <2>3. PICK h : Flattens(seqs, m - 1, h)
    BY <2>1, <2>2
  <2>4. \A i \in 1..(m - 1) : h[i] = IF i = 1 THEN seqs[i] ELSE h[i - 1] \o seqs[i]
    BY <2>3 DEF Flattens
  <2> DEFINE g == [i \in 1..m |-> IF i # m THEN h[i]
                                  ELSE IF i = 1 THEN seqs[i] ELSE h[i - 1] \o seqs[i]]
  <2>5. ASSUME NEW i \in 1..m
        PROVE  g[i] = IF i = 1 THEN seqs[i] ELSE g[i - 1] \o seqs[i]
    <3>1. i # 1 => i - 1 \in 1..m /\ i - 1 # m
      BY <1>3
    <3>2. i # 1 => g[i - 1] = h[i - 1]
      BY <3>1
    <3>3. CASE i = m
      BY <3>2, <3>3
    <3>4. CASE i # m
      <4>1. i \in 1..(m - 1)
        BY <1>3, <3>4
      <4> QED
        BY <2>4, <3>2, <3>4, <4>1
    <3> QED
      BY <3>3, <3>4
  <2>6. g = [i \in 1..m |-> g[i]]
    OBVIOUS
  <2> HIDE DEF g
  <2>7. Flattens(seqs, m, g)
    BY <2>5, <2>6 DEF Flattens
  <2> QED
    BY <1>3, <2>7
<1> QED
  BY <1>4, <1>5

\* What one list contributes when it is appended to another.
LEMMA RangeOfConcat ==
  ASSUME NEW A, NEW s \in Seq(A), NEW t \in Seq(A)
  PROVE  Range(s \o t) = Range(s) \cup Range(t)
<1> DEFINE c == s \o t
<1>1. /\ c \in Seq(A) /\ Len(c) = Len(s) + Len(t) /\ Len(s) \in Nat /\ Len(t) \in Nat
      /\ \A i \in 1..(Len(s) + Len(t)) : c[i] = IF i <= Len(s) THEN s[i] ELSE t[i - Len(s)]
  BY ConcatProperties, LenProperties
<1>2. /\ DOMAIN c = 1..(Len(s) + Len(t)) /\ DOMAIN s = 1..Len(s) /\ DOMAIN t = 1..Len(t)
  BY <1>1
<1> HIDE DEF c
<1>3. ASSUME NEW i \in DOMAIN c
      PROVE  c[i] \in Range(s) \cup Range(t)
  <2>1. CASE i <= Len(s)
    <3>1. i \in DOMAIN s /\ c[i] = s[i]
      BY <1>1, <1>2, <2>1
    <3> QED
      BY <3>1 DEF Range
  <2>2. CASE ~ (i <= Len(s))
    <3>1. i - Len(s) \in DOMAIN t /\ c[i] = t[i - Len(s)]
      BY <1>1, <1>2, <2>2
    <3> QED
      BY <3>1 DEF Range
  <2> QED
    BY <2>1, <2>2
<1>4. ASSUME NEW i \in DOMAIN s
      PROVE  s[i] \in Range(c)
  <2>1. i \in DOMAIN c /\ c[i] = s[i]
    BY <1>1, <1>2
  <2> QED
    BY <2>1 DEF Range
<1>5. ASSUME NEW i \in DOMAIN t
      PROVE  t[i] \in Range(c)
  <2>1. /\ Len(s) + i \in 1..(Len(s) + Len(t)) /\ ~ (Len(s) + i <= Len(s))
        /\ (Len(s) + i) - Len(s) = i
    BY <1>1, <1>2
  <2>2. Len(s) + i \in DOMAIN c /\ c[Len(s) + i] = t[i]
    BY <1>1, <1>2, <2>1
  <2> QED
    BY <2>2 DEF Range
<1> QED
  BY <1>3, <1>4, <1>5 DEF Range, c

\* n lists of length k.
Lists(seqs, A, n, k) ==
  /\ n \in Nat /\ k \in Nat
  /\ seqs \in [1..n -> Seq(A)] /\ \A i \in 1..n : Len(seqs[i]) = k

\* FlattenSeq loses and repeats nothing; n lists of length k make a list of
\* length n * k.
LEMMA Flattened ==
  ASSUME NEW seqs, NEW A, NEW n, NEW k, Lists(seqs, A, n, k)
  PROVE  /\ FlattenSeq(seqs) \in Seq(A) /\ Len(FlattenSeq(seqs)) = n * k
         /\ Range(FlattenSeq(seqs)) = UNION {Range(seqs[i]) : i \in 1..n}
<1> USE DEF Lists
<1>1. seqs \in Seq(Seq(A)) /\ Len(seqs) = n
  OBVIOUS
<1>2. CASE n = 0
  <2>1. seqs = <<>>
    BY <1>1, <1>2, EmptySeq
  <2>2. FlattenSeq(seqs) = <<>>
    BY <1>1, <1>2, <2>1 DEF FlattenSeq
  <2>3. 0 * k = 0
    OBVIOUS
  <2>4. Range(<<>>) = {} /\ 1..0 = {}
    BY DEF Range
  <2>5. <<>> \in Seq(A) /\ Len(<<>>) = 0
    BY EmptySeq
  <2> QED
    BY <1>2, <2>2, <2>3, <2>4, <2>5
<1>3. CASE n # 0
  <2> DEFINE g == CHOOSE g : Flattens(seqs, n, g)
  <2>1. Flattens(seqs, n, g)
    BY FlattenExists
  <2>2. FlattenSeq(seqs) = g[n]
    BY <1>1, <1>3 DEF FlattenSeq, Flattens
  <2> HIDE DEF g
  <2>3. \A i \in 1..n : g[i] = IF i = 1 THEN seqs[i] ELSE g[i - 1] \o seqs[i]
    BY <2>1 DEF Flattens
  <2> DEFINE All(i) == UNION {Range(seqs[o]) : o \in 1..i}
             Good(i) == g[i] \in Seq(A) /\ Len(g[i]) = i * k /\ Range(g[i]) = All(i)
             I == {i \in 1..n : ~ Good(i)}
  <2>4. I = {}
    <3>1. SUFFICES ASSUME I # {} PROVE FALSE
      OBVIOUS
    <3>2. PICK i \in I : \A m \in I : i <= m
      <4>1. I \in SUBSET Nat
        OBVIOUS
      <4> HIDE DEF I
      <4> QED
        BY <3>1, <4>1, LeastIndex
    <3>3. i \in 1..n /\ ~ Good(i)
      OBVIOUS
    <3>4. seqs[i] \in Seq(A) /\ Len(seqs[i]) = k
      BY <3>3
    <3>5. CASE i = 1
      <4>1. g[i] = seqs[i] /\ 1 * k = k /\ 1..1 = {1}
        BY <2>3, <3>3, <3>5
      <4>2. All(1) = Range(seqs[1])
        BY <4>1
      <4> HIDE DEF All
      <4> QED
        BY <3>3, <3>4, <3>5, <4>1, <4>2
    <3>6. CASE i # 1
      <4> DEFINE p == i - 1
      <4>1. p \in 1..n /\ ~ (i <= p) /\ p \in Nat /\ i = p + 1
        BY <3>3, <3>6
      <4>2. g[i] = g[p] \o seqs[i]
        BY <2>3, <3>3, <3>6
      <4> HIDE DEF p
      <4>3. Good(p)
        <5>1. p \notin I
          <6> HIDE DEF I
          <6> QED
            BY <3>2, <4>1
        <5> HIDE DEF Good
        <5> QED
          BY <4>1, <5>1
      <4>4. g[i] \in Seq(A) /\ Len(g[i]) = p * k + k /\ Range(g[i]) = All(p) \cup Range(seqs[i])
        <5>1. g[p] \in Seq(A) /\ Len(g[p]) = p * k /\ Range(g[p]) = All(p)
          BY <4>3
        <5> HIDE DEF All, Good, I
        <5> DEFINE s == g[p]
                   t == seqs[i]
        <5>2. s \in Seq(A) /\ t \in Seq(A)
          BY <5>1, <3>4
        <5> HIDE DEF s, t
        <5>3. s \o t \in Seq(A) /\ Len(s \o t) = Len(s) + Len(t)
          BY <5>2, ConcatProperties
        <5>4. Range(s \o t) = Range(s) \cup Range(t)
          BY <5>2, RangeOfConcat
        <5> QED
          BY <3>4, <4>2, <5>1, <5>3, <5>4 DEF s, t
      <4>5. i * k = p * k + k
        BY <4>1
      <4>6. All(i) = All(p) \cup Range(seqs[i])
        <5>1. 1..i = (1..p) \cup {i}
          BY <4>1
        <5> QED
          BY <5>1
      <4> HIDE DEF All
      <4> QED
        BY <3>3, <4>4, <4>5, <4>6
    <3> QED
      BY <3>5, <3>6
  <2>5. n \in 1..n
    BY <1>3
  <2>6. Good(n)
    <3> HIDE DEF Good
    <3> QED
      BY <2>4, <2>5
  <2> QED
    BY <2>2, <2>6
<1> QED
  BY <1>2, <1>3

-----------------------------------------------------------------------------
(* Primitive recursion.                                                    *)

\* A first value and a next one for each of the steps 1..n.
Recursion(F, A, a, n) == n \in Nat /\ a \in A /\ F \in [(1..n) \X A -> A]

Iterated(F, A, a, n, g) ==
  g \in [0..n -> A] /\ g[0] = a /\ \A i \in 1..n : g[i] = F[<<i, g[i - 1]>>]

\* There is a function that starts with a and goes on with F.
LEMMA IteratesExist ==
  ASSUME NEW F, NEW A, NEW a, NEW n, Recursion(F, A, a, n)
  PROVE  \E g : Iterated(F, A, a, n, g)
<1> USE DEF Recursion
<1> DEFINE Iterates(m, g) == /\ g \in [0..m -> A] /\ g[0] = a
                             /\ \A i \in 1..m : g[i] = F[<<i, g[i - 1]>>]
           I == {m \in 0..n : ~ \E g : Iterates(m, g)}
<1>1. SUFFICES ASSUME I # {} PROVE FALSE
  <2>1. n \in 0..n
    OBVIOUS
  <2>2. \E g : Iterates(n, g)
    BY <1>1, <2>1
  <2> QED
    BY <2>2 DEF Iterated
<1>2. PICK m \in I : \A k \in I : m <= k
  <2>1. I \in SUBSET Nat
    OBVIOUS
  <2> HIDE DEF I
  <2> QED
    BY <1>1, <2>1, LeastIndex
<1>3. m \in 0..n /\ ~ \E g : Iterates(m, g)
  OBVIOUS
<1>4. CASE m = 0
  <2> DEFINE g == [i \in 0..m |-> a]
  <2>1. Iterates(m, g)
    BY <1>4
  <2> HIDE DEF g, Iterates
  <2> QED
    BY <1>3, <2>1
<1>5. CASE m # 0
  <2>1. m - 1 \in 0..n /\ ~ (m <= m - 1)
    BY <1>3, <1>5
  <2>2. m - 1 \notin I
    <3> HIDE DEF I
    <3> QED
      BY <1>2, <2>1
  <2>3. PICK h : Iterates(m - 1, h)
    BY <2>1, <2>2
  <2>4. h \in [0..(m - 1) -> A] /\ h[0] = a /\ \A i \in 1..(m - 1) : h[i] = F[<<i, h[i - 1]>>]
    BY <2>3
  <2> DEFINE v == F[<<m, h[m - 1]>>]
             g == [i \in 0..m |-> IF i = m THEN v ELSE h[i]]
  <2>5. m - 1 \in 0..(m - 1) /\ m \in 1..n /\ m \in Nat
    BY <1>3, <1>5
  <2>6. v \in A
    BY <2>4, <2>5
  <2>7. \A i \in 0..m : i # m => i \in 0..(m - 1)
    BY <2>5
  <2>8. g \in [0..m -> A]
    BY <2>4, <2>6, <2>7
  <2>9. m \in 0..m /\ g[m] = v /\ \A i \in 0..(m - 1) : g[i] = h[i]
    BY <2>5
  <2>10. g[0] = a
    BY <2>4, <2>5, <2>9
  <2> HIDE DEF g
  <2>11. ASSUME NEW i \in 1..m PROVE g[i] = F[<<i, g[i - 1]>>]
    <3>1. i - 1 \in 0..(m - 1)
      BY <2>5
    <3>2. CASE i = m
      BY <2>9, <3>1, <3>2
    <3>3. CASE i # m
      <4>1. i \in 1..(m - 1) /\ i \in 0..(m - 1)
        BY <2>5, <3>3
      <4> QED
        BY <2>4, <2>9, <3>1, <4>1
    <3> QED
      BY <3>2, <3>3
  <2>12. Iterates(m, g)
    BY <2>8, <2>10, <2>11
  <2> HIDE DEF Iterates
  <2> QED
    BY <1>3, <2>12
<1> QED
  BY <1>4, <1>5

=============================================================================
