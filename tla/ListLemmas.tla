------------------------------ MODULE ListLemmas ------------------------------
\* Lemmas about lists and about FlattenSeq, which the models build the root's
\* writes, a worker's reads and texts with.  They are stated for lists of
\* anything: the fields of a configuration are of many types.
EXTENDS SequencesExt, SequenceTheorems, WellFoundedInduction, TLAPS

IsList(s) == \E S : s \in Seq(S)
AreLists(ss) == IsList(ss) /\ \A i \in 1..Len(ss) : IsList(ss[i])

\* Every set of numbers has a least one: an induction goes by the least number
\* that a claim is wrong for.
LEMMA LeastNumber ==
    ASSUME NEW T \in SUBSET Nat, T # {}
    PROVE  \E x \in T : \A y \in T : x <= y
<1> DEFINE R == {ss \in Nat \X Nat : ss[1] < ss[2]}
<1>1. IsWellFoundedOn(R, Nat)
    BY NatLessThanWellFounded DEF OpToRel
<1>2. \A x, y \in Nat : x < y => <<x, y>> \in R
    OBVIOUS
<1> HIDE DEF R
<1>3. PICK x \in T : \A y \in T : ~ (<<y, x>> \in R)
    BY <1>1, WFMin
<1>4. ASSUME NEW y \in T PROVE x <= y
    <2>1. x \in Nat /\ y \in Nat
        OBVIOUS
    <2>2. ~ (y < x)
        BY <2>1, <1>2, <1>3
    <2>. QED
        BY <2>1, <2>2
<1>. QED
    BY <1>4

\* Induction over a set of numbers: T has 0 and the successor of each of its
\* numbers.
LEMMA AllNumbers ==
    ASSUME NEW T, 0 \in T, \A n \in Nat : n \in T => n + 1 \in T
    PROVE  Nat \subseteq T
<1> SUFFICES ASSUME ~ (Nat \subseteq T) PROVE FALSE
    OBVIOUS
<1>1. PICK x \in Nat \ T : \A y \in Nat \ T : x <= y
    BY LeastNumber
<1>2. x # 0 /\ x - 1 \in Nat /\ x = (x - 1) + 1
    BY <1>1
<1>3. x - 1 \in T
    <2> SUFFICES ASSUME x - 1 \notin T PROVE FALSE
        OBVIOUS
    <2>1. x <= x - 1
        BY <1>1, <1>2
    <2>. QED
        BY <2>1, <1>1
<1>. QED
    BY <1>1, <1>2, <1>3

-----------------------------------------------------------------------------
\* Lists.
LEMMA ListFacts ==
    ASSUME NEW s, IsList(s)
    PROVE  /\ Len(s) \in Nat /\ DOMAIN s = 1..Len(s)
           /\ Len(s) = 0 <=> s = <<>>
  BY LenProperties, EmptySeq DEF IsList

\* Two lists have their elements from a common set.
LEMMA Common ==
    ASSUME NEW s, NEW t, IsList(s), IsList(t)
    PROVE  \E S : s \in Seq(S) /\ t \in Seq(S)
<1>1. PICK A : s \in Seq(A)
    BY DEF IsList
<1>2. PICK B : t \in Seq(B)
    BY DEF IsList
<1>3. s \in Seq(A \cup B) /\ t \in Seq(A \cup B)
    BY <1>1, <1>2, SeqMonotonic
<1>. QED
    BY <1>3

LEMMA ConcatList ==
    ASSUME NEW s, NEW t, IsList(s), IsList(t)
    PROVE  /\ IsList(s \o t)
           /\ Len(s \o t) = Len(s) + Len(t)
           /\ \A i \in 1..Len(s) : (s \o t)[i] = s[i]
           /\ \A i \in 1..Len(t) : (s \o t)[Len(s) + i] = t[i]
<1>1. PICK S : s \in Seq(S) /\ t \in Seq(S)
    BY Common
<1>2. /\ s \o t \in Seq(S) /\ Len(s \o t) = Len(s) + Len(t)
      /\ \A i \in 1..(Len(s) + Len(t)) :
            (s \o t)[i] = IF i <= Len(s) THEN s[i] ELSE t[i - Len(s)]
    BY <1>1, ConcatProperties
<1>3. Len(s) \in Nat /\ Len(t) \in Nat
    BY ListFacts
<1>4. IsList(s \o t)
    BY <1>2 DEF IsList
<1>5. \A i \in 1..Len(s) : (s \o t)[i] = s[i]
    BY <1>2, <1>3
<1>6. ASSUME NEW i \in 1..Len(t) PROVE (s \o t)[Len(s) + i] = t[i]
    <2>1. /\ Len(s) + i \in 1..(Len(s) + Len(t)) /\ ~ (Len(s) + i <= Len(s))
          /\ (Len(s) + i) - Len(s) = i
        BY <1>3
    <2>. QED
        BY <2>1, <1>2
<1>. QED
    BY <1>2, <1>4, <1>5, <1>6

LEMMA EqualLists ==
    ASSUME NEW s, NEW t, IsList(s), IsList(t), Len(s) = Len(t),
           \A i \in 1..Len(s) : s[i] = t[i]
    PROVE  s = t
<1>1. PICK S : s \in Seq(S) /\ t \in Seq(S)
    BY Common
<1>. QED
    BY <1>1, SeqEqual

LEMMA EmptyList == IsList(<<>>) /\ Len(<<>>) = 0
  BY EmptySeq DEF IsList

LEMMA ConcatEmpty ==
    ASSUME NEW s, IsList(s)
    PROVE  s \o <<>> = s /\ <<>> \o s = s
  BY ConcatEmptySeq DEF IsList

LEMMA ConcatIsEmpty ==
    ASSUME NEW s, NEW t, IsList(s), IsList(t), s \o t = <<>>
    PROVE  s = <<>> /\ t = <<>>
<1>1. PICK S : s \in Seq(S) /\ t \in Seq(S)
    BY Common
<1>. QED
    BY <1>1, ConcatEqualIffEmpty

LEMMA ConcatRegroup ==
    ASSUME NEW s, NEW t, NEW u, IsList(s), IsList(t), IsList(u)
    PROVE  (s \o t) \o u = s \o (t \o u)
<1>1. PICK S : s \in Seq(S) /\ t \in Seq(S)
    BY Common
<1>2. PICK U : u \in Seq(U)
    BY DEF IsList
<1>3. s \in Seq(S \cup U) /\ t \in Seq(S \cup U) /\ u \in Seq(S \cup U)
    BY <1>1, <1>2, SeqMonotonic
<1>. QED
    BY <1>3, ConcatAssociative

\* A function of the numbers from 1 is a list.
LEMMA Listed ==
    ASSUME NEW n \in Nat, NEW f, f = [i \in 1..n |-> f[i]]
    PROVE  IsList(f) /\ Len(f) = n /\ DOMAIN f = 1..n
<1> DEFINE S == {f[i] : i \in 1..n}
<1>1. f \in [1..n -> S]
    OBVIOUS
<1>2. f \in Seq(S)
    BY <1>1, SeqDef
<1>3. Len(f) \in Nat /\ DOMAIN f = 1..Len(f) /\ DOMAIN f = 1..n
    BY <1>1, <1>2, LenProperties
<1>4. Len(f) = n
    BY <1>3
<1>. QED
    BY <1>2, <1>3, <1>4 DEF IsList

\* A list without its first elements.
LEMMA HeadAndTail ==
    ASSUME NEW s, IsList(s), s # <<>>
    PROVE  /\ IsList(Tail(s)) /\ Len(s) \in Nat /\ Len(s) >= 1 /\ Len(Tail(s)) = Len(s) - 1
           /\ Head(s) = s[1]
           /\ \A i \in 1..Len(Tail(s)) : Tail(s)[i] = s[i + 1]
           /\ s = <<Head(s)>> \o Tail(s)
<1>1. PICK S : s \in Seq(S)
    BY DEF IsList
<1>2. /\ Len(s) \in Nat /\ Len(s) # 0
      /\ Head(s) \in S /\ Tail(s) \in Seq(S) /\ Len(Tail(s)) = Len(s) - 1
      /\ \A i \in 1..Len(Tail(s)) : Tail(s)[i] = s[i + 1]
    BY <1>1, HeadTailProperties, ListFacts
<1>3. Head(s) = s[1]
    BY <1>1, <1>2
<1>4. SubSeq(s, 1, Len(s)) = <<s[1]>> \o SubSeq(s, 2, Len(s))
    BY <1>1, <1>2, SubSeqRecursiveFirst
<1>5. SubSeq(s, 1, Len(s)) = s /\ SubSeq(s, 2, Len(s)) = Tail(s)
    BY <1>1, <1>2, SubSeqFull, TailIsSubSeq
<1>. QED
    BY <1>2, <1>3, <1>4, <1>5 DEF IsList

LEMMA OneAndRest ==
    ASSUME NEW x, NEW s, IsList(s)
    PROVE  /\ IsList(<<x>>) /\ Len(<<x>>) = 1
           /\ IsList(<<x>> \o s) /\ <<x>> \o s # <<>> /\ Len(<<x>> \o s) = Len(s) + 1
           /\ Head(<<x>> \o s) = x /\ Tail(<<x>> \o s) = s
<1>1. <<x>> \in Seq({x}) /\ Len(<<x>>) = 1 /\ <<x>>[1] = x
    OBVIOUS
<1>2. IsList(<<x>>)
    BY <1>1 DEF IsList
<1>3. Len(s) \in Nat
    BY ListFacts
<1> DEFINE t == <<x>> \o s
<1>4. /\ IsList(t) /\ Len(t) = 1 + Len(s) /\ t[1] = x
      /\ \A i \in 1..Len(s) : t[1 + i] = s[i]
    BY <1>1, <1>2, <1>3, ConcatList
<1> HIDE DEF t
<1>5. t # <<>>
    BY <1>3, <1>4, EmptyList
<1>6. /\ Head(t) = x /\ IsList(Tail(t)) /\ Len(Tail(t)) = Len(s)
      /\ \A i \in 1..Len(s) : Tail(t)[i] = t[i + 1]
    <2>1. /\ IsList(Tail(t)) /\ Len(Tail(t)) = Len(t) - 1 /\ Head(t) = t[1]
          /\ \A i \in 1..Len(Tail(t)) : Tail(t)[i] = t[i + 1]
        BY <1>4, <1>5, HeadAndTail
    <2>2. Len(Tail(t)) = Len(s)
        BY <1>3, <1>4, <2>1
    <2>. QED
        BY <1>4, <2>1, <2>2
<1>7. \A i \in 1..Len(s) : Tail(t)[i] = s[i]
    BY <1>3, <1>4, <1>6
<1>8. Tail(t) = s
    BY <1>6, <1>7, EqualLists
<1>. QED
    BY <1>1, <1>2, <1>3, <1>4, <1>5, <1>6, <1>8 DEF t

\* What is appended comes after the rest, and the first stays where it is.
LEMMA AppendList ==
    ASSUME NEW s, NEW x, IsList(s)
    PROVE  Append(s, x) = s \o <<x>>
<1>1. PICK S : s \in Seq(S)
    BY DEF IsList
<1>2. s \in Seq(S \cup {x}) /\ x \in S \cup {x}
    BY <1>1, SeqMonotonic
<1>. QED
    BY <1>2, AppendIsConcat
\* A list that is not empty ends with an element.
LEMMA ListEnd ==
    ASSUME NEW s, IsList(s), s # <<>>
    PROVE  \E t, x : /\ IsList(t) /\ s = Append(t, x) /\ s = t \o <<x>>
                     /\ Len(s) = Len(t) + 1 /\ x = s[Len(s)]
                     /\ \A i \in 1..Len(t) : t[i] = s[i]
<1>1. PICK S : s \in Seq(S)
    BY DEF IsList
<1>2. PICK t \in Seq(S), x \in S : s = Append(t, x)
    BY <1>1, SequenceEmptyOrAppend
<1>3. IsList(t) /\ Append(t, x) = t \o <<x>>
    BY <1>2, AppendList DEF IsList
<1>4. /\ Len(s) = Len(t) + 1 /\ s[Len(t) + 1] = x
      /\ \A i \in 1..Len(t) : t[i] = s[i]
    BY <1>2, AppendProperties
<1>. QED
    BY <1>2, <1>3, <1>4

LEMMA AppendLists ==
    ASSUME NEW ss, NEW t, AreLists(ss), IsList(t)
    PROVE  /\ AreLists(Append(ss, t)) /\ Len(Append(ss, t)) = Len(ss) + 1
           /\ Append(ss, t)[Len(ss) + 1] = t
           /\ \A i \in 1..Len(ss) : Append(ss, t)[i] = ss[i]
<1>1. Append(ss, t) = ss \o <<t>> /\ Len(ss) \in Nat
    BY AppendList, ListFacts DEF AreLists
<1>2. IsList(<<t>>) /\ Len(<<t>>) = 1 /\ <<t>>[1] = t
    BY OneAndRest, EmptyList
<1> DEFINE a == Append(ss, t)
<1>3. /\ IsList(a) /\ Len(a) = Len(ss) + 1 /\ a[Len(ss) + 1] = t
      /\ \A i \in 1..Len(ss) : a[i] = ss[i]
    BY <1>1, <1>2, ConcatList DEF AreLists
<1> HIDE DEF a
<1>4. ASSUME NEW i \in 1..Len(a) PROVE IsList(a[i])
    <2>1. i = Len(ss) + 1 \/ i \in 1..Len(ss)
        BY <1>1, <1>3
    <2>. QED
        BY <2>1, <1>3 DEF AreLists
<1>. QED
    BY <1>3, <1>4 DEF AreLists, a

LEMMA ConcatLists ==
    ASSUME NEW s, NEW t, AreLists(s), AreLists(t)
    PROVE  AreLists(s \o t)
<1>1. /\ IsList(s \o t) /\ Len(s \o t) = Len(s) + Len(t)
      /\ \A i \in 1..Len(s) : (s \o t)[i] = s[i]
      /\ \A i \in 1..Len(t) : (s \o t)[Len(s) + i] = t[i]
    BY ConcatList DEF AreLists
<1>2. Len(s) \in Nat /\ Len(t) \in Nat
    BY ListFacts DEF AreLists
<1>3. ASSUME NEW i \in 1..Len(s \o t) PROVE IsList((s \o t)[i])
    <2>1. i \in 1..Len(s) \/ (i - Len(s) \in 1..Len(t) /\ i = Len(s) + (i - Len(s)))
        BY <1>1, <1>2
    <2>. QED
        BY <2>1, <1>1 DEF AreLists
<1>. QED
    BY <1>1, <1>3 DEF AreLists

-----------------------------------------------------------------------------
\* FlattenSeq.

\* The recursive function behind it has the values that its equation says.
LEMMA FlattenFunction ==
    ASSUME NEW ss, NEW n \in Nat
    PROVE  LET flatten[i \in 1..n] == IF i = 1 THEN ss[i] ELSE flatten[i - 1] \o ss[i]
           IN  flatten = [i \in 1..n |-> IF i = 1 THEN ss[i] ELSE flatten[i - 1] \o ss[i]]
<1> DEFINE Rec(f, m) == f = [i \in 1..m |-> IF i = 1 THEN ss[i] ELSE f[i - 1] \o ss[i]]
<1> DEFINE T == {m \in Nat : \E f : Rec(f, m)}
<1>1. 0 \in T
    <2>1. Rec(<<>>, 0)
        OBVIOUS
    <2>. QED
        BY <2>1
<1>2. ASSUME NEW m \in Nat, m \in T PROVE m + 1 \in T
    <2>1. PICK f : Rec(f, m)
        BY <1>2
    <2> DEFINE g == [i \in 1..(m + 1) |-> IF i \in 1..m THEN f[i]
                                          ELSE IF i = 1 THEN ss[i] ELSE f[i - 1] \o ss[i]]
    <2>2. ASSUME NEW i \in 1..(m + 1)
          PROVE  g[i] = IF i = 1 THEN ss[i] ELSE g[i - 1] \o ss[i]
        <3>1. i = 1 \/ (i - 1 \in 1..m)
            OBVIOUS
        <3>2. \A j \in 1..m : f[j] = IF j = 1 THEN ss[j] ELSE f[j - 1] \o ss[j]
            BY <2>1
        <3>3. i - 1 \in 1..m => g[i - 1] = f[i - 1]
            OBVIOUS
        <3>4. CASE i \in 1..m
            <4>1. g[i] = f[i]
                BY <3>4
            <4>. QED
                BY <3>1, <3>2, <3>3, <3>4, <4>1
        <3>5. CASE i \notin 1..m
            <4>1. g[i] = IF i = 1 THEN ss[i] ELSE f[i - 1] \o ss[i]
                BY <3>5
            <4>. QED
                BY <3>1, <3>3, <4>1
        <3>. QED
            BY <3>4, <3>5
    <2>3. g = [i \in 1..(m + 1) |-> g[i]]
        OBVIOUS
    <2> HIDE DEF g
    <2>4. Rec(g, m + 1)
        BY <2>2, <2>3
    <2>5. m + 1 \in Nat
        OBVIOUS
    <2> HIDE DEF Rec
    <2>. QED
        BY <2>4, <2>5, Zenon
<1>3. n \in T
    BY <1>1, <1>2, AllNumbers
<1>4. \E f : Rec(f, n)
    BY <1>3
<1>. QED
    BY <1>4

\* The values of that function, up to i, are what FlattenSeq makes of the first i.
LEMMA FlattenBySteps ==
    ASSUME NEW ss, AreLists(ss), Len(ss) # 0
    PROVE  \E f : /\ FlattenSeq(ss) = f[Len(ss)] /\ f[1] = ss[1]
                  /\ \A i \in 2..Len(ss) : f[i] = f[i - 1] \o ss[i]
<1>1. Len(ss) \in Nat
    BY ListFacts DEF AreLists
<1> DEFINE flatten[i \in 1..Len(ss)] == IF i = 1 THEN ss[i] ELSE flatten[i - 1] \o ss[i]
<1>2. flatten = [i \in 1..Len(ss) |-> IF i = 1 THEN ss[i] ELSE flatten[i - 1] \o ss[i]]
    BY <1>1, FlattenFunction
<1>3. FlattenSeq(ss) = flatten[Len(ss)]
    BY DEF FlattenSeq
<1> HIDE DEF flatten
<1>4. /\ flatten[1] = ss[1]
      /\ \A i \in 2..Len(ss) : flatten[i] = flatten[i - 1] \o ss[i]
    <2>1. \A i \in 1..Len(ss) : flatten[i] = IF i = 1 THEN ss[i] ELSE flatten[i - 1] \o ss[i]
        BY <1>2, Zenon
    <2>2. 1 \in 1..Len(ss) /\ \A i \in 2..Len(ss) : i \in 1..Len(ss) /\ i # 1
        BY <1>1
    <2>. QED
        BY <2>1, <2>2, Zenon
<1>. QED
    BY <1>3, <1>4

\* Nothing else has that value.
LEMMA FlattenIs ==
    ASSUME NEW ss, AreLists(ss), Len(ss) # 0, NEW f, f[1] = ss[1],
           \A i \in 2..Len(ss) : f[i] = f[i - 1] \o ss[i]
    PROVE  FlattenSeq(ss) = f[Len(ss)]
<1>1. Len(ss) \in Nat
    BY ListFacts DEF AreLists
<1>2. PICK g : /\ FlattenSeq(ss) = g[Len(ss)] /\ g[1] = ss[1]
              /\ \A i \in 2..Len(ss) : g[i] = g[i - 1] \o ss[i]
    BY FlattenBySteps
<1> DEFINE T == {m \in Nat : m + 1 <= Len(ss) => f[m + 1] = g[m + 1]}
<1>3. 0 \in T
    BY <1>2
<1>4. ASSUME NEW m \in Nat, m \in T PROVE m + 1 \in T
    <2> SUFFICES ASSUME (m + 1) + 1 <= Len(ss) PROVE f[(m + 1) + 1] = g[(m + 1) + 1]
        OBVIOUS
    <2>1. (m + 1) + 1 \in 2..Len(ss) /\ ((m + 1) + 1) - 1 = m + 1 /\ m + 1 <= Len(ss)
        BY <1>1
    <2>2. f[m + 1] = g[m + 1]
        BY <1>4, <2>1
    <2> DEFINE k == (m + 1) + 1
    <2>3. f[k] = f[k - 1] \o ss[k] /\ g[k] = g[k - 1] \o ss[k]
        BY <2>1, <1>2
    <2>. QED
        BY <2>1, <2>2, <2>3
<1>5. Len(ss) - 1 \in T
    <2>1. Nat \subseteq T
        BY <1>3, <1>4, AllNumbers
    <2>2. Len(ss) - 1 \in Nat
        BY <1>1
    <2> HIDE DEF T
    <2>. QED
        BY <2>1, <2>2
<1>6. (Len(ss) - 1) + 1 = Len(ss)
    BY <1>1
<1>. QED
    BY <1>1, <1>2, <1>5, <1>6

LEMMA FlattenOne ==
    ASSUME NEW t, IsList(t)
    PROVE  AreLists(<<t>>) /\ FlattenSeq(<<t>>) = t
<1>1. IsList(<<t>>) /\ Len(<<t>>) = 1 /\ <<t>>[1] = t
    BY OneAndRest, EmptyList
<1>2. AreLists(<<t>>)
    BY <1>1 DEF AreLists
<1>3. PICK f : FlattenSeq(<<t>>) = f[Len(<<t>>)] /\ f[1] = <<t>>[1]
    <2> DEFINE ss == <<t>>
    <2>1. AreLists(ss) /\ Len(ss) # 0
        BY <1>1, <1>2
    <2> HIDE DEF ss
    <2>2. \E f : FlattenSeq(ss) = f[Len(ss)] /\ f[1] = ss[1]
        BY <2>1, FlattenBySteps, Zenon
    <2>. QED
        BY <2>2 DEF ss
<1>. QED
    BY <1>1, <1>2, <1>3

LEMMA FlattenNone == AreLists(<<>>) /\ FlattenSeq(<<>>) = <<>>
  BY EmptyList DEF AreLists, FlattenSeq

LEMMA FlattenAppend ==
    ASSUME NEW ss, NEW t, AreLists(ss), IsList(t)
    PROVE  FlattenSeq(Append(ss, t)) = FlattenSeq(ss) \o t
<1> DEFINE a == Append(ss, t)
           n == Len(ss)
<1>1. n \in Nat
    BY ListFacts DEF AreLists
<1>2. AreLists(a) /\ Len(a) = n + 1 /\ a[n + 1] = t /\ \A i \in 1..n : a[i] = ss[i]
    BY AppendLists
<1>3. CASE n = 0
    <2>1. ss = <<>>
        BY <1>3, ListFacts DEF AreLists
    <2>2. a = <<t>>
        BY <2>1, AppendList, ConcatEmpty, OneAndRest, EmptyList
    <2>. QED
        BY <2>1, <2>2, FlattenOne, FlattenNone, ConcatEmpty
<1>4. CASE n # 0
    <2> HIDE DEF a, n
    <2>1. Len(a) # 0
        BY <1>1, <1>2
    <2>2. PICK f : /\ FlattenSeq(a) = f[Len(a)] /\ f[1] = a[1]
                  /\ \A i \in 2..Len(a) : f[i] = f[i - 1] \o a[i]
        BY <1>2, <2>1, FlattenBySteps
    <2>3. f[1] = ss[1] /\ \A i \in 2..n : f[i] = f[i - 1] \o ss[i]
        <3>1. 1 \in 1..n
            BY <1>1, <1>4
        <3>2. f[1] = ss[1]
            BY <3>1, <1>2, <2>2
        <3>3. ASSUME NEW i \in 2..n PROVE f[i] = f[i - 1] \o ss[i]
            <4>1. i \in 2..Len(a) /\ i \in 1..n
                BY <1>1, <1>2
            <4>. QED
                BY <4>1, <1>2, <2>2
        <3>. QED
            BY <3>2, <3>3
    <2>4. FlattenSeq(ss) = f[n]
        BY <2>3, <1>4, FlattenIs DEF n
    <2>5. n + 1 \in 2..Len(a) /\ (n + 1) - 1 = n
        BY <1>1, <1>2, <1>4
    <2>6. f[n + 1] = f[n] \o t
        BY <2>2, <2>5, <1>2
    <2>. QED
        BY <2>2, <2>4, <2>6, <1>2 DEF a
<1>. QED
    BY <1>3, <1>4

\* A list of lists without its last one.
LEMMA ListsEnd ==
    ASSUME NEW ss, AreLists(ss), ss # <<>>
    PROVE  \E s, t : /\ AreLists(s) /\ IsList(t) /\ ss = Append(s, t) /\ Len(ss) = Len(s) + 1
                     /\ t = ss[Len(ss)] /\ \A i \in 1..Len(s) : s[i] = ss[i]
<1>1. PICK s, t : /\ IsList(s) /\ ss = Append(s, t) /\ Len(ss) = Len(s) + 1 /\ t = ss[Len(ss)]
                 /\ \A i \in 1..Len(s) : s[i] = ss[i]
    <2>1. IsList(ss)
        BY DEF AreLists
    <2>2. \E s, t : /\ IsList(s) /\ ss = Append(s, t) /\ ss = s \o <<t>>
                    /\ Len(ss) = Len(s) + 1 /\ t = ss[Len(ss)]
                    /\ \A i \in 1..Len(s) : s[i] = ss[i]
        BY <2>1, ListEnd
    <2>. QED
        BY <2>2
<1>2. Len(s) \in Nat
    BY <1>1, ListFacts
<1>3. Len(ss) \in 1..Len(ss) /\ \A i \in 1..Len(s) : i \in 1..Len(ss)
    BY <1>1, <1>2
<1>4. IsList(t) /\ AreLists(s)
    BY <1>1, <1>3 DEF AreLists
<1>. QED
    BY <1>1, <1>4

LEMMA FlattenList ==
    ASSUME NEW ss, AreLists(ss)
    PROVE  IsList(FlattenSeq(ss))
<1> DEFINE T == {m \in Nat : \A tt : AreLists(tt) /\ Len(tt) = m => IsList(FlattenSeq(tt))}
<1>1. 0 \in T
    <2> SUFFICES ASSUME NEW tt, AreLists(tt), Len(tt) = 0 PROVE IsList(FlattenSeq(tt))
        OBVIOUS
    <2>1. tt = <<>>
        BY ListFacts DEF AreLists
    <2>. QED
        BY <2>1, FlattenNone, EmptyList
<1>2. ASSUME NEW m \in Nat, m \in T PROVE m + 1 \in T
    <2> SUFFICES ASSUME NEW tt, AreLists(tt), Len(tt) = m + 1 PROVE IsList(FlattenSeq(tt))
        OBVIOUS
    <2>1. tt # <<>>
        BY EmptyList
    <2>2. PICK s, t : AreLists(s) /\ IsList(t) /\ tt = Append(s, t) /\ Len(tt) = Len(s) + 1
        BY <2>1, ListsEnd
    <2>3. Len(s) = m
        BY <2>2, ListFacts DEF AreLists
    <2>4. IsList(FlattenSeq(s))
        BY <1>2, <2>2, <2>3
    <2>. QED
        BY <2>2, <2>4, FlattenAppend, ConcatList
<1>3. Nat \subseteq T
    <2> HIDE DEF T
    <2>. QED
        BY <1>1, <1>2, AllNumbers
<1>4. Len(ss) \in T
    BY <1>3, ListFacts DEF AreLists
<1>. QED
    BY <1>4

LEMMA FlattenConcat ==
    ASSUME NEW ss, NEW tt, AreLists(ss), AreLists(tt)
    PROVE  FlattenSeq(ss \o tt) = FlattenSeq(ss) \o FlattenSeq(tt)
<1> DEFINE T == {m \in Nat : \A uu : AreLists(uu) /\ Len(uu) = m =>
                                FlattenSeq(ss \o uu) = FlattenSeq(ss) \o FlattenSeq(uu)}
<1>0. IsList(ss) /\ IsList(FlattenSeq(ss))
    BY FlattenList DEF AreLists
<1>1. 0 \in T
    <2> SUFFICES ASSUME NEW uu, AreLists(uu), Len(uu) = 0
                 PROVE  FlattenSeq(ss \o uu) = FlattenSeq(ss) \o FlattenSeq(uu)
        OBVIOUS
    <2>1. uu = <<>>
        BY ListFacts DEF AreLists
    <2>. QED
        BY <1>0, <2>1, FlattenNone, ConcatEmpty
<1>2. ASSUME NEW m \in Nat, m \in T PROVE m + 1 \in T
    <2> SUFFICES ASSUME NEW uu, AreLists(uu), Len(uu) = m + 1
                 PROVE  FlattenSeq(ss \o uu) = FlattenSeq(ss) \o FlattenSeq(uu)
        OBVIOUS
    <2>1. uu # <<>>
        BY EmptyList
    <2>2. PICK s, t : AreLists(s) /\ IsList(t) /\ uu = Append(s, t) /\ Len(uu) = Len(s) + 1
        BY <2>1, ListsEnd
    <2>3. Len(s) = m
        BY <2>2, ListFacts DEF AreLists
    <2>4. FlattenSeq(ss \o s) = FlattenSeq(ss) \o FlattenSeq(s)
        BY <1>2, <2>2, <2>3
    <2>5. ss \o uu = Append(ss \o s, t)
        <3>1. IsList(s) /\ IsList(<<t>>) /\ IsList(ss \o s)
            BY <1>0, <2>2, OneAndRest, EmptyList, ConcatList DEF AreLists
        <3>2. uu = s \o <<t>> /\ Append(ss \o s, t) = (ss \o s) \o <<t>>
            BY <2>2, <3>1, AppendList
        <3>. QED
            BY <1>0, <3>1, <3>2, ConcatRegroup
    <2>6. FlattenSeq(ss \o uu) = (FlattenSeq(ss) \o FlattenSeq(s)) \o t
        BY <2>2, <2>4, <2>5, ConcatLists, FlattenAppend
    <2>7. FlattenSeq(uu) = FlattenSeq(s) \o t /\ IsList(FlattenSeq(s))
        BY <2>2, FlattenAppend, FlattenList
    <2>. QED
        BY <1>0, <2>2, <2>6, <2>7, ConcatRegroup
<1>3. Nat \subseteq T
    <2> HIDE DEF T
    <2>. QED
        BY <1>1, <1>2, AllNumbers
<1>4. Len(tt) \in T
    BY <1>3, ListFacts DEF AreLists
<1>. QED
    BY <1>4

\* What the elements of all lists are, those of their concatenation are.
LEMMA FlattenType ==
    ASSUME NEW S, NEW ss \in Seq(Seq(S))
    PROVE  FlattenSeq(ss) \in Seq(S)
<1> DEFINE T == {m \in Nat : \A tt \in Seq(Seq(S)) : Len(tt) = m => FlattenSeq(tt) \in Seq(S)}
<1>0. ASSUME NEW tt \in Seq(Seq(S)) PROVE AreLists(tt)
    <2>1. \A i \in 1..Len(tt) : tt[i] \in Seq(S)
        BY ElementOfSeq
    <2>. QED
        BY <2>1 DEF AreLists, IsList
<1>1. 0 \in T
    <2> SUFFICES ASSUME NEW tt \in Seq(Seq(S)), Len(tt) = 0 PROVE FlattenSeq(tt) \in Seq(S)
        OBVIOUS
    <2>1. tt = <<>>
        BY EmptySeq
    <2>. QED
        BY <2>1, FlattenNone, EmptySeq
<1>2. ASSUME NEW m \in Nat, m \in T PROVE m + 1 \in T
    <2> SUFFICES ASSUME NEW tt \in Seq(Seq(S)), Len(tt) = m + 1 PROVE FlattenSeq(tt) \in Seq(S)
        OBVIOUS
    <2>1. tt # <<>>
        BY EmptyList
    <2>2. PICK s \in Seq(Seq(S)), t \in Seq(S) : tt = Append(s, t)
        BY <2>1, SequenceEmptyOrAppend
    <2>3. Len(s) = m /\ AreLists(s) /\ IsList(t)
        <3>1. Len(s) \in Nat /\ Len(tt) = Len(s) + 1
            BY <2>2, AppendProperties, LenProperties
        <3>. QED
            BY <3>1, <1>0 DEF IsList
    <2>4. FlattenSeq(s) \in Seq(S)
        BY <1>2, <2>3
    <2>. QED
        BY <2>2, <2>3, <2>4, FlattenAppend, ConcatProperties
<1>3. Nat \subseteq T
    <2> HIDE DEF T
    <2>. QED
        BY <1>1, <1>2, AllNumbers
<1>4. Len(ss) \in T
    BY <1>3, LenProperties
<1>. QED
    BY <1>4

\* The first list, and the others.
LEMMA FlattenHead ==
    ASSUME NEW s, NEW tt, IsList(s), AreLists(tt)
    PROVE  AreLists(<<s>> \o tt) /\ FlattenSeq(<<s>> \o tt) = s \o FlattenSeq(tt)
<1>1. AreLists(<<s>>) /\ FlattenSeq(<<s>>) = s
    BY FlattenOne
<1>. QED
    BY <1>1, ConcatLists, FlattenConcat

\* A list of lists, all but one of them empty.
LEMMA FlattenSingle ==
    ASSUME NEW ss, NEW k, AreLists(ss), \A i \in 1..Len(ss) : i # k => ss[i] = <<>>
    PROVE  FlattenSeq(ss) = IF k \in 1..Len(ss) THEN ss[k] ELSE <<>>
<1> DEFINE T == {m \in Nat : \A tt : /\ AreLists(tt) /\ Len(tt) = m
                                     /\ \A i \in 1..m : i # k => tt[i] = <<>>
                                     => FlattenSeq(tt) = IF k \in 1..m THEN tt[k] ELSE <<>>}
<1>1. 0 \in T
    <2> SUFFICES ASSUME NEW tt, AreLists(tt), Len(tt) = 0
                 PROVE  FlattenSeq(tt) = IF k \in 1..0 THEN tt[k] ELSE <<>>
        OBVIOUS
    <2>1. tt = <<>>
        BY ListFacts DEF AreLists
    <2>. QED
        BY <2>1, FlattenNone
<1>2. ASSUME NEW m \in Nat, m \in T PROVE m + 1 \in T
    <2> SUFFICES ASSUME NEW tt, AreLists(tt), Len(tt) = m + 1,
                        \A i \in 1..(m + 1) : i # k => tt[i] = <<>>
                 PROVE  FlattenSeq(tt) = IF k \in 1..(m + 1) THEN tt[k] ELSE <<>>
        OBVIOUS
    <2>1. tt # <<>>
        BY EmptyList
    <2>2. PICK uu, t : /\ AreLists(uu) /\ IsList(t) /\ tt = Append(uu, t) /\ Len(tt) = Len(uu) + 1
                       /\ t = tt[Len(tt)] /\ \A i \in 1..Len(uu) : uu[i] = tt[i]
        BY <2>1, ListsEnd
    <2>3. Len(uu) = m
        BY <2>2, ListFacts DEF AreLists
    <2>4. FlattenSeq(tt) = FlattenSeq(uu) \o t
        BY <2>2, FlattenAppend
    <2>5. t = tt[m + 1] /\ \A i \in 1..m : uu[i] = tt[i]
        BY <2>2, <2>3
    <2>6. FlattenSeq(uu) = IF k \in 1..m THEN uu[k] ELSE <<>>
        <3>1. \A i \in 1..m : i # k => uu[i] = <<>>
            BY <2>5
        <3>. QED
            BY <1>2, <2>2, <2>3, <3>1
    <2>7. CASE k = m + 1
        <3>1. ~ (k \in 1..m) /\ k \in 1..(m + 1)
            BY <2>7
        <3>. QED
            BY <2>2, <2>4, <2>5, <2>6, <2>7, <3>1, ConcatEmpty
    <2>8. CASE k # m + 1
        <3>1. t = <<>> /\ (k \in 1..(m + 1) <=> k \in 1..m)
            BY <2>5, <2>8
        <3>2. IsList(FlattenSeq(uu))
            BY <2>2, FlattenList
        <3>3. FlattenSeq(tt) = FlattenSeq(uu)
            BY <2>4, <3>1, <3>2, ConcatEmpty
        <3>. QED
            BY <2>5, <2>6, <3>1, <3>3
    <2>. QED
        BY <2>7, <2>8
<1>3. Nat \subseteq T
    <2> HIDE DEF T
    <2>. QED
        BY <1>1, <1>2, AllNumbers
<1>4. Len(ss) \in T
    BY <1>3, ListFacts DEF AreLists
<1>. QED
    BY <1>4

\* A list as a list of lists of one element.
LEMMA FlattenSingles ==
    ASSUME NEW s, IsList(s)
    PROVE  /\ AreLists([i \in 1..Len(s) |-> <<s[i]>>])
           /\ FlattenSeq([i \in 1..Len(s) |-> <<s[i]>>]) = s
<1> DEFINE Ones(t) == [i \in 1..Len(t) |-> <<t[i]>>]
<1>0. ASSUME NEW t, IsList(t) PROVE AreLists(Ones(t)) /\ Len(Ones(t)) = Len(t)
    <2>1. Len(t) \in Nat
        BY ListFacts
    <2>2. IsList(Ones(t)) /\ Len(Ones(t)) = Len(t)
        BY <2>1, Listed
    <2>3. \A i \in 1..Len(t) : IsList(Ones(t)[i])
        BY OneAndRest, EmptyList
    <2>. QED
        BY <2>2, <2>3 DEF AreLists
<1> DEFINE T == {m \in Nat : \A t : IsList(t) /\ Len(t) = m => FlattenSeq(Ones(t)) = t}
<1>1. 0 \in T
    <2> SUFFICES ASSUME NEW t, IsList(t), Len(t) = 0 PROVE FlattenSeq(Ones(t)) = t
        OBVIOUS
    <2>1. t = <<>>
        BY ListFacts
    <2>2. Ones(t) = <<>>
        BY <1>0, ListFacts DEF AreLists
    <2> HIDE DEF Ones
    <2>. QED
        BY <2>1, <2>2, FlattenNone
<1>2. ASSUME NEW m \in Nat, m \in T PROVE m + 1 \in T
    <2> SUFFICES ASSUME NEW t, IsList(t), Len(t) = m + 1 PROVE FlattenSeq(Ones(t)) = t
        OBVIOUS
    <2>1. PICK u, x : /\ IsList(u) /\ t = Append(u, x) /\ t = u \o <<x>>
                      /\ Len(t) = Len(u) + 1 /\ x = t[Len(t)]
                      /\ \A i \in 1..Len(u) : u[i] = t[i]
        <3>1. t # <<>>
            BY EmptyList
        <3>. QED
            BY <3>1, ListEnd
    <2>2. Len(u) = m
        BY <2>1, ListFacts
    <2>3. FlattenSeq(Ones(u)) = u
        BY <1>2, <2>1, <2>2
    <2>4. AreLists(Ones(u)) /\ Len(Ones(u)) = m /\ AreLists(Ones(t)) /\ Len(Ones(t)) = m + 1
        BY <1>0, <2>1, <2>2
    <2>5. IsList(<<x>>)
        BY OneAndRest, EmptyList
    <2> DEFINE a == Append(Ones(u), <<x>>)
    <2>6. /\ AreLists(a) /\ Len(a) = m + 1 /\ a[m + 1] = <<x>>
          /\ \A i \in 1..m : a[i] = Ones(u)[i]
        <3> HIDE DEF Ones
        <3>. QED
            BY <2>4, <2>5, AppendLists
    <2> HIDE DEF a
    <2>7. Ones(t) = a
        <3>1. ASSUME NEW i \in 1..(m + 1) PROVE Ones(t)[i] = a[i]
            <4>1. CASE i = m + 1
                BY <4>1, <2>1, <2>2, <2>6
            <4>2. CASE i \in 1..m
                BY <4>2, <2>1, <2>2, <2>6
            <4>. QED
                BY <4>1, <4>2
        <3> HIDE DEF Ones
        <3>. QED
            BY <3>1, <2>4, <2>6, EqualLists DEF AreLists
    <2> HIDE DEF Ones
    <2>8. FlattenSeq(a) = FlattenSeq(Ones(u)) \o <<x>>
        BY <2>4, <2>5, FlattenAppend DEF a
    <2>. QED
        BY <2>1, <2>3, <2>7, <2>8
<1>3. Nat \subseteq T
    <2> HIDE DEF T
    <2>. QED
        BY <1>1, <1>2, AllNumbers
<1>4. Len(s) \in T
    BY <1>3, ListFacts
<1>. QED
    BY <1>0, <1>4

\* The elements of a flattened list are those of its lists.
LEMMA FlattenElements ==
    ASSUME NEW ss, AreLists(ss), NEW i \in 1..Len(FlattenSeq(ss))
    PROVE  \E k \in 1..Len(ss) : \E j \in 1..Len(ss[k]) : FlattenSeq(ss)[i] = ss[k][j]
<1> DEFINE S == UNION {{ss[k][j] : j \in 1..Len(ss[k])} : k \in 1..Len(ss)}
<1>0. ASSUME NEW k \in 1..Len(ss), NEW j \in 1..Len(ss[k]) PROVE ss[k][j] \in S
    OBVIOUS
<1>1. ASSUME NEW x \in S PROVE \E k \in 1..Len(ss) : \E j \in 1..Len(ss[k]) : x = ss[k][j]
    OBVIOUS
<1> HIDE DEF S
<1>2. ASSUME NEW k \in 1..Len(ss) PROVE ss[k] \in Seq(S)
    <2> DEFINE t == ss[k]
    <2>1. PICK V : t \in Seq(V)
        BY DEF AreLists, IsList
    <2>2. \A j \in 1..Len(t) : t[j] \in S
        BY <1>0
    <2> HIDE DEF t
    <2>3. Len(t) \in Nat /\ t \in [1..Len(t) -> V]
        BY <2>1, LenProperties
    <2>4. t \in [1..Len(t) -> S]
        BY <2>2, <2>3
    <2>. QED
        BY <2>3, <2>4, SeqDef DEF t
<1>3. ss \in Seq(Seq(S))
    <2>1. PICK V : ss \in Seq(V)
        BY DEF AreLists, IsList
    <2>2. Len(ss) \in Nat /\ ss \in [1..Len(ss) -> V]
        BY <2>1, LenProperties
    <2>3. ss \in [1..Len(ss) -> Seq(S)]
        BY <1>2, <2>2
    <2>. QED
        BY <2>2, <2>3, SeqDef
<1>4. FlattenSeq(ss) \in Seq(S)
    BY <1>3, FlattenType
<1>5. FlattenSeq(ss)[i] \in S
    BY <1>4, ElementOfSeq
<1>. QED
    BY <1>1, <1>5

\* The first element of two lists together.
LEMMA ConcatHead ==
    ASSUME NEW s, NEW t, IsList(s), IsList(t), s # <<>>
    PROVE  s \o t # <<>> /\ Head(s \o t) = Head(s) /\ Tail(s \o t) = Tail(s) \o t
<1> DEFINE x == Head(s)
           r == Tail(s)
<1>1. IsList(r) /\ s = <<x>> \o r
    BY HeadAndTail
<1> HIDE DEF x, r
<1>2. IsList(<<x>>)
    BY OneAndRest, EmptyList
<1> DEFINE h == <<x>>
<1>3. s \o t = h \o (r \o t)
    <2>1. IsList(h) /\ s = h \o r /\ IsList(r) /\ IsList(t)
        BY <1>1, <1>2
    <2> HIDE DEF h
    <2>2. (h \o r) \o t = h \o (r \o t)
        BY <2>1, ConcatRegroup
    <2>. QED
        BY <2>1, <2>2
<1>4. IsList(r \o t)
    BY <1>1, ConcatList
<1>. QED
    BY <1>3, <1>4, OneAndRest DEF x, r


\* What a list put together of two others is.
LEMMA ConcatIs ==
    ASSUME NEW s, NEW t, NEW u, IsList(s), IsList(t), IsList(u), Len(u) = Len(s) + Len(t),
           \A i \in 1..Len(s) : u[i] = s[i],
           \A i \in 1..Len(t) : u[Len(s) + i] = t[i]
    PROVE  u = s \o t
<1>1. /\ IsList(s \o t) /\ Len(s \o t) = Len(s) + Len(t)
      /\ \A i \in 1..Len(s) : (s \o t)[i] = s[i]
      /\ \A i \in 1..Len(t) : (s \o t)[Len(s) + i] = t[i]
    BY ConcatList
<1>2. Len(s) \in Nat /\ Len(t) \in Nat
    BY ListFacts
<1>3. ASSUME NEW i \in 1..Len(u) PROVE u[i] = (s \o t)[i]
    <2>1. CASE i \in 1..Len(s)
        BY <2>1, <1>1
    <2>2. CASE ~ (i \in 1..Len(s))
        <3>1. \E j \in 1..Len(t) : i = Len(s) + j
            <4>1. i - Len(s) \in 1..Len(t) /\ i = Len(s) + (i - Len(s))
                BY <2>2, <1>2
            <4>. QED
                BY <4>1
        <3>2. PICK j \in 1..Len(t) : i = Len(s) + j
            BY <3>1
        <3>. QED
            BY <3>2, <1>1
    <2>. QED
        BY <2>1, <2>2
<1>. QED
    BY <1>1, <1>3, EqualLists

\* Tuples are lists, and one after the other make a longer one.
LEMMA Tuple2 ==
    ASSUME NEW x1, NEW x2
    PROVE  IsList(<<x1, x2>>) /\ <<x1, x2>> = <<x1>> \o <<x2>>
<1> DEFINE u == <<x1, x2>>
           s == <<x1>>
           t == <<x2>>
<1>1. u \in Seq({x1, x2}) /\ s \in Seq({x1}) /\ t \in Seq({x2})
    OBVIOUS
<1>2. /\ Len(u) = 2 /\ Len(s) = 1 /\ Len(t) = 1
      /\ u[1] = s[1]
      /\ u[1 + 1] = t[1]
    OBVIOUS
<1> HIDE DEF u, s, t
<1>3. IsList(u) /\ IsList(s) /\ IsList(t)
    BY <1>1 DEF IsList
<1>4. \A i \in 1..Len(s) : u[i] = s[i]
    <2>1. \A i \in 1..1 : i = 1
        OBVIOUS
    <2>. QED
        BY <1>2, <2>1
<1>5. \A i \in 1..Len(t) : u[Len(s) + i] = t[i]
    <2>1. \A i \in 1..1 : i = 1
        OBVIOUS
    <2>. QED
        BY <1>2, <2>1
<1>6. Len(u) = Len(s) + Len(t)
    BY <1>2
<1>7. u = s \o t
    BY <1>3, <1>4, <1>5, <1>6, ConcatIs
<1>. QED
    BY <1>3, <1>7 DEF u, s, t

LEMMA Tuple3 ==
    ASSUME NEW x1, NEW x2, NEW x3
    PROVE  IsList(<<x1, x2, x3>>) /\ <<x1, x2, x3>> = <<x1, x2>> \o <<x3>>
<1> DEFINE u == <<x1, x2, x3>>
           s == <<x1, x2>>
           t == <<x3>>
<1>1. u \in Seq({x1, x2, x3}) /\ s \in Seq({x1, x2}) /\ t \in Seq({x3})
    OBVIOUS
<1>2. /\ Len(u) = 3 /\ Len(s) = 2 /\ Len(t) = 1
      /\ u[1] = s[1] /\ u[2] = s[2]
      /\ u[2 + 1] = t[1]
    OBVIOUS
<1> HIDE DEF u, s, t
<1>3. IsList(u) /\ IsList(s) /\ IsList(t)
    BY <1>1 DEF IsList
<1>4. \A i \in 1..Len(s) : u[i] = s[i]
    <2>1. \A i \in 1..2 : i = 1 \/ i = 2
        OBVIOUS
    <2>. QED
        BY <1>2, <2>1
<1>5. \A i \in 1..Len(t) : u[Len(s) + i] = t[i]
    <2>1. \A i \in 1..1 : i = 1
        OBVIOUS
    <2>. QED
        BY <1>2, <2>1
<1>6. Len(u) = Len(s) + Len(t)
    BY <1>2
<1>7. u = s \o t
    BY <1>3, <1>4, <1>5, <1>6, ConcatIs
<1>. QED
    BY <1>3, <1>7 DEF u, s, t

LEMMA Tuple4 ==
    ASSUME NEW x1, NEW x2, NEW x3, NEW x4
    PROVE  IsList(<<x1, x2, x3, x4>>) /\ <<x1, x2, x3, x4>> = <<x1, x2, x3>> \o <<x4>>
<1> DEFINE u == <<x1, x2, x3, x4>>
           s == <<x1, x2, x3>>
           t == <<x4>>
<1>1. u \in Seq({x1, x2, x3, x4}) /\ s \in Seq({x1, x2, x3}) /\ t \in Seq({x4})
    OBVIOUS
<1>2. /\ Len(u) = 4 /\ Len(s) = 3 /\ Len(t) = 1
      /\ u[1] = s[1] /\ u[2] = s[2] /\ u[3] = s[3]
      /\ u[3 + 1] = t[1]
    OBVIOUS
<1> HIDE DEF u, s, t
<1>3. IsList(u) /\ IsList(s) /\ IsList(t)
    BY <1>1 DEF IsList
<1>4. \A i \in 1..Len(s) : u[i] = s[i]
    <2>1. \A i \in 1..3 : i = 1 \/ i = 2 \/ i = 3
        OBVIOUS
    <2>. QED
        BY <1>2, <2>1
<1>5. \A i \in 1..Len(t) : u[Len(s) + i] = t[i]
    <2>1. \A i \in 1..1 : i = 1
        OBVIOUS
    <2>. QED
        BY <1>2, <2>1
<1>6. Len(u) = Len(s) + Len(t)
    BY <1>2
<1>7. u = s \o t
    BY <1>3, <1>4, <1>5, <1>6, ConcatIs
<1>. QED
    BY <1>3, <1>7 DEF u, s, t

LEMMA Tuple5a ==
    ASSUME NEW x1, NEW x2, NEW x3, NEW x4, NEW x5
    PROVE  IsList(<<x1, x2, x3, x4, x5>>) /\ <<x1, x2, x3, x4, x5>> = <<x1>> \o <<x2, x3, x4, x5>>
<1> DEFINE u == <<x1, x2, x3, x4, x5>>
           s == <<x1>>
           t == <<x2, x3, x4, x5>>
<1>1. u \in Seq({x1, x2, x3, x4, x5}) /\ s \in Seq({x1}) /\ t \in Seq({x2, x3, x4, x5})
    OBVIOUS
<1>2. /\ Len(u) = 5 /\ Len(s) = 1 /\ Len(t) = 4
      /\ u[1] = s[1]
      /\ u[1 + 1] = t[1] /\ u[1 + 2] = t[2] /\ u[1 + 3] = t[3] /\ u[1 + 4] = t[4]
    OBVIOUS
<1> HIDE DEF u, s, t
<1>3. IsList(u) /\ IsList(s) /\ IsList(t)
    BY <1>1 DEF IsList
<1>4. \A i \in 1..Len(s) : u[i] = s[i]
    <2>1. \A i \in 1..1 : i = 1
        OBVIOUS
    <2>. QED
        BY <1>2, <2>1
<1>5. \A i \in 1..Len(t) : u[Len(s) + i] = t[i]
    <2>1. \A i \in 1..4 : i = 1 \/ i = 2 \/ i = 3 \/ i = 4
        OBVIOUS
    <2>. QED
        BY <1>2, <2>1
<1>6. Len(u) = Len(s) + Len(t)
    BY <1>2
<1>7. u = s \o t
    BY <1>3, <1>4, <1>5, <1>6, ConcatIs
<1>. QED
    BY <1>3, <1>7 DEF u, s, t

LEMMA Tuple5b ==
    ASSUME NEW x1, NEW x2, NEW x3, NEW x4, NEW x5
    PROVE  IsList(<<x1, x2, x3, x4, x5>>) /\ <<x1, x2, x3, x4, x5>> = <<x1, x2, x3>> \o <<x4, x5>>
<1> DEFINE u == <<x1, x2, x3, x4, x5>>
           s == <<x1, x2, x3>>
           t == <<x4, x5>>
<1>1. u \in Seq({x1, x2, x3, x4, x5}) /\ s \in Seq({x1, x2, x3}) /\ t \in Seq({x4, x5})
    OBVIOUS
<1>2. /\ Len(u) = 5 /\ Len(s) = 3 /\ Len(t) = 2
      /\ u[1] = s[1] /\ u[2] = s[2] /\ u[3] = s[3]
      /\ u[3 + 1] = t[1] /\ u[3 + 2] = t[2]
    OBVIOUS
<1> HIDE DEF u, s, t
<1>3. IsList(u) /\ IsList(s) /\ IsList(t)
    BY <1>1 DEF IsList
<1>4. \A i \in 1..Len(s) : u[i] = s[i]
    <2>1. \A i \in 1..3 : i = 1 \/ i = 2 \/ i = 3
        OBVIOUS
    <2>. QED
        BY <1>2, <2>1
<1>5. \A i \in 1..Len(t) : u[Len(s) + i] = t[i]
    <2>1. \A i \in 1..2 : i = 1 \/ i = 2
        OBVIOUS
    <2>. QED
        BY <1>2, <2>1
<1>6. Len(u) = Len(s) + Len(t)
    BY <1>2
<1>7. u = s \o t
    BY <1>3, <1>4, <1>5, <1>6, ConcatIs
<1>. QED
    BY <1>3, <1>7 DEF u, s, t

LEMMA Tuple5c ==
    ASSUME NEW x1, NEW x2, NEW x3, NEW x4, NEW x5
    PROVE  IsList(<<x1, x2, x3, x4, x5>>) /\ <<x1, x2, x3, x4, x5>> = <<x1, x2, x3, x4>> \o <<x5>>
<1> DEFINE u == <<x1, x2, x3, x4, x5>>
           s == <<x1, x2, x3, x4>>
           t == <<x5>>
<1>1. u \in Seq({x1, x2, x3, x4, x5}) /\ s \in Seq({x1, x2, x3, x4}) /\ t \in Seq({x5})
    OBVIOUS
<1>2. /\ Len(u) = 5 /\ Len(s) = 4 /\ Len(t) = 1
      /\ u[1] = s[1] /\ u[2] = s[2] /\ u[3] = s[3] /\ u[4] = s[4]
      /\ u[4 + 1] = t[1]
    OBVIOUS
<1> HIDE DEF u, s, t
<1>3. IsList(u) /\ IsList(s) /\ IsList(t)
    BY <1>1 DEF IsList
<1>4. \A i \in 1..Len(s) : u[i] = s[i]
    <2>1. \A i \in 1..4 : i = 1 \/ i = 2 \/ i = 3 \/ i = 4
        OBVIOUS
    <2>. QED
        BY <1>2, <2>1
<1>5. \A i \in 1..Len(t) : u[Len(s) + i] = t[i]
    <2>1. \A i \in 1..1 : i = 1
        OBVIOUS
    <2>. QED
        BY <1>2, <2>1
<1>6. Len(u) = Len(s) + Len(t)
    BY <1>2
<1>7. u = s \o t
    BY <1>3, <1>4, <1>5, <1>6, ConcatIs
<1>. QED
    BY <1>3, <1>7 DEF u, s, t

LEMMA Tuple7 ==
    ASSUME NEW x1, NEW x2, NEW x3, NEW x4, NEW x5, NEW x6, NEW x7
    PROVE  IsList(<<x1, x2, x3, x4, x5, x6, x7>>) /\ <<x1, x2, x3, x4, x5, x6, x7>> = <<x1, x2, x3>> \o <<x4, x5, x6, x7>>
<1> DEFINE u == <<x1, x2, x3, x4, x5, x6, x7>>
           s == <<x1, x2, x3>>
           t == <<x4, x5, x6, x7>>
<1>1. u \in Seq({x1, x2, x3, x4, x5, x6, x7}) /\ s \in Seq({x1, x2, x3}) /\ t \in Seq({x4, x5, x6, x7})
    OBVIOUS
<1>2. /\ Len(u) = 7 /\ Len(s) = 3 /\ Len(t) = 4
      /\ u[1] = s[1] /\ u[2] = s[2] /\ u[3] = s[3]
      /\ u[3 + 1] = t[1] /\ u[3 + 2] = t[2] /\ u[3 + 3] = t[3] /\ u[3 + 4] = t[4]
    OBVIOUS
<1> HIDE DEF u, s, t
<1>3. IsList(u) /\ IsList(s) /\ IsList(t)
    BY <1>1 DEF IsList
<1>4. \A i \in 1..Len(s) : u[i] = s[i]
    <2>1. \A i \in 1..3 : i = 1 \/ i = 2 \/ i = 3
        OBVIOUS
    <2>. QED
        BY <1>2, <2>1
<1>5. \A i \in 1..Len(t) : u[Len(s) + i] = t[i]
    <2>1. \A i \in 1..4 : i = 1 \/ i = 2 \/ i = 3 \/ i = 4
        OBVIOUS
    <2>. QED
        BY <1>2, <2>1
<1>6. Len(u) = Len(s) + Len(t)
    BY <1>2
<1>7. u = s \o t
    BY <1>3, <1>4, <1>5, <1>6, ConcatIs
<1>. QED
    BY <1>3, <1>7 DEF u, s, t

LEMMA Tuple8 ==
    ASSUME NEW x1, NEW x2, NEW x3, NEW x4, NEW x5, NEW x6, NEW x7, NEW x8
    PROVE  IsList(<<x1, x2, x3, x4, x5, x6, x7, x8>>) /\ <<x1, x2, x3, x4, x5, x6, x7, x8>> = <<x1, x2, x3>> \o <<x4, x5, x6, x7, x8>>
<1> DEFINE u == <<x1, x2, x3, x4, x5, x6, x7, x8>>
           s == <<x1, x2, x3>>
           t == <<x4, x5, x6, x7, x8>>
<1>1. u \in Seq({x1, x2, x3, x4, x5, x6, x7, x8}) /\ s \in Seq({x1, x2, x3}) /\ t \in Seq({x4, x5, x6, x7, x8})
    OBVIOUS
<1>2. /\ Len(u) = 8 /\ Len(s) = 3 /\ Len(t) = 5
      /\ u[1] = s[1] /\ u[2] = s[2] /\ u[3] = s[3]
      /\ u[3 + 1] = t[1] /\ u[3 + 2] = t[2] /\ u[3 + 3] = t[3] /\ u[3 + 4] = t[4] /\ u[3 + 5] = t[5]
    OBVIOUS
<1> HIDE DEF u, s, t
<1>3. IsList(u) /\ IsList(s) /\ IsList(t)
    BY <1>1 DEF IsList
<1>4. \A i \in 1..Len(s) : u[i] = s[i]
    <2>1. \A i \in 1..3 : i = 1 \/ i = 2 \/ i = 3
        OBVIOUS
    <2>. QED
        BY <1>2, <2>1
<1>5. \A i \in 1..Len(t) : u[Len(s) + i] = t[i]
    <2>1. \A i \in 1..5 : i = 1 \/ i = 2 \/ i = 3 \/ i = 4 \/ i = 5
        OBVIOUS
    <2>. QED
        BY <1>2, <2>1
<1>6. Len(u) = Len(s) + Len(t)
    BY <1>2
<1>7. u = s \o t
    BY <1>3, <1>4, <1>5, <1>6, ConcatIs
<1>. QED
    BY <1>3, <1>7 DEF u, s, t

LEMMA Tuple6 ==
    ASSUME NEW x1, NEW x2, NEW x3, NEW x4, NEW x5, NEW x6
    PROVE  IsList(<<x1, x2, x3, x4, x5, x6>>) /\ <<x1, x2, x3, x4, x5, x6>> = <<x1, x2, x3, x4, x5>> \o <<x6>>
<1> DEFINE u == <<x1, x2, x3, x4, x5, x6>>
           s == <<x1, x2, x3, x4, x5>>
           t == <<x6>>
<1>1. u \in Seq({x1, x2, x3, x4, x5, x6}) /\ s \in Seq({x1, x2, x3, x4, x5}) /\ t \in Seq({x6})
    OBVIOUS
<1>2. /\ Len(u) = 6 /\ Len(s) = 5 /\ Len(t) = 1
      /\ u[1] = s[1] /\ u[2] = s[2] /\ u[3] = s[3] /\ u[4] = s[4] /\ u[5] = s[5]
      /\ u[5 + 1] = t[1]
    OBVIOUS
<1> HIDE DEF u, s, t
<1>3. IsList(u) /\ IsList(s) /\ IsList(t)
    BY <1>1 DEF IsList
<1>4. \A i \in 1..Len(s) : u[i] = s[i]
    <2>1. \A i \in 1..5 : i = 1 \/ i = 2 \/ i = 3 \/ i = 4 \/ i = 5
        OBVIOUS
    <2>. QED
        BY <1>2, <2>1
<1>5. \A i \in 1..Len(t) : u[Len(s) + i] = t[i]
    <2>1. \A i \in 1..1 : i = 1
        OBVIOUS
    <2>. QED
        BY <1>2, <2>1
<1>6. Len(u) = Len(s) + Len(t)
    BY <1>2
<1>7. u = s \o t
    BY <1>3, <1>4, <1>5, <1>6, ConcatIs
<1>. QED
    BY <1>3, <1>7 DEF u, s, t

LEMMA Tuple12 ==
    ASSUME NEW x1, NEW x2, NEW x3, NEW x4, NEW x5, NEW x6, NEW x7, NEW x8, NEW x9, NEW x10, NEW x11, NEW x12
    PROVE  IsList(<<x1, x2, x3, x4, x5, x6, x7, x8, x9, x10, x11, x12>>) /\ <<x1, x2, x3, x4, x5, x6, x7, x8, x9, x10, x11, x12>> = <<x1, x2, x3, x4, x5, x6>> \o <<x7, x8, x9, x10, x11, x12>>
<1> DEFINE u == <<x1, x2, x3, x4, x5, x6, x7, x8, x9, x10, x11, x12>>
           s == <<x1, x2, x3, x4, x5, x6>>
           t == <<x7, x8, x9, x10, x11, x12>>
<1>1. u \in Seq({x1, x2, x3, x4, x5, x6, x7, x8, x9, x10, x11, x12}) /\ s \in Seq({x1, x2, x3, x4, x5, x6}) /\ t \in Seq({x7, x8, x9, x10, x11, x12})
    OBVIOUS
<1>2. /\ Len(u) = 12 /\ Len(s) = 6 /\ Len(t) = 6
      /\ u[1] = s[1] /\ u[2] = s[2] /\ u[3] = s[3] /\ u[4] = s[4] /\ u[5] = s[5] /\ u[6] = s[6]
      /\ u[6 + 1] = t[1] /\ u[6 + 2] = t[2] /\ u[6 + 3] = t[3] /\ u[6 + 4] = t[4] /\ u[6 + 5] = t[5] /\ u[6 + 6] = t[6]
    OBVIOUS
<1> HIDE DEF u, s, t
<1>3. IsList(u) /\ IsList(s) /\ IsList(t)
    BY <1>1 DEF IsList
<1>4. \A i \in 1..Len(s) : u[i] = s[i]
    <2>1. \A i \in 1..6 : i = 1 \/ i = 2 \/ i = 3 \/ i = 4 \/ i = 5 \/ i = 6
        OBVIOUS
    <2>. QED
        BY <1>2, <2>1
<1>5. \A i \in 1..Len(t) : u[Len(s) + i] = t[i]
    <2>1. \A i \in 1..6 : i = 1 \/ i = 2 \/ i = 3 \/ i = 4 \/ i = 5 \/ i = 6
        OBVIOUS
    <2>. QED
        BY <1>2, <2>1
<1>6. Len(u) = Len(s) + Len(t)
    BY <1>2
<1>7. u = s \o t
    BY <1>3, <1>4, <1>5, <1>6, ConcatIs
<1>. QED
    BY <1>3, <1>7 DEF u, s, t

\* The elements of two lists together are theirs.
LEMMA ConcatElements ==
    ASSUME NEW s, NEW t, IsList(s), IsList(t), NEW i \in 1..Len(s \o t)
    PROVE  (\E j \in 1..Len(s) : (s \o t)[i] = s[j]) \/ (\E j \in 1..Len(t) : (s \o t)[i] = t[j])
<1>1. /\ Len(s \o t) = Len(s) + Len(t)
      /\ \A j \in 1..Len(s) : (s \o t)[j] = s[j]
      /\ \A j \in 1..Len(t) : (s \o t)[Len(s) + j] = t[j]
    BY ConcatList
<1>2. Len(s) \in Nat /\ Len(t) \in Nat
    BY ListFacts
<1>3. CASE i \in 1..Len(s)
    BY <1>1, <1>3
<1>4. CASE ~ (i \in 1..Len(s))
    <2>1. i - Len(s) \in 1..Len(t) /\ i = Len(s) + (i - Len(s))
        BY <1>1, <1>2, <1>4
    <2>2. \E j \in 1..Len(t) : i = Len(s) + j
        BY <2>1
    <2>. QED
        BY <2>2, <1>1
<1>. QED
    BY <1>3, <1>4
===============================================================================
