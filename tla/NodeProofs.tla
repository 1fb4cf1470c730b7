------------------------------ MODULE NodeProofs ------------------------------
\* Proofs about Node's modules, for all models, clusters and sizes: how a range
\* of items is shared out among the threads of a node and the units of a weight
\* among the nodes; how a worker reads its configuration and its weights from a
\* stream without framing, in step with the root that writes it, and has in the
\* end the configuration it was meant to have; and what holds while all nodes run
\* forwards.
EXTENDS Node, ListLemmas

-----------------------------------------------------------------------------
\* Threads: for every size and every number of threads, the parts of Splits
\* cover the whole range and have nothing in common.

\* Division with a remainder, as split_threads has it.
LEMMA Quotient ==
    ASSUME NEW n \in Nat, NEW nt \in Nat, nt > 0
    PROVE  /\ Slice(n, nt) \in Nat /\ Rest(n, nt) \in 0..(nt - 1)
           /\ n = nt * Slice(n, nt) + Rest(n, nt)
  BY DEF Slice, Rest

\* What SMT has to be told of \div.
LEMMA Division ==
    ASSUME NEW x \in Nat, NEW m \in Nat, m > 0
    PROVE  /\ x \div m \in Nat
           /\ (x \div m) * m <= x /\ x < (x \div m) * m + m
  OBVIOUS

\* The bounds of a part are numbers.
LEMMA StartType ==
    ASSUME NEW n \in Nat, NEW nt \in Nat, nt > 0, NEW ti \in Nat
    PROVE  SplitStart(n, nt, ti) \in Nat /\ SplitEnd(n, nt, ti) \in Nat
  <1> DEFINE q == Slice(n, nt)
  <1>1. q \in Nat /\ Rest(n, nt) \in Nat  BY Quotient
  <1>2. ti * q \in Nat  BY <1>1
  <1> HIDE DEF q
  <1> QED  BY <1>1, <1>2 DEF SplitStart, SplitEnd, q

\* The first part begins at 0, each part begins where the one before ends, and
\* the last ends at n.
THEOREM PartsAreConsecutive ==
    ASSUME NEW n \in Nat, NEW nt \in Nat, nt > 0
    PROVE  /\ SplitStart(n, nt, 0) = 0
           /\ \A ti \in 0..(nt - 2) : SplitEnd(n, nt, ti) = SplitStart(n, nt, ti + 1)
           /\ SplitEnd(n, nt, nt - 1) = n
  <1> DEFINE q == Slice(n, nt)
             r == Rest(n, nt)
  <1>q. q \in Nat /\ r \in 0..(nt - 1) /\ n = nt * q + r  BY Quotient
  <1>d. ASSUME NEW ti \in Nat
        PROVE  /\ SplitStart(n, nt, ti) = ti * q + (IF ti < r THEN ti ELSE r)
               /\ SplitEnd(n, nt, ti) = SplitStart(n, nt, ti) + q + (IF ti < r THEN 1 ELSE 0)
    BY DEF SplitStart, SplitEnd
  <1> HIDE DEF q, r
  <1>1. SplitStart(n, nt, 0) = 0
    <2>1. 0 * q = 0  BY <1>q
    <2> QED  BY <2>1, <1>d, <1>q
  <1>2. ASSUME NEW ti \in 0..(nt - 2)
        PROVE  SplitEnd(n, nt, ti) = SplitStart(n, nt, ti + 1)
    <2>1. (ti + 1) * q = ti * q + q /\ ti * q \in Nat  BY <1>q
    <2> DEFINE p == ti * q
               p1 == (ti + 1) * q
    <2>2. /\ SplitEnd(n, nt, ti) = p + (IF ti < r THEN ti ELSE r) + q + (IF ti < r THEN 1 ELSE 0)
          /\ SplitStart(n, nt, ti + 1) = p1 + (IF ti + 1 < r THEN ti + 1 ELSE r)
          /\ p1 = p + q /\ p \in Nat
      BY <1>d, <2>1
    <2> HIDE DEF p, p1
    <2> QED  BY <2>2, <1>q
  <1>3. SplitEnd(n, nt, nt - 1) = n
    <2>1. (nt - 1) * q + q = nt * q /\ (nt - 1) * q \in Nat  BY <1>q
    <2> DEFINE p == (nt - 1) * q
               p1 == nt * q
    <2>2. /\ SplitEnd(n, nt, nt - 1) = p + (IF nt - 1 < r THEN nt - 1 ELSE r) + q
                                         + (IF nt - 1 < r THEN 1 ELSE 0)
          /\ p1 = p + q /\ p \in Nat /\ n = p1 + r
      BY <1>d, <2>1, <1>q
    <2> HIDE DEF p, p1
    <2> QED  BY <2>2, <1>q
  <1> QED  BY <1>1, <1>2, <1>3

\* Two threads have no index in common.
THEOREM PartsAreDisjoint ==
    ASSUME NEW n \in Nat, NEW nt \in Nat, nt > 0,
           NEW i \in 0..(nt - 1), NEW j \in 0..(nt - 1), i # j
    PROVE  Split(n, nt, i) \cap Split(n, nt, j) = {}
  <1> DEFINE q == Slice(n, nt)
             r == Rest(n, nt)
  <1>q. q \in Nat /\ r \in 0..(nt - 1)  BY Quotient
  <1>d. ASSUME NEW ti \in Nat
        PROVE  /\ SplitStart(n, nt, ti) = ti * q + (IF ti < r THEN ti ELSE r)
               /\ SplitEnd(n, nt, ti) = SplitStart(n, nt, ti) + q + (IF ti < r THEN 1 ELSE 0)
    BY DEF SplitStart, SplitEnd
  <1> HIDE DEF q, r
  <1>1. ASSUME NEW a \in 0..(nt - 1), NEW b \in 0..(nt - 1), a < b
        PROVE  SplitEnd(n, nt, a) <= SplitStart(n, nt, b)
    <2> DEFINE pa == a * q
               pb == b * q
               d == (b - a - 1) * q
    <2>1. pb = pa + d + q /\ pa \in Nat /\ d \in Nat
      <3>1. b - a - 1 \in Nat  BY <1>1
      <3> QED  BY <3>1, <1>q
    <2>2. /\ SplitEnd(n, nt, a) = pa + (IF a < r THEN a ELSE r) + q + (IF a < r THEN 1 ELSE 0)
          /\ SplitStart(n, nt, b) = pb + (IF b < r THEN b ELSE r)
      BY <1>d
    <2> HIDE DEF pa, pb, d
    <2> QED  BY <1>1, <2>1, <2>2, <1>q
  <1>2. \A ti \in 0..(nt - 1) : SplitStart(n, nt, ti) \in Nat /\ SplitEnd(n, nt, ti) \in Nat
    BY StartType
  <1> QED  BY <1>1, <1>2 DEF Split

\* Every index has a thread.
THEOREM PartsCover ==
    ASSUME NEW n \in Nat, NEW nt \in Nat, nt > 0, NEW x \in 0..(n - 1)
    PROVE  \E ti \in 0..(nt - 1) : x \in Split(n, nt, ti)
  <1> DEFINE q == Slice(n, nt)
             r == Rest(n, nt)
             big == r * (q + 1)
  <1>q. q \in Nat /\ r \in 0..(nt - 1) /\ n = nt * q + r  BY Quotient
  <1>d. ASSUME NEW ti \in Nat
        PROVE  /\ SplitStart(n, nt, ti) = ti * q + (IF ti < r THEN ti ELSE r)
               /\ SplitEnd(n, nt, ti) = SplitStart(n, nt, ti) + q + (IF ti < r THEN 1 ELSE 0)
    BY DEF SplitStart, SplitEnd
  <1> HIDE DEF q, r
  <1>b. big \in Nat /\ big = r * q + r  BY <1>q
  <1>1. CASE x < big
    <2> DEFINE ti == x \div (q + 1)
    <2>1. ti \in Nat /\ ti * (q + 1) <= x /\ x < ti * (q + 1) + (q + 1)
      <3>1. x \in Nat /\ q + 1 \in Nat /\ q + 1 > 0  BY <1>q
      <3> QED  BY <3>1, Division
    <2>2. ti * (q + 1) = ti * q + ti /\ ti * q \in Nat  BY <2>1, <1>q
    <2> HIDE DEF ti
    <2>3. ti < r
      <3>1. ti * (q + 1) < r * (q + 1)  BY <2>1, <1>1, <1>b, <1>q
      <3> QED
        <4>1. SUFFICES ASSUME ti >= r PROVE FALSE  BY <2>1, <1>q
        <4>2. ti * (q + 1) = r * (q + 1) + (ti - r) * (q + 1)  BY <2>1, <1>q
        <4>3. (ti - r) * (q + 1) >= 0  BY <4>1, <2>1, <1>q
        <4> QED  BY <4>2, <4>3, <3>1, <2>1, <1>q
    <2> DEFINE p == ti * q
    <2>4. p \in Nat /\ p + ti <= x /\ x < p + ti + q + 1  BY <2>1, <2>2, <1>q
    <2>5. SplitStart(n, nt, ti) = p + ti /\ SplitEnd(n, nt, ti) = p + ti + q + 1
      BY <1>d, <2>1, <2>3
    <2> HIDE DEF p
    <2>6. x \in Split(n, nt, ti)  BY <2>4, <2>5, <2>1, <1>q DEF Split
    <2> QED  BY <2>6, <2>1, <2>3, <1>q
  <1>2. CASE x >= big
    <2> DEFINE y == x - big
    <2>1. y \in Nat /\ y < (nt - r) * q
      <3>1. nt * q = (nt - r) * q + r * q  BY <1>q
      <3> QED  BY <3>1, <1>2, <1>b, <1>q
    <2>2. q > 0
      <3>1. (nt - r) * 0 = 0  BY <1>q
      <3> QED  BY <3>1, <2>1, <1>q
    <2> HIDE DEF y
    <2> DEFINE k == y \div q
    <2>3. k \in Nat /\ k * q <= y /\ y < k * q + q  BY <2>1, <2>2, <1>q
    <2> HIDE DEF k
    <2>4. k < nt - r
      <3>1. SUFFICES ASSUME k >= nt - r PROVE FALSE  BY <2>3, <1>q
      <3>2. k * q = (nt - r) * q + (k - (nt - r)) * q  BY <2>3, <1>q
      <3>3. (k - (nt - r)) * q >= 0  BY <3>1, <2>3, <1>q
      <3> QED  BY <3>2, <3>3, <2>1, <2>3, <1>q
    <2> DEFINE ti == r + k
               p == ti * q
    <2>5. p = r * q + k * q /\ p \in Nat  BY <2>3, <1>q
    <2>6. p + r <= x /\ x < p + r + q  BY <2>5, <2>3, <1>b, <1>q, <1>2 DEF y
    <2>7. SplitStart(n, nt, ti) = p + r /\ SplitEnd(n, nt, ti) = p + r + q
      <3>1. ti \in Nat /\ ~(ti < r)  BY <2>3, <1>q
      <3>2. SplitStart(n, nt, ti) = ti * q + r /\ SplitEnd(n, nt, ti) = ti * q + r + q + 0
        BY <1>d, <3>1
      <3> QED  BY <3>2, <2>5, <1>q
    <2> HIDE DEF p
    <2>8. x \in Split(n, nt, ti)  BY <2>5, <2>6, <2>7, <1>q DEF Split
    <2> QED  BY <2>8, <2>3, <2>4, <1>q
  <1> QED  BY <1>1, <1>2, <1>b

-----------------------------------------------------------------------------
\* Weights: where the units of a node's part come from.

\* The rows and columns of a node's own part of a weight, as in Holds.
OwnRows(w) == IF w.how = "row" THEN w.rows \div hdr.nodes ELSE w.rows
OwnCols(w) == IF w.how = "col" THEN w.cols \div hdr.nodes ELSE w.cols

\* A weight of some size, and one that leaves nothing over when it is shared out:
\* what is cut up has a multiple of nodes.
Sized(w) ==
    /\ w.how \in {"all", "row", "col"}
    /\ w.rows \in Nat /\ w.cols \in Nat /\ hdr.nodes \in Nat \ {0}
Divides(w) ==
    /\ Sized(w)
    /\ w.how = "row" => w.rows = hdr.nodes * OwnRows(w)
    /\ w.how = "col" => w.cols = hdr.nodes * OwnCols(w)

\* The cell in row r and column c of rows of k cells.
LEMMA CellAt ==
    ASSUME NEW k \in Nat, NEW r \in Nat, NEW c \in 0..(k - 1)
    PROVE  r * k + c \in Nat /\ (r * k + c) \div k = r /\ (r * k + c) % k = c
  <1> DEFINE x == r * k + c
             q == x \div k
             m == x % k
  <1>1. x \in Nat /\ k > 0  OBVIOUS
  <1>2. q \in Nat /\ m \in 0..(k - 1) /\ x = q * k + m
    <2>1. q \in Nat /\ m \in 0..(k - 1) /\ x = k * q + m  BY <1>1
    <2> QED  BY <2>1
  <1> HIDE DEF q, m
  <1>3. ASSUME NEW a \in Nat, NEW b \in Nat, a < b PROVE a * k + k <= b * k
    <2>1. b - a - 1 \in Nat  BY <1>3
    <2>2. (b - a - 1) * k \in Nat  BY <2>1
    <2>3. b * k = a * k + k + (b - a - 1) * k  BY <2>1
    <2> DEFINE d == (b - a - 1) * k
    <2>4. d \in Nat /\ b * k = a * k + k + d /\ a * k \in Nat  BY <2>2, <2>3
    <2> HIDE DEF d
    <2> QED  BY <2>4
  <1> DEFINE rk == r * k
             qk == q * k
  <1>4. rk \in Nat /\ qk \in Nat /\ rk + c = qk + m  BY <1>2
  <1>5. q < r => qk + k <= rk  BY <1>2, <1>3
  <1>6. r < q => rk + k <= qk  BY <1>2, <1>3
  <1>7. q = r => qk = rk  OBVIOUS
  <1> HIDE DEF rk, qk
  <1>8. q = r  BY <1>1, <1>2, <1>4, <1>5, <1>6
  <1>9. m = c  BY <1>2, <1>4, <1>7, <1>8
  <1> QED  BY <1>1, <1>8, <1>9 DEF q, m

\* Every number is one cell of rows of k cells; within r rows it is in one of them.
LEMMA CellOf ==
    ASSUME NEW k \in Nat, k > 0, NEW n \in Nat, NEW x \in 0..(n * k - 1)
    PROVE  x \div k \in 0..(n - 1) /\ x % k \in 0..(k - 1) /\ x = (x \div k) * k + (x % k)
  <1> DEFINE q == x \div k
             m == x % k
  <1>0. n * k \in Nat  OBVIOUS
  <1>1. q \in Nat /\ m \in 0..(k - 1) /\ x = k * q + m  BY <1>0
  <1>2. x = q * k + m  BY <1>1
  <1> HIDE DEF q, m
  <1>3. q < n
    <2>1. SUFFICES ASSUME q >= n PROVE FALSE  BY <1>1
    <2> DEFINE d == (q - n) * k
    <2>2. d \in Nat /\ q * k = n * k + d
      <3>1. q - n \in Nat  BY <1>1, <2>1
      <3> QED  BY <3>1, <1>1
    <2> HIDE DEF d
    <2>3. x < n * k  BY <1>0
    <2> QED  BY <1>0, <1>1, <1>2, <2>2, <2>3
  <1> QED  BY <1>1, <1>2, <1>3 DEF q, m

\* The units of a part, by row and column of the part; how many there are.
LEMMA PartUnits ==
    ASSUME NEW w, Sized(w), NEW n \in Nodes
    PROVE  /\ OwnRows(w) \in Nat /\ OwnCols(w) \in Nat
           /\ DOMAIN Part(hdr, w, n) = 0..(OwnRows(w) * OwnCols(w) - 1)
           /\ \A r \in 0..(OwnRows(w) - 1) : \A c \in 0..(OwnCols(w) - 1) :
                /\ r * OwnCols(w) + c \in DOMAIN Part(hdr, w, n)
                /\ Part(hdr, w, n)[r * OwnCols(w) + c] = <<w.expert, Shifted(w, n, r, c)>>
  <1> DEFINE R == OwnRows(w)
             C == OwnCols(w)
  <1>1. R \in Nat /\ C \in Nat  BY DEF Sized, OwnRows, OwnCols
  <1> HIDE DEF R, C
  <1>2. \A r \in 0..(R - 1) : \A c \in 0..(C - 1) :
          /\ r * C + c \in 0..(R * C - 1)
          /\ (r * C + c) \div C = r /\ (r * C + c) % C = c
    <2>1. SUFFICES ASSUME NEW r \in 0..(R - 1), NEW c \in 0..(C - 1)
                   PROVE  /\ r * C + c \in 0..(R * C - 1)
                          /\ (r * C + c) \div C = r /\ (r * C + c) % C = c
      OBVIOUS
    <2>2. r \in Nat /\ c \in 0..(C - 1) /\ R - r - 1 \in Nat  BY <1>1, <2>1
    <2>3. r * C + c \in Nat /\ (r * C + c) \div C = r /\ (r * C + c) % C = c
      BY <1>1, <2>2, CellAt
    <2> DEFINE rc == r * C
               d == (R - r - 1) * C
    <2>4. d \in Nat /\ rc \in Nat /\ R * C = rc + C + d  BY <1>1, <2>2
    <2>5. rc + c \in 0..(R * C - 1)
      <3> HIDE DEF d, rc
      <3> QED  BY <1>1, <2>2, <2>4
    <2> QED  BY <2>3, <2>5
  <1>3. CASE w.how = "all"
    <2>1. R = w.rows /\ C = w.cols  BY <1>3 DEF OwnRows, OwnCols, R, C
    <2>2. Part(hdr, w, n) = [i \in 0..(R * C - 1) |-> <<w.expert, i>>]
      BY <1>3, <2>1 DEF Part
    <2>3. \A r, c : Shifted(w, n, r, c) = r * C + c  BY <1>3, <2>1 DEF Shifted
    <2> QED  BY <1>1, <1>2, <2>2, <2>3 DEF R, C
  <1>4. CASE w.how = "row"
    <2>1. R = w.rows \div hdr.nodes /\ C = w.cols  BY <1>4 DEF OwnRows, OwnCols, R, C
    <2> DEFINE Unit(i) == (n * R + (i \div C)) * C + (i % C)
    <2>2. Part(hdr, w, n) = [i \in 0..(R * C - 1) |-> <<w.expert, Unit(i)>>]
      BY <1>4, <2>1 DEF Part, SplitRow
    <2>3. \A r, c : Shifted(w, n, r, c) = (n * R + r) * C + c  BY <1>4, <2>1 DEF Shifted
    <2>4. \A r \in 0..(R - 1) : \A c \in 0..(C - 1) : Unit(r * C + c) = (n * R + r) * C + c
      BY <1>2
    <2> HIDE DEF Unit
    <2> QED  BY <1>1, <1>2, <2>2, <2>3, <2>4 DEF R, C
  <1>5. CASE w.how = "col"
    <2>1. R = w.rows /\ C = w.cols \div hdr.nodes  BY <1>5 DEF OwnRows, OwnCols, R, C
    <2> DEFINE Unit(i) == (i \div C) * w.cols + n * C + (i % C)
    <2>2. Part(hdr, w, n) = [i \in 0..(R * C - 1) |-> <<w.expert, Unit(i)>>]
      BY <1>5, <2>1 DEF Part, SplitCol
    <2>3. \A r, c : Shifted(w, n, r, c) = r * w.cols + n * C + c
      BY <1>5, <2>1 DEF Shifted
    <2>4. \A r \in 0..(R - 1) : \A c \in 0..(C - 1) : Unit(r * C + c) = r * w.cols + n * C + c
      BY <1>2
    <2> HIDE DEF Unit
    <2> QED  BY <1>1, <1>2, <2>2, <2>3, <2>4 DEF R, C
  <1> QED  BY <1>3, <1>4, <1>5 DEF Sized

\* split_row_matmul_weight and split_col_matmul_weight, for matrices of any size
\* and any number of nodes: row r, column c of a node's part is row and column of
\* the whole matrix shifted by the parts of the nodes before.
THEOREM PartsAreShifted ==
    ASSUME NEW w, Sized(w), NEW n \in Nodes,
           NEW r \in 0..(OwnRows(w) - 1), NEW c \in 0..(OwnCols(w) - 1)
    PROVE  /\ r * OwnCols(w) + c \in DOMAIN Part(hdr, w, n)
           /\ Part(hdr, w, n)[r * OwnCols(w) + c] = <<w.expert, Shifted(w, n, r, c)>>
  BY PartUnits

\* A weight that is cut up is cut up without overlap: no unit of the matrix goes
\* to two nodes, or to two places of a node.
THEOREM UnitsGoOnce ==
    ASSUME NEW w, Divides(w), w.how # "all", NEW m \in Nodes, NEW n \in Nodes,
           NEW i \in DOMAIN Part(hdr, w, m), NEW j \in DOMAIN Part(hdr, w, n),
           Part(hdr, w, m)[i] = Part(hdr, w, n)[j]
    PROVE  m = n /\ i = j
  <1> DEFINE R == OwnRows(w)
             C == OwnCols(w)
             N == hdr.nodes
  <1>1. R \in Nat /\ C \in Nat /\ N \in Nat /\ N > 0 /\ m \in 0..(N - 1) /\ n \in 0..(N - 1)
    BY PartUnits DEF Divides, Sized, Nodes, NodesOf
  <1>2. i \in 0..(R * C - 1) /\ j \in 0..(R * C - 1)
    BY PartUnits DEF Divides
  <1>3. C > 0
    <2>1. R * 0 = 0  BY <1>1
    <2> QED  BY <1>1, <1>2, <2>1
  <1> DEFINE ri == i \div C
             ci == i % C
             rj == j \div C
             cj == j % C
  <1>4. /\ ri \in 0..(R - 1) /\ ci \in 0..(C - 1) /\ i = ri * C + ci
        /\ rj \in 0..(R - 1) /\ cj \in 0..(C - 1) /\ j = rj * C + cj
    <2> HIDE DEF R, C
    <2> QED  BY <1>1, <1>2, <1>3, CellOf
  <1> HIDE DEF R, C, N, ri, ci, rj, cj
  <1>a. m \in Nat /\ n \in Nat /\ ri \in Nat /\ rj \in Nat  BY <1>1, <1>4
  <1>5. Shifted(w, m, ri, ci) = Shifted(w, n, rj, cj)
    <2>1. Part(hdr, w, m)[i] = <<w.expert, Shifted(w, m, ri, ci)>>
      BY <1>4, PartUnits DEF Divides, R, C
    <2>2. Part(hdr, w, n)[j] = <<w.expert, Shifted(w, n, rj, cj)>>
      BY <1>4, PartUnits DEF Divides, R, C
    <2>3. \A a, b, e : <<e, a>> = <<e, b>> => a = b  OBVIOUS
    <2> QED  BY <2>1, <2>2, <2>3
  <1>6. CASE w.how = "row"
    <2>1. (m * R + ri) * C + ci = (n * R + rj) * C + cj
      <3>1. R = w.rows \div hdr.nodes /\ C = w.cols  BY <1>6 DEF R, C, OwnRows, OwnCols
      <3> QED  BY <1>5, <1>6, <3>1 DEF Shifted
    <2> DEFINE a == m * R + ri
               b == n * R + rj
    <2>2. a \in Nat /\ b \in Nat /\ a \div R = m /\ a % R = ri /\ b \div R = n /\ b % R = rj
      <3>1. (m * R + ri) \div R = m /\ (m * R + ri) % R = ri  BY <1>1, <1>4, <1>a, CellAt
      <3>2. (n * R + rj) \div R = n /\ (n * R + rj) % R = rj  BY <1>1, <1>4, <1>a, CellAt
      <3>3. m * R \in Nat /\ n * R \in Nat  BY <1>1, <1>a
      <3> QED  BY <1>a, <3>1, <3>2, <3>3
    <2> HIDE DEF a, b
    <2>3. a = b /\ ci = cj
      <3>1. (a * C + ci) \div C = a /\ (a * C + ci) % C = ci  BY <1>1, <1>4, <2>2, CellAt
      <3>2. (b * C + cj) \div C = b /\ (b * C + cj) % C = cj  BY <1>1, <1>4, <2>2, CellAt
      <3>3. a * C + ci = b * C + cj  BY <2>1 DEF a, b
      <3> QED  BY <3>1, <3>2, <3>3
    <2> QED  BY <1>4, <2>2, <2>3
  <1>7. CASE w.how = "col"
    <2>1. ri * w.cols + m * C + ci = rj * w.cols + n * C + cj
      <3>1. R = w.rows /\ C = w.cols \div hdr.nodes  BY <1>7 DEF R, C, OwnRows, OwnCols
      <3> QED  BY <1>5, <1>7, <3>1 DEF Shifted
    <2>2. w.cols = N * C /\ w.cols \in Nat  BY <1>7 DEF Divides, Sized, C, N, OwnCols
    <2> DEFINE a == m * C + ci
               b == n * C + cj
    <2>3. /\ a \in 0..(w.cols - 1) /\ b \in 0..(w.cols - 1)
          /\ a \div C = m /\ a % C = ci /\ b \div C = n /\ b % C = cj
      <3>1. ASSUME NEW k \in 0..(N - 1), NEW c \in 0..(C - 1)
            PROVE  k * C + c \in 0..(w.cols - 1)
        <4> DEFINE kc == k * C
                   d == (N - k - 1) * C
        <4>1. d \in Nat /\ kc \in Nat /\ N * C = kc + C + d
          <5>1. N - k - 1 \in Nat  BY <1>1
          <5> QED  BY <5>1, <1>1
        <4> HIDE DEF d, kc
        <4>2. kc + c \in 0..(w.cols - 1)  BY <1>1, <2>2, <4>1
        <4> QED  BY <4>2 DEF kc
      <3>2. a \div C = m /\ a % C = ci  BY <1>1, <1>4, <1>a, CellAt
      <3>3. b \div C = n /\ b % C = cj  BY <1>1, <1>4, <1>a, CellAt
      <3> QED  BY <1>1, <1>4, <3>1, <3>2, <3>3
    <2>4. ri * w.cols + a = rj * w.cols + b
      <3>1. ri * w.cols \in Nat /\ rj * w.cols \in Nat /\ m * C \in Nat /\ n * C \in Nat
        BY <1>1, <1>4, <2>2
      <3> QED  BY <1>4, <2>1, <3>1
    <2> HIDE DEF a, b
    <2>5. ri = rj /\ a = b
      <3>1. (ri * w.cols + a) \div w.cols = ri /\ (ri * w.cols + a) % w.cols = a
        BY <1>a, <2>2, <2>3, CellAt
      <3>2. (rj * w.cols + b) \div w.cols = rj /\ (rj * w.cols + b) % w.cols = b
        BY <1>a, <2>2, <2>3, CellAt
      <3> QED  BY <2>4, <3>1, <3>2
    <2> QED  BY <1>4, <2>3, <2>5
  <1> QED  BY <1>6, <1>7 DEF Divides, Sized

\* ... and nothing of it is left out: every unit goes to some node.
THEOREM UnitsAllGo ==
    ASSUME NEW w, Divides(w), NEW u \in 0..(w.rows * w.cols - 1)
    PROVE  \E n \in Nodes : \E i \in DOMAIN Part(hdr, w, n) :
             Part(hdr, w, n)[i] = <<w.expert, u>>
  <1> DEFINE R == OwnRows(w)
             C == OwnCols(w)
             N == hdr.nodes
             row == u \div w.cols
             col == u % w.cols
  <1>1. R \in Nat /\ C \in Nat /\ N \in Nat /\ N > 0 /\ w.rows \in Nat /\ w.cols \in Nat
    <2>1. 0 \in Nodes  BY DEF Divides, Sized, Nodes, NodesOf
    <2> QED  BY <2>1, PartUnits DEF Divides, Sized
  <1>2. w.cols > 0
    <2>1. w.rows * 0 = 0  BY <1>1
    <2> QED  BY <1>1, <2>1
  <1>3. row \in 0..(w.rows - 1) /\ col \in 0..(w.cols - 1) /\ u = row * w.cols + col
    BY <1>1, <1>2, CellOf
  <1> HIDE DEF R, C, N, row, col
  <1>4. \E n \in 0..(N - 1) : \E r \in 0..(R - 1) : \E c \in 0..(C - 1) :
          Shifted(w, n, r, c) = u
    <2>1. CASE w.how = "all"
      <3>1. R = w.rows /\ C = w.cols  BY <2>1 DEF R, C, OwnRows, OwnCols
      <3>2. Shifted(w, 0, row, col) = row * w.cols + col  BY <2>1 DEF Shifted
      <3>3. 0 \in 0..(N - 1)  BY <1>1
      <3> QED  BY <1>3, <3>1, <3>2, <3>3
    <2>2. CASE w.how = "row"
      <3>1. R = w.rows \div hdr.nodes /\ C = w.cols  BY <2>2 DEF R, C, OwnRows, OwnCols
      <3>2. w.rows = N * R  BY <2>2 DEF Divides, Sized, R, N, OwnRows
      <3>3. R > 0
        <4>1. N * 0 = 0  BY <1>1
        <4> QED  BY <1>1, <1>3, <3>2, <4>1
      <3> DEFINE n == row \div R
                 r == row % R
      <3>4. row \in 0..(N * R - 1)  BY <1>3, <3>2
      <3>5. n \in 0..(N - 1) /\ r \in 0..(R - 1) /\ row = n * R + r
        BY <1>1, <3>3, <3>4, CellOf
      <3> HIDE DEF n, r
      <3>6. Shifted(w, n, r, col) = (n * R + r) * w.cols + col
        BY <2>2, <3>1 DEF Shifted
      <3> QED  BY <1>3, <3>1, <3>5, <3>6
    <2>3. CASE w.how = "col"
      <3>1. R = w.rows /\ C = w.cols \div hdr.nodes  BY <2>3 DEF R, C, OwnRows, OwnCols
      <3>2. w.cols = N * C  BY <2>3 DEF Divides, Sized, C, N, OwnCols
      <3>3. C > 0
        <4>1. N * 0 = 0  BY <1>1
        <4> QED  BY <1>1, <1>2, <3>2, <4>1
      <3> DEFINE n == col \div C
                 c == col % C
      <3>4. col \in 0..(N * C - 1)  BY <1>3, <3>2
      <3>5. n \in 0..(N - 1) /\ c \in 0..(C - 1) /\ col = n * C + c
        BY <1>1, <3>3, <3>4, CellOf
      <3> HIDE DEF n, c
      <3>6. Shifted(w, n, row, c) = row * w.cols + n * C + c
        BY <2>3, <3>1 DEF Shifted
      <3>7. row * w.cols + n * C + c = row * w.cols + col
        <4>1. row * w.cols \in Nat /\ n * C \in Nat  BY <1>1, <1>3, <3>5
        <4> QED  BY <1>3, <3>5, <4>1
      <3> QED  BY <1>3, <3>1, <3>5, <3>6, <3>7
    <2> QED  BY <2>1, <2>2, <2>3 DEF Divides, Sized
  <1>5. PICK n \in 0..(N - 1), r \in 0..(R - 1), c \in 0..(C - 1) : Shifted(w, n, r, c) = u
    BY <1>4
  <1>6. n \in Nodes  BY <1>5 DEF N, Nodes, NodesOf
  <1>7. /\ r * C + c \in DOMAIN Part(hdr, w, n)
        /\ Part(hdr, w, n)[r * C + c] = <<w.expert, u>>
    BY <1>5, <1>6, PartUnits DEF Divides, R, C
  <1> QED  BY <1>6, <1>7

-----------------------------------------------------------------------------
\* How a list of fields reads.  nb is the number of buffers of the worker.

EndMark == ""

\* What a worker that has read v for "as" expects to read next, of this item;
\* FollowedBy without the state of the worker.
Follow(nb, as, v) ==
    CASE as = "nPipes" -> Repeat(v, <<"pipeSize", "pipeName">>)
      [] as = "nPreSyncs" -> Repeat(v, <<"preSync">>)
      [] as = "nSegments" -> Repeat(nb, <<"bufferSize", "bufferName">>)
                             \o Repeat(v, <<"nSyncs", "nOps">>)
      [] as = "nOps" -> Repeat(1, <<"syncPipe", "syncType">>) \o Repeat(v, OpExpected)
      [] as = "opOutput" -> <<"opConfig">>
      [] as = "name" -> IF v = EndMark THEN <<"writeAck">>
                                  ELSE <<"index", "offset", "nBytes", "bytes", "name">>
      [] OTHER -> <<>>

\* The values that a reader relies on.
Right(nb, as, v) ==
    /\ as \in {"nPipes", "nPreSyncs", "nSegments", "nOps"} => v \in Nat
    /\ as = "nBuffers" => v = nb
    /\ as = "nSyncs" => v = 1
    /\ as = "configSize" => v \in Nat /\ v > 0

\* The fields R are one piece for each of the items e, as P pairs them.
Pieces(P, e, R) ==
    \E ps : /\ AreLists(ps) /\ Len(ps) = Len(e) /\ FlattenSeq(ps) = R
            /\ \A i \in 1..Len(e) : <<e[i], ps[i]>> \in P

\* Each piece that P pairs with an item begins with a field for that item and
\* goes on with pieces for what follows it.
Sound(nb, P) ==
    \A as, p : <<as, p>> \in P =>
        IF as = "writeAck" THEN p = <<>>
        ELSE /\ IsList(p) /\ p # <<>> /\ Head(p).as = as
             /\ Right(nb, as, Head(p).val)
             /\ Pieces(P, Follow(nb, as, Head(p).val), Tail(p))

\* The fields R are what a worker that expects e will read.
Fits(nb, e, R) == IsList(e) /\ \E P : Sound(nb, P) /\ Pieces(P, e, R)

LEMMA MorePieces ==
    ASSUME NEW P, NEW Q, NEW e, NEW R, Pieces(P, e, R)
    PROVE  Pieces(P \cup Q, e, R) /\ Pieces(Q \cup P, e, R)
  BY DEF Pieces

LEMMA ConcatPieces ==
    ASSUME NEW P, NEW e, NEW R, NEW d, NEW Q, IsList(e), IsList(d), Pieces(P, e, R), Pieces(P, d, Q)
    PROVE  Pieces(P, e \o d, R \o Q)
<1>1. PICK p : /\ AreLists(p) /\ Len(p) = Len(e) /\ FlattenSeq(p) = R
               /\ \A i \in 1..Len(e) : <<e[i], p[i]>> \in P
    BY DEF Pieces
<1>2. PICK q : /\ AreLists(q) /\ Len(q) = Len(d) /\ FlattenSeq(q) = Q
               /\ \A i \in 1..Len(d) : <<d[i], q[i]>> \in P
    BY DEF Pieces
<1>3. AreLists(p \o q) /\ FlattenSeq(p \o q) = R \o Q
    BY <1>1, <1>2, ConcatLists, FlattenConcat
<1>4. /\ Len(p \o q) = Len(p) + Len(q)
      /\ \A i \in 1..Len(p) : (p \o q)[i] = p[i]
      /\ \A i \in 1..Len(q) : (p \o q)[Len(p) + i] = q[i]
    BY <1>1, <1>2, ConcatList DEF AreLists
<1>5. /\ Len(e \o d) = Len(e) + Len(d)
      /\ \A i \in 1..Len(e) : (e \o d)[i] = e[i]
      /\ \A i \in 1..Len(d) : (e \o d)[Len(e) + i] = d[i]
    BY ConcatList
<1>6. Len(e) \in Nat /\ Len(d) \in Nat
    BY ListFacts
<1>7. ASSUME NEW i \in 1..Len(e \o d) PROVE <<(e \o d)[i], (p \o q)[i]>> \in P
    <2>1. i \in 1..Len(e) \/ (i - Len(e) \in 1..Len(d) /\ i = Len(e) + (i - Len(e)))
        BY <1>5, <1>6
    <2>2. CASE i \in 1..Len(e)
        BY <2>2, <1>1, <1>4, <1>5
    <2>3. CASE i - Len(e) \in 1..Len(d) /\ i = Len(e) + (i - Len(e))
        <3>1. PICK j \in 1..Len(d) : i = Len(e) + j
            BY <2>3
        <3>2. (e \o d)[i] = d[j] /\ (p \o q)[i] = q[j]
            BY <3>1, <1>1, <1>2, <1>4, <1>5
        <3>. QED
            BY <3>1, <3>2, <1>2
    <2>. QED
        BY <2>1, <2>2, <2>3
<1>. QED
    BY <1>1, <1>2, <1>3, <1>4, <1>5, <1>7 DEF Pieces

LEMMA UnitedSound ==
    ASSUME NEW nb, NEW P, NEW Q, Sound(nb, P), Sound(nb, Q)
    PROVE  Sound(nb, P \cup Q)
<1> SUFFICES ASSUME NEW as, NEW p, <<as, p>> \in P \cup Q
             PROVE  IF as = "writeAck" THEN p = <<>>
                    ELSE /\ IsList(p) /\ p # <<>> /\ Head(p).as = as
                         /\ Right(nb, as, Head(p).val)
                         /\ Pieces(P \cup Q, Follow(nb, as, Head(p).val), Tail(p))
    BY DEF Sound
<1>1. CASE <<as, p>> \in P
    BY <1>1, MorePieces DEF Sound
<1>2. CASE <<as, p>> \in Q
    BY <1>2, MorePieces DEF Sound
<1>. QED
    BY <1>1, <1>2

LEMMA FitsConcat ==
    ASSUME NEW nb, NEW e, NEW R, NEW d, NEW Q, Fits(nb, e, R), Fits(nb, d, Q)
    PROVE  Fits(nb, e \o d, R \o Q)
<1>1. PICK P1 : Sound(nb, P1) /\ Pieces(P1, e, R)
    BY DEF Fits
<1>2. PICK P2 : Sound(nb, P2) /\ Pieces(P2, d, Q)
    BY DEF Fits
<1>3. Sound(nb, P1 \cup P2) /\ Pieces(P1 \cup P2, e, R) /\ Pieces(P1 \cup P2, d, Q)
    BY <1>1, <1>2, UnitedSound, MorePieces
<1>4. Pieces(P1 \cup P2, e \o d, R \o Q)
    BY <1>3, ConcatPieces DEF Fits
<1>5. IsList(e \o d)
    BY ConcatList DEF Fits
<1>. QED
    BY <1>3, <1>4, <1>5 DEF Fits

LEMMA FitsNone == ASSUME NEW nb PROVE Fits(nb, <<>>, <<>>)
<1>1. Sound(nb, {})
    BY DEF Sound
<1>2. Pieces({}, <<>>, <<>>)
    BY FlattenNone, EmptyList DEF Pieces
<1>. QED
    BY <1>1, <1>2, EmptyList DEF Fits

\* Nothing fits no items but no fields.
LEMMA FitsEnd ==
    ASSUME NEW nb, NEW R, Fits(nb, <<>>, R)
    PROVE  R = <<>>
<1>1. PICK ps : AreLists(ps) /\ Len(ps) = Len(<<>>) /\ FlattenSeq(ps) = R
    BY DEF Fits, Pieces
<1>2. ps = <<>>
    BY <1>1, EmptyList, ListFacts DEF AreLists
<1>. QED
    BY <1>1, <1>2, FlattenNone

LEMMA FitsList ==
    ASSUME NEW nb, NEW e, NEW R, Fits(nb, e, R)
    PROVE  IsList(e) /\ IsList(R)
  BY FlattenList DEF Fits, Pieces

\* Pieces of one item.
LEMMA OnePiece ==
    ASSUME NEW P, NEW as, NEW p, IsList(p), <<as, p>> \in P
    PROVE  Pieces(P, <<as>>, p)
<1>1. AreLists(<<p>>) /\ FlattenSeq(<<p>>) = p
    BY FlattenOne
<1>2. Len(<<p>>) = 1 /\ Len(<<as>>) = 1 /\ <<p>>[1] = p /\ <<as>>[1] = as
    OBVIOUS
<1>3. ASSUME NEW i \in 1..Len(<<as>>) PROVE <<<<as>>[i], <<p>>[i]>> \in P
    <2>1. i = 1
        BY <1>2
    <2>. QED
        BY <1>2, <2>1
<1>. QED
    BY <1>1, <1>2, <1>3 DEF Pieces

LEMMA FitsAck == ASSUME NEW nb PROVE Fits(nb, <<"writeAck">>, <<>>)
<1> DEFINE P == {<<"writeAck", <<>>>>}
<1>1. Sound(nb, P)
    BY DEF Sound
<1>2. Pieces(P, <<"writeAck">>, <<>>)
    BY OnePiece, EmptyList
<1>. QED
    BY <1>1, <1>2, OneAndRest, EmptyList DEF Fits

\* A field, and behind it what follows it.
LEMMA FitsField ==
    ASSUME NEW nb, NEW as, NEW v, NEW c, as # "writeAck", Right(nb, as, v),
           Fits(nb, Follow(nb, as, v), c)
    PROVE  Fits(nb, <<as>>, <<Field(as, v)>> \o c)
<1>1. PICK P : Sound(nb, P) /\ Pieces(P, Follow(nb, as, v), c)
    BY DEF Fits
<1> DEFINE p == <<Field(as, v)>> \o c
           Q == P \cup {<<as, p>>}
<1>2. /\ IsList(p) /\ p # <<>> /\ Head(p) = Field(as, v) /\ Tail(p) = c
      /\ IsList(<<as>>)
    BY OneAndRest, FitsList, EmptyList
<1> HIDE DEF p
<1>3. Head(p).as = as /\ Head(p).val = v
    <2>1. Field(as, v).as = as /\ Field(as, v).val = v
        BY DEF Field
    <2>. QED
        BY <1>2, <2>1
<1>4. Sound(nb, Q)
    <2> SUFFICES ASSUME NEW x, NEW q, <<x, q>> \in Q
                 PROVE  IF x = "writeAck" THEN q = <<>>
                        ELSE /\ IsList(q) /\ q # <<>> /\ Head(q).as = x
                             /\ Right(nb, x, Head(q).val)
                             /\ Pieces(Q, Follow(nb, x, Head(q).val), Tail(q))
        BY DEF Sound
    <2>1. CASE <<x, q>> \in P
        BY <2>1, <1>1, MorePieces DEF Sound
    <2>2. CASE x = as /\ q = p
        BY <2>2, <1>1, <1>2, <1>3, MorePieces
    <2>. QED
        BY <2>1, <2>2
<1>5. Pieces(Q, <<as>>, p)
    BY <1>2, OnePiece
<1>. QED
    BY <1>2, <1>4, <1>5 DEF Fits, p

\* What the next field is, and what a worker expects behind it.
LEMMA FitsStep ==
    ASSUME NEW nb, NEW e, NEW R, Fits(nb, e, R), e # <<>>
    PROVE  IF Head(e) = "writeAck" THEN Fits(nb, Tail(e), R)
           ELSE /\ R # <<>> /\ Head(R).as = Head(e)
                /\ Right(nb, Head(e), Head(R).val)
                /\ IsList(Follow(nb, Head(e), Head(R).val))
                      => Fits(nb, Follow(nb, Head(e), Head(R).val) \o Tail(e), Tail(R))
<1>1. PICK P : Sound(nb, P) /\ Pieces(P, e, R)
    BY DEF Fits
<1>2. PICK ps : /\ AreLists(ps) /\ Len(ps) = Len(e) /\ FlattenSeq(ps) = R
                /\ \A i \in 1..Len(e) : <<e[i], ps[i]>> \in P
    BY <1>1 DEF Pieces
<1> DEFINE p == Head(ps)
           d == Tail(e)
           Q == FlattenSeq(Tail(ps))
<1>3. /\ IsList(e) /\ Len(e) >= 1 /\ Len(e) \in Nat /\ Head(e) = e[1]
      /\ IsList(d) /\ Len(d) = Len(e) - 1 /\ \A i \in 1..Len(d) : d[i] = e[i + 1]
    BY HeadAndTail DEF Fits
<1>4. ps # <<>> /\ IsList(ps)
    BY <1>2, <1>3, EmptyList DEF AreLists
<1>5. /\ p = ps[1] /\ IsList(Tail(ps)) /\ Len(Tail(ps)) = Len(e) - 1
      /\ \A i \in 1..Len(Tail(ps)) : Tail(ps)[i] = ps[i + 1]
      /\ ps = <<p>> \o Tail(ps)
    BY <1>2, <1>4, HeadAndTail
<1>6. IsList(p) /\ <<Head(e), p>> \in P
    BY <1>2, <1>3, <1>5 DEF AreLists
<1>7. AreLists(Tail(ps))
    <2> SUFFICES ASSUME NEW i \in 1..Len(Tail(ps)) PROVE IsList(Tail(ps)[i])
        BY <1>5 DEF AreLists
    <2>1. i + 1 \in 1..Len(ps) /\ Tail(ps)[i] = ps[i + 1]
        BY <1>2, <1>3, <1>5
    <2>. QED
        BY <1>2, <2>1 DEF AreLists
<1>8. R = p \o Q /\ IsList(Q)
    BY <1>2, <1>5, <1>6, <1>7, FlattenHead, FlattenList
<1>9. Pieces(P, d, Q)
    <2>1. ASSUME NEW i \in 1..Len(d) PROVE <<d[i], Tail(ps)[i]>> \in P
        <3>1. i + 1 \in 1..Len(e) /\ d[i] = e[i + 1]
            BY <1>3
        <3>2. i \in 1..Len(Tail(ps))
            BY <1>3, <1>5
        <3>3. Tail(ps)[i] = ps[i + 1]
            BY <1>5, <3>2
        <3>. QED
            BY <1>2, <3>1, <3>3
    <2>. QED
        BY <2>1, <1>3, <1>5, <1>7 DEF Pieces
<1> HIDE DEF p, d, Q
<1>10. CASE Head(e) = "writeAck"
    <2>1. p = <<>>
        BY <1>1, <1>6, <1>10 DEF Sound
    <2>2. R = Q
        BY <1>8, <2>1, ConcatEmpty
    <2>. QED
        BY <1>1, <1>3, <1>9, <1>10, <2>2 DEF Fits, d
<1>11. CASE Head(e) # "writeAck"
    <2> DEFINE f == Follow(nb, Head(e), Head(p).val)
    <2>1. /\ p # <<>> /\ Head(p).as = Head(e)
          /\ Right(nb, Head(e), Head(p).val) /\ Pieces(P, f, Tail(p))
        BY <1>1, <1>6, <1>11 DEF Sound
    <2>2. IsList(Tail(p)) /\ p = <<Head(p)>> \o Tail(p)
        BY <1>6, <2>1, HeadAndTail
    <2>3. R = <<Head(p)>> \o (Tail(p) \o Q)
        <3> DEFINE h == <<Head(p)>>
                   t == Tail(p)
        <3>1. IsList(h) /\ IsList(t) /\ IsList(Q) /\ p = h \o t
            BY <1>8, <2>2, OneAndRest, EmptyList
        <3> HIDE DEF h, t
        <3>2. (h \o t) \o Q = h \o (t \o Q)
            BY <3>1, ConcatRegroup
        <3>. QED
            BY <1>8, <3>1, <3>2 DEF h, t
    <2>4. R # <<>> /\ Head(R) = Head(p) /\ Tail(R) = Tail(p) \o Q
        BY <1>8, <2>2, <2>3, ConcatList, OneAndRest
    <2> HIDE DEF f
    <2>5. ASSUME IsList(f) PROVE Fits(nb, f \o d, Tail(p) \o Q)
        BY <1>1, <1>3, <1>9, <2>1, <2>5, ConcatPieces, ConcatList DEF Fits
    <2>. QED
        BY <1>11, <2>1, <2>4, <2>5 DEF f, d
<1>. QED
    BY <1>10, <1>11

\* A list of lists of fields fits a list of lists of items.
LEMMA FitsFlatten ==
    ASSUME NEW nb, NEW es, NEW Rs, AreLists(es), AreLists(Rs), Len(es) = Len(Rs),
           \A i \in 1..Len(es) : Fits(nb, es[i], Rs[i])
    PROVE  Fits(nb, FlattenSeq(es), FlattenSeq(Rs))
<1> DEFINE T == {m \in Nat : \A ds, Qs : /\ AreLists(ds) /\ AreLists(Qs)
                                         /\ Len(ds) = m /\ Len(Qs) = m
                                         /\ \A i \in 1..m : Fits(nb, ds[i], Qs[i])
                                         => Fits(nb, FlattenSeq(ds), FlattenSeq(Qs))}
<1>1. 0 \in T
    <2> SUFFICES ASSUME NEW ds, NEW Qs, AreLists(ds), AreLists(Qs), Len(ds) = 0, Len(Qs) = 0
                 PROVE  Fits(nb, FlattenSeq(ds), FlattenSeq(Qs))
        OBVIOUS
    <2>1. ds = <<>> /\ Qs = <<>>
        BY ListFacts DEF AreLists
    <2>. QED
        BY <2>1, FlattenNone, FitsNone
<1>2. ASSUME NEW m \in Nat, m \in T PROVE m + 1 \in T
    <2> SUFFICES ASSUME NEW ds, NEW Qs, AreLists(ds), AreLists(Qs), Len(ds) = m + 1, Len(Qs) = m + 1,
                        \A i \in 1..(m + 1) : Fits(nb, ds[i], Qs[i])
                 PROVE  Fits(nb, FlattenSeq(ds), FlattenSeq(Qs))
        OBVIOUS
    <2>1. ds # <<>> /\ Qs # <<>>
        BY EmptyList
    <2>2. PICK d, e : /\ AreLists(d) /\ IsList(e) /\ ds = Append(d, e) /\ Len(ds) = Len(d) + 1
                      /\ e = ds[Len(ds)] /\ \A i \in 1..Len(d) : d[i] = ds[i]
        BY <2>1, ListsEnd
    <2>3. PICK Q, R : /\ AreLists(Q) /\ IsList(R) /\ Qs = Append(Q, R) /\ Len(Qs) = Len(Q) + 1
                      /\ R = Qs[Len(Qs)] /\ \A i \in 1..Len(Q) : Q[i] = Qs[i]
        BY <2>1, ListsEnd
    <2>4. Len(d) = m /\ Len(Q) = m
        BY <2>2, <2>3, ListFacts DEF AreLists
    <2>5. \A i \in 1..m : Fits(nb, d[i], Q[i])
        BY <2>2, <2>3, <2>4
    <2>6. Fits(nb, FlattenSeq(d), FlattenSeq(Q))
        BY <1>2, <2>2, <2>3, <2>4, <2>5
    <2>7. Fits(nb, e, R)
        BY <2>2, <2>3
    <2>8. FlattenSeq(ds) = FlattenSeq(d) \o e /\ FlattenSeq(Qs) = FlattenSeq(Q) \o R
        BY <2>2, <2>3, FlattenAppend
    <2>. QED
        BY <2>6, <2>7, <2>8, FitsConcat
<1>3. Nat \subseteq T
    <2> HIDE DEF T
    <2>. QED
        BY <1>1, <1>2, AllNumbers
<1>4. Len(es) \in T
    BY <1>3, ListFacts DEF AreLists
<1>. QED
    BY <1>4

-----------------------------------------------------------------------------
\* What the root has ahead of it for one worker: the fields to send to it and
\* the acks to await from it.
Item(w, kind, t) ==
    IF t.do = kind /\ t.node = w THEN <<IF kind = "send" THEN t.field ELSE w>> ELSE <<>>
Pick(w, kind, r) == FlattenSeq([i \in 1..Len(r) |-> Item(w, kind, r[i])])

LEMMA ItemList == ASSUME NEW w, NEW kind, NEW t PROVE IsList(Item(w, kind, t))
  BY EmptyList, OneAndRest DEF Item

LEMMA PickLists ==
    ASSUME NEW w, NEW kind, NEW r, IsList(r)
    PROVE  /\ AreLists([i \in 1..Len(r) |-> Item(w, kind, r[i])])
           /\ Len([i \in 1..Len(r) |-> Item(w, kind, r[i])]) = Len(r)
           /\ IsList(Pick(w, kind, r))
<1> DEFINE m == [i \in 1..Len(r) |-> Item(w, kind, r[i])]
<1>1. Len(r) \in Nat
    BY ListFacts
<1>2. IsList(m) /\ Len(m) = Len(r)
    BY <1>1, Listed
<1>3. \A i \in 1..Len(m) : IsList(m[i])
    BY <1>2, ItemList
<1> HIDE DEF m
<1>4. AreLists(m)
    BY <1>2, <1>3 DEF AreLists
<1>. QED
    BY <1>2, <1>4, FlattenList DEF m, Pick

LEMMA PickConcat ==
    ASSUME NEW w, NEW kind, NEW r, NEW s, IsList(r), IsList(s)
    PROVE  Pick(w, kind, r \o s) = Pick(w, kind, r) \o Pick(w, kind, s)
<1> DEFINE m(q) == [i \in 1..Len(q) |-> Item(w, kind, q[i])]
<1>1. /\ IsList(r \o s) /\ Len(r \o s) = Len(r) + Len(s) /\ Len(r) \in Nat /\ Len(s) \in Nat
      /\ \A i \in 1..Len(r) : (r \o s)[i] = r[i]
      /\ \A i \in 1..Len(s) : (r \o s)[Len(r) + i] = s[i]
    BY ConcatList, ListFacts
<1>2. \A q : IsList(q) => AreLists(m(q)) /\ Len(m(q)) = Len(q)
    BY PickLists
<1>3. \A i \in 1..Len(r) : m(r \o s)[i] = m(r)[i]
    BY <1>1
<1>4. ASSUME NEW i \in 1..Len(s) PROVE m(r \o s)[Len(r) + i] = m(s)[i]
    <2>1. Len(r) + i \in 1..Len(r \o s)
        BY <1>1
    <2>. QED
        BY <2>1, <1>1
<1>5. \A q : Pick(w, kind, q) = FlattenSeq(m(q))
    BY DEF Pick
<1> HIDE DEF m
<1>6. /\ AreLists(m(r)) /\ Len(m(r)) = Len(r) /\ AreLists(m(s)) /\ Len(m(s)) = Len(s)
      /\ AreLists(m(r \o s)) /\ Len(m(r \o s)) = Len(r \o s)
    BY <1>1, <1>2
<1> DEFINE a == m(r)
           b == m(s)
           c == m(r \o s)
<1>7. /\ IsList(a) /\ IsList(b) /\ IsList(c) /\ Len(c) = Len(a) + Len(b)
      /\ \A i \in 1..Len(a) : c[i] = a[i]
      /\ \A i \in 1..Len(b) : c[Len(a) + i] = b[i]
    BY <1>1, <1>3, <1>4, <1>6 DEF AreLists
<1>8. Pick(w, kind, r \o s) = FlattenSeq(c) /\ Pick(w, kind, r) = FlattenSeq(a)
      /\ Pick(w, kind, s) = FlattenSeq(b) /\ AreLists(a) /\ AreLists(b)
    BY <1>5, <1>6
<1> HIDE DEF a, b, c
<1>9. c = a \o b
    BY <1>7, ConcatIs
<1>. QED
    BY <1>8, <1>9, FlattenConcat

LEMMA PickNone == ASSUME NEW w, NEW kind PROVE Pick(w, kind, <<>>) = <<>>
<1>1. [i \in 1..Len(<<>>) |-> Item(w, kind, <<>>[i])] = <<>>
    BY EmptyList, PickLists, ListFacts DEF AreLists
<1>. QED
    BY <1>1, FlattenNone DEF Pick

LEMMA PickOne == ASSUME NEW w, NEW kind, NEW t PROVE Pick(w, kind, <<t>>) = Item(w, kind, t)
<1> DEFINE s == <<t>>
           m == [i \in 1..Len(s) |-> Item(w, kind, s[i])]
<1>1. IsList(s) /\ Len(s) = 1 /\ s[1] = t
    BY OneAndRest, EmptyList
<1> HIDE DEF s
<1>2. AreLists(m) /\ Len(m) = 1 /\ m[1] = Item(w, kind, t)
    BY <1>1, PickLists
<1> HIDE DEF m
<1>3. FlattenSeq(m) = m[1]
    <2>1. \A i \in 1..Len(m) : i # 1 => m[i] = <<>>
        BY <1>2
    <2>. QED
        BY <1>2, <2>1, FlattenSingle
<1>. QED
    BY <1>2, <1>3 DEF Pick, m, s

LEMMA PickHead ==
    ASSUME NEW w, NEW kind, NEW r, IsList(r), r # <<>>
    PROVE  Pick(w, kind, r) = Item(w, kind, Head(r)) \o Pick(w, kind, Tail(r))
<1> DEFINE h == <<Head(r)>>
           t == Tail(r)
<1>1. IsList(h) /\ IsList(t) /\ r = h \o t
    BY HeadAndTail, OneAndRest, EmptyList
<1>2. Pick(w, kind, h) = Item(w, kind, Head(r))
    BY PickOne
<1> HIDE DEF h, t
<1>3. Pick(w, kind, h \o t) = Pick(w, kind, h) \o Pick(w, kind, t)
    BY <1>1, PickConcat
<1>. QED
    BY <1>1, <1>2, <1>3 DEF t

LEMMA PickFlatten ==
    ASSUME NEW w, NEW kind, NEW rr, AreLists(rr)
    PROVE  /\ AreLists([i \in 1..Len(rr) |-> Pick(w, kind, rr[i])])
           /\ Len([i \in 1..Len(rr) |-> Pick(w, kind, rr[i])]) = Len(rr)
           /\ Pick(w, kind, FlattenSeq(rr)) = FlattenSeq([i \in 1..Len(rr) |-> Pick(w, kind, rr[i])])
<1> DEFINE m(q) == [i \in 1..Len(q) |-> Pick(w, kind, q[i])]
<1>0. ASSUME NEW q, AreLists(q) PROVE AreLists(m(q)) /\ Len(m(q)) = Len(q) /\ Len(q) \in Nat
    <2>1. Len(q) \in Nat
        BY ListFacts DEF AreLists
    <2>2. IsList(m(q)) /\ Len(m(q)) = Len(q)
        BY <2>1, Listed
    <2>3. ASSUME NEW i \in 1..Len(q) PROVE IsList(m(q)[i])
        <3>1. IsList(q[i]) /\ m(q)[i] = Pick(w, kind, q[i])
            BY <1>0, <2>3 DEF AreLists
        <3>. QED
            BY <3>1, PickLists
    <2>. QED
        BY <2>1, <2>2, <2>3 DEF AreLists
<1> DEFINE T == {n \in Nat : \A q : AreLists(q) /\ Len(q) = n =>
                                Pick(w, kind, FlattenSeq(q)) = FlattenSeq(m(q))}
<1>1. 0 \in T
    <2> SUFFICES ASSUME NEW q, AreLists(q), Len(q) = 0
                 PROVE  Pick(w, kind, FlattenSeq(q)) = FlattenSeq(m(q))
        OBVIOUS
    <2>1. q = <<>>
        BY ListFacts DEF AreLists
    <2>2. m(q) = <<>>
        BY <1>0, ListFacts DEF AreLists
    <2> HIDE DEF m
    <2>. QED
        BY <2>1, <2>2, FlattenNone, PickNone
<1>2. ASSUME NEW n \in Nat, n \in T PROVE n + 1 \in T
    <2> SUFFICES ASSUME NEW q, AreLists(q), Len(q) = n + 1
                 PROVE  Pick(w, kind, FlattenSeq(q)) = FlattenSeq(m(q))
        OBVIOUS
    <2>1. q # <<>>
        BY EmptyList
    <2>2. PICK p, t : /\ AreLists(p) /\ IsList(t) /\ q = Append(p, t) /\ Len(q) = Len(p) + 1
                      /\ t = q[Len(q)] /\ \A i \in 1..Len(p) : p[i] = q[i]
        BY <2>1, ListsEnd
    <2>3. Len(p) = n
        BY <2>2, <1>0
    <2>4. Pick(w, kind, FlattenSeq(p)) = FlattenSeq(m(p))
        BY <1>2, <2>2, <2>3
    <2>5. FlattenSeq(q) = FlattenSeq(p) \o t /\ IsList(FlattenSeq(p))
        BY <2>2, FlattenAppend, FlattenList
    <2>6. IsList(Pick(w, kind, t))
        BY <2>2, PickLists
    <2> DEFINE a == Append(m(p), Pick(w, kind, t))
    <2>7. /\ AreLists(a) /\ Len(a) = n + 1 /\ a[n + 1] = Pick(w, kind, t)
          /\ \A i \in 1..n : a[i] = m(p)[i]
        <3>1. AreLists(m(p)) /\ Len(m(p)) = n
            BY <1>0, <2>2, <2>3
        <3> HIDE DEF m
        <3>. QED
            BY <3>1, <2>6, AppendLists
    <2> HIDE DEF a
    <2>8. m(q) = a
        <3>1. ASSUME NEW i \in 1..(n + 1) PROVE m(q)[i] = a[i]
            <4>1. CASE i = n + 1
                BY <4>1, <2>2, <2>3, <2>7
            <4>2. CASE i \in 1..n
                BY <4>2, <2>2, <2>3, <2>7
            <4>. QED
                BY <4>1, <4>2
        <3>2. IsList(m(q)) /\ Len(m(q)) = n + 1
            BY <1>0 DEF AreLists
        <3> HIDE DEF m
        <3>. QED
            BY <3>1, <3>2, <2>7, EqualLists DEF AreLists
    <2>9. FlattenSeq(a) = FlattenSeq(m(p)) \o Pick(w, kind, t)
        <3>1. AreLists(m(p))
            BY <1>0, <2>2
        <3> HIDE DEF m
        <3>. QED
            BY <3>1, <2>6, FlattenAppend DEF a
    <2>10. Pick(w, kind, FlattenSeq(p) \o t) = Pick(w, kind, FlattenSeq(p)) \o Pick(w, kind, t)
        <3> DEFINE f == FlattenSeq(p)
        <3>1. IsList(f) /\ IsList(t)
            BY <2>2, <2>5
        <3> HIDE DEF f
        <3>2. Pick(w, kind, f \o t) = Pick(w, kind, f) \o Pick(w, kind, t)
            BY <3>1, PickConcat
        <3>. QED
            BY <3>2 DEF f
    <2> HIDE DEF m
    <2>. QED
        BY <2>4, <2>5, <2>8, <2>9, <2>10
<1>3. Nat \subseteq T
    <2> HIDE DEF T
    <2>. QED
        BY <1>1, <1>2, AllNumbers
<1>4. Len(rr) \in T
    BY <1>0, <1>3
<1>. QED
    BY <1>0, <1>4

-----------------------------------------------------------------------------
\* The parts of what the root does.
Sends(v, f) == [i \in 1..Len(f) |-> Send(v, f[i])]
ConfigTasks(h, v) ==
       (Sends(v, NetFields(NetConfig(h))) \o <<Await(v)>>)
    \o (Sends(v, NodeFields(NodeConfig(h, v))) \o <<Await(v)>>)
FieldsOf(h, x, v) ==
    <<Field("name", x.name), Field("index", x.index),
      Field("offset", ExpertIndex(x) * Cardinality(DOMAIN Part(h, x, v))),
      Field("nBytes", Cardinality(DOMAIN Part(h, x, v))), Field("bytes", Part(h, x, v))>>
LoadTask(h, x) ==
    [do |-> "load", node |-> 0, key |-> <<x.name, x.index>>,
     offset |-> ExpertIndex(x) * Cardinality(DOMAIN Part(h, x, 0)), part |-> Part(h, x, 0)]
CheckTask == [do |-> "check", node |-> 0]

LEMMA SendsLists ==
    ASSUME NEW v, NEW f, IsList(f)
    PROVE  IsList(Sends(v, f)) /\ Len(Sends(v, f)) = Len(f)
<1>1. Len(f) \in Nat
    BY ListFacts
<1>. QED
    BY <1>1, Listed DEF Sends

LEMMA PickSends ==
    ASSUME NEW w, NEW v, NEW f, IsList(f)
    PROVE  /\ Pick(w, "send", Sends(v, f)) = IF v = w THEN f ELSE <<>>
           /\ Pick(w, "await", Sends(v, f)) = <<>>
<1> DEFINE s == Sends(v, f)
           m(kind) == [i \in 1..Len(s) |-> Item(w, kind, s[i])]
<1>1. IsList(s) /\ Len(s) = Len(f) /\ Len(f) \in Nat
    BY SendsLists, ListFacts
<1>2. \A i \in 1..Len(f) : s[i] = Send(v, f[i])
    BY DEF Sends
<1> HIDE DEF s
<1>3. AreLists(m("send")) /\ AreLists(m("await")) /\ Len(m("send")) = Len(f) /\ Len(m("await")) = Len(f)
    <2>1. \A kind : AreLists(m(kind)) /\ Len(m(kind)) = Len(s)
        BY ONLY <1>1, PickLists
    <2>. QED
        BY ONLY <1>1, <2>1
<1>4. \A i \in 1..Len(f) : m("send")[i] = (IF v = w THEN <<f[i]>> ELSE <<>>) /\ m("await")[i] = <<>>
    <2>1. ASSUME NEW t, NEW field, t = Send(v, field)
          PROVE  /\ Item(w, "send", t) = IF v = w THEN <<field>> ELSE <<>>
                 /\ Item(w, "await", t) = <<>>
        BY <2>1 DEF Item, Send
    <2>2. \A i \in 1..Len(f) : m("send")[i] = Item(w, "send", s[i])
                              /\ m("await")[i] = Item(w, "await", s[i])
        BY <1>1
    <2> HIDE DEF m
    <2>. QED
        BY <1>2, <2>1, <2>2
<1>5. FlattenSeq(m("await")) = <<>>
    <2> DEFINE n == m("await")
    <2>1. \A i \in 1..Len(n) : i # 0 => n[i] = <<>>
        BY <1>3, <1>4
    <2>2. AreLists(n) /\ ~ (0 \in 1..Len(n))
        BY <1>3
    <2> HIDE DEF n
    <2>3. FlattenSeq(n) = <<>>
        BY <2>1, <2>2, FlattenSingle
    <2>. QED
        BY <2>3 DEF n
<1>6. FlattenSeq(m("send")) = IF v = w THEN f ELSE <<>>
    <2> DEFINE n == m("send")
    <2>1. CASE v = w
        <3>1. m("send") = [i \in 1..Len(f) |-> <<f[i]>>]
            BY <1>1, <1>4, <2>1
        <3>. QED
            BY <2>1, <3>1, FlattenSingles
    <2>2. CASE v # w
        <3>1. \A i \in 1..Len(n) : i # 0 => n[i] = <<>>
            BY <1>3, <1>4, <2>2
        <3>2. AreLists(n) /\ ~ (0 \in 1..Len(n))
            BY <1>3
        <3> HIDE DEF n
        <3>3. FlattenSeq(n) = <<>>
            BY <3>1, <3>2, FlattenSingle
        <3>. QED
            BY <2>2, <3>3 DEF n
    <2>. QED
        BY <2>1, <2>2
<1>. QED
    BY <1>5, <1>6 DEF Pick, s

LEMMA PickAwait ==
    ASSUME NEW w, NEW v
    PROVE  /\ Pick(w, "send", <<Await(v)>>) = <<>>
           /\ Pick(w, "await", <<Await(v)>>) = IF v = w THEN <<w>> ELSE <<>>
<1>1. ASSUME NEW kind PROVE Pick(w, kind, <<Await(v)>>) = Item(w, kind, Await(v))
    BY PickOne
<1>. QED
    BY <1>1 DEF Item, Await

LEMMA PickOther ==
    ASSUME NEW w, NEW kind \in {"send", "await"}, NEW t, t.do \in {"load", "check"}
    PROVE  Pick(w, kind, <<t>>) = <<>>
  BY PickOne DEF Item

\* What the root has ahead for a worker of one configuration.
Picked(w, v, f, g, tasks) ==
    /\ IsList(tasks)
    /\ Pick(w, "send", tasks) = IF v = w THEN f \o g ELSE <<>>
    /\ Pick(w, "await", tasks) = IF v = w THEN <<w>> \o <<w>> ELSE <<>>

LEMMA PickConfig ==
    ASSUME NEW w, NEW v, NEW f, NEW g, IsList(f), IsList(g)
    PROVE  Picked(w, v, f, g, (Sends(v, f) \o <<Await(v)>>) \o (Sends(v, g) \o <<Await(v)>>))
<1> DEFINE a == <<Await(v)>>
           F == Sends(v, f)
           G == Sends(v, g)
<1>1. IsList(a) /\ IsList(F) /\ IsList(G)
    BY SendsLists, OneAndRest, EmptyList
<1>2. /\ Pick(w, "send", a) = <<>> /\ Pick(w, "await", a) = IF v = w THEN <<w>> ELSE <<>>
      /\ Pick(w, "send", F) = IF v = w THEN f ELSE <<>>
      /\ Pick(w, "send", G) = IF v = w THEN g ELSE <<>>
      /\ Pick(w, "await", F) = <<>> /\ Pick(w, "await", G) = <<>>
    BY PickAwait, PickSends
<1> HIDE DEF a, F, G
<1>3. IsList(F \o a) /\ IsList(G \o a) /\ IsList((F \o a) \o (G \o a))
    <2>1. IsList(F \o a) /\ IsList(G \o a)
        BY <1>1, ConcatList
    <2>. QED
        BY <2>1, ConcatList
<1>4. ASSUME NEW kind
      PROVE  Pick(w, kind, (F \o a) \o (G \o a))
                = (Pick(w, kind, F) \o Pick(w, kind, a)) \o (Pick(w, kind, G) \o Pick(w, kind, a))
    <2> DEFINE Fa == F \o a
               Ga == G \o a
    <2>1. IsList(Fa) /\ IsList(Ga)
        BY <1>3
    <2>2. Pick(w, kind, Fa) = Pick(w, kind, F) \o Pick(w, kind, a)
        BY <1>1, PickConcat
    <2>3. Pick(w, kind, Ga) = Pick(w, kind, G) \o Pick(w, kind, a)
        BY <1>1, PickConcat
    <2> HIDE DEF Fa, Ga
    <2>4. Pick(w, kind, Fa \o Ga) = Pick(w, kind, Fa) \o Pick(w, kind, Ga)
        BY <2>1, PickConcat
    <2>. QED
        BY <2>2, <2>3, <2>4 DEF Fa, Ga
<1>5. IsList(<<w>>)
    BY OneAndRest, EmptyList
<1>6. ASSUME v = w PROVE Picked(w, v, f, g, (F \o a) \o (G \o a))
    <2>1. /\ Pick(w, "send", F) = f /\ Pick(w, "send", G) = g /\ Pick(w, "send", a) = <<>>
          /\ Pick(w, "await", F) = <<>> /\ Pick(w, "await", G) = <<>>
          /\ Pick(w, "await", a) = <<w>>
        BY <1>2, <1>6
    <2>2. f \o <<>> = f /\ g \o <<>> = g /\ <<>> \o <<w>> = <<w>>
        BY <1>5, ConcatEmpty
    <2>. QED
        BY <1>3, <1>4, <1>6, <2>1, <2>2 DEF Picked
<1>7. ASSUME v # w PROVE Picked(w, v, f, g, (F \o a) \o (G \o a))
    BY <1>2, <1>3, <1>4, <1>7, ConcatEmpty, EmptyList DEF Picked
<1>. QED
    BY <1>6, <1>7 DEF F, G, a

\* What the root has ahead of one weight.
LEMMA PickShare ==
    ASSUME NEW h, h.nodes \in Nat \ {0}, NEW x, NEW w \in 1..(h.nodes - 1)
    PROVE  /\ IsList(ShareWeight(h, x))
           /\ Pick(w, "send", ShareWeight(h, x)) = FieldsOf(h, x, w)
           /\ Pick(w, "await", ShareWeight(h, x)) = <<>>
<1> DEFINE l == <<LoadTask(h, x)>>
           ss == [v \in 1..(h.nodes - 1) |-> Sends(v, FieldsOf(h, x, v))]
           N == h.nodes - 1
<1>0. N \in Nat
    OBVIOUS
<1>1. ASSUME NEW v PROVE IsList(FieldsOf(h, x, v)) /\ Len(FieldsOf(h, x, v)) = 5
    BY Tuple5a DEF FieldsOf
<1>2. ASSUME NEW v
      PROVE  Sends(v, FieldsOf(h, x, v)) =
                <<Send(v, Field("name", x.name)), Send(v, Field("index", x.index)),
                  Send(v, Field("offset", ExpertIndex(x) * Cardinality(DOMAIN Part(h, x, v)))),
                  Send(v, Field("nBytes", Cardinality(DOMAIN Part(h, x, v)))),
                  Send(v, Field("bytes", Part(h, x, v)))>>
    BY <1>1 DEF Sends, FieldsOf
<1>3. ShareWeight(h, x) = l \o FlattenSeq(ss)
    BY <1>2 DEF ShareWeight, LoadTask
<1>4. AreLists(ss) /\ Len(ss) = N /\ \A v \in 1..N : ss[v] = Sends(v, FieldsOf(h, x, v))
    <2>1. IsList(ss) /\ Len(ss) = N
        BY <1>0, Listed
    <2>2. \A v \in 1..N : IsList(ss[v])
        BY <1>1, SendsLists
    <2>. QED
        BY <2>1, <2>2 DEF AreLists
<1>5. IsList(l)
    BY OneAndRest, EmptyList
<1>6. \A kind \in {"send", "await"} : Pick(w, kind, l) = <<>>
    BY PickOther DEF LoadTask
<1> DEFINE m(kind) == [i \in 1..Len(ss) |-> Pick(w, kind, ss[i])]
<1>7. \A kind : AreLists(m(kind)) /\ Len(m(kind)) = N /\ Pick(w, kind, FlattenSeq(ss)) = FlattenSeq(m(kind))
    <2> HIDE DEF ss
    <2>. QED
        BY <1>4, PickFlatten
<1>8. \A v \in 1..N : /\ m("send")[v] = IF v = w THEN FieldsOf(h, x, v) ELSE <<>>
                      /\ m("await")[v] = <<>>
    BY <1>1, <1>4, PickSends
<1> HIDE DEF l, ss, N, m
<1>9. FlattenSeq(m("send")) = FieldsOf(h, x, w)
    <2> DEFINE n == m("send")
    <2>1. AreLists(n) /\ Len(n) = N /\ w \in 1..Len(n) /\ n[w] = FieldsOf(h, x, w)
        BY <1>7, <1>8 DEF N
    <2>2. \A v \in 1..Len(n) : v # w => n[v] = <<>>
        BY <1>8, <2>1
    <2> HIDE DEF n
    <2>3. FlattenSeq(n) = n[w]
        BY <2>1, <2>2, FlattenSingle
    <2>. QED
        BY <2>1, <2>3 DEF n
<1>10. FlattenSeq(m("await")) = <<>>
    <2> DEFINE n == m("await")
    <2>1. AreLists(n) /\ Len(n) = N /\ w \in 1..Len(n) /\ n[w] = <<>>
        BY <1>7, <1>8 DEF N
    <2>2. \A v \in 1..Len(n) : v # w => n[v] = <<>>
        BY <1>8, <2>1
    <2> HIDE DEF n
    <2>3. FlattenSeq(n) = n[w]
        BY <2>1, <2>2, FlattenSingle
    <2>. QED
        BY <2>1, <2>3 DEF n
<1>11. ASSUME NEW kind \in {"send", "await"}
       PROVE  Pick(w, kind, ShareWeight(h, x)) = FlattenSeq(m(kind))
    <2> DEFINE f == FlattenSeq(ss)
    <2>1. IsList(f) /\ Pick(w, kind, f) = FlattenSeq(m(kind)) /\ IsList(FlattenSeq(m(kind)))
        BY <1>4, <1>7, FlattenList
    <2> HIDE DEF f
    <2>2. Pick(w, kind, l \o f) = Pick(w, kind, l) \o Pick(w, kind, f)
        BY <1>5, <2>1, PickConcat
    <2>. QED
        BY <1>3, <1>6, <2>1, <2>2, ConcatEmpty DEF f
<1>12. IsList(ShareWeight(h, x))
    BY <1>3, <1>4, <1>5, FlattenList, ConcatList
<1>. QED
    BY <1>9, <1>10, <1>11, <1>12

-----------------------------------------------------------------------------
\* The configuration fits what a worker expects.

\* Items that nothing follows, and that the reader does not rely on.
Plain(as) == as \notin {"writeAck", "nPipes", "nPreSyncs", "nSegments", "nOps", "opOutput",
                        "name", "nBuffers", "nSyncs", "configSize"}

LEMMA FollowPlain ==
    ASSUME NEW nb, NEW as, NEW v,
           as \notin {"nPipes", "nPreSyncs", "nSegments", "nOps", "opOutput", "name"}
    PROVE  Follow(nb, as, v) = <<>>
  BY DEF Follow

LEMMA RightPlain == ASSUME NEW nb, NEW as, NEW v, Plain(as) PROVE Right(nb, as, v)
  BY DEF Right, Plain

LEMMA FitsLone ==
    ASSUME NEW nb, NEW as, NEW v, as # "writeAck", Right(nb, as, v), Follow(nb, as, v) = <<>>
    PROVE  Fits(nb, <<as>>, <<Field(as, v)>>)
<1> DEFINE p == <<Field(as, v)>>
<1>1. Fits(nb, Follow(nb, as, v), <<>>)
    BY FitsNone
<1>2. Fits(nb, <<as>>, p \o <<>>)
    BY <1>1, FitsField
<1>3. IsList(p)
    BY OneAndRest, EmptyList
<1> HIDE DEF p
<1>4. p \o <<>> = p
    BY <1>3, ConcatEmpty
<1>. QED
    BY <1>2, <1>4 DEF p

LEMMA FitsOne ==
    ASSUME NEW nb, NEW as, NEW v, Plain(as)
    PROVE  Fits(nb, <<as>>, <<Field(as, v)>>)
<1>1. as # "writeAck" /\ Right(nb, as, v) /\ Follow(nb, as, v) = <<>>
    BY RightPlain, FollowPlain DEF Plain
<1>. QED
    BY <1>1, FitsLone

LEMMA FitsTwo ==
    ASSUME NEW nb, NEW a, NEW b, NEW x, NEW y,
           Fits(nb, <<a>>, <<Field(a, x)>>), Fits(nb, <<b>>, <<Field(b, y)>>)
    PROVE  Fits(nb, <<a, b>>, <<Field(a, x), Field(b, y)>>)
<1>1. Fits(nb, <<a>> \o <<b>>, <<Field(a, x)>> \o <<Field(b, y)>>)
    BY FitsConcat
<1>. QED
    BY <1>1, Tuple2

LEMMA FitsThree ==
    ASSUME NEW nb, NEW a, NEW b, NEW c, NEW x, NEW y, NEW z,
           Fits(nb, <<a>>, <<Field(a, x)>>), Fits(nb, <<b>>, <<Field(b, y)>>),
           Fits(nb, <<c>>, <<Field(c, z)>>)
    PROVE  Fits(nb, <<a, b, c>>, <<Field(a, x), Field(b, y), Field(c, z)>>)
<1>0. Fits(nb, <<a, b>>, <<Field(a, x), Field(b, y)>>)
    BY FitsTwo
<1>1. Fits(nb, <<a, b>> \o <<c>>, <<Field(a, x), Field(b, y)>> \o <<Field(c, z)>>)
    BY <1>0, FitsConcat
<1>2. <<a, b, c>> = <<a, b>> \o <<c>>
    BY Tuple3
<1>3. <<Field(a, x), Field(b, y), Field(c, z)>> = <<Field(a, x), Field(b, y)>> \o <<Field(c, z)>>
    BY Tuple3
<1>. QED
    BY <1>1, <1>2, <1>3, Zenon

LEMMA FitsFour ==
    ASSUME NEW nb, NEW a, NEW b, NEW c, NEW d, NEW x, NEW y, NEW z, NEW u,
           Fits(nb, <<a, b, c>>, <<Field(a, x), Field(b, y), Field(c, z)>>),
           Fits(nb, <<d>>, <<Field(d, u)>>)
    PROVE  Fits(nb, <<a, b, c, d>>, <<Field(a, x), Field(b, y), Field(c, z), Field(d, u)>>)
<1>1. Fits(nb, <<a, b, c>> \o <<d>>,
               <<Field(a, x), Field(b, y), Field(c, z)>> \o <<Field(d, u)>>)
    BY FitsConcat
<1>2. <<a, b, c, d>> = <<a, b, c>> \o <<d>>
    BY Tuple4
<1>3. <<Field(a, x), Field(b, y), Field(c, z), Field(d, u)>>
            = <<Field(a, x), Field(b, y), Field(c, z)>> \o <<Field(d, u)>>
    BY Tuple4
<1>. QED
    BY <1>1, <1>2, <1>3, Zenon

\* A count and as many entries.
LEMMA FitsRepeat ==
    ASSUME NEW nb, NEW n \in Nat, NEW e, IsList(e), NEW R,
           R = [i \in 1..n |-> R[i]], \A i \in 1..n : Fits(nb, e, R[i])
    PROVE  Fits(nb, Repeat(n, e), FlattenSeq(R))
<1> DEFINE es == [i \in 1..n |-> e]
<1>1. IsList(R) /\ Len(R) = n
    BY Listed
<1>2. IsList(es) /\ Len(es) = n
    BY Listed
<1>3. AreLists(R) /\ AreLists(es)
    BY <1>1, <1>2, FitsList DEF AreLists
<1>4. \A i \in 1..Len(es) : Fits(nb, es[i], R[i])
    BY <1>2
<1>5. Repeat(n, e) = FlattenSeq(es)
    BY DEF Repeat
<1> HIDE DEF es
<1>. QED
    BY <1>1, <1>2, <1>3, <1>4, <1>5, FitsFlatten

LEMMA Regroup4 ==
    ASSUME NEW a, NEW b, NEW c, NEW d, IsList(a), IsList(b), IsList(c), IsList(d)
    PROVE  ((a \o b) \o c) \o d = a \o (b \o (c \o d))
<1> DEFINE e == c \o d
           f == a \o b
<1>1. IsList(e) /\ IsList(f)
    BY ConcatList
<1>2. (f \o c) \o d = f \o e
    <2> HIDE DEF f
    <2>. QED
        BY ONLY <1>1, IsList(c), IsList(d), ConcatRegroup DEF e
<1>3. f \o e = a \o (b \o e)
    <2> HIDE DEF e
    <2>. QED
        BY ONLY <1>1, IsList(a), IsList(b), ConcatRegroup DEF f
<1>. QED
    BY ONLY <1>2, <1>3 DEF e, f

\* A field and what follows it, before more.
LEMMA Behind ==
    ASSUME NEW a, NEW b, NEW c, IsList(a), IsList(b), IsList(c)
    PROVE  (a \o b) \o c = a \o (b \o c) /\ IsList((a \o b) \o c)
<1>1. IsList(a \o b)
    BY ConcatList
<1>2. IsList((a \o b) \o c)
    BY <1>1, ConcatList
<1>. QED
    BY ONLY <1>2, IsList(a), IsList(b), IsList(c), ConcatRegroup

LEMMA FitsNet ==
    ASSUME NEW nb, NEW c, IsList(c.pipes), IsList(c.preSyncs)
    PROVE  Fits(nb, <<"ack", "nBatches", "nNodes", "nPipes", "nPreSyncs", "writeAck">>, NetFields(c))
<1> DEFINE A == <<Field("ack", 0), Field("nBatches", c.batches), Field("nNodes", c.nodes)>>
           B == <<Field("nPipes", Len(c.pipes))>>
           pipes == [i \in 1..Len(c.pipes) |->
                       <<Field("pipeSize", c.pipes[i].size), Field("pipeName", c.pipes[i].place)>>]
           P == FlattenSeq(pipes)
           C == <<Field("nPreSyncs", Len(c.preSyncs))>>
           syncs == [i \in 1..Len(c.preSyncs) |-> <<Field("preSync", c.preSyncs[i])>>]
           S == FlattenSeq(syncs)
           a == <<"ack", "nBatches", "nNodes">>
<1>0. Len(c.pipes) \in Nat /\ Len(c.preSyncs) \in Nat
    BY ListFacts
<1>1. Fits(nb, a, A)
    <2>1. /\ Fits(nb, <<"ack">>, <<Field("ack", 0)>>)
          /\ Fits(nb, <<"nBatches">>, <<Field("nBatches", c.batches)>>)
          /\ Fits(nb, <<"nNodes">>, <<Field("nNodes", c.nodes)>>)
        BY FitsOne DEF Plain
    <2>. QED
        BY <2>1, FitsThree
<1>2. Fits(nb, <<"nPipes">>, B \o P)
    <2>1. \A i \in 1..Len(c.pipes) : Fits(nb, <<"pipeSize", "pipeName">>, pipes[i])
        <3>1. ASSUME NEW x, NEW y
              PROVE  Fits(nb, <<"pipeSize", "pipeName">>, <<Field("pipeSize", x), Field("pipeName", y)>>)
            <4>1. /\ Fits(nb, <<"pipeSize">>, <<Field("pipeSize", x)>>)
                  /\ Fits(nb, <<"pipeName">>, <<Field("pipeName", y)>>)
                BY FitsOne DEF Plain
            <4>. QED
                BY <4>1, FitsTwo
        <3>. QED
            BY <3>1
    <2>2. IsList(<<"pipeSize", "pipeName">>)
        BY Tuple2
    <2>3. pipes = [i \in 1..Len(c.pipes) |-> pipes[i]]
        OBVIOUS
    <2> HIDE DEF pipes
    <2>4. Fits(nb, Repeat(Len(c.pipes), <<"pipeSize", "pipeName">>), P)
        BY <1>0, <2>1, <2>2, <2>3, FitsRepeat
    <2>5. Follow(nb, "nPipes", Len(c.pipes)) = Repeat(Len(c.pipes), <<"pipeSize", "pipeName">>)
        BY DEF Follow
    <2>6. Right(nb, "nPipes", Len(c.pipes))
        BY <1>0 DEF Right
    <2> HIDE DEF P
    <2>. QED
        BY <2>4, <2>5, <2>6, FitsField
<1>3. Fits(nb, <<"nPreSyncs">>, C \o S)
    <2>1. \A i \in 1..Len(c.preSyncs) : Fits(nb, <<"preSync">>, syncs[i])
        BY FitsOne DEF Plain
    <2>2. IsList(<<"preSync">>)
        BY OneAndRest, EmptyList
    <2>3. syncs = [i \in 1..Len(c.preSyncs) |-> syncs[i]]
        OBVIOUS
    <2> HIDE DEF syncs
    <2>4. Fits(nb, Repeat(Len(c.preSyncs), <<"preSync">>), S)
        BY <1>0, <2>1, <2>2, <2>3, FitsRepeat
    <2>5. Follow(nb, "nPreSyncs", Len(c.preSyncs)) = Repeat(Len(c.preSyncs), <<"preSync">>)
        BY DEF Follow
    <2>6. Right(nb, "nPreSyncs", Len(c.preSyncs))
        BY <1>0 DEF Right
    <2> HIDE DEF S
    <2>. QED
        BY <2>4, <2>5, <2>6, FitsField
<1>4. IsList(A) /\ IsList(B) /\ IsList(C) /\ IsList(P) /\ IsList(S)
    <2>1. IsList(P)
        <3>1. pipes = [i \in 1..Len(c.pipes) |-> pipes[i]]
            OBVIOUS
        <3>2. \A i \in 1..Len(c.pipes) : IsList(pipes[i])
            BY Tuple2
        <3> HIDE DEF pipes
        <3>. QED
            BY <1>0, <3>1, <3>2, Listed, FlattenList DEF AreLists
    <2>2. IsList(S)
        <3>1. syncs = [i \in 1..Len(c.preSyncs) |-> syncs[i]]
            OBVIOUS
        <3>2. \A i \in 1..Len(c.preSyncs) : IsList(syncs[i])
            BY OneAndRest, EmptyList
        <3> HIDE DEF syncs
        <3>. QED
            BY <1>0, <3>1, <3>2, Listed, FlattenList DEF AreLists
    <2>3. IsList(B) /\ IsList(C)
        BY OneAndRest, EmptyList
    <2>. QED
        BY <1>1, <2>1, <2>2, <2>3, FitsList
<1>5. <<Field("ack", 0), Field("nBatches", c.batches), Field("nNodes", c.nodes),
        Field("nPipes", Len(c.pipes))>> = A \o B
    BY Tuple4
<1>6. NetFields(c) = ((A \o B) \o P) \o C \o S
    BY <1>5 DEF NetFields, Concat
<1> DEFINE e == a \o <<"nPipes">>
           f == e \o <<"nPreSyncs">>
<1>7. e = <<"ack", "nBatches", "nNodes", "nPipes">>
    BY Tuple4
<1>8. f = <<"ack", "nBatches", "nNodes", "nPipes", "nPreSyncs">>
    <2>1. <<"ack", "nBatches", "nNodes", "nPipes">> \o <<"nPreSyncs">>
              = <<"ack", "nBatches", "nNodes", "nPipes", "nPreSyncs">>
        BY ONLY Tuple5c
    <2> HIDE DEF e
    <2>. QED
        BY ONLY <1>7, <2>1 DEF f
<1>9. f \o <<"writeAck">> = <<"ack", "nBatches", "nNodes", "nPipes", "nPreSyncs", "writeAck">>
    <2>1. <<"ack", "nBatches", "nNodes", "nPipes", "nPreSyncs", "writeAck">>
              = <<"ack", "nBatches", "nNodes", "nPipes", "nPreSyncs">> \o <<"writeAck">>
        BY Tuple6
    <2> HIDE DEF f
    <2>. QED
        BY <1>8, <2>1
<1> HIDE DEF A, B, C, P, S, a, e, f
<1>10. Fits(nb, e, A \o (B \o P))
    BY <1>1, <1>2, FitsConcat DEF e
<1>11. (A \o B) \o P = A \o (B \o P) /\ IsList((A \o B) \o P)
    BY <1>4, Behind
<1> DEFINE M == (A \o B) \o P
<1>12. IsList(M) /\ Fits(nb, e, M)
    BY <1>10, <1>11
<1> HIDE DEF M
<1>13. Fits(nb, f, M \o (C \o S))
    BY <1>3, <1>12, FitsConcat DEF f
<1>14. (M \o C) \o S = M \o (C \o S) /\ IsList((M \o C) \o S)
    BY <1>4, <1>12, Behind
<1> DEFINE Y == (M \o C) \o S
<1>15. IsList(Y) /\ Fits(nb, f, Y)
    BY <1>13, <1>14
<1> HIDE DEF Y
<1>16. Fits(nb, f \o <<"writeAck">>, Y \o <<>>)
    BY <1>15, FitsAck, FitsConcat
<1>17. Y \o <<>> = Y
    BY <1>15, ConcatEmpty
<1>18. NetFields(c) = Y
    BY <1>6 DEF M, Y
<1>. QED
    BY <1>9, <1>16, <1>17, <1>18

LEMMA PackSome == ASSUME NEW op PROVE Len(Pack(op)) \in Nat /\ Len(Pack(op)) > 0
<1> DEFINE rope == [i \in 1..Len(RopeFields) |-> op.aux.slice[RopeFields[i]]]
           two == <<op.aux.isQ, op.aux.cache>>
<1>1. CASE op.code = "ROPE"
    <2>1. Len(RopeFields) = 7
        BY DEF RopeFields
    <2>2. IsList(rope) /\ Len(rope) = 7
        BY <2>1, Listed
    <2>3. IsList(two) /\ Len(two) = 2
        BY Tuple2
    <2>4. Pack(op) = two \o rope
        BY <1>1 DEF Pack
    <2> HIDE DEF two, rope
    <2>5. Len(two \o rope) = Len(two) + Len(rope)
        BY <2>2, <2>3, ConcatList
    <2>. QED
        BY <2>2, <2>3, <2>4, <2>5
<1>2. CASE op.code = "INV_RMS"
    BY <1>2 DEF Pack
<1>3. CASE op.code = "RMS_NORM"
    BY <1>3 DEF Pack
<1>4. CASE op.code = "MATMUL"
    BY <1>4 DEF Pack
<1>5. CASE op.code = "MULTIHEAD_ATT"
    BY <1>5 DEF Pack
<1>6. CASE op.code = "MUL"
    BY <1>6 DEF Pack
<1>7. CASE op.code = "SCALE"
    BY <1>7 DEF Pack
<1>8. CASE op.code = "MOE_GATE"
    BY <1>8 DEF Pack
<1>9. CASE op.code \notin {"ROPE", "INV_RMS", "RMS_NORM", "MATMUL", "MULTIHEAD_ATT", "MUL", "SCALE",
                           "MOE_GATE"}
    BY <1>9 DEF Pack
<1>. QED
    BY <1>1, <1>2, <1>3, <1>4, <1>5, <1>6, <1>7, <1>8, <1>9

LEMMA FitsOp == ASSUME NEW nb, NEW op PROVE Fits(nb, OpExpected, OpFields(op))
<1> DEFINE F1 == Field("opCode", op.code)
           F2 == Field("opIndex", op.index)
           F3 == Field("opWeight", op.weight)
           F4 == Field("configSize", Len(Pack(op)))
           F5 == Field("opName", op.name)
           F6 == Field("opInput", op.in)
           F7 == Field("opOutput", op.out)
           F8 == Field("opConfig", Pack(op))
<1>1. Fits(nb, <<"opCode", "opIndex", "opWeight">>, <<F1, F2, F3>>)
    <2>1. /\ Fits(nb, <<"opCode">>, <<F1>>) /\ Fits(nb, <<"opIndex">>, <<F2>>)
          /\ Fits(nb, <<"opWeight">>, <<F3>>)
        BY FitsOne DEF Plain
    <2>. QED
        BY <2>1, FitsThree
<1>2. Fits(nb, <<"configSize", "opName", "opInput">>, <<F4, F5, F6>>)
    <2>1. Right(nb, "configSize", Len(Pack(op))) /\ Follow(nb, "configSize", Len(Pack(op))) = <<>>
        BY PackSome, FollowPlain DEF Right
    <2>2. Fits(nb, <<"configSize">>, <<F4>>)
        BY <2>1, FitsLone
    <2>3. Fits(nb, <<"opName">>, <<F5>>) /\ Fits(nb, <<"opInput">>, <<F6>>)
        BY FitsOne DEF Plain
    <2>. QED
        BY <2>2, <2>3, FitsThree
<1>3. Fits(nb, <<"opOutput">>, <<F7, F8>>)
    <2>1. Fits(nb, <<"opConfig">>, <<F8>>)
        BY FitsOne DEF Plain
    <2>2. Follow(nb, "opOutput", op.out) = <<"opConfig">> /\ Right(nb, "opOutput", op.out)
        BY DEF Follow, Right
    <2>3. Fits(nb, <<"opOutput">>, <<F7>> \o <<F8>>)
        BY <2>1, <2>2, FitsField
    <2>4. <<F7, F8>> = <<F7>> \o <<F8>>
        BY Tuple2
    <2>. QED
        BY <2>3, <2>4
<1>4. OpFields(op) = <<F1, F2, F3, F4, F5, F6, F7, F8>>
    BY DEF OpFields
<1> HIDE DEF F1, F2, F3, F4, F5, F6, F7, F8
<1> DEFINE d == <<"configSize", "opName", "opInput", "opOutput">>
           D == <<F4, F5, F6, F7, F8>>
<1>5. Fits(nb, d, D)
    <2>1. <<F4, F5, F6, F7, F8>> = <<F4, F5, F6>> \o <<F7, F8>>
        BY Tuple5b
    <2>2. d = <<"configSize", "opName", "opInput">> \o <<"opOutput">>
        BY Tuple4
    <2>3. Fits(nb, <<"configSize", "opName", "opInput">> \o <<"opOutput">>, <<F4, F5, F6>> \o <<F7, F8>>)
        BY <1>2, <1>3, FitsConcat
    <2>. QED
        BY <2>1, <2>2, <2>3
<1>6. OpExpected = <<"opCode", "opIndex", "opWeight">> \o d
    BY Tuple7 DEF OpExpected
<1>7. OpFields(op) = <<F1, F2, F3>> \o D
    <2>1. <<F1, F2, F3, F4, F5, F6, F7, F8>> = <<F1, F2, F3>> \o <<F4, F5, F6, F7, F8>>
        BY ONLY Tuple8
    <2>. QED
        BY <1>4, <2>1
<1> HIDE DEF d, D
<1>8. Fits(nb, <<"opCode", "opIndex", "opWeight">> \o d, <<F1, F2, F3>> \o D)
    BY <1>1, <1>5, FitsConcat
<1>. QED
    BY <1>6, <1>7, <1>8

LEMMA FitsSegment ==
    ASSUME NEW nb, NEW s, IsList(s.syncs), Len(s.syncs) = 1, IsList(s.ops)
    PROVE  Fits(nb, <<"nSyncs", "nOps">>, SegmentFields(s))
<1> DEFINE A == <<Field("nSyncs", Len(s.syncs))>>
           B == <<Field("nOps", Len(s.ops))>>
           syncs == [i \in 1..Len(s.syncs) |->
                       <<Field("syncPipe", s.syncs[i].pipe), Field("syncType", s.syncs[i].type)>>]
           ops == [i \in 1..Len(s.ops) |-> OpFields(s.ops[i])]
           S == FlattenSeq(syncs)
           O == FlattenSeq(ops)
           e == <<"syncPipe", "syncType">>
           ns == Len(s.syncs)
           no == Len(s.ops)
<1>0. ns = 1 /\ ns \in Nat /\ no \in Nat
    BY ListFacts
<1>1. SegmentFields(s) = (<<Field("nSyncs", ns), Field("nOps", no)>> \o S) \o O
    BY DEF SegmentFields, Concat
<1>2. <<Field("nSyncs", ns), Field("nOps", no)>> = A \o B
    BY Tuple2
<1>3. Fits(nb, <<"nSyncs">>, A)
    <2>1. Right(nb, "nSyncs", ns) /\ Follow(nb, "nSyncs", ns) = <<>>
        BY <1>0, FollowPlain DEF Right
    <2>. QED
        BY <2>1, FitsLone
<1>4. Fits(nb, Repeat(ns, e), S)
    <2>1. ASSUME NEW x, NEW y PROVE Fits(nb, e, <<Field("syncPipe", x), Field("syncType", y)>>)
        <3>1. Fits(nb, <<"syncPipe">>, <<Field("syncPipe", x)>>) /\ Fits(nb, <<"syncType">>, <<Field("syncType", y)>>)
            BY FitsOne DEF Plain
        <3>. QED
            BY <3>1, FitsTwo
    <2>2. \A i \in 1..ns : Fits(nb, e, syncs[i])
        BY <2>1
    <2>3. IsList(e)
        BY Tuple2
    <2>4. syncs = [i \in 1..ns |-> syncs[i]]
        OBVIOUS
    <2> HIDE DEF syncs, e, ns
    <2>. QED
        BY <1>0, <2>2, <2>3, <2>4, FitsRepeat
<1>5. Fits(nb, Repeat(no, OpExpected), O)
    <2>1. \A i \in 1..no : Fits(nb, OpExpected, ops[i])
        BY FitsOp
    <2>2. IsList(OpExpected)
        BY Tuple7 DEF OpExpected
    <2>3. ops = [i \in 1..no |-> ops[i]]
        OBVIOUS
    <2> HIDE DEF ops, no
    <2>. QED
        BY <1>0, <2>1, <2>2, <2>3, FitsRepeat
<1>6. Right(nb, "nOps", no) /\ Follow(nb, "nOps", no) = Repeat(ns, e) \o Repeat(no, OpExpected)
    BY <1>0 DEF Right, Follow
<1>7. IsList(A) /\ IsList(B) /\ IsList(S) /\ IsList(O)
    BY <1>4, <1>5, FitsList, OneAndRest, EmptyList
<1> HIDE DEF S, O, e
<1>8. Fits(nb, Repeat(ns, e) \o Repeat(no, OpExpected), S \o O)
    BY <1>4, <1>5, FitsConcat
<1>9. Fits(nb, <<"nOps">>, B \o (S \o O))
    BY <1>6, <1>8, FitsField
<1>10. <<"nSyncs", "nOps">> = <<"nSyncs">> \o <<"nOps">>
    BY Tuple2
<1> HIDE DEF A, B
<1>11. Fits(nb, <<"nSyncs">> \o <<"nOps">>, A \o (B \o (S \o O)))
    BY <1>3, <1>9, FitsConcat
<1>12. ((A \o B) \o S) \o O = A \o (B \o (S \o O))
    BY ONLY <1>7, Regroup4, SMTT(100)
<1>. QED
    BY <1>1, <1>2, <1>10, <1>11, <1>12

LEMMA FitsNode ==
    ASSUME NEW c, IsList(c.buffers), IsList(c.segments),
           \A i \in 1..Len(c.segments) : /\ IsList(c.segments[i].syncs) /\ Len(c.segments[i].syncs) = 1
                                         /\ IsList(c.segments[i].ops)
    PROVE  Fits(Len(c.buffers), <<"ack", "nodeIndex", "nBuffers", "nSegments">>, NodeFields(c))
<1> DEFINE nb == Len(c.buffers)
           ns == Len(c.segments)
           A == <<Field("ack", 0), Field("nodeIndex", c.index), Field("nBuffers", nb)>>
           B == <<Field("nSegments", ns)>>
           buffers == [i \in 1..nb |->
                         <<Field("bufferSize", c.buffers[i].size), Field("bufferName", c.buffers[i].place)>>]
           segments == [i \in 1..ns |-> SegmentFields(c.segments[i])]
           P == FlattenSeq(buffers)
           S == FlattenSeq(segments)
           e == <<"bufferSize", "bufferName">>
           d == <<"nSyncs", "nOps">>
<1>0. nb \in Nat /\ ns \in Nat
    BY ListFacts
<1>1. Fits(nb, <<"ack", "nodeIndex", "nBuffers">>, A)
    <2>1. /\ Fits(nb, <<"ack">>, <<Field("ack", 0)>>)
          /\ Fits(nb, <<"nodeIndex">>, <<Field("nodeIndex", c.index)>>)
        BY FitsOne DEF Plain
    <2>2. Right(nb, "nBuffers", nb) /\ Follow(nb, "nBuffers", nb) = <<>>
        BY <1>0, FollowPlain DEF Right
    <2>3. Fits(nb, <<"nBuffers">>, <<Field("nBuffers", nb)>>)
        BY <2>2, FitsLone
    <2>. QED
        BY <2>1, <2>3, FitsThree
<1>2. Fits(nb, Repeat(nb, e), P)
    <2>1. ASSUME NEW x, NEW y PROVE Fits(nb, e, <<Field("bufferSize", x), Field("bufferName", y)>>)
        <3>1. /\ Fits(nb, <<"bufferSize">>, <<Field("bufferSize", x)>>)
              /\ Fits(nb, <<"bufferName">>, <<Field("bufferName", y)>>)
            BY FitsOne DEF Plain
        <3>. QED
            BY <3>1, FitsTwo
    <2>2. \A i \in 1..nb : Fits(nb, e, buffers[i])
        BY <2>1
    <2>3. IsList(e)
        BY Tuple2
    <2>4. buffers = [i \in 1..nb |-> buffers[i]]
        OBVIOUS
    <2> HIDE DEF buffers, e, nb
    <2>. QED
        BY <1>0, <2>2, <2>3, <2>4, FitsRepeat
<1>3. Fits(nb, Repeat(ns, d), S)
    <2>1. \A i \in 1..ns : Fits(nb, d, segments[i])
        BY FitsSegment
    <2>2. IsList(d)
        BY Tuple2
    <2>3. segments = [i \in 1..ns |-> segments[i]]
        OBVIOUS
    <2> HIDE DEF segments, d, ns
    <2>. QED
        BY <1>0, <2>1, <2>2, <2>3, FitsRepeat
<1>4. Right(nb, "nSegments", ns) /\ Follow(nb, "nSegments", ns) = Repeat(nb, e) \o Repeat(ns, d)
    BY <1>0 DEF Right, Follow
<1>5. IsList(A) /\ IsList(B) /\ IsList(P) /\ IsList(S)
    BY <1>1, <1>2, <1>3, FitsList, OneAndRest, EmptyList
<1>6. <<Field("ack", 0), Field("nodeIndex", c.index), Field("nBuffers", nb), Field("nSegments", ns)>> = A \o B
    BY Tuple4
<1>7. NodeFields(c) = ((A \o B) \o P) \o S
    BY <1>6 DEF NodeFields, Concat
<1>8. <<"ack", "nodeIndex", "nBuffers", "nSegments">> = <<"ack", "nodeIndex", "nBuffers">> \o <<"nSegments">>
    BY Tuple4
<1> HIDE DEF P, S, e, d
<1>9. Fits(nb, Repeat(nb, e) \o Repeat(ns, d), P \o S)
    BY <1>2, <1>3, FitsConcat
<1>10. Fits(nb, <<"nSegments">>, B \o (P \o S))
    BY <1>4, <1>9, FitsField
<1> HIDE DEF A, B, nb
<1>11. Fits(nb, <<"ack", "nodeIndex", "nBuffers">> \o <<"nSegments">>, A \o (B \o (P \o S)))
    BY <1>1, <1>10, FitsConcat
<1>12. ((A \o B) \o P) \o S = A \o (B \o (P \o S))
    BY ONLY <1>5, Regroup4, SMTT(100)
<1>. QED
    BY <1>7, <1>8, <1>11, <1>12 DEF nb

-----------------------------------------------------------------------------
\* What the root has ahead at the start.

LEMMA IfList == ASSUME NEW c, NEW s, IsList(s) PROVE IsList(If(c, s))
  BY EmptyList DEF If

LEMMA OpList ==
    /\ \A code, name, index, in, out, weight, aux : IsList(Op(code, name, index, in, out, weight, aux))
    /\ \A name, l, in, out : IsList(Cast(name, l, in, out))
    /\ \A name, l : IsList(MergeAdd(name, l))
    /\ \A name, l, in, out, weight, experts, active : IsList(Matmul(name, l, in, out, weight, experts, active))
    /\ \A pre, name, l, in, out, weight, columns : IsList(Norm(pre, name, l, in, out, weight, columns))
    /\ \A code, name, l, place, aux : IsList(InPlace(code, name, l, place, aux))
<1>1. \A code, name, index, in, out, weight, aux : IsList(Op(code, name, index, in, out, weight, aux))
    BY OneAndRest, EmptyList DEF Op
<1>. QED
    BY <1>1, ConcatList DEF Cast, MergeAdd, Matmul, Norm, InPlace

LEMMA AttOpsList == ASSUME NEW h, NEW node, NEW l PROVE IsList(AttOps(h, node, l))
  BY OpList, ConcatList, IfList DEF AttOps

LEMMA DenseOpsList == ASSUME NEW h, NEW l PROVE IsList(DenseOps(h, l))
  BY OpList, ConcatList, IfList DEF DenseOps

LEMMA MoeOpsList == ASSUME NEW h, NEW l PROVE IsList(MoeOps(h, l))
  BY OpList, ConcatList, IfList DEF MoeOps

LEMMA FfOpsList == ASSUME NEW h, NEW l PROVE IsList(FfOps(h, l))
  BY OpList, ConcatList, IfList, DenseOpsList, MoeOpsList DEF FfOps

LEMMA StartOpsList == ASSUME NEW h, NEW node PROVE IsList(StartOps(h, node))
  BY OpList, IfList DEF StartOps

LEMMA EndOpsList == ASSUME NEW h PROVE IsList(EndOps(h))
  BY OpList, ConcatList, IfList DEF EndOps

LEMMA BuffersList == ASSUME NEW h, h.layers \in Nat, NEW node PROVE IsList(Buffers(h, node))
<1> DEFINE n == 2 * h.layers
           cache(i) == [place |-> LayerBuffer(IF i % 2 = 1 THEN "k" ELSE "v", (i - 1) \div 2),
                        size |-> Size2(F32, h.seqLen, KvDim0(h))]
<1>1. n \in Nat
    OBVIOUS
<1>2. Caches(h) = [i \in 1..n |-> cache(i)]
    BY DEF Caches
<1> HIDE DEF cache, n
<1>3. Caches(h) = [i \in 1..n |-> Caches(h)[i]]
    BY <1>2
<1>4. IsList(Caches(h))
    BY <1>1, <1>3, Listed
<1>5. \A x : IsList(<<x>>)
    BY OneAndRest, EmptyList
<1>. QED
    BY <1>4, <1>5, ConcatList, IfList DEF Buffers

LEMMA PipesList == ASSUME NEW h PROVE IsList(Pipes(h))
<1>1. \A x : IsList(<<x>>)
    BY OneAndRest, EmptyList
<1>. QED
    BY <1>1, ConcatList DEF Pipes

LEMMA SegmentsLists ==
    ASSUME NEW h, h.layers \in Nat, NEW node
    PROVE  /\ IsList(Segments(h, node))
           /\ \A k \in 1..Len(Segments(h, node)) :
                 LET s == Segments(h, node)[k]
                 IN  IsList(s.syncs) /\ Len(s.syncs) = 1 /\ IsList(s.ops)
<1> DEFINE Segment(ops, place, type) == [ops |-> ops, syncs |-> <<[pipe |-> place, type |-> type]>>]
           Layer(i) == IF i % 2 = 1
                       THEN Segment(AttOps(h, node, i \div 2), Pipe("ZQ"), "NODE_SLICES")
                       ELSE Segment(FfOps(h, i \div 2 - 1), Pipe("ZQ"), "NODE_SLICES")
           first == <<Segment(StartOps(h, node), Pipe("X"), "WITH_ROOT")>>
           n == 2 * h.layers
           layers == [i \in 1..n |-> Layer(i)]
           last == <<Segment(EndOps(h), Pipe("LG"), "NODE_SLICES_EXCEPT_ROOT")>>
           Good(s) == IsList(s.syncs) /\ Len(s.syncs) = 1 /\ IsList(s.ops)
<1>1. Segments(h, node) = (first \o layers) \o last
    BY DEF Segments
<1>2. ASSUME NEW ops, NEW place, NEW type, IsList(ops) PROVE Good(Segment(ops, place, type))
    <2> DEFINE y == [pipe |-> place, type |-> type]
    <2> HIDE DEF y
    <2>1. IsList(<<y>>) /\ Len(<<y>>) = 1
        BY OneAndRest, EmptyList
    <2>2. Segment(ops, place, type) = [ops |-> ops, syncs |-> <<y>>]
        BY DEF y
    <2>. QED
        BY <1>2, <2>1, <2>2
<1> HIDE DEF Segment
<1>3. \A i \in 1..n : Good(Layer(i))
    BY <1>2, AttOpsList, FfOpsList
<1>4. Good(first[1]) /\ Good(last[1])
    BY <1>2, StartOpsList, EndOpsList
<1>5. IsList(first) /\ Len(first) = 1 /\ IsList(last) /\ Len(last) = 1
    BY OneAndRest, EmptyList
<1>6. n \in Nat
    OBVIOUS
<1> HIDE DEF Layer, Good, n
<1>7. IsList(layers) /\ Len(layers) = n
    BY <1>6, Listed
<1>8. \A i \in 1..Len(layers) : Good(layers[i])
    BY <1>3, <1>7
<1>9. (\A i \in 1..Len(first) : Good(first[i])) /\ (\A i \in 1..Len(last) : Good(last[i]))
    BY <1>4, <1>5
<1> HIDE DEF first, layers, last
<1>10. ASSUME NEW s, NEW t, IsList(s), IsList(t),
              \A i \in 1..Len(s) : Good(s[i]), \A i \in 1..Len(t) : Good(t[i])
       PROVE  IsList(s \o t) /\ \A i \in 1..Len(s \o t) : Good((s \o t)[i])
    <2>1. IsList(s \o t)
        BY <1>10, ConcatList
    <2>2. ASSUME NEW i \in 1..Len(s \o t) PROVE Good((s \o t)[i])
        BY <1>10, ConcatElements
    <2>. QED
        BY <2>1, <2>2
<1> DEFINE front == first \o layers
<1>11. IsList(front) /\ \A i \in 1..Len(front) : Good(front[i])
    BY <1>5, <1>7, <1>8, <1>9, <1>10
<1> HIDE DEF front
<1>12. IsList(front \o last) /\ \A i \in 1..Len(front \o last) : Good((front \o last)[i])
    BY <1>5, <1>9, <1>10, <1>11
<1>. QED
    BY <1>1, <1>12 DEF front, Good

\* The weights: none has an empty name, which would be the end mark.
Named(s) == IsList(s) /\ \A i \in 1..Len(s) : s[i].name # EndMark

LEMMA Marks ==
    /\ "block_matmul_w1" # EndMark
    /\ "block_matmul_w2" # EndMark
    /\ "block_matmul_w3" # EndMark
    /\ "block_matmul_q" # EndMark
    /\ "block_matmul_k" # EndMark
    /\ "block_matmul_v" # EndMark
    /\ "block_matmul_wo" # EndMark
    /\ "block_moe_gate" # EndMark
    /\ "block_norm_q" # EndMark
    /\ "block_norm_k" # EndMark
    /\ "block_norm_0" # EndMark
    /\ "block_norm_1" # EndMark
    /\ "embedding" # EndMark
    /\ "final_norm" # EndMark
    /\ "final_matmul_logits" # EndMark
  BY Zenon DEF EndMark

LEMMA NamedConcat == ASSUME NEW s, NEW t, Named(s), Named(t) PROVE Named(s \o t)
<1>1. IsList(s \o t)
    BY ConcatList DEF Named
<1>2. ASSUME NEW i \in 1..Len(s \o t) PROVE (s \o t)[i].name # EndMark
    <2>1. (\E j \in 1..Len(s) : (s \o t)[i] = s[j]) \/ (\E j \in 1..Len(t) : (s \o t)[i] = t[j])
        <3>1. IsList(s) /\ IsList(t)
            BY DEF Named
        <3>. QED
            BY <3>1, ConcatElements
    <2>. QED
        BY <2>1 DEF Named
<1>. QED
    BY <1>1, <1>2 DEF Named

LEMMA NamedFlatten ==
    ASSUME NEW n \in Nat, NEW ss, ss = [i \in 1..n |-> ss[i]], \A i \in 1..n : Named(ss[i])
    PROVE  Named(FlattenSeq(ss))
<1>1. IsList(ss) /\ Len(ss) = n
    BY Listed
<1>2. AreLists(ss)
    BY <1>1 DEF AreLists, Named
<1>3. IsList(FlattenSeq(ss))
    BY <1>2, FlattenList
<1>4. ASSUME NEW i \in 1..Len(FlattenSeq(ss)) PROVE FlattenSeq(ss)[i].name # EndMark
    <2>1. PICK k \in 1..Len(ss) : \E j \in 1..Len(ss[k]) : FlattenSeq(ss)[i] = ss[k][j]
        BY <1>2, FlattenElements
    <2>. QED
        BY <1>1, <2>1 DEF Named
<1>. QED
    BY <1>3, <1>4 DEF Named

LEMMA NamedIf == ASSUME NEW c, NEW s, Named(s) PROVE Named(If(c, s))
<1>1. Named(<<>>)
    <2>1. 1..Len(<<>>) = {} /\ IsList(<<>>)
        BY EmptyList
    <2>. QED
        BY <2>1 DEF Named
<1>. QED
    BY <1>1 DEF If

LEMMA NamedWeight ==
    ASSUME NEW name, name # EndMark, NEW index, NEW how, NEW rows, NEW cols, NEW expert
    PROVE  Named(Weight(name, index, how, rows, cols, expert))
<1> DEFINE x == [name |-> name, index |-> index, how |-> how, rows |-> rows, cols |-> cols,
                 expert |-> expert]
<1>1. x.name # EndMark
    OBVIOUS
<1> HIDE DEF x
<1>2. IsList(<<x>>) /\ Len(<<x>>) = 1 /\ <<x>>[1] = x
    BY OneAndRest, EmptyList
<1> DEFINE s == <<x>>
<1>3. Weight(name, index, how, rows, cols, expert) = s
    BY DEF Weight, x
<1> HIDE DEF s
<1>4. \A i \in 1..Len(s) : s[i] = x
    <2>1. Len(s) = 1 /\ s[1] = x
        BY <1>2 DEF s
    <2>2. SUFFICES ASSUME NEW i \in 1..1 PROVE s[i] = x
        BY <2>1
    <2>3. i = 1
        BY <2>2
    <2>. QED
        BY <2>1, <2>3
<1>5. IsList(s)
    BY <1>2 DEF s
<1>. QED
    BY <1>1, <1>3, <1>4, <1>5 DEF Named

LEMMA LayerWeightsNamed == ASSUME NEW h, h.experts \in Nat, NEW l PROVE Named(LayerWeights(h, l))
<1> DEFINE ff(e) ==    Weight("block_matmul_w1", l, "row", h.ffDim, h.dim, e)
                    \o Weight("block_matmul_w2", l, "col", h.dim, h.ffDim, e)
                    \o Weight("block_matmul_w3", l, "row", h.ffDim, h.dim, e)
           experts == [e \in 1..h.experts |-> ff(e - 1)]
<1>1. \A e : Named(ff(e))
    BY Marks, NamedWeight, NamedConcat
<1>2. Named(FlattenSeq(experts))
    <2>1. \A e \in 1..h.experts : Named(experts[e])
        BY <1>1
    <2> HIDE DEF ff
    <2>2. experts = [e \in 1..h.experts |-> experts[e]]
        OBVIOUS
    <2> HIDE DEF experts
    <2>. QED
        BY <2>1, <2>2, NamedFlatten
<1>3. Named(ff(0))
    BY <1>1
<1> DEFINE ffn == IF h.experts > 0
                  THEN Weight("block_moe_gate", l, "all", h.experts, h.dim, 0) \o FlattenSeq(experts)
                  ELSE ff(0)
<1>4. Named(ffn)
    <2> HIDE DEF experts, ff
    <2>. QED
        BY <1>2, <1>3, Marks, NamedWeight, NamedConcat
<1>5. LayerWeights(h, l) =
              Weight("block_matmul_q", l, "row", h.qDim, h.dim, 0)
           \o Weight("block_matmul_k", l, "row", h.kvDim, h.dim, 0)
           \o Weight("block_matmul_v", l, "row", h.kvDim, h.dim, 0)
           \o Weight("block_matmul_wo", l, "col", h.dim, h.qDim, 0)
           \o ffn
           \o If(Qwen(h), Weight("block_norm_q", l, "all", 1, 1, 0)
                          \o Weight("block_norm_k", l, "all", 1, 1, 0))
           \o Weight("block_norm_0", l, "all", 1, h.dim, 0)
           \o Weight("block_norm_1", l, "all", 1, h.dim, 0)
    BY DEF LayerWeights
<1> HIDE DEF ffn
<1>. QED
    BY <1>4, <1>5, Marks, NamedWeight, NamedConcat, NamedIf

LEMMA WeightsNamed ==
    ASSUME NEW h, h.experts \in Nat, h.layers \in Nat PROVE Named(Weights(h))
<1> DEFINE layers == [l \in 1..h.layers |-> LayerWeights(h, l - 1)]
<1>1. Named(FlattenSeq(layers))
    <2>1. \A l \in 1..h.layers : Named(layers[l])
        BY LayerWeightsNamed
    <2>2. layers = [l \in 1..h.layers |-> layers[l]]
        OBVIOUS
    <2> HIDE DEF layers
    <2>. QED
        BY <2>1, <2>2, NamedFlatten
<1>. QED
    BY <1>1, Marks, NamedWeight, NamedConcat DEF Weights

\* The weights and the end mark fit the name of a weight.
LEMMA FitsWeights ==
    ASSUME NEW nb, NEW h, NEW w, NEW ws, Named(ws)
    PROVE  Fits(nb, <<"name">>,
                FlattenSeq([i \in 1..Len(ws) |-> FieldsOf(h, ws[i], w)]) \o <<Field("name", EndMark)>>)
<1> DEFINE each(s) == [i \in 1..Len(s) |-> FieldsOf(h, s[i], w)]
           end == <<Field("name", EndMark)>>
           T == {m \in Nat : \A s : Named(s) /\ Len(s) = m =>
                                Fits(nb, <<"name">>, FlattenSeq(each(s)) \o end)}
<1>0. IsList(end) /\ Fits(nb, <<"name">>, end)
    <2>1. Follow(nb, "name", EndMark) = <<"writeAck">>
        BY Zenon DEF Follow
    <2>2. Right(nb, "name", EndMark)
        BY Zenon DEF Right
    <2>3. Fits(nb, <<"name">>, end \o <<>>)
        BY <2>1, <2>2, FitsAck, FitsField
    <2>4. IsList(end)
        BY OneAndRest, EmptyList
    <2> HIDE DEF end
    <2>5. end \o <<>> = end
        BY <2>4, ConcatEmpty
    <2>. QED
        BY <2>3, <2>4, <2>5
<1> HIDE DEF end
<1>1. ASSUME NEW s, Named(s) PROVE AreLists(each(s)) /\ Len(each(s)) = Len(s)
    <2>1. IsList(s) /\ Len(s) \in Nat
        BY <1>1, ListFacts DEF Named
    <2>2. IsList(each(s)) /\ Len(each(s)) = Len(s)
        BY <2>1, Listed
    <2>3. \A i \in 1..Len(s) : IsList(each(s)[i])
        BY Tuple5a DEF FieldsOf
    <2>. QED
        BY <2>2, <2>3 DEF AreLists
<1>2. 0 \in T
    <2> SUFFICES ASSUME NEW s, Named(s), Len(s) = 0 PROVE Fits(nb, <<"name">>, FlattenSeq(each(s)) \o end)
        OBVIOUS
    <2>1. AreLists(each(s)) /\ Len(each(s)) = 0
        BY <1>1
    <2> HIDE DEF each
    <2>2. each(s) = <<>>
        BY <2>1, ListFacts DEF AreLists
    <2>3. FlattenSeq(each(s)) = <<>>
        BY <2>2, FlattenNone
    <2>. QED
        BY <1>0, <2>3, ConcatEmpty
<1>3. ASSUME NEW m \in Nat, m \in T PROVE m + 1 \in T
    <2> SUFFICES ASSUME NEW s, Named(s), Len(s) = m + 1 PROVE Fits(nb, <<"name">>, FlattenSeq(each(s)) \o end)
        OBVIOUS
    <2> DEFINE x == s[1]
               t == Tail(s)
               F == Field("name", x.name)
               G == <<Field("index", x.index),
                      Field("offset", ExpertIndex(x) * Cardinality(DOMAIN Part(h, x, w))),
                      Field("nBytes", Cardinality(DOMAIN Part(h, x, w))), Field("bytes", Part(h, x, w))>>
    <2>1. IsList(s) /\ s # <<>>
        BY EmptyList DEF Named
    <2>2. /\ IsList(t) /\ Len(t) = m /\ \A i \in 1..m : t[i] = s[i + 1]
        <3>1. /\ IsList(t) /\ Len(t) = Len(s) - 1
              /\ \A i \in 1..Len(t) : t[i] = s[i + 1]
            BY <2>1, HeadAndTail
        <3> HIDE DEF t
        <3>2. Len(t) = m
            BY <3>1
        <3>. QED
            BY <3>1, <3>2
    <2>3. Named(t) /\ x.name # EndMark
        <3>1. \A i \in 1..m : i + 1 \in 1..Len(s)
            OBVIOUS
        <3>2. 1 \in 1..Len(s)
            OBVIOUS
        <3>. QED
            BY <2>2, <3>1, <3>2 DEF Named
    <2>4. Fits(nb, <<"name">>, FlattenSeq(each(t)) \o end)
        BY <1>3, <2>2, <2>3
    <2>5. AreLists(each(t)) /\ Len(each(t)) = m /\ AreLists(each(s)) /\ Len(each(s)) = m + 1
        BY <1>1, <2>2, <2>3
    <2> DEFINE f == FieldsOf(h, x, w)
    <2>6. IsList(f) /\ f = <<F>> \o G /\ IsList(<<F>>) /\ IsList(G)
        <3>1. IsList(f) /\ f = <<F>> \o G
            BY Tuple5a DEF FieldsOf
        <3>2. IsList(<<F>>)
            BY OneAndRest, EmptyList
        <3>3. IsList(G)
            BY Tuple4
        <3>. QED
            BY <3>1, <3>2, <3>3
    <2>7. Fits(nb, <<"index", "offset", "nBytes", "bytes">>, G)
        <3>1. ASSUME NEW a, NEW b, NEW c, NEW d
              PROVE  Fits(nb, <<"index", "offset", "nBytes", "bytes">>,
                          <<Field("index", a), Field("offset", b), Field("nBytes", c), Field("bytes", d)>>)
            <4>1. /\ Fits(nb, <<"index">>, <<Field("index", a)>>) /\ Fits(nb, <<"offset">>, <<Field("offset", b)>>)
                  /\ Fits(nb, <<"nBytes">>, <<Field("nBytes", c)>>) /\ Fits(nb, <<"bytes">>, <<Field("bytes", d)>>)
                BY FitsOne DEF Plain
            <4>2. Fits(nb, <<"index", "offset", "nBytes">>,
                       <<Field("index", a), Field("offset", b), Field("nBytes", c)>>)
                BY <4>1, FitsThree
            <4>. QED
                BY <4>1, <4>2, FitsFour
        <3>. QED
            BY <3>1
    <2>8. Follow(nb, "name", x.name) = <<"index", "offset", "nBytes", "bytes">> \o <<"name">>
        <3>1. <<"index", "offset", "nBytes", "bytes", "name">>
                = <<"index", "offset", "nBytes", "bytes">> \o <<"name">>
            BY Tuple5c
        <3>2. Follow(nb, "name", x.name) = <<"index", "offset", "nBytes", "bytes", "name">>
            BY <2>3 DEF Follow
        <3>. QED
            BY <3>1, <3>2
    <2>9. Right(nb, "name", x.name)
        BY DEF Right
    <2>10. each(s) = <<f>> \o each(t)
        <3> DEFINE o == <<f>>
        <3>1. IsList(o) /\ Len(o) = 1 /\ o[1] = f
            BY OneAndRest, EmptyList
        <3>2. each(s)[1] = f
            BY <2>5
        <3>3. ASSUME NEW i \in 1..m PROVE each(s)[1 + i] = each(t)[i]
            <4>1. 1 + i \in 1..Len(s) /\ 1 + i = i + 1
                OBVIOUS
            <4>. QED
                BY <2>2, <4>1
        <3> HIDE DEF each, o, f
        <3>4. \A i \in 1..Len(o) : each(s)[i] = o[i]
            BY <3>1, <3>2
        <3>5. \A i \in 1..Len(each(t)) : each(s)[Len(o) + i] = each(t)[i]
            BY <2>5, <3>1, <3>3
        <3>6. Len(each(s)) = Len(o) + Len(each(t))
            BY <2>5, <3>1
        <3>7. IsList(each(s)) /\ IsList(each(t))
            BY <2>5 DEF AreLists
        <3>8. each(s) = o \o each(t)
            BY <3>1, <3>4, <3>5, <3>6, <3>7, ConcatIs
        <3>. QED
            BY <3>8 DEF o
    <2> HIDE DEF each, f
    <2>11. FlattenSeq(each(s)) = f \o FlattenSeq(each(t)) /\ IsList(FlattenSeq(each(t)))
        BY <2>5, <2>6, <2>10, FlattenHead, FlattenList
    <2> DEFINE R == FlattenSeq(each(t))
    <2> HIDE DEF F, G, R
    <2>12. Fits(nb, <<"index", "offset", "nBytes", "bytes">> \o <<"name">>, G \o (R \o end))
        BY <2>4, <2>7, FitsConcat DEF R
    <2>13. Fits(nb, <<"name">>, <<F>> \o (G \o (R \o end)))
        BY <2>8, <2>9, <2>12, FitsField DEF F
    <2> DEFINE o == <<F>>
    <2>14. ((o \o G) \o R) \o end = o \o (G \o (R \o end))
        <3>1. IsList(o) /\ IsList(G) /\ IsList(R) /\ IsList(end)
            BY <1>0, <2>6, <2>11 DEF R
        <3> HIDE DEF o
        <3>. QED
            BY ONLY <3>1, Regroup4, SMTT(100)
    <2>. QED
        BY <2>6, <2>11, <2>13, <2>14 DEF R
<1>4. Nat \subseteq T
    <2> HIDE DEF T
    <2>. QED
        BY <1>2, <1>3, AllNumbers
<1>5. Len(ws) \in T
    BY <1>4, ListFacts DEF Named
<1>. QED
    BY <1>5 DEF end

\* The root's tasks, from the parts above.
LEMMA TodoParts ==
    ASSUME NEW h
    PROVE  Todo(h) = ((FlattenSeq([v \in 1..(h.nodes - 1) |-> ConfigTasks(h, v)])
                         \o FlattenSeq([i \in 1..Len(Weights(h)) |-> ShareWeight(h, Weights(h)[i])]))
                        \o <<CheckTask>>)
                       \o FlattenSeq([v \in 1..(h.nodes - 1) |-> Finish(v)])
  BY DEF Todo, Concat, ConfigTasks, Sends, CheckTask

\* Lists of tasks of which only the w-th are for worker w.
LEMMA PickFrom ==
    ASSUME NEW w, NEW kind, NEW n \in Nat, NEW rr, rr = [v \in 1..n |-> rr[v]],
           \A v \in 1..n : IsList(rr[v]), w \in 1..n,
           \A v \in 1..n : v # w => Pick(w, kind, rr[v]) = <<>>
    PROVE  IsList(FlattenSeq(rr)) /\ Pick(w, kind, FlattenSeq(rr)) = Pick(w, kind, rr[w])
<1>1. IsList(rr) /\ Len(rr) = n
    BY Listed
<1>2. AreLists(rr)
    BY <1>1 DEF AreLists
<1> DEFINE m == [i \in 1..Len(rr) |-> Pick(w, kind, rr[i])]
<1>3. AreLists(m) /\ Len(m) = n /\ Pick(w, kind, FlattenSeq(rr)) = FlattenSeq(m)
    BY <1>1, <1>2, PickFlatten
<1>4. m[w] = Pick(w, kind, rr[w]) /\ \A v \in 1..n : v # w => m[v] = <<>>
    BY <1>1
<1> HIDE DEF m
<1>5. FlattenSeq(m) = m[w]
    BY <1>3, <1>4, FlattenSingle
<1>6. IsList(FlattenSeq(rr))
    BY <1>2, FlattenList
<1>. QED
    BY <1>3, <1>4, <1>5, <1>6

LEMMA PickFinish ==
    ASSUME NEW w, NEW v
    PROVE  /\ IsList(Finish(v))
           /\ Pick(w, "send", Finish(v)) = IF v = w THEN <<Field("name", EndMark)>> ELSE <<>>
           /\ Pick(w, "await", Finish(v)) = IF v = w THEN <<w>> ELSE <<>>
<1> DEFINE f == <<Field("name", EndMark)>>
           s == Sends(v, f)
           a == <<Await(v)>>
<1>1. IsList(f) /\ Len(f) = 1
    BY OneAndRest, EmptyList
<1>2. s = <<Send(v, Field("name", EndMark))>>
    BY <1>1 DEF Sends
<1>3. Finish(v) = s \o a
    <2>1. Finish(v) = <<Send(v, Field("name", EndMark)), Await(v)>>
        BY Zenon DEF Finish, EndMark
    <2>. QED
        BY <1>2, <2>1, Tuple2
<1>4. /\ Pick(w, "send", s) = (IF v = w THEN f ELSE <<>>) /\ Pick(w, "await", s) = <<>>
      /\ Pick(w, "send", a) = <<>> /\ Pick(w, "await", a) = IF v = w THEN <<w>> ELSE <<>>
    BY <1>1, PickSends, PickAwait
<1>5. IsList(s) /\ IsList(a) /\ IsList(<<w>>)
    BY <1>1, SendsLists, OneAndRest, EmptyList
<1> HIDE DEF f, s, a
<1>6. IsList(s \o a)
    BY <1>5, ConcatList
<1>7. \A kind : Pick(w, kind, s \o a) = Pick(w, kind, s) \o Pick(w, kind, a)
    BY <1>5, PickConcat
<1>8. f \o <<>> = f /\ <<>> \o <<>> = <<>> /\ <<>> \o <<w>> = <<w>>
    BY <1>1, <1>5, ConcatEmpty, EmptyList
<1>. QED
    BY <1>3, <1>4, <1>6, <1>7, <1>8 DEF f

\* What worker w is sent, and how often it is waited for.
LEMMA TodoFor ==
    ASSUME NEW h, h.nodes \in Nat \ {0}, h.layers \in Nat, h.experts \in Nat,
           NEW w \in 1..(h.nodes - 1),
           IsList(NetFields(NetConfig(h))),
           \A v \in 1..(h.nodes - 1) : IsList(NodeFields(NodeConfig(h, v)))
    PROVE  LET ws == Weights(h)
               each == [i \in 1..Len(ws) |-> FieldsOf(h, ws[i], w)]
           IN  /\ IsList(Todo(h))
               /\ Pick(w, "send", Todo(h)) =
                    ((NetFields(NetConfig(h)) \o NodeFields(NodeConfig(h, w))) \o FlattenSeq(each))
                        \o <<Field("name", EndMark)>>
               /\ Pick(w, "await", Todo(h)) = (<<w>> \o <<w>>) \o <<w>>
<1> DEFINE ws == Weights(h)
           each == [i \in 1..Len(ws) |-> FieldsOf(h, ws[i], w)]
           n == h.nodes - 1
           configs == [v \in 1..n |-> ConfigTasks(h, v)]
           shares == [i \in 1..Len(ws) |-> ShareWeight(h, ws[i])]
           ends == [v \in 1..n |-> Finish(v)]
           f == NetFields(NetConfig(h)) \o NodeFields(NodeConfig(h, w))
           C == FlattenSeq(configs)
           S == FlattenSeq(shares)
           K == <<CheckTask>>
           E == FlattenSeq(ends)
           end == <<Field("name", EndMark)>>
<1>0. n \in Nat /\ w \in 1..n
    OBVIOUS
<1>1. /\ IsList(C) /\ Pick(w, "send", C) = f /\ Pick(w, "await", C) = <<w>> \o <<w>>
    <2>1. ASSUME NEW v \in 1..n
          PROVE  /\ IsList(configs[v])
                 /\ v = w => Pick(w, "send", configs[v]) = f /\ Pick(w, "await", configs[v]) = <<w>> \o <<w>>
                 /\ v # w => Pick(w, "send", configs[v]) = <<>> /\ Pick(w, "await", configs[v]) = <<>>
        <3> DEFINE N == NetFields(NetConfig(h))
                   G(u) == NodeFields(NodeConfig(h, u))
        <3>1. IsList(N) /\ IsList(G(v))
            BY <2>1
        <3>2. configs[v] = (Sends(v, N) \o <<Await(v)>>) \o (Sends(v, G(v)) \o <<Await(v)>>)
            BY <2>1 DEF ConfigTasks
        <3>3. f = N \o G(w)
            OBVIOUS
        <3> HIDE DEF configs, f, n, N, G
        <3>4. /\ IsList(configs[v])
              /\ Pick(w, "send", configs[v]) = IF v = w THEN N \o G(v) ELSE <<>>
              /\ Pick(w, "await", configs[v]) = IF v = w THEN <<w>> \o <<w>> ELSE <<>>
            <4> DEFINE g == G(v)
                       tasks == (Sends(v, N) \o <<Await(v)>>) \o (Sends(v, g) \o <<Await(v)>>)
            <4>1. IsList(g)
                BY <3>1
            <4> HIDE DEF g
            <4>2. Picked(w, v, N, g, tasks)
                <5>1. IsList(N) /\ IsList(g)
                    BY <3>1, <4>1
                <5>. QED
                    BY ONLY <5>1, PickConfig
            <4>3. configs[v] = tasks
                BY <3>2 DEF g
            <4> HIDE DEF tasks
            <4>. QED
                BY <4>2, <4>3 DEF g, Picked
        <3>. QED
            BY <3>3, <3>4
    <2>2. configs = [v \in 1..n |-> configs[v]]
        OBVIOUS
    <2> HIDE DEF configs, n, f
    <2>3. IsList(C) /\ Pick(w, "send", C) = Pick(w, "send", configs[w])
        BY <1>0, <2>1, <2>2, PickFrom
    <2>4. Pick(w, "await", C) = Pick(w, "await", configs[w])
        BY <1>0, <2>1, <2>2, PickFrom
    <2>. QED
        BY <1>0, <2>1, <2>3, <2>4
<1>2. /\ IsList(E) /\ Pick(w, "send", E) = end /\ Pick(w, "await", E) = <<w>>
    <2>1. ASSUME NEW v \in 1..n
          PROVE  /\ IsList(ends[v])
                 /\ v = w => Pick(w, "send", ends[v]) = end /\ Pick(w, "await", ends[v]) = <<w>>
                 /\ v # w => Pick(w, "send", ends[v]) = <<>> /\ Pick(w, "await", ends[v]) = <<>>
        BY <2>1, PickFinish
    <2>2. ends = [v \in 1..n |-> ends[v]]
        OBVIOUS
    <2> HIDE DEF ends, n, end
    <2>3. IsList(E) /\ Pick(w, "send", E) = Pick(w, "send", ends[w])
        BY <1>0, <2>1, <2>2, PickFrom
    <2>4. Pick(w, "await", E) = Pick(w, "await", ends[w])
        BY <1>0, <2>1, <2>2, PickFrom
    <2>. QED
        BY <1>0, <2>1, <2>3, <2>4
<1>3. IsList(S) /\ Pick(w, "send", S) = FlattenSeq(each) /\ Pick(w, "await", S) = <<>>
    <2>1. IsList(ws) /\ Len(ws) \in Nat
        BY WeightsNamed, ListFacts DEF Named
    <2>2. \A x : /\ IsList(ShareWeight(h, x)) /\ Pick(w, "send", ShareWeight(h, x)) = FieldsOf(h, x, w)
                 /\ Pick(w, "await", ShareWeight(h, x)) = <<>>
        BY PickShare
    <2> HIDE DEF ws
    <2>3. IsList(shares) /\ Len(shares) = Len(ws)
        BY <2>1, Listed
    <2>4. AreLists(shares)
        BY <2>2, <2>3 DEF AreLists
    <2> DEFINE m(kind) == [i \in 1..Len(shares) |-> Pick(w, kind, shares[i])]
    <2>5. \A kind : /\ AreLists(m(kind)) /\ Len(m(kind)) = Len(ws)
                    /\ Pick(w, kind, FlattenSeq(shares)) = FlattenSeq(m(kind))
        <3> HIDE DEF shares
        <3>. QED
            BY <2>3, <2>4, PickFlatten
    <2>6. m("send") = each
        BY <2>2, <2>3
    <2>7. FlattenSeq(m("await")) = <<>>
        <3> DEFINE a == m("await")
        <3>1. AreLists(a) /\ Len(a) = Len(ws)
            BY <2>5
        <3>2. \A i \in 1..Len(a) : i # 0 => a[i] = <<>>
            BY <2>2, <2>3, <3>1
        <3>3. ~ (0 \in 1..Len(a))
            BY <2>1, <3>1
        <3> HIDE DEF a
        <3>4. FlattenSeq(a) = <<>>
            BY <3>1, <3>2, <3>3, FlattenSingle
        <3>. QED
            BY <3>4 DEF a
    <2>8. IsList(S)
        BY <2>4, FlattenList
    <2>. QED
        BY <2>5, <2>6, <2>7, <2>8
<1>4. IsList(K) /\ Pick(w, "send", K) = <<>> /\ Pick(w, "await", K) = <<>>
    <2>1. IsList(K)
        BY OneAndRest, EmptyList
    <2>2. CheckTask.do = "check"
        BY DEF CheckTask
    <2>3. \A kind \in {"send", "await"} : Pick(w, kind, <<CheckTask>>) = <<>>
        BY <2>2, PickOther
    <2>. QED
        BY <2>1, <2>3
<1>5. Todo(h) = ((C \o S) \o K) \o E
    BY TodoParts
<1>6. IsList(f) /\ IsList(FlattenSeq(each)) /\ IsList(end) /\ IsList(<<w>>) /\ IsList(<<w>> \o <<w>>)
    <2>1. IsList(f) /\ IsList(FlattenSeq(each))
        BY <1>1, <1>3, PickLists
    <2>. QED
        BY <2>1, OneAndRest, EmptyList, ConcatList
<1> HIDE DEF ws, each, C, S, K, E, f, end
<1> DEFINE CS == C \o S
           CSK == CS \o K
<1>7. IsList(CS) /\ \A kind : Pick(w, kind, CS) = Pick(w, kind, C) \o Pick(w, kind, S)
    BY <1>1, <1>3, ConcatList, PickConcat
<1> HIDE DEF CS
<1>8. IsList(CSK) /\ \A kind : Pick(w, kind, CSK) = Pick(w, kind, CS) \o Pick(w, kind, K)
    <2>1. IsList(CS \o K)
        BY <1>4, <1>7, ConcatList
    <2>2. \A kind : Pick(w, kind, CS \o K) = Pick(w, kind, CS) \o Pick(w, kind, K)
        BY <1>4, <1>7, PickConcat
    <2>. QED
        BY <2>1, <2>2
<1> HIDE DEF CSK
<1>9. IsList(CSK \o E) /\ \A kind : Pick(w, kind, CSK \o E) = Pick(w, kind, CSK) \o Pick(w, kind, E)
    BY <1>2, <1>8, ConcatList, PickConcat
<1>10. Pick(w, "send", CSK \o E) = (f \o FlattenSeq(each)) \o end
    <2> DEFINE g == f \o FlattenSeq(each)
    <2>1. IsList(g) /\ Pick(w, "send", CS) = g
        BY <1>1, <1>3, <1>6, <1>7, ConcatList
    <2> HIDE DEF g
    <2>2. Pick(w, "send", CSK) = g
        BY <1>4, <1>8, <2>1, ConcatEmpty
    <2>. QED
        BY <1>2, <1>9, <2>2 DEF g
<1>11. Pick(w, "await", CSK \o E) = (<<w>> \o <<w>>) \o <<w>>
    <2> DEFINE g == <<w>> \o <<w>>
    <2>1. IsList(g) /\ Pick(w, "await", C) = g
        BY <1>1, <1>6
    <2> HIDE DEF g
    <2>2. Pick(w, "await", CSK) = g
        <3>1. Pick(w, "await", CS) = g \o <<>> /\ g \o <<>> = g
            BY <1>3, <1>7, <2>1, ConcatEmpty
        <3>2. Pick(w, "await", CSK) = g \o <<>>
            BY <1>4, <1>8, <3>1
        <3>. QED
            BY <3>1, <3>2
    <2>. QED
        BY <1>2, <1>9, <2>2 DEF g
<1>. QED
    BY <1>5, <1>9, <1>10, <1>11 DEF CS, CSK, f, end, each, ws

\* At the start, what the root will send to a worker is what it expects to read.
LEMMA FitsStart ==
    ASSUME NEW h \in Headers, NEW w \in 1..(h.nodes - 1)
    PROVE  /\ IsList(Todo(h))
           /\ Fits(Len(Buffers(h, w)), ConfigExpected, Pick(w, "send", Todo(h)))
           /\ Len(Pick(w, "await", Todo(h))) = 3
<1> DEFINE nb == Len(Buffers(h, w))
           N == NetFields(NetConfig(h))
           G(v) == NodeFields(NodeConfig(h, v))
           ws == Weights(h)
           F == FlattenSeq([i \in 1..Len(ws) |-> FieldsOf(h, ws[i], w)])
           end == <<Field("name", EndMark)>>
           a == <<"ack", "nBatches", "nNodes", "nPipes", "nPreSyncs", "writeAck">>
           b == <<"ack", "nodeIndex", "nBuffers", "nSegments">>
           c == <<"ack", "nodeIndex", "nBuffers", "nSegments", "writeAck">>
           d == <<"ack", "nodeIndex", "nBuffers", "nSegments", "writeAck", "name">>
<1>0. h.nodes \in Nat \ {0} /\ h.layers \in Nat /\ h.experts \in Nat
    BY HeaderAssumption
<1>1. \A m : Fits(m, a, N)
    <2>1. IsList(NetConfig(h).pipes) /\ IsList(NetConfig(h).preSyncs)
        BY PipesList, OneAndRest, EmptyList DEF NetConfig
    <2>. QED
        BY <2>1, FitsNet
<1>2. ASSUME NEW v PROVE Fits(Len(Buffers(h, v)), b, G(v))
    <2>1. /\ NodeConfig(h, v).buffers = Buffers(h, v) /\ NodeConfig(h, v).segments = Segments(h, v)
        BY DEF NodeConfig
    <2>2. /\ IsList(Buffers(h, v)) /\ IsList(Segments(h, v))
          /\ \A i \in 1..Len(Segments(h, v)) :
                /\ IsList(Segments(h, v)[i].syncs) /\ Len(Segments(h, v)[i].syncs) = 1
                /\ IsList(Segments(h, v)[i].ops)
        BY <1>0, BuffersList, SegmentsLists
    <2> DEFINE cfg == NodeConfig(h, v)
    <2>3. /\ IsList(cfg.buffers) /\ IsList(cfg.segments)
          /\ \A i \in 1..Len(cfg.segments) :
                /\ IsList(cfg.segments[i].syncs) /\ Len(cfg.segments[i].syncs) = 1
                /\ IsList(cfg.segments[i].ops)
        BY <2>1, <2>2
    <2> HIDE DEF cfg
    <2>4. Fits(Len(cfg.buffers), b, NodeFields(cfg))
        BY <2>3, FitsNode
    <2>. QED
        BY <2>1, <2>4 DEF cfg
<1>3. Named(ws)
    BY <1>0, WeightsNamed
<1>4. Fits(nb, <<"name">>, F \o end)
    BY <1>3, FitsWeights
<1>5. IsList(N) /\ \A v : IsList(G(v))
    BY <1>1, <1>2, FitsList
<1>6. /\ IsList(Todo(h))
      /\ Pick(w, "send", Todo(h)) = ((N \o G(w)) \o F) \o end
      /\ Pick(w, "await", Todo(h)) = (<<w>> \o <<w>>) \o <<w>>
    BY <1>0, <1>5, TodoFor
<1>7. Len(Pick(w, "await", Todo(h))) = 3
    <2> DEFINE o == <<w>>
               t == o \o o
    <2>1. IsList(o) /\ Len(o) = 1
        BY OneAndRest, EmptyList
    <2>2. Pick(w, "await", Todo(h)) = t \o o
        BY <1>6
    <2> HIDE DEF o
    <2>3. IsList(t) /\ Len(t) = Len(o) + Len(o)
        BY <2>1, ConcatList
    <2> HIDE DEF t
    <2>4. Len(t \o o) = Len(t) + Len(o)
        BY <2>1, <2>3, ConcatList
    <2>5. Len(t \o o) = 3
        BY <2>1, <2>3, <2>4
    <2>. QED
        BY <2>2, <2>5
<1>8. Fits(nb, c, G(w))
    <2> DEFINE g == G(w)
    <2>1. Fits(nb, b, g) /\ IsList(g)
        BY <1>2, <1>5
    <2> HIDE DEF g
    <2>2. Fits(nb, b \o <<"writeAck">>, g \o <<>>)
        BY <2>1, FitsAck, FitsConcat
    <2>3. g \o <<>> = g
        BY <2>1, ConcatEmpty
    <2>4. c = b \o <<"writeAck">>
        BY Tuple5c
    <2> HIDE DEF b, c
    <2>. QED
        BY <2>2, <2>3, <2>4 DEF g
<1>9. IsList(F) /\ IsList(end)
    <2>1. IsList(end)
        BY OneAndRest, EmptyList
    <2>2. IsList(ws) /\ Len(ws) \in Nat
        BY <1>3, ListFacts DEF Named
    <2> DEFINE each == [i \in 1..Len(ws) |-> FieldsOf(h, ws[i], w)]
    <2>3. IsList(each) /\ Len(each) = Len(ws)
        BY <2>2, Listed
    <2>4. \A i \in 1..Len(ws) : IsList(each[i])
        BY Tuple5a DEF FieldsOf
    <2>5. AreLists(each)
        BY <2>3, <2>4 DEF AreLists
    <2>. QED
        BY <2>1, <2>5, FlattenList
<1>10. ConfigExpected = a \o d
    BY Tuple12 DEF ConfigExpected
<1>11. d = c \o <<"name">>
    BY Tuple6
<1> HIDE DEF nb, N, G, F, end, a, c, d
<1> DEFINE g == G(w)
<1>12. IsList(g) /\ Fits(nb, c, g)
    BY <1>5, <1>8
<1>13. Pick(w, "send", Todo(h)) = ((N \o g) \o F) \o end
    BY <1>6
<1> HIDE DEF g
<1>14. Fits(nb, d, g \o (F \o end))
    BY <1>4, <1>11, <1>12, FitsConcat
<1>15. Fits(nb, a \o d, N \o (g \o (F \o end)))
    BY <1>1, <1>14, FitsConcat
<1>16. IsList(N) /\ IsList(g) /\ IsList(F) /\ IsList(end)
    BY <1>5, <1>9, <1>12
<1>17. ((N \o g) \o F) \o end = N \o (g \o (F \o end))
    BY ONLY <1>16, Regroup4, SMTT(100)
<1>. QED
    BY <1>6, <1>7, <1>10, <1>13, <1>15, <1>17 DEF nb

-----------------------------------------------------------------------------
\* What a worker expects, by the fields alone.  An entry may need one that was
\* read before it: K are the fields read so far.
AckItems == {"writeAck", "name"}
AckItem(as) == IF as \in AckItems THEN <<as>> ELSE <<>>
Acks(e) == FlattenSeq([i \in 1..Len(e) |-> AckItem(e[i])])
Needs(as, x) ==
    \/ as = "nSegments" /\ x = "nBuffers"
    \/ as = "nOps" /\ x = "nSyncs"
    \/ as = "opOutput" /\ x = "configSize"
Ready(e, K) ==
    \A i \in 1..Len(e) : \A x : Needs(e[i], x) => x \in K \/ \E j \in 1..(i - 1) : e[j] = x

\* Entries of the configuration, none of which leads to an ack.
Good(e) == IsList(e) /\ Ready(e, {}) /\ \A i \in 1..Len(e) : e[i] \notin AckItems

\* It ends with an ack, or with the name that an ack will follow.
Closing(e) ==
    /\ e # <<>> => e[Len(e)] \in AckItems
    /\ \A i \in 1..Len(e) : e[i] = "name" => i = Len(e)

LEMMA AckItemList == ASSUME NEW as PROVE IsList(AckItem(as))
  BY EmptyList, OneAndRest DEF AckItem

LEMMA AcksLists ==
    ASSUME NEW e, IsList(e)
    PROVE  /\ AreLists([i \in 1..Len(e) |-> AckItem(e[i])])
           /\ Len([i \in 1..Len(e) |-> AckItem(e[i])]) = Len(e)
           /\ IsList(Acks(e))
<1> DEFINE m == [i \in 1..Len(e) |-> AckItem(e[i])]
<1>1. Len(e) \in Nat
    BY ListFacts
<1>2. IsList(m) /\ Len(m) = Len(e)
    BY <1>1, Listed
<1>3. AreLists(m)
    BY <1>2, AckItemList DEF AreLists
<1>. QED
    BY <1>2, <1>3, FlattenList DEF Acks

LEMMA AcksConcat ==
    ASSUME NEW r, NEW s, IsList(r), IsList(s)
    PROVE  Acks(r \o s) = Acks(r) \o Acks(s)
<1> DEFINE m(q) == [i \in 1..Len(q) |-> AckItem(q[i])]
<1>1. /\ IsList(r \o s) /\ Len(r \o s) = Len(r) + Len(s) /\ Len(r) \in Nat /\ Len(s) \in Nat
      /\ \A i \in 1..Len(r) : (r \o s)[i] = r[i]
      /\ \A i \in 1..Len(s) : (r \o s)[Len(r) + i] = s[i]
    BY ConcatList, ListFacts
<1>2. \A q : IsList(q) => AreLists(m(q)) /\ Len(m(q)) = Len(q)
    BY AcksLists
<1>3. \A i \in 1..Len(r) : m(r \o s)[i] = m(r)[i]
    BY <1>1
<1>4. ASSUME NEW i \in 1..Len(s) PROVE m(r \o s)[Len(r) + i] = m(s)[i]
    <2>1. Len(r) + i \in 1..Len(r \o s)
        BY <1>1
    <2>. QED
        BY <2>1, <1>1
<1>5. \A q : Acks(q) = FlattenSeq(m(q))
    BY DEF Acks
<1> HIDE DEF m
<1>6. /\ AreLists(m(r)) /\ Len(m(r)) = Len(r) /\ AreLists(m(s)) /\ Len(m(s)) = Len(s)
      /\ AreLists(m(r \o s)) /\ Len(m(r \o s)) = Len(r \o s)
    BY <1>1, <1>2
<1> DEFINE a == m(r)
           b == m(s)
           c == m(r \o s)
<1>7. /\ IsList(a) /\ IsList(b) /\ IsList(c) /\ Len(c) = Len(a) + Len(b)
      /\ \A i \in 1..Len(a) : c[i] = a[i]
      /\ \A i \in 1..Len(b) : c[Len(a) + i] = b[i]
    BY <1>1, <1>3, <1>4, <1>6 DEF AreLists
<1>8. Acks(r \o s) = FlattenSeq(c) /\ Acks(r) = FlattenSeq(a)
      /\ Acks(s) = FlattenSeq(b) /\ AreLists(a) /\ AreLists(b)
    BY <1>5, <1>6
<1> HIDE DEF a, b, c
<1>9. c = a \o b
    BY <1>7, ConcatIs
<1>. QED
    BY <1>8, <1>9, FlattenConcat

LEMMA AcksNone ==
    ASSUME NEW e, IsList(e), \A i \in 1..Len(e) : e[i] \notin AckItems
    PROVE  Acks(e) = <<>>
<1> DEFINE m == [i \in 1..Len(e) |-> AckItem(e[i])]
<1>1. AreLists(m) /\ Len(m) = Len(e) /\ Len(e) \in Nat
    BY AcksLists, ListFacts
<1>2. \A i \in 1..Len(m) : i # 0 => m[i] = <<>>
    BY <1>1 DEF AckItem
<1> HIDE DEF m
<1>3. FlattenSeq(m) = IF 0 \in 1..Len(m) THEN m[0] ELSE <<>>
    BY <1>1, <1>2, FlattenSingle
<1>4. FlattenSeq(m) = <<>>
    BY <1>1, <1>3
<1>. QED
    BY <1>4 DEF Acks, m

LEMMA AcksOne ==
    ASSUME NEW x
    PROVE  Acks(<<x>>) = AckItem(x)
<1> DEFINE s == <<x>>
           m == [i \in 1..Len(s) |-> AckItem(s[i])]
<1>1. IsList(s) /\ Len(s) = 1 /\ s[1] = x
    BY OneAndRest, EmptyList
<1> HIDE DEF s
<1>2. AreLists(m) /\ Len(m) = 1
    BY <1>1, AcksLists
<1>4. m[1] = AckItem(x)
    <2>1. 1 \in 1..Len(s)
        BY <1>1
    <2>2. m[1] = AckItem(s[1])
        BY <2>1, Zenon
    <2>. QED
        BY <1>1, <2>2, Zenon
<1> HIDE DEF m
<1>3. FlattenSeq(m) = m[1]
    <2>1. \A i \in 1..Len(m) : i # 1 => m[i] = <<>>
        BY <1>2
    <2>2. 1 \in 1..Len(m)
        BY <1>2
    <2>. QED
        BY <1>2, <2>1, <2>2, FlattenSingle
<1>. QED
    BY <1>4, <1>3 DEF Acks, m, s

\* How many acks a list leads to: those of its parts.
LEMMA CountAcks ==
    /\ \A r, s : IsList(r) /\ IsList(s) => Len(Acks(r \o s)) = Len(Acks(r)) + Len(Acks(s))
    /\ \A r : IsList(r) => Len(Acks(r)) \in Nat
    /\ \A as : Len(Acks(<<as>>)) = IF as \in AckItems THEN 1 ELSE 0
    /\ \A r : Good(r) => Len(Acks(r)) = 0
<1>1. ASSUME NEW r, NEW s, IsList(r), IsList(s)
      PROVE  Len(Acks(r \o s)) = Len(Acks(r)) + Len(Acks(s))
    <2>1. IsList(Acks(r)) /\ IsList(Acks(s))
        BY <1>1, AcksLists
    <2>2. Len(Acks(r) \o Acks(s)) = Len(Acks(r)) + Len(Acks(s))
        BY <2>1, ConcatList
    <2>3. Acks(r \o s) = Acks(r) \o Acks(s)
        BY <1>1, AcksConcat
    <2>. QED
        BY <2>2, <2>3
<1>2. ASSUME NEW r, IsList(r) PROVE Len(Acks(r)) \in Nat
    BY <1>2, AcksLists, ListFacts
<1>3. ASSUME NEW as PROVE Len(Acks(<<as>>)) = IF as \in AckItems THEN 1 ELSE 0
    BY AcksOne, EmptyList, OneAndRest DEF AckItem
<1>4. ASSUME NEW r, Good(r) PROVE Len(Acks(r)) = 0
    BY <1>4, AcksNone, EmptyList DEF Good
<1>. QED
    BY <1>1, <1>2, <1>3, <1>4

LEMMA ReadyMore ==
    ASSUME NEW e, NEW K, NEW L, Ready(e, K),
           \A x \in {"nBuffers", "nSyncs", "configSize"} : x \in K => x \in L
    PROVE  Ready(e, L)
  BY DEF Ready, Needs

LEMMA ReadyConcat ==
    ASSUME NEW d, NEW e, NEW K, IsList(d), IsList(e), Ready(d, {}), Ready(e, K)
    PROVE  Ready(d \o e, K)
<1> DEFINE u == d \o e
<1>1. /\ Len(u) = Len(d) + Len(e) /\ Len(d) \in Nat /\ Len(e) \in Nat
      /\ \A i \in 1..Len(d) : u[i] = d[i]
      /\ \A i \in 1..Len(e) : u[Len(d) + i] = e[i]
    BY ConcatList, ListFacts
<1> HIDE DEF u
<1>2. SUFFICES ASSUME NEW i \in 1..Len(u), NEW x, Needs(u[i], x)
               PROVE  x \in K \/ \E j \in 1..(i - 1) : u[j] = x
    BY DEF Ready, u
<1>3. CASE i \in 1..Len(d)
    <2>1. Needs(d[i], x)
        BY <1>1, <1>2, <1>3
    <2>2. PICK j \in 1..(i - 1) : d[j] = x
        BY <1>3, <2>1 DEF Ready
    <2>3. j \in 1..Len(d)
        BY <1>1, <1>3
    <2>. QED
        BY <1>1, <2>2, <2>3
<1>4. CASE i \notin 1..Len(d)
    <2>1. i - Len(d) \in 1..Len(e) /\ i = Len(d) + (i - Len(d))
        BY <1>1, <1>4
    <2>2. Needs(e[i - Len(d)], x)
        BY <1>1, <1>2, <2>1
    <2>3. CASE x \in K
        BY <2>3
    <2>4. CASE x \notin K
        <3>1. PICK j \in 1..(i - Len(d) - 1) : e[j] = x
            BY <2>1, <2>2, <2>4 DEF Ready
        <3>2. j \in 1..Len(e) /\ Len(d) + j \in 1..(i - 1)
            BY <1>1, <2>1
        <3>3. u[Len(d) + j] = x
            BY <1>1, <3>1, <3>2
        <3>. QED
            BY <3>2, <3>3
    <2>. QED
        BY <2>3, <2>4
<1>. QED
    BY <1>3, <1>4

LEMMA ReadyTail ==
    ASSUME NEW e, NEW K, IsList(e), e # <<>>, Ready(e, K)
    PROVE  Ready(Tail(e), K \cup {Head(e)})
<1> DEFINE t == Tail(e)
           v == Head(e)
<1>1. /\ Len(e) \in Nat /\ Len(e) >= 1 /\ Len(t) = Len(e) - 1 /\ v = e[1]
      /\ \A i \in 1..Len(t) : t[i] = e[i + 1]
    BY HeadAndTail
<1> HIDE DEF t, v
<1>2. SUFFICES ASSUME NEW i \in 1..Len(t), NEW x, Needs(t[i], x)
               PROVE  x \in K \cup {v} \/ \E j \in 1..(i - 1) : t[j] = x
    BY DEF Ready, t, v
<1>3. i + 1 \in 1..Len(e) /\ Needs(e[i + 1], x)
    BY <1>1, <1>2
<1>4. CASE x \in K
    BY <1>4
<1>5. CASE x \notin K
    <2>1. PICK j \in 1..i : e[j] = x
        BY <1>3, <1>5 DEF Ready
    <2>2. CASE j = 1
        BY <1>1, <2>1, <2>2
    <2>3. CASE j # 1
        <3>1. j - 1 \in 1..(i - 1) /\ j - 1 \in 1..Len(t) /\ (j - 1) + 1 = j
            BY <1>1, <2>3
        <3>2. t[j - 1] = x
            BY <1>1, <2>1, <3>1
        <3>. QED
            BY <3>1, <3>2
    <2>. QED
        BY <2>2, <2>3
<1>. QED
    BY <1>4, <1>5

LEMMA GoodNone == Good(<<>>)
  BY EmptyList DEF Good, Ready

LEMMA GoodConcat ==
    ASSUME NEW d, NEW e, Good(d), Good(e)
    PROVE  Good(d \o e)
<1> DEFINE u == d \o e
<1>1. /\ IsList(u) /\ Len(u) = Len(d) + Len(e) /\ Len(d) \in Nat /\ Len(e) \in Nat
      /\ \A i \in 1..Len(d) : u[i] = d[i]
      /\ \A i \in 1..Len(e) : u[Len(d) + i] = e[i]
    BY ConcatList, ListFacts DEF Good
<1>2. Ready(u, {})
    BY ReadyConcat DEF Good
<1> HIDE DEF u
<1>3. ASSUME NEW i \in 1..Len(u) PROVE u[i] \notin AckItems
    <2>1. CASE i \in 1..Len(d)
        BY <1>1, <2>1 DEF Good
    <2>2. CASE i \notin 1..Len(d)
        <3>1. i - Len(d) \in 1..Len(e) /\ i = Len(d) + (i - Len(d))
            BY <1>1, <2>2
        <3>. QED
            BY <1>1, <3>1 DEF Good
    <2>. QED
        BY <2>1, <2>2
<1>. QED
    BY <1>1, <1>2, <1>3 DEF Good, u

LEMMA GoodRepeat ==
    ASSUME NEW e, Good(e), NEW n \in Nat
    PROVE  Good(Repeat(n, e))
<1> DEFINE R(k) == [i \in 1..k |-> e]
           T == {k \in Nat : Good(FlattenSeq(R(k)))}
<1>0. ASSUME NEW k \in Nat PROVE AreLists(R(k)) /\ Len(R(k)) = k
    <2>1. IsList(R(k)) /\ Len(R(k)) = k
        BY Listed
    <2>. QED
        BY <2>1 DEF AreLists, Good
<1>1. 0 \in T
    <2>1. R(0) = <<>>
        BY <1>0, ListFacts DEF AreLists
    <2>. QED
        BY <2>1, FlattenNone, GoodNone
<1>2. ASSUME NEW k \in Nat, k \in T PROVE k + 1 \in T
    <2> DEFINE r == R(k)
               s == R(k + 1)
    <2>1. AreLists(r) /\ Len(r) = k /\ AreLists(s) /\ Len(s) = k + 1 /\ s # <<>>
        <3>1. AreLists(s) /\ Len(s) = k + 1
            BY <1>0
        <3>2. s # <<>>
            BY <3>1, EmptyList
        <3>. QED
            BY <1>0, <3>1, <3>2
    <2>2. /\ \A i \in 1..k : r[i] = e
          /\ \A i \in 1..(k + 1) : s[i] = e
        OBVIOUS
    <2>3. Good(FlattenSeq(r)) /\ IsList(e)
        BY <1>2 DEF Good
    <2> HIDE DEF r, s
    <2>4. PICK q, t : /\ AreLists(q) /\ IsList(t) /\ s = Append(q, t) /\ Len(s) = Len(q) + 1
                      /\ t = s[Len(s)] /\ \A i \in 1..Len(q) : q[i] = s[i]
        BY <2>1, ListsEnd
    <2>5. Len(q) = k /\ t = e /\ \A i \in 1..k : q[i] = e
        <3>1. Len(q) \in Nat
            BY <2>4, ListFacts DEF AreLists
        <3>. QED
            BY <2>1, <2>2, <2>4, <3>1
    <2>6. q = r
        BY <2>1, <2>2, <2>4, <2>5, EqualLists DEF AreLists
    <2>7. FlattenSeq(s) = FlattenSeq(r) \o e
        BY <2>1, <2>3, <2>4, <2>5, <2>6, FlattenAppend
    <2>8. Good(FlattenSeq(s))
        BY <2>3, <2>7, GoodConcat
    <2>. QED
        BY <2>8 DEF s
<1>3. n \in T
    <2> HIDE DEF T
    <2>. QED
        BY <1>1, <1>2, AllNumbers
<1>. QED
    BY <1>3 DEF Repeat

LEMMA GoodEntries ==
    /\ Good(<<"pipeSize", "pipeName">>) /\ Good(<<"preSync">>) /\ Good(<<"bufferSize", "bufferName">>)
    /\ Good(<<"nSyncs", "nOps">>) /\ Good(<<"syncPipe", "syncType">>) /\ Good(<<"opConfig">>)
    /\ Good(OpExpected)
<1>1. Good(<<"pipeSize", "pipeName">>)
    <2>1. IsList(<<"pipeSize", "pipeName">>)
        BY Tuple2
    <2>. QED
        BY <2>1 DEF Good, Ready, Needs, AckItems
<1>2. Good(<<"preSync">>)
    <2>1. IsList(<<"preSync">>)
        BY OneAndRest, EmptyList
    <2>. QED
        BY <2>1 DEF Good, Ready, Needs, AckItems
<1>3. Good(<<"bufferSize", "bufferName">>)
    <2>1. IsList(<<"bufferSize", "bufferName">>)
        BY Tuple2
    <2>. QED
        BY <2>1 DEF Good, Ready, Needs, AckItems
<1>4. Good(<<"nSyncs", "nOps">>)
    <2>1. IsList(<<"nSyncs", "nOps">>)
        BY Tuple2
    <2>2. Ready(<<"nSyncs", "nOps">>, {})
        BY DEF Ready, Needs
    <2>. QED
        BY <2>1, <2>2 DEF Good, AckItems
<1>5. Good(<<"syncPipe", "syncType">>)
    <2>1. IsList(<<"syncPipe", "syncType">>)
        BY Tuple2
    <2>. QED
        BY <2>1 DEF Good, Ready, Needs, AckItems
<1>6. Good(<<"opConfig">>)
    <2>1. IsList(<<"opConfig">>)
        BY OneAndRest, EmptyList
    <2>. QED
        BY <2>1 DEF Good, Ready, Needs, AckItems
<1>7. Good(OpExpected)
    <2>1. IsList(OpExpected)
        BY Tuple7 DEF OpExpected
    <2>2. Ready(OpExpected, {})
        BY DEF Ready, Needs, OpExpected
    <2>. QED
        BY <2>1, <2>2 DEF Good, AckItems, OpExpected
<1>. QED
    BY <1>1, <1>2, <1>3, <1>4, <1>5, <1>6, <1>7

\* What a field of the configuration is followed by leads to no ack.
LEMMA FollowGood ==
    ASSUME NEW nb \in Nat, NEW as, as # "name", NEW v, Right(nb, as, v)
    PROVE  Good(Follow(nb, as, v))
<1>1. CASE as = "nPipes"
    <2>1. Good(Repeat(v, <<"pipeSize", "pipeName">>))
        BY <1>1, GoodEntries, GoodRepeat DEF Right
    <2>. QED
        BY <1>1, <2>1 DEF Follow
<1>2. CASE as = "nPreSyncs"
    <2>1. Good(Repeat(v, <<"preSync">>))
        BY <1>2, GoodEntries, GoodRepeat DEF Right
    <2>. QED
        BY <1>2, <2>1 DEF Follow
<1>3. CASE as = "nSegments"
    <2>1. Good(Repeat(nb, <<"bufferSize", "bufferName">>))
        BY GoodEntries, GoodRepeat
    <2>2. Good(Repeat(v, <<"nSyncs", "nOps">>))
        BY <1>3, GoodEntries, GoodRepeat DEF Right
    <2>3. Good(Repeat(nb, <<"bufferSize", "bufferName">>) \o Repeat(v, <<"nSyncs", "nOps">>))
        BY <2>1, <2>2, GoodConcat
    <2>. QED
        BY <1>3, <2>3 DEF Follow
<1>4. CASE as = "nOps"
    <2>1. Good(Repeat(1, <<"syncPipe", "syncType">>))
        BY GoodEntries, GoodRepeat
    <2>2. Good(Repeat(v, OpExpected))
        BY <1>4, GoodEntries, GoodRepeat DEF Right
    <2>3. Good(Repeat(1, <<"syncPipe", "syncType">>) \o Repeat(v, OpExpected))
        BY <2>1, <2>2, GoodConcat
    <2>. QED
        BY <1>4, <2>3 DEF Follow
<1>5. CASE as = "opOutput"
    BY <1>5, GoodEntries DEF Follow
<1>6. CASE as \notin {"nPipes", "nPreSyncs", "nSegments", "nOps", "opOutput"}
    BY <1>6, GoodNone, FollowPlain
<1>. QED
    BY <1>1, <1>2, <1>3, <1>4, <1>5, <1>6

LEMMA ClosingTail ==
    ASSUME NEW e, IsList(e), e # <<>>, Closing(e)
    PROVE  /\ Closing(Tail(e))
           /\ Head(e) \notin AckItems => Tail(e) # <<>>
           /\ Head(e) = "name" => Tail(e) = <<>>
<1> DEFINE t == Tail(e)
<1>1. /\ Len(e) \in Nat /\ Len(e) >= 1 /\ Len(t) = Len(e) - 1 /\ Head(e) = e[1] /\ IsList(t)
      /\ \A i \in 1..Len(t) : t[i] = e[i + 1]
    BY HeadAndTail
<1>2. t # <<>> <=> Len(t) # 0
    BY <1>1, ListFacts
<1> HIDE DEF t
<1>3. t # <<>> => t[Len(t)] \in AckItems
    <2> SUFFICES ASSUME t # <<>> PROVE t[Len(t)] \in AckItems
        OBVIOUS
    <2>1. Len(t) \in 1..Len(t) /\ Len(t) + 1 = Len(e)
        BY <1>1, <1>2
    <2>2. t[Len(t)] = e[Len(e)]
        BY <1>1, <2>1
    <2>. QED
        BY <2>2 DEF Closing
<1>4. ASSUME NEW i \in 1..Len(t), t[i] = "name" PROVE i = Len(t)
    <2>1. i + 1 \in 1..Len(e) /\ e[i + 1] = "name"
        BY <1>1, <1>4
    <2>. QED
        BY <1>1, <2>1 DEF Closing
<1>5. Head(e) \notin AckItems => t # <<>>
    <2> SUFFICES ASSUME t = <<>> PROVE Head(e) \in AckItems
        OBVIOUS
    <2>1. Len(e) = 1
        BY <1>1, <1>2
    <2>. QED
        BY <1>1, <2>1 DEF Closing
<1>6. Head(e) = "name" => t = <<>>
    <2> SUFFICES ASSUME Head(e) = "name" PROVE t = <<>>
        OBVIOUS
    <2>1. 1 = Len(e)
        BY <1>1 DEF Closing
    <2>2. Len(t) = Len(e) - 1
        BY <1>1
    <2>3. Len(t) = 0
        BY ONLY <2>1, <2>2
    <2>. QED
        BY <1>2, <2>3
<1>7. Closing(t)
    BY <1>3, <1>4 DEF Closing
<1>. QED
    BY <1>5, <1>6, <1>7 DEF t

LEMMA ClosingConcat ==
    ASSUME NEW d, NEW e, Good(d), IsList(e), e # <<>>, Closing(e)
    PROVE  Closing(d \o e)
<1> DEFINE u == d \o e
<1>1. /\ IsList(u) /\ Len(u) = Len(d) + Len(e) /\ Len(d) \in Nat /\ Len(e) \in Nat /\ Len(e) # 0
      /\ \A i \in 1..Len(d) : u[i] = d[i]
      /\ \A i \in 1..Len(e) : u[Len(d) + i] = e[i]
    BY ConcatList, ListFacts DEF Good
<1> HIDE DEF u
<1>2. u[Len(u)] \in AckItems
    <2>1. Len(e) \in 1..Len(e)
        BY <1>1
    <2>2. u[Len(u)] = e[Len(e)]
        BY <1>1, <2>1
    <2>. QED
        BY <2>2 DEF Closing
<1>3. ASSUME NEW i \in 1..Len(u), u[i] = "name" PROVE i = Len(u)
    <2>1. CASE i \in 1..Len(d)
        BY <1>1, <1>3, <2>1 DEF Good, AckItems
    <2>2. CASE i \notin 1..Len(d)
        <3>1. i - Len(d) \in 1..Len(e) /\ i = Len(d) + (i - Len(d))
            BY <1>1, <2>2
        <3>2. e[i - Len(d)] = "name"
            BY <1>1, <1>3, <3>1
        <3>3. i - Len(d) = Len(e)
            BY <3>1, <3>2 DEF Closing
        <3>. QED
            BY <1>1, <3>1, <3>3
    <2>. QED
        BY <2>1, <2>2
<1>. QED
    BY <1>2, <1>3 DEF Closing, u

-----------------------------------------------------------------------------
\* What holds of worker w while it lives: it expects e, d is on its way, u acks
\* of its are on their way back, g is what it has read, and a is what the root
\* has still to do.
Fields(g) == {g[i].as : i \in 1..Len(g)}
Tracks(nb, w, e, d, u, g, a) ==
    /\ nb \in Nat /\ IsList(e) /\ IsList(d) /\ u \in Nat /\ IsList(g) /\ IsList(a)
    /\ Fits(nb, e, d \o Pick(w, "send", a))
    /\ u + Len(Acks(e)) = Len(Pick(w, "await", a))
    /\ Closing(e)
    /\ \A i \in 1..Len(g) : Right(nb, g[i].as, g[i].val)
    /\ Ready(e, Fields(g))

\* The root writes a field to this worker.
LEMMA TrackSend ==
    ASSUME NEW nb, NEW w, NEW e, NEW d, NEW u, NEW g, NEW a, Tracks(nb, w, e, d, u, g, a),
           a # <<>>, Head(a).do = "send", Head(a).node = w
    PROVE  Tracks(nb, w, e, Append(d, Head(a).field), u, g, Tail(a))
<1> DEFINE t == Head(a)
           r == Tail(a)
           f == <<t.field>>
           p == Pick(w, "send", r)
<1>1. IsList(d) /\ IsList(r) /\ IsList(a)
    BY HeadAndTail DEF Tracks
<1>2. Append(d, t.field) = d \o f
    BY <1>1, AppendList
<1>3. Item(w, "send", t) = f /\ Item(w, "await", t) = <<>>
    BY DEF Item
<1>4. Pick(w, "send", a) = f \o p /\ Pick(w, "await", a) = <<>> \o Pick(w, "await", r)
    BY <1>1, <1>3, PickHead
<1>5. IsList(p) /\ IsList(f) /\ IsList(Pick(w, "await", r))
    BY <1>1, PickLists, OneAndRest, EmptyList
<1>6. Pick(w, "await", a) = Pick(w, "await", r)
    BY <1>4, <1>5, ConcatEmpty
<1> HIDE DEF f, p
<1>7. IsList(d \o f)
    BY <1>1, <1>5, ConcatList
<1>8. (d \o f) \o p = d \o (f \o p)
    <2>1. IsList(d) /\ IsList(f) /\ IsList(p)
        BY <1>1, <1>5 DEF Tracks
    <2>. QED
        BY ONLY <2>1, ConcatRegroup
<1> HIDE DEF r, t
<1>9. Fits(nb, e, (d \o f) \o p)
    BY <1>4, <1>8 DEF Tracks
<1>. QED
    BY <1>1, <1>2, <1>6, <1>7, <1>9 DEF Tracks, r, t, p

\* The root takes an ack of this worker.
LEMMA TrackAwait ==
    ASSUME NEW nb, NEW w, NEW e, NEW d, NEW u, NEW g, NEW a, Tracks(nb, w, e, d, u, g, a),
           a # <<>>, Head(a).do = "await", Head(a).node = w, u > 0
    PROVE  Tracks(nb, w, e, d, u - 1, g, Tail(a))
<1> DEFINE t == Head(a)
           r == Tail(a)
           p == Pick(w, "send", r)
           q == Pick(w, "await", r)
<1>1. IsList(r) /\ IsList(a)
    BY HeadAndTail DEF Tracks
<1>2. Item(w, "send", t) = <<>> /\ Item(w, "await", t) = <<w>>
    BY DEF Item
<1>3. Pick(w, "send", a) = <<>> \o p /\ Pick(w, "await", a) = <<w>> \o q
    BY <1>1, <1>2, PickHead
<1>4. IsList(p) /\ IsList(q)
    BY <1>1, PickLists
<1>5. Pick(w, "send", a) = p
    BY <1>3, <1>4, ConcatEmpty
<1>6. Len(Pick(w, "await", a)) = Len(q) + 1 /\ Len(q) \in Nat
    BY <1>3, <1>4, OneAndRest, ListFacts
<1>7. Len(Acks(e)) \in Nat
    BY AcksLists, ListFacts DEF Tracks
<1> HIDE DEF r, t
<1>8. (u - 1) + Len(Acks(e)) = Len(q) /\ u - 1 \in Nat
    BY <1>6, <1>7 DEF Tracks
<1>. QED
    BY <1>1, <1>5, <1>8 DEF Tracks, r

\* The root does something that does not concern this worker.
LEMMA TrackPass ==
    ASSUME NEW nb, NEW w, NEW e, NEW d, NEW u, NEW g, NEW a, Tracks(nb, w, e, d, u, g, a),
           a # <<>>, Head(a).do \in {"send", "await"} => Head(a).node # w
    PROVE  Tracks(nb, w, e, d, u, g, Tail(a))
<1> DEFINE t == Head(a)
           r == Tail(a)
           p == Pick(w, "send", r)
           q == Pick(w, "await", r)
<1>1. IsList(r) /\ IsList(a)
    BY HeadAndTail DEF Tracks
<1>2. Item(w, "send", t) = <<>> /\ Item(w, "await", t) = <<>>
    BY DEF Item
<1>3. Pick(w, "send", a) = <<>> \o p /\ Pick(w, "await", a) = <<>> \o q
    BY <1>1, <1>2, PickHead
<1>4. Pick(w, "send", a) = p /\ Pick(w, "await", a) = q
    BY <1>1, <1>3, PickLists, ConcatEmpty
<1> HIDE DEF r, t
<1>. QED
    BY <1>1, <1>4 DEF Tracks, r

\* A field that a worker reads is what it expects, and what follows fits again.
LEMMA TrackRead ==
    ASSUME NEW nb, NEW w, NEW e, NEW d, NEW u, NEW g, NEW a, Tracks(nb, w, e, d, u, g, a),
           e # <<>>, Head(e) # "writeAck", d # <<>>
    PROVE  LET v == Head(d).val
               next == Follow(nb, Head(e), v) \o Tail(e)
           IN  /\ Head(d).as = Head(e)
               /\ Right(nb, Head(e), v)
               /\ IsList(Follow(nb, Head(e), v))
                     => Fits(nb, next, Tail(d) \o Pick(w, "send", a))
<1> DEFINE p == Pick(w, "send", a)
           R == d \o p
           next(v) == Follow(nb, Head(e), v) \o Tail(e)
<1>1. IsList(p) /\ IsList(d)
    BY PickLists DEF Tracks
<1> HIDE DEF p
<1>2. Head(R) = Head(d) /\ Tail(R) = Tail(d) \o p
    BY <1>1, ConcatHead
<1>3. Fits(nb, e, R)
    BY DEF Tracks, p
<1> HIDE DEF R
<1>4. /\ Head(R).as = Head(e) /\ Right(nb, Head(e), Head(R).val)
      /\ IsList(Follow(nb, Head(e), Head(R).val)) => Fits(nb, next(Head(R).val), Tail(R))
    BY <1>3, FitsStep
<1>. QED
    BY <1>2, <1>4 DEF p

LEMMA FieldsAppend ==
    ASSUME NEW g, NEW f, IsList(g)
    PROVE  /\ IsList(Append(g, f)) /\ Fields(Append(g, f)) = Fields(g) \cup {f.as}
           /\ \A i \in 1..Len(Append(g, f)) : Append(g, f)[i] = f \/ \E j \in 1..Len(g) : Append(g, f)[i] = g[j]
<1> DEFINE s == <<f>>
           u == g \o s
<1>1. Append(g, f) = u
    BY AppendList
<1>2. IsList(s) /\ Len(s) = 1 /\ s[1] = f
    BY OneAndRest, EmptyList
<1> HIDE DEF s
<1>3. /\ IsList(u) /\ Len(u) = Len(g) + 1 /\ Len(g) \in Nat
      /\ \A i \in 1..Len(g) : u[i] = g[i]
      /\ u[Len(g) + 1] = s[1]
    <2>0. Len(g) \in Nat
        BY ListFacts
    <2>1. /\ IsList(u) /\ Len(u) = Len(g) + Len(s)
          /\ \A i \in 1..Len(g) : u[i] = g[i]
          /\ \A i \in 1..Len(s) : u[Len(g) + i] = s[i]
        <3>1. IsList(s)
            BY <1>2
        <3>. QED
            BY ONLY <3>1, IsList(g), ConcatList
    <2>2. 1 \in 1..Len(s)
        BY <1>2
    <2> HIDE DEF u
    <2>. QED
        BY <1>2, <2>0, <2>1, <2>2
<1> HIDE DEF u
<1>4. ASSUME NEW i \in 1..Len(u) PROVE u[i] = f \/ \E j \in 1..Len(g) : u[i] = g[j]
    <2>1. CASE i \in 1..Len(g)
        BY <1>3, <2>1
    <2>2. CASE i \notin 1..Len(g)
        <3>1. i = Len(g) + 1
            BY <1>3, <2>2
        <3>. QED
            BY <1>2, <1>3, <3>1
    <2>. QED
        BY <2>1, <2>2
<1>5. ASSUME NEW x \in Fields(u) PROVE x \in Fields(g) \cup {f.as}
    BY <1>4 DEF Fields
<1>6. ASSUME NEW x \in Fields(g) PROVE x \in Fields(u)
    <2>1. PICK j \in 1..Len(g) : x = g[j].as
        BY DEF Fields
    <2>2. j \in 1..Len(u) /\ u[j] = g[j]
        BY <1>3
    <2>. QED
        BY <2>1, <2>2 DEF Fields
<1>7. f.as \in Fields(u)
    <2>1. Len(g) + 1 \in 1..Len(u) /\ u[Len(g) + 1] = f
        BY <1>2, <1>3
    <2>. QED
        BY <2>1 DEF Fields
<1>8. Fields(u) = Fields(g) \cup {f.as}
    BY <1>5, <1>6, <1>7
<1>. QED
    BY <1>1, <1>3, <1>4, <1>8

\* A worker reads a field of its configuration.
LEMMA TrackConfig ==
    ASSUME NEW nb, NEW w, NEW e, NEW d, NEW u, NEW g, NEW a, Tracks(nb, w, e, d, u, g, a),
           e # <<>>, Head(e) \notin AckItems, d # <<>>,
           NEW v, v = Head(d).val \/ Head(e) = "opConfig"
    PROVE  /\ Right(nb, Head(e), v)
           /\ LET next == Follow(nb, Head(e), v) \o Tail(e)
              IN  next # <<>> /\ Tracks(nb, w, next, Tail(d), u, Append(g, Field(Head(e), v)), a)
<1> DEFINE h == Head(e)
           t == Tail(e)
           x == Head(d).val
           f == Follow(nb, h, v)
           next == f \o t
           k == Append(g, Field(h, v))
<1>1. /\ IsList(e) /\ IsList(t) /\ IsList(g) /\ nb \in Nat /\ Closing(e) /\ e = <<h>> \o t
      /\ IsList(<<h>>) /\ IsList(Tail(d))
    BY HeadAndTail, OneAndRest DEF Tracks
<1>2. h # "name" /\ h # "writeAck"
    BY DEF AckItems
<1>3. /\ Right(nb, h, x)
      /\ IsList(Follow(nb, h, x)) => Fits(nb, Follow(nb, h, x) \o t, Tail(d) \o Pick(w, "send", a))
    BY <1>2, TrackRead
<1>4. Right(nb, h, v) /\ Follow(nb, h, v) = Follow(nb, h, x)
    <2>1. CASE v = x
        BY <1>3, <2>1
    <2>2. CASE h = "opConfig"
        BY <2>2, RightPlain, FollowPlain DEF Plain
    <2>. QED
        BY <2>1, <2>2
<1>5. Good(f)
    BY <1>1, <1>2, <1>4, FollowGood
<1>6. Fits(nb, next, Tail(d) \o Pick(w, "send", a))
    BY <1>3, <1>4, <1>5 DEF Good
<1>7. t # <<>> /\ Closing(t)
    BY <1>1, ClosingTail
<1> HIDE DEF f
<1>8. IsList(next) /\ Closing(next) /\ next # <<>>
    <2>1. IsList(f)
        BY <1>5 DEF Good
    <2>2. IsList(next) /\ Closing(next)
        BY <1>1, <1>5, <1>7, <2>1, ConcatList, ClosingConcat
    <2>3. next # <<>>
        BY <1>1, <1>7, <2>1, ConcatIsEmpty
    <2>. QED
        BY <2>2, <2>3
<1>9. IsList(k) /\ Fields(k) = Fields(g) \cup {h}
    BY <1>1, FieldsAppend DEF Field
<1>10. Ready(next, Fields(k))
    <2>1. Ready(t, Fields(g) \cup {h})
        BY <1>1, ReadyTail DEF Tracks
    <2>2. Ready(t, Fields(k))
        BY <1>9, <2>1
    <2>3. Ready(f, {}) /\ IsList(f)
        BY <1>5 DEF Good
    <2>. QED
        BY <1>1, <2>2, <2>3, ReadyConcat
<1>11. \A i \in 1..Len(k) : Right(nb, k[i].as, k[i].val)
    <2> SUFFICES ASSUME NEW i \in 1..Len(k) PROVE Right(nb, k[i].as, k[i].val)
        OBVIOUS
    <2>1. k[i] = Field(h, v) \/ \E j \in 1..Len(g) : k[i] = g[j]
        BY <1>1, FieldsAppend
    <2>2. CASE k[i] = Field(h, v)
        BY <1>4, <2>2 DEF Field
    <2>3. CASE \E j \in 1..Len(g) : k[i] = g[j]
        BY <2>3 DEF Tracks
    <2>. QED
        BY <2>1, <2>2, <2>3
<1>12. Len(Acks(next)) = Len(Acks(e))
    <2>1. IsList(f)
        BY <1>5 DEF Good
    <2>2. Len(Acks(next)) = Len(Acks(f)) + Len(Acks(t)) /\ Len(Acks(f)) = 0
        BY <1>1, <1>5, <2>1, CountAcks
    <2>3. Len(Acks(<<h>> \o t)) = Len(Acks(<<h>>)) + Len(Acks(t)) /\ Len(Acks(<<h>>)) = 0
        BY <1>1, CountAcks
    <2>4. Len(Acks(t)) \in Nat
        BY <1>1, CountAcks
    <2>. QED
        BY <1>1, <2>2, <2>3, <2>4
<1> HIDE DEF next, k, h, t
<1>. QED
    BY <1>1, <1>4, <1>6, <1>8, <1>9, <1>10, <1>11, <1>12 DEF Tracks, next, k, h, t, f

\* A worker reads a field of a weight.
LEMMA TrackWeight ==
    ASSUME NEW nb, NEW w, NEW e, NEW d, NEW u, NEW g, NEW a, Tracks(nb, w, e, d, u, g, a),
           e # <<>>, Head(e) \in {"index", "offset", "nBytes", "bytes"}, d # <<>>
    PROVE  Tail(e) # <<>> /\ Tracks(nb, w, Tail(e), Tail(d), u, g, a)
<1> DEFINE h == Head(e)
           t == Tail(e)
           f == Follow(nb, h, Head(d).val)
<1>1. /\ IsList(e) /\ IsList(t) /\ IsList(g) /\ nb \in Nat /\ Closing(e) /\ e = <<h>> \o t
      /\ IsList(<<h>>) /\ IsList(Tail(d)) /\ IsList(a)
    BY HeadAndTail, OneAndRest DEF Tracks
<1>2. h # "name" /\ h # "writeAck" /\ h \notin {"nBuffers", "nSyncs", "configSize"}
    BY DEF AckItems
<1>3. f = <<>>
    BY FollowPlain
<1>4. <<>> \o t = t
    BY <1>1, ConcatEmpty
<1>5. Fits(nb, t, Tail(d) \o Pick(w, "send", a))
    <2>1. IsList(f) => Fits(nb, f \o t, Tail(d) \o Pick(w, "send", a))
        BY <1>2, TrackRead
    <2>. QED
        BY <1>3, <1>4, <2>1, EmptyList
<1>6. t # <<>> /\ Closing(t)
    BY <1>1, <1>2, ClosingTail DEF AckItems
<1>7. Ready(t, Fields(g))
    <2>1. Ready(t, Fields(g) \cup {h})
        BY <1>1, ReadyTail DEF Tracks
    <2>. QED
        BY <1>2, <2>1, ReadyMore
<1>8. Len(Acks(t)) = Len(Acks(e))
    <2>1. Len(Acks(<<h>> \o t)) = Len(Acks(<<h>>)) + Len(Acks(t)) /\ Len(Acks(t)) \in Nat
        BY <1>1, CountAcks
    <2>2. Len(Acks(<<h>>)) = 0
        BY <1>2, CountAcks DEF AckItems
    <2>3. Len(Acks(e)) = Len(Acks(<<h>> \o t))
        BY <1>1
    <2>. QED
        BY ONLY <2>1, <2>2, <2>3
<1> HIDE DEF h, t, f
<1>. QED
    BY <1>1, <1>5, <1>6, <1>7, <1>8 DEF Tracks, h, t

\* A worker reads the name of a weight, or the end mark.
LEMMA TrackName ==
    ASSUME NEW nb, NEW w, NEW e, NEW d, NEW u, NEW g, NEW a, Tracks(nb, w, e, d, u, g, a),
           e # <<>>, Head(e) = "name", d # <<>>
    PROVE  LET next == Follow(nb, "name", Head(d).val)
           IN  next # <<>> /\ Tracks(nb, w, next, Tail(d), u, g, a)
<1> DEFINE t == Tail(e)
           v == Head(d).val
           f == Follow(nb, "name", v)
           four == <<"index", "offset", "nBytes", "bytes">>
           five == <<"index", "offset", "nBytes", "bytes", "name">>
           one == <<"writeAck">>
<1>1. /\ IsList(e) /\ IsList(t) /\ IsList(g) /\ nb \in Nat /\ Closing(e) /\ e = <<"name">> \o t
      /\ IsList(<<"name">>) /\ IsList(Tail(d)) /\ IsList(a)
    BY HeadAndTail, OneAndRest DEF Tracks
<1>2. t = <<>>
    BY <1>1, ClosingTail
<1>3. f = IF v = EndMark THEN one ELSE five
    BY DEF Follow
<1>4. IsList(one) /\ IsList(five) /\ IsList(four) /\ five = four \o <<"name">>
    <2>1. IsList(one)
        BY OneAndRest, EmptyList
    <2>2. IsList(four)
        BY Tuple4
    <2>3. IsList(five) /\ five = four \o <<"name">>
        BY Tuple5c
    <2>. QED
        BY <2>1, <2>2, <2>3
<1>5. Closing(one) /\ Closing(five) /\ one # <<>> /\ five # <<>>
    BY DEF Closing, AckItems
<1>6. Ready(one, Fields(g)) /\ Ready(five, Fields(g))
    <2>1. Ready(one, Fields(g))
        BY DEF Ready, Needs
    <2>2. Ready(five, Fields(g))
        BY DEF Ready, Needs
    <2>. QED
        BY <2>1, <2>2
<1>7. Len(Acks(e)) = 1
    <2>1. e = <<"name">>
        BY <1>1, <1>2, ConcatEmpty
    <2>. QED
        BY <2>1, CountAcks DEF AckItems
<1>8. Len(Acks(one)) = 1 /\ Len(Acks(five)) = 1
    <2>1. Len(Acks(one)) = 1
        BY CountAcks DEF AckItems
    <2>2. Good(four)
        BY <1>4 DEF Good, Ready, Needs, AckItems
    <2>3. Len(Acks(four)) = 0 /\ Len(Acks(<<"name">>)) = 1
        BY <2>2, CountAcks DEF AckItems
    <2> HIDE DEF four
    <2>4. Len(Acks(four \o <<"name">>)) = Len(Acks(four)) + Len(Acks(<<"name">>))
        BY <1>1, <1>4, CountAcks
    <2>5. Len(Acks(four \o <<"name">>)) = 1
        BY <2>3, <2>4
    <2>. QED
        BY <1>4, <2>1, <2>5
<1> HIDE DEF one, five, f
<1>9. IsList(f) /\ Closing(f) /\ f # <<>> /\ Ready(f, Fields(g)) /\ Len(Acks(f)) = Len(Acks(e))
    BY <1>3, <1>4, <1>5, <1>6, <1>7, <1>8
<1>10. Fits(nb, f, Tail(d) \o Pick(w, "send", a))
    <2>1. IsList(Follow(nb, Head(e), v)) =>
             Fits(nb, Follow(nb, Head(e), v) \o t, Tail(d) \o Pick(w, "send", a))
        BY TrackRead
    <2>2. f \o t = f
        BY <1>2, <1>9, ConcatEmpty
    <2>3. Follow(nb, Head(e), v) = f
        BY DEF f
    <2>. QED
        BY <1>9, <2>1, <2>2, <2>3
<1>11. Tracks(nb, w, f, Tail(d), u, g, a)
    BY <1>1, <1>9, <1>10 DEF Tracks
<1>. QED
    BY <1>9, <1>11 DEF f

\* A worker writes an ack.
LEMMA TrackAck ==
    ASSUME NEW nb, NEW w, NEW e, NEW d, NEW u, NEW g, NEW a, Tracks(nb, w, e, d, u, g, a),
           e # <<>>, Head(e) = "writeAck"
    PROVE  Tracks(nb, w, Tail(e), d, u + 1, g, a)
<1> DEFINE t == Tail(e)
<1>1. /\ IsList(e) /\ IsList(t) /\ Closing(e) /\ e = <<"writeAck">> \o t
      /\ IsList(<<"writeAck">>)
    BY HeadAndTail, OneAndRest DEF Tracks
<1>2. Fits(nb, t, d \o Pick(w, "send", a))
    <2> DEFINE R == d \o Pick(w, "send", a)
    <2>1. Fits(nb, e, R)
        BY DEF Tracks
    <2> HIDE DEF R
    <2>2. Fits(nb, t, R)
        BY <2>1, FitsStep
    <2>. QED
        BY <2>2 DEF R
<1>3. Closing(t)
    BY <1>1, ClosingTail
<1>4. Ready(t, Fields(g))
    <2>1. Ready(t, Fields(g) \cup {"writeAck"})
        BY <1>1, ReadyTail DEF Tracks
    <2>. QED
        BY <2>1, ReadyMore
<1>5. Len(Acks(e)) = 1 + Len(Acks(t)) /\ Len(Acks(t)) \in Nat
    <2>1. Len(Acks(<<"writeAck">> \o t)) = Len(Acks(<<"writeAck">>)) + Len(Acks(t)) /\ Len(Acks(t)) \in Nat
        BY <1>1, CountAcks
    <2>2. Len(Acks(<<"writeAck">>)) = 1
        BY CountAcks DEF AckItems
    <2>. QED
        BY <1>1, <2>1, <2>2
<1> HIDE DEF t
<1>6. (u + 1) + Len(Acks(t)) = Len(Pick(w, "await", a)) /\ u + 1 \in Nat
    BY <1>5 DEF Tracks
<1>. QED
    BY <1>1, <1>2, <1>3, <1>4, <1>6 DEF Tracks, t

\* An entry that may be read next has what it needs.
LEMMA ReadyHead ==
    ASSUME NEW e, NEW K, IsList(e), e # <<>>, Ready(e, K), NEW x, Needs(Head(e), x)
    PROVE  x \in K
<1>1. 1 \in 1..Len(e) /\ e[1] = Head(e)
    BY HeadAndTail
<1>2. x \in K \/ \E j \in 1..(1 - 1) : e[j] = x
    BY <1>1 DEF Ready
<1>. QED
    BY <1>2

\* The last field of a kind that was read.
LEMMA LatestRight ==
    ASSUME NEW nb, NEW w, NEW as, IsList(got[w]), as \in Fields(got[w]),
           \A i \in 1..Len(got[w]) : Right(nb, got[w][i].as, got[w][i].val)
    PROVE  Right(nb, as, Latest(w, as))
<1> DEFINE g == got[w]
           n == Len(g)
           D == {k \in Nat : \E i \in 1..n : g[i].as = as /\ k = n - i}
           P(i) == g[i].as = as /\ \A j \in DOMAIN g : g[j].as = as => j <= i
<1>1. n \in Nat /\ DOMAIN g = 1..n
    BY ListFacts
<1>2. D \in SUBSET Nat /\ D # {}
    <2>1. PICK i \in 1..n : as = g[i].as
        BY DEF Fields
    <2>2. n - i \in Nat
        BY <1>1
    <2>3. n - i \in D
        BY <2>1, <2>2
    <2>. QED
        BY <2>3
<1>3. PICK k \in D : \A y \in D : k <= y
    <2> HIDE DEF D
    <2>. QED
        BY <1>2, LeastNumber
<1>4. PICK i \in 1..n : g[i].as = as /\ k = n - i
    BY <1>3
<1>5. ASSUME NEW j \in DOMAIN g, g[j].as = as PROVE j <= i
    <2>1. j \in 1..n /\ n - j \in Nat
        BY <1>1
    <2>2. n - j \in D
        BY <1>5, <2>1
    <2>3. k <= n - j
        BY <1>3, <2>2
    <2>. QED
        BY <1>1, <1>4, <2>1, <2>3
<1>6. i \in DOMAIN g /\ P(i)
    BY <1>1, <1>4, <1>5
<1> DEFINE c == CHOOSE m \in DOMAIN g : P(m)
<1>7. c \in DOMAIN g /\ P(c)
    <2> HIDE DEF P
    <2>. QED
        BY <1>6
<1>8. Latest(w, as) = g[c].val
    BY DEF Latest
<1> HIDE DEF c
<1>. QED
    BY <1>1, <1>7, <1>8

\* The worker takes for the number of entries that follow what the root meant.
LEMMA FollowedAsWritten ==
    ASSUME NEW nb, NEW w, NEW e, NEW v, IsList(got[w]), IsList(e), e # <<>>,
           \A i \in 1..Len(got[w]) : Right(nb, got[w][i].as, got[w][i].val),
           Ready(e, Fields(got[w])), Head(e) # "name"
    PROVE  FollowedBy(w, Head(e), v) = Follow(nb, Head(e), v)
<1> DEFINE h == Head(e)
<1>1. ASSUME NEW x, Needs(h, x) PROVE Right(nb, x, Latest(w, x))
    <2>1. x \in Fields(got[w])
        BY <1>1, ReadyHead
    <2>. QED
        BY <2>1, LatestRight
<1> HIDE DEF h
<1>2. CASE h = "nSegments"
    <2>1. Latest(w, "nBuffers") = nb
        BY <1>1, <1>2 DEF Needs, Right
    <2>. QED
        BY <1>2, <2>1 DEF FollowedBy, Follow, h
<1>3. CASE h = "nOps"
    <2>1. Latest(w, "nSyncs") = 1
        BY <1>1, <1>3 DEF Needs, Right
    <2>. QED
        BY <1>3, <2>1 DEF FollowedBy, Follow, h
<1>4. CASE h = "opOutput"
    <2>1. Latest(w, "configSize") > 0
        BY <1>1, <1>4 DEF Needs, Right
    <2>2. If(Latest(w, "configSize") > 0, <<"opConfig">>) = <<"opConfig">>
        BY <2>1 DEF If
    <2>. QED
        BY <1>4, <2>2 DEF FollowedBy, Follow, h
<1>5. CASE h = "nPipes"
    BY <1>5 DEF FollowedBy, Follow, h
<1>6. CASE h = "nPreSyncs"
    BY <1>6 DEF FollowedBy, Follow, h
<1>7. CASE h \notin {"nPipes", "nPreSyncs", "nSegments", "nOps", "opOutput"}
    <2>1. h # "name"
        BY DEF h
    <2>2. FollowedBy(w, h, v) = <<>>
        BY <1>7 DEF FollowedBy
    <2>3. Follow(nb, h, v) = <<>>
        BY <1>7, <2>1, FollowPlain
    <2>. QED
        BY <2>2, <2>3 DEF h
<1>. QED
    BY <1>2, <1>3, <1>4, <1>5, <1>6, <1>7

-----------------------------------------------------------------------------
\* The inductive invariant of bring-up: every worker that lives reads the stream
\* as the root writes it, and acks as often as the root will wait for.
AheadAt(h, k) == [i \in 1..(Len(Todos[h]) + 1 - k) |-> Todos[h][k - 1 + i]]
WorkerOK(w) ==
    status[w] # "ended" =>
        /\ Tracks(Len(Buffers(hdr, w)), w, expect[w], down[w], up[w], got[w], AheadAt(hdr, step))
        /\ status[w] = IF expect[w] = <<>> THEN "serving" ELSE "loading"
OnWorkers(f) == f = [w \in Workers |-> f[w]]
LoadOK ==
    /\ hdr \in Headers /\ step \in Nat \ {0}
    /\ OnWorkers(down) /\ OnWorkers(up) /\ OnWorkers(expect) /\ OnWorkers(got)
    /\ status = [n \in Nodes |-> status[n]]
    /\ status[0] = "serving" => ~ (step <= Len(Todos[hdr]))
    /\ \A w \in Workers : WorkerOK(w)

LEMMA AheadMoves ==
    ASSUME NEW h \in Headers, IsList(Todos[h]), NEW k \in Nat \ {0}
    PROVE  IF k <= Len(Todos[h])
           THEN /\ AheadAt(h, k) # <<>>
                /\ Head(AheadAt(h, k)) = Todos[h][k]
                /\ Tail(AheadAt(h, k)) = AheadAt(h, k + 1)
           ELSE AheadAt(h, k) = <<>>
<1> DEFINE s == Todos[h]
           n == Len(s)
           a == AheadAt(h, k)
           b == AheadAt(h, k + 1)
<1>1. n \in Nat
    BY ListFacts
<1>2. CASE k <= n
    <2>1. n + 1 - k \in Nat /\ n + 1 - (k + 1) \in Nat /\ (n + 1 - (k + 1)) + 1 = n + 1 - k
        <3> HIDE DEF n
        <3>1. n \in Nat /\ k \in Nat /\ k # 0 /\ k <= n
            BY <1>1, <1>2
        <3>. QED
            BY ONLY <3>1
    <2> DEFINE m == n + 1 - k
               p == n + 1 - (k + 1)
    <2>2. a = [i \in 1..m |-> s[k - 1 + i]] /\ b = [i \in 1..p |-> s[k + 1 - 1 + i]]
        BY DEF AheadAt
    <2>3. m \in Nat /\ p \in Nat /\ p + 1 = m
        BY <2>1
    <2> HIDE DEF m, p, a, b, n
    <2>4. a = [i \in 1..m |-> a[i]] /\ b = [i \in 1..p |-> b[i]]
        BY <2>2
    <2>5. IsList(a) /\ Len(a) = m /\ IsList(b) /\ Len(b) = p
        BY <2>3, <2>4, Listed
    <2>6. a # <<>>
        BY <2>3, <2>5, EmptyList
    <2> DEFINE t == Tail(a)
    <2>7. IsList(t) /\ Len(t) = Len(a) - 1 /\ Head(a) = a[1] /\ \A i \in 1..Len(t) : t[i] = a[i + 1]
        BY <2>5, <2>6, HeadAndTail
    <2> HIDE DEF t
    <2>8. Len(t) = p
        BY <2>3, <2>5, <2>7
    <2>9. a[1] = s[k]
        <3>1. 1 \in 1..m /\ k - 1 + 1 = k
            BY <2>3
        <3>. QED
            BY <2>2, <3>1
    <2>10. ASSUME NEW i \in 1..Len(t) PROVE t[i] = b[i]
        <3>1. i \in 1..p /\ i + 1 \in 1..m /\ k - 1 + (i + 1) = k + 1 - 1 + i
            BY <2>3, <2>8
        <3>2. a[i + 1] = s[k - 1 + (i + 1)] /\ b[i] = s[k + 1 - 1 + i]
            BY <2>2, <3>1
        <3>. QED
            BY <2>7, <3>1, <3>2
    <2>11. t = b
        BY <2>5, <2>7, <2>8, <2>10, EqualLists
    <2>. QED
        BY <1>2, <2>6, <2>7, <2>9, <2>11 DEF a, b, t, n
<1>3. CASE ~ (k <= n)
    <2>1. 1..(n + 1 - k) = {}
        BY <1>1, <1>3
    <2>2. a = <<>>
        BY <2>1 DEF AheadAt
    <2>. QED
        BY <1>3, <2>2
<1>. QED
    BY <1>2, <1>3

LEMMA TodosListed == ASSUME NEW h \in Headers, NEW w \in 1..(h.nodes - 1) PROVE IsList(Todos[h])
  BY FitsStart DEF Todos

\* A component of an array of the workers is changed.
LEMMA Updated ==
    ASSUME NEW D, NEW f, f = [x \in D |-> f[x]], NEW y, NEW v
    PROVE  LET g == [f EXCEPT ![y] = v]
           IN  /\ g = [x \in D |-> g[x]]
               /\ y \in D => g[y] = v
               /\ \A x \in D : x # y => g[x] = f[x]
<1> DEFINE g == [f EXCEPT ![y] = v]
<1>1. g = [x \in D |-> IF x = y THEN v ELSE f[x]]
    OBVIOUS
<1> HIDE DEF g
<1>2. g = [x \in D |-> g[x]]
    BY <1>1
<1>3. /\ y \in D => g[y] = v
      /\ \A x \in D : x # y => g[x] = f[x]
    BY <1>1
<1>. QED
    BY <1>2, <1>3 DEF g

\* Nothing that concerns a worker has changed.
LEMMA WorkerKept ==
    ASSUME NEW w, WorkerOK(w), hdr' = hdr, step' = step, expect'[w] = expect[w], down'[w] = down[w],
           up'[w] = up[w], got'[w] = got[w], status'[w] = status[w]
    PROVE  WorkerOK(w)'
  BY DEF WorkerOK

LEMMA WorkerEnded == ASSUME NEW w, status'[w] = "ended" PROVE WorkerOK(w)'
  BY DEF WorkerOK

\* The root has done the next thing on its list.
LEMMA WorkerMoved ==
    ASSUME NEW w, hdr' = hdr, step' = step + 1, hdr \in Headers, IsList(Todos[hdr]),
           step \in Nat \ {0}, step <= Len(Todos[hdr]),
           status'[w] = status[w], expect'[w] = expect[w],
           status[w] # "ended" =>
              /\ Tracks(Len(Buffers(hdr, w)), w, expect[w], down'[w], up'[w], got'[w],
                        Tail(AheadAt(hdr, step)))
              /\ status[w] = IF expect[w] = <<>> THEN "serving" ELSE "loading"
    PROVE  WorkerOK(w)'
<1>1. Tail(AheadAt(hdr, step)) = AheadAt(hdr, step + 1)
    BY AheadMoves
<1>2. AheadAt(hdr, step + 1) = AheadAt(hdr, step)'
    BY DEF AheadAt
<1>. QED
    BY <1>1, <1>2 DEF WorkerOK

LEMMA TaskIsNext ==
    ASSUME LoadOK, NEW task \in Tasks, NEW w \in Workers
    PROVE  /\ step <= Len(Todos[hdr]) /\ status[0] = "loading" /\ IsList(Todos[hdr])
           /\ AheadAt(hdr, step) # <<>> /\ Head(AheadAt(hdr, step)) = task
<1>1. step <= Len(Todos[hdr]) /\ status[0] = "loading" /\ task = Todos[hdr][step]
    BY DEF Tasks
<1>2. IsList(Todos[hdr])
    BY TodosListed DEF LoadOK, Workers
<1>3. AheadAt(hdr, step) # <<>> /\ Head(AheadAt(hdr, step)) = Todos[hdr][step]
    BY <1>1, <1>2, AheadMoves DEF LoadOK
<1>. QED
    BY <1>1, <1>2, <1>3

LEMMA RootSendOK ==
    ASSUME LoadOK, NEW task \in Tasks, RootSend(task)
    PROVE  LoadOK'
<1> DEFINE v == task.node
<1>1. task.do = "send" /\ step' = step + 1
      /\ UNCHANGED <<hdr, up, expect, got, blob, weights, status, crashes>>
    BY DEF RootSend
<1>2. status[0] = "loading"
    BY DEF Tasks
<1>3. CASE status[v] = "ended"
    <2>1. down' = down
        BY <1>3 DEF RootSend
    <2>2. ASSUME NEW w \in Workers PROVE WorkerOK(w)'
        <3>1. /\ step <= Len(Todos[hdr]) /\ IsList(Todos[hdr])
              /\ AheadAt(hdr, step) # <<>> /\ Head(AheadAt(hdr, step)) = task
            BY TaskIsNext
        <3>2. CASE status[w] = "ended"
            BY <1>1, <3>2, WorkerEnded
        <3>3. CASE status[w] # "ended"
            <4>1. v # w
                BY <1>3, <3>3
            <4>2. /\ Tracks(Len(Buffers(hdr, w)), w, expect[w], down[w], up[w], got[w], AheadAt(hdr, step))
                  /\ status[w] = IF expect[w] = <<>> THEN "serving" ELSE "loading"
                BY <3>3 DEF LoadOK, WorkerOK
            <4>3. Tracks(Len(Buffers(hdr, w)), w, expect[w], down[w], up[w], got[w],
                         Tail(AheadAt(hdr, step)))
                BY <3>1, <4>1, <4>2, TrackPass
            <4>. QED
                BY <1>1, <2>1, <3>1, <4>2, <4>3, WorkerMoved DEF LoadOK
        <3>. QED
            BY <3>2, <3>3
    <2>. QED
        BY <1>1, <1>2, <2>1, <2>2 DEF LoadOK, OnWorkers, Workers, Nodes, NodesOf
<1>4. CASE status[v] # "ended"
    <2>1. down' = [down EXCEPT ![v] = Append(down[v], task.field)]
        BY <1>4 DEF RootSend
    <2>2. /\ OnWorkers(down)'
          /\ v \in Workers => down'[v] = Append(down[v], task.field)
          /\ \A w \in Workers : w # v => down'[w] = down[w]
        BY <1>1, <2>1, Updated DEF LoadOK, OnWorkers, Workers
    <2>3. ASSUME NEW w \in Workers PROVE WorkerOK(w)'
        <3>1. /\ step <= Len(Todos[hdr]) /\ IsList(Todos[hdr])
              /\ AheadAt(hdr, step) # <<>> /\ Head(AheadAt(hdr, step)) = task
            BY TaskIsNext
        <3>2. CASE status[w] = "ended"
            BY <1>1, <3>2, WorkerEnded
        <3>3. CASE status[w] # "ended"
            <4>2. /\ Tracks(Len(Buffers(hdr, w)), w, expect[w], down[w], up[w], got[w], AheadAt(hdr, step))
                  /\ status[w] = IF expect[w] = <<>> THEN "serving" ELSE "loading"
                BY <3>3 DEF LoadOK, WorkerOK
            <4>3. Tracks(Len(Buffers(hdr, w)), w, expect[w], down'[w], up[w], got[w],
                         Tail(AheadAt(hdr, step)))
                <5>1. CASE v = w
                    <6>1. down'[w] = Append(down[w], task.field)
                        BY <2>2, <5>1
                    <6>2. Head(AheadAt(hdr, step)).do = "send" /\ Head(AheadAt(hdr, step)).node = w
                          /\ Head(AheadAt(hdr, step)).field = task.field
                        BY <1>1, <3>1, <5>1
                    <6>. QED
                        BY <3>1, <4>2, <6>1, <6>2, TrackSend
                <5>2. CASE v # w
                    <6>1. down'[w] = down[w]
                        BY <2>2, <5>2
                    <6>. QED
                        BY <3>1, <4>2, <5>2, <6>1, TrackPass
                <5>. QED
                    BY <5>1, <5>2
            <4>. QED
                BY <1>1, <3>1, <4>2, <4>3, WorkerMoved DEF LoadOK
        <3>. QED
            BY <3>2, <3>3
    <2>. QED
        BY <1>1, <1>2, <2>2, <2>3 DEF LoadOK, OnWorkers, Workers, Nodes, NodesOf
<1>. QED
    BY <1>3, <1>4

LEMMA RootReadAckOK ==
    ASSUME LoadOK, NEW task \in Tasks, RootReadAck(task)
    PROVE  LoadOK'
<1> DEFINE v == task.node
<1>1. task.do = "await" /\ step' = step + 1 /\ up[v] > 0 /\ up' = [up EXCEPT ![v] = up[v] - 1]
      /\ UNCHANGED <<hdr, down, expect, got, blob, weights, status, crashes>>
    BY DEF RootReadAck
<1>2. status[0] = "loading"
    BY DEF Tasks
<1>3. /\ OnWorkers(up)'
      /\ v \in Workers => up'[v] = up[v] - 1
      /\ \A w \in Workers : w # v => up'[w] = up[w]
    BY <1>1, Updated DEF LoadOK, OnWorkers, Workers
<1>4. ASSUME NEW w \in Workers PROVE WorkerOK(w)'
    <3>1. /\ step <= Len(Todos[hdr]) /\ IsList(Todos[hdr])
          /\ AheadAt(hdr, step) # <<>> /\ Head(AheadAt(hdr, step)) = task
        BY TaskIsNext
    <3>2. CASE status[w] = "ended"
        BY <1>1, <3>2, WorkerEnded
    <3>3. CASE status[w] # "ended"
        <4>2. /\ Tracks(Len(Buffers(hdr, w)), w, expect[w], down[w], up[w], got[w], AheadAt(hdr, step))
              /\ status[w] = IF expect[w] = <<>> THEN "serving" ELSE "loading"
            BY <3>3 DEF LoadOK, WorkerOK
        <4>3. Tracks(Len(Buffers(hdr, w)), w, expect[w], down[w], up'[w], got[w],
                     Tail(AheadAt(hdr, step)))
            <5>1. CASE v = w
                <6>1. Tracks(Len(Buffers(hdr, w)), w, expect[w], down[w], up[w] - 1, got[w],
                             Tail(AheadAt(hdr, step)))
                    BY <1>1, <3>1, <4>2, <5>1, TrackAwait
                <6>. QED
                    BY <1>3, <5>1, <6>1
            <5>2. CASE v # w
                <6>1. up'[w] = up[w]
                    BY <1>3, <5>2
                <6>. QED
                    BY <3>1, <4>2, <5>2, <6>1, TrackPass
            <5>. QED
                BY <5>1, <5>2
        <4>. QED
            BY <1>1, <3>1, <4>2, <4>3, WorkerMoved DEF LoadOK
    <3>. QED
        BY <3>2, <3>3
<1>. QED
    BY <1>1, <1>2, <1>3, <1>4 DEF LoadOK, OnWorkers, Workers, Nodes, NodesOf

\* The root loads its own part, or compares sizes.
LEMMA RootAloneOK ==
    ASSUME LoadOK, NEW task \in Tasks, RootLoad(task) \/ RootCheck(task)
    PROVE  LoadOK'
<1>1. task.do \notin {"send", "await"} /\ step' = step + 1
      /\ UNCHANGED <<hdr, down, up, expect, got, status>>
    BY DEF RootLoad, RootCheck
<1>2. status[0] = "loading"
    BY DEF Tasks
<1>3. ASSUME NEW w \in Workers PROVE WorkerOK(w)'
    <3>1. /\ step <= Len(Todos[hdr]) /\ IsList(Todos[hdr])
          /\ AheadAt(hdr, step) # <<>> /\ Head(AheadAt(hdr, step)) = task
        BY TaskIsNext
    <3>2. CASE status[w] = "ended"
        BY <1>1, <3>2, WorkerEnded
    <3>3. CASE status[w] # "ended"
        <4>2. /\ Tracks(Len(Buffers(hdr, w)), w, expect[w], down[w], up[w], got[w], AheadAt(hdr, step))
              /\ status[w] = IF expect[w] = <<>> THEN "serving" ELSE "loading"
            BY <3>3 DEF LoadOK, WorkerOK
        <4>3. Tracks(Len(Buffers(hdr, w)), w, expect[w], down[w], up[w], got[w],
                     Tail(AheadAt(hdr, step)))
            BY <1>1, <3>1, <4>2, TrackPass
        <4>. QED
            BY <1>1, <3>1, <4>2, <4>3, WorkerMoved DEF LoadOK
    <3>. QED
        BY <3>2, <3>3
<1>. QED
    BY <1>1, <1>2, <1>3 DEF LoadOK, OnWorkers, Workers, Nodes, NodesOf

\* The root serves or ends.
LEMMA RootStatusOK ==
    ASSUME LoadOK, NEW s, s = "serving" => ~ (step <= Len(Todos[hdr])),
           status' = [status EXCEPT ![0] = s],
           UNCHANGED <<hdr, step, down, up, expect, got>>
    PROVE  LoadOK'
<1>0. hdr.nodes \in Nat \ {0} /\ 0 \in Nodes /\ Workers \subseteq Nodes /\ 0 \notin Workers
    BY HeaderAssumption DEF LoadOK, Nodes, NodesOf, Workers
<1>1. /\ status' = [n \in Nodes |-> status'[n]] /\ status'[0] = s
      /\ \A w \in Workers : status'[w] = status[w]
    BY <1>0, Updated DEF LoadOK
<1>2. ASSUME NEW w \in Workers PROVE WorkerOK(w)'
    BY <1>1, WorkerKept DEF LoadOK
<1>. QED
    BY <1>1, <1>2 DEF LoadOK, OnWorkers, Workers, Nodes, NodesOf

LEMMA RootStepOK ==
    ASSUME LoadOK, RootStep
    PROVE  LoadOK'
<1>1. ASSUME NEW task \in Tasks,
             RootSend(task) \/ RootReadAck(task) \/ RootLoad(task) \/ RootCheck(task) \/ RootRaise(task)
      PROVE  LoadOK'
    <2>1. CASE RootRaise(task)
        BY <2>1, RootStatusOK DEF RootRaise
    <2>. QED
        BY <1>1, <2>1, RootSendOK, RootReadAckOK, RootAloneOK
<1>2. CASE RootServe
    <2>1. ~ (step <= Len(Todos[hdr]))
        BY <1>2 DEF RootServe, Tasks
    <2>. QED
        BY <1>2, <2>1, RootStatusOK DEF RootServe
<1>. QED
    BY <1>1, <1>2 DEF RootStep

\* A step of one worker leaves the others alone.
LEMMA WorkerStepped ==
    ASSUME LoadOK, NEW w \in Workers, UNCHANGED <<hdr, step>>,
           OnWorkers(down)', OnWorkers(up)', OnWorkers(expect)', OnWorkers(got)',
           status' = [n \in Nodes |-> status'[n]],
           \A v \in Workers : v # w => /\ expect'[v] = expect[v] /\ down'[v] = down[v]
                                       /\ up'[v] = up[v] /\ got'[v] = got[v],
           \A n \in Nodes : n # w => status'[n] = status[n],
           WorkerOK(w)'
    PROVE  LoadOK'
<1>0. hdr.nodes \in Nat \ {0} /\ 0 \in Nodes /\ Workers \subseteq Nodes /\ 0 # w
    BY HeaderAssumption DEF LoadOK, Nodes, NodesOf, Workers
<1>1. status'[0] = status[0]
    BY <1>0
<1>2. ASSUME NEW v \in Workers, v # w PROVE WorkerOK(v)'
    BY <1>0, <1>2, WorkerKept DEF LoadOK
<1>. QED
    BY <1>1, <1>2 DEF LoadOK, Workers, Nodes, NodesOf

\* What a worker is about to read.
LEMMA ReadingWorker ==
    ASSUME LoadOK, NEW w \in Workers, status[w] = "loading"
    PROVE  /\ expect[w] # <<>>
           /\ Tracks(Len(Buffers(hdr, w)), w, expect[w], down[w], up[w], got[w], AheadAt(hdr, step))
  BY DEF LoadOK, WorkerOK

LEMMA ReadConfigOK ==
    ASSUME LoadOK, NEW w \in Workers, ReadConfig(w)
    PROVE  LoadOK'
<1> DEFINE as == Head(expect[w])
           val == IF as = "opConfig" THEN Unpack(Latest(w, "opCode"), Head(down[w]).val)
                                     ELSE Head(down[w]).val
           next == FollowedBy(w, as, val) \o Tail(expect[w])
           k == Append(got[w], Field(as, val))
           nb == Len(Buffers(hdr, w))
           a == AheadAt(hdr, step)
<1>1. /\ status[w] = "loading" /\ as # "writeAck" /\ as \notin WeightFields /\ down[w] # <<>>
      /\ got' = [got EXCEPT ![w] = k]
      /\ expect' = [expect EXCEPT ![w] = next]
      /\ down' = [down EXCEPT ![w] = Tail(down[w])]
      /\ UNCHANGED <<hdr, step, up, status>>
    BY DEF ReadConfig, Reading
<1>2. as \notin AckItems
    BY <1>1 DEF AckItems, WeightFields
<1>3. val = Head(down[w]).val \/ as = "opConfig"
    OBVIOUS
<1>4. expect[w] # <<>> /\ Tracks(nb, w, expect[w], down[w], up[w], got[w], a)
    BY <1>1, ReadingWorker
<1>5. FollowedBy(w, as, val) = Follow(nb, as, val)
    <2> HIDE DEF val
    <2>. QED
        BY <1>2, <1>4, FollowedAsWritten DEF Tracks, AckItems
<1> HIDE DEF val, nb, a
<1>6. next # <<>> /\ Tracks(nb, w, next, Tail(down[w]), up[w], k, a)
    <2>1. LET nx == Follow(nb, Head(expect[w]), val) \o Tail(expect[w])
          IN  nx # <<>> /\ Tracks(nb, w, nx, Tail(down[w]), up[w],
                                  Append(got[w], Field(Head(expect[w]), val)), a)
        BY <1>1, <1>2, <1>3, <1>4, TrackConfig
    <2>. QED
        BY <1>5, <2>1
<1> HIDE DEF next, k, as
<1>7. /\ OnWorkers(down)' /\ OnWorkers(expect)' /\ OnWorkers(got)'
      /\ down'[w] = Tail(down[w]) /\ expect'[w] = next /\ got'[w] = k
      /\ \A v \in Workers : v # w => /\ expect'[v] = expect[v] /\ down'[v] = down[v] /\ got'[v] = got[v]
    BY <1>1, Updated DEF LoadOK, OnWorkers, Workers
<1>8. OnWorkers(up)' /\ status' = [n \in Nodes |-> status'[n]]
    BY <1>1 DEF LoadOK, OnWorkers, Workers, Nodes, NodesOf
<1>9. WorkerOK(w)'
    BY <1>1, <1>6, <1>7 DEF WorkerOK, AheadAt, nb, a
<1>. QED
    BY <1>1, <1>7, <1>8, <1>9, WorkerStepped

\* The name of a weight, or the end mark, is followed by what Follow says.
LEMMA NameFollows ==
    ASSUME NEW w, ReadName(w)
    PROVE  expect' = [expect EXCEPT ![w] = Follow(Len(Buffers(hdr, w)), "name", Head(down[w]).val)]
<1> DEFINE v == Head(down[w]).val
           f == Follow(Len(Buffers(hdr, w)), "name", v)
<1>1. f = IF v = EndMark THEN <<"writeAck">> ELSE <<"index", "offset", "nBytes", "bytes", "name">>
    BY DEF Follow
<1>2. CASE v = EndMark
    <2>1. expect' = [expect EXCEPT ![w] = <<"writeAck">>]
        BY <1>2, Zenon DEF ReadName, EndMark
    <2>. QED
        BY <1>1, <1>2, <2>1
<1>3. CASE v # EndMark
    <2>1. expect' = [expect EXCEPT ![w] = <<"index", "offset", "nBytes", "bytes", "name">>]
        BY <1>3, Zenon DEF ReadName, EndMark
    <2>. QED
        BY <1>1, <1>3, <2>1
<1>. QED
    BY <1>2, <1>3

LEMMA ReadNameOK ==
    ASSUME LoadOK, NEW w \in Workers, ReadName(w)
    PROVE  LoadOK'
<1> DEFINE nb == Len(Buffers(hdr, w))
           next == Follow(nb, "name", Head(down[w]).val)
           a == AheadAt(hdr, step)
<1>1. /\ status[w] = "loading" /\ Head(expect[w]) = "name" /\ down[w] # <<>>
      /\ down' = [down EXCEPT ![w] = Tail(down[w])]
      /\ UNCHANGED <<hdr, step, up, got, status>>
    BY Zenon DEF ReadName, Reading
<1>2. expect' = [expect EXCEPT ![w] = next]
    BY NameFollows
<1>3. expect[w] # <<>> /\ Tracks(nb, w, expect[w], down[w], up[w], got[w], a)
    BY <1>1, ReadingWorker
<1> HIDE DEF nb, a
<1>4. next # <<>> /\ Tracks(nb, w, next, Tail(down[w]), up[w], got[w], a)
    BY <1>1, <1>3, TrackName
<1> HIDE DEF next
<1>5. /\ OnWorkers(down)' /\ OnWorkers(expect)'
      /\ down'[w] = Tail(down[w]) /\ expect'[w] = next
      /\ \A v \in Workers : v # w => expect'[v] = expect[v] /\ down'[v] = down[v]
    BY <1>1, <1>2, Updated DEF LoadOK, OnWorkers, Workers
<1>6. OnWorkers(up)' /\ OnWorkers(got)' /\ status' = [n \in Nodes |-> status'[n]]
    BY <1>1 DEF LoadOK, OnWorkers, Workers, Nodes, NodesOf
<1>7. WorkerOK(w)'
    BY <1>1, <1>4, <1>5 DEF WorkerOK, AheadAt, nb, a
<1>. QED
    BY <1>1, <1>5, <1>6, <1>7, WorkerStepped

LEMMA ReadWeightOK ==
    ASSUME LoadOK, NEW w \in Workers, ReadWeight(w)
    PROVE  LoadOK'
<1> DEFINE nb == Len(Buffers(hdr, w))
           next == Tail(expect[w])
           a == AheadAt(hdr, step)
<1>1. /\ status[w] = "loading" /\ Head(expect[w]) \in {"index", "offset", "nBytes", "bytes"}
      /\ down[w] # <<>>
      /\ down' = [down EXCEPT ![w] = Tail(down[w])]
      /\ expect' = [expect EXCEPT ![w] = next]
      /\ UNCHANGED <<hdr, step, up, got, status>>
    BY DEF ReadWeight, Reading, WeightFields
<1>3. expect[w] # <<>> /\ Tracks(nb, w, expect[w], down[w], up[w], got[w], a)
    BY <1>1, ReadingWorker
<1> HIDE DEF nb, a
<1>4. next # <<>> /\ Tracks(nb, w, next, Tail(down[w]), up[w], got[w], a)
    BY <1>1, <1>3, TrackWeight
<1> HIDE DEF next
<1>5. /\ OnWorkers(down)' /\ OnWorkers(expect)'
      /\ down'[w] = Tail(down[w]) /\ expect'[w] = next
      /\ \A v \in Workers : v # w => expect'[v] = expect[v] /\ down'[v] = down[v]
    BY <1>1, Updated DEF LoadOK, OnWorkers, Workers
<1>6. OnWorkers(up)' /\ OnWorkers(got)' /\ status' = [n \in Nodes |-> status'[n]]
    BY <1>1 DEF LoadOK, OnWorkers, Workers, Nodes, NodesOf
<1>7. WorkerOK(w)'
    BY <1>1, <1>4, <1>5 DEF WorkerOK, AheadAt, nb, a
<1>. QED
    BY <1>1, <1>5, <1>6, <1>7, WorkerStepped

LEMMA WriteAckOK ==
    ASSUME LoadOK, NEW w \in Workers, WriteAck(w)
    PROVE  LoadOK'
<1> DEFINE nb == Len(Buffers(hdr, w))
           next == Tail(expect[w])
           a == AheadAt(hdr, step)
<1>0. w \in Nodes
    BY DEF Workers, Nodes, NodesOf
<1>1. /\ status[w] = "loading" /\ Head(expect[w]) = "writeAck"
      /\ up' = [up EXCEPT ![w] = up[w] + 1]
      /\ expect' = [expect EXCEPT ![w] = next]
      /\ status' = IF Len(expect[w]) = 1 THEN [status EXCEPT ![w] = "serving"] ELSE status
      /\ UNCHANGED <<hdr, step, down, got>>
    BY DEF WriteAck
<1>3. expect[w] # <<>> /\ Tracks(nb, w, expect[w], down[w], up[w], got[w], a)
    BY <1>1, ReadingWorker
<1>2. next = <<>> <=> Len(expect[w]) = 1
    <2>1. IsList(expect[w])
        BY <1>3 DEF Tracks
    <2>2. IsList(next) /\ Len(next) = Len(expect[w]) - 1 /\ Len(expect[w]) \in Nat
        BY <1>3, <2>1, HeadAndTail
    <2>3. Len(next) = 0 <=> next = <<>>
        BY <2>2, ListFacts
    <2> HIDE DEF next
    <2>. QED
        BY <2>2, <2>3
<1> HIDE DEF nb, a
<1>4. Tracks(nb, w, next, down[w], up[w] + 1, got[w], a)
    BY <1>1, <1>3, TrackAck
<1> HIDE DEF next
<1>5. /\ OnWorkers(up)' /\ OnWorkers(expect)'
      /\ up'[w] = up[w] + 1 /\ expect'[w] = next
      /\ \A v \in Workers : v # w => expect'[v] = expect[v] /\ up'[v] = up[v]
    BY <1>1, Updated DEF LoadOK, OnWorkers, Workers
<1>6. OnWorkers(down)' /\ OnWorkers(got)'
    BY <1>1 DEF LoadOK, OnWorkers, Workers
<1>7. /\ status' = [n \in Nodes |-> status'[n]]
      /\ status'[w] = IF next = <<>> THEN "serving" ELSE "loading"
      /\ \A n \in Nodes : n # w => status'[n] = status[n]
    <2>1. CASE Len(expect[w]) = 1
        <3>1. status' = [status EXCEPT ![w] = "serving"] /\ status = [n \in Nodes |-> status[n]]
            BY <1>1, <2>1 DEF LoadOK
        <3>2. Nodes' = Nodes
            BY <1>1 DEF Nodes, NodesOf
        <3>. QED
            BY <1>0, <1>2, <2>1, <3>1, <3>2, Updated
    <2>2. CASE Len(expect[w]) # 1
        <3>1. status' = status /\ status = [n \in Nodes |-> status[n]]
            BY <1>1, <2>2 DEF LoadOK
        <3>. QED
            BY <1>1, <1>2, <2>2, <3>1
    <2>. QED
        BY <2>1, <2>2
<1>8. WorkerOK(w)'
    BY <1>1, <1>4, <1>5, <1>7 DEF WorkerOK, AheadAt, nb, a
<1>9. status' = [n \in Nodes |-> status'[n]]
    BY <1>7
<1>. QED
    BY <1>1, <1>5, <1>6, <1>7, <1>8, <1>9, WorkerStepped

LEMMA WorkerEndOK ==
    ASSUME LoadOK, NEW w \in Workers, WorkerEnd(w)
    PROVE  LoadOK'
<1>1. /\ status' = [status EXCEPT ![w] = "ended"] /\ down' = [down EXCEPT ![w] = <<>>]
      /\ expect' = [expect EXCEPT ![w] = <<>>] /\ got' = [got EXCEPT ![w] = <<>>]
      /\ UNCHANGED <<hdr, step, up>>
    BY DEF WorkerEnd
<1>2. w \in Nodes /\ status = [n \in Nodes |-> status[n]]
    BY DEF Workers, Nodes, NodesOf, LoadOK
<1>3. /\ status' = [n \in Nodes |-> status'[n]] /\ status'[w] = "ended"
      /\ \A n \in Nodes : n # w => status'[n] = status[n]
    BY <1>1, <1>2, Updated
<1>4. /\ OnWorkers(down)' /\ OnWorkers(expect)' /\ OnWorkers(got)'
      /\ \A v \in Workers : v # w => /\ expect'[v] = expect[v] /\ down'[v] = down[v] /\ got'[v] = got[v]
    BY <1>1, Updated DEF LoadOK, OnWorkers, Workers
<1>5. OnWorkers(up)' /\ up' = up
    BY <1>1 DEF LoadOK, OnWorkers, Workers
<1>6. WorkerOK(w)'
    BY <1>3, WorkerEnded
<1>. QED
    BY <1>1, <1>3, <1>4, <1>5, <1>6, WorkerStepped

LEMMA LoadNextOK ==
    ASSUME LoadOK, LoadNext
    PROVE  LoadOK'
<1>1. CASE RootStep
    BY <1>1, RootStepOK
<1>2. ASSUME NEW w \in Workers, WorkerStep(w) PROVE LoadOK'
    <2>1. CASE WorkerRaise(w)
        BY <2>1, WorkerEndOK DEF WorkerRaise
    <2>. QED
        BY <1>2, <2>1, ReadConfigOK, ReadNameOK, ReadWeightOK, WriteAckOK DEF WorkerStep
<1>3. ASSUME NEW w \in Workers, Crash(w) PROVE LoadOK'
    BY <1>3, WorkerEndOK DEF Crash
<1>4. CASE RootCrash
    BY <1>4, RootStatusOK DEF RootCrash
<1>. QED
    BY <1>1, <1>2, <1>3, <1>4 DEF LoadNext

\* At the start.
LEMMA StartClosing ==
    /\ IsList(ConfigExpected) /\ Closing(ConfigExpected) /\ Ready(ConfigExpected, {})
    /\ ConfigExpected # <<>> /\ Len(Acks(ConfigExpected)) = 3
<1> DEFINE a5 == <<"ack", "nBatches", "nNodes", "nPipes", "nPreSyncs">>
           a6 == <<"ack", "nBatches", "nNodes", "nPipes", "nPreSyncs", "writeAck">>
           b4 == <<"ack", "nodeIndex", "nBuffers", "nSegments">>
           c5 == <<"ack", "nodeIndex", "nBuffers", "nSegments", "writeAck">>
           d6 == <<"ack", "nodeIndex", "nBuffers", "nSegments", "writeAck", "name">>
           k == <<"writeAck">>
           n == <<"name">>
<1>1. IsList(ConfigExpected) /\ ConfigExpected = a6 \o d6
    BY Tuple12 DEF ConfigExpected
<1>2. Closing(ConfigExpected)
    BY DEF Closing, ConfigExpected, AckItems
<1>3. Ready(ConfigExpected, {})
    <2> SUFFICES ASSUME NEW i \in 1..Len(ConfigExpected), NEW x, Needs(ConfigExpected[i], x)
                 PROVE  \E j \in 1..(i - 1) : ConfigExpected[j] = x
        BY DEF Ready
    <2>1. i = 10 /\ x = "nBuffers"
        BY DEF Needs, ConfigExpected
    <2>2. ConfigExpected[9] = "nBuffers" /\ 9 \in 1..(10 - 1)
        BY DEF ConfigExpected
    <2>. QED
        BY <2>1, <2>2
<1>4. ConfigExpected # <<>>
    BY DEF ConfigExpected
<1>5. IsList(k) /\ IsList(n) /\ Len(Acks(k)) = 1 /\ Len(Acks(n)) = 1
    BY OneAndRest, EmptyList, CountAcks DEF AckItems
<1>6. Good(a5) /\ IsList(a5)
    <2>1. IsList(a5)
        BY Tuple5a
    <2>. QED
        BY <2>1 DEF Good, Ready, Needs, AckItems
<1>7. Len(Acks(b4)) = 0 /\ IsList(b4)
    <2>1. IsList(b4)
        BY Tuple4
    <2>2. Acks(b4) = <<>>
        <3>1. \A i \in 1..Len(b4) : b4[i] \notin AckItems
            BY DEF AckItems
        <3> HIDE DEF b4
        <3>. QED
            BY <2>1, <3>1, AcksNone
    <2>. QED
        BY <2>1, <2>2, EmptyList
<1>8. a6 = a5 \o k /\ IsList(a6)
    BY Tuple6
<1>9. c5 = b4 \o k /\ IsList(c5)
    BY Tuple5c
<1>10. d6 = c5 \o n /\ IsList(d6)
    BY Tuple6
<1> HIDE DEF a5, a6, b4, c5, d6, k, n
<1>11. Len(Acks(a6)) = 1
    BY <1>5, <1>6, <1>8, CountAcks
<1>12. Len(Acks(c5)) = 1
    BY <1>5, <1>7, <1>9, CountAcks
<1>13. Len(Acks(d6)) = 2
    <2>1. Len(Acks(c5 \o n)) = Len(Acks(c5)) + Len(Acks(n))
        BY <1>5, <1>9, CountAcks
    <2>2. Len(Acks(c5 \o n)) = 2
        BY ONLY <1>5, <1>12, <2>1
    <2>. QED
        BY <1>10, <2>2
<1>14. Len(Acks(ConfigExpected)) = 3
    <2>1. Len(Acks(a6 \o d6)) = Len(Acks(a6)) + Len(Acks(d6))
        BY <1>8, <1>10, CountAcks
    <2>2. Len(Acks(a6 \o d6)) = 3
        BY ONLY <1>11, <1>13, <2>1
    <2>. QED
        BY <1>1, <2>2
<1>. QED
    BY <1>1, <1>2, <1>3, <1>4, <1>14

LEMMA AheadAtStart == ASSUME NEW h \in Headers, IsList(Todos[h]) PROVE AheadAt(h, 1) = Todos[h]
<1> DEFINE s == Todos[h]
           n == Len(s)
           a == AheadAt(h, 1)
<1>1. n \in Nat /\ n + 1 - 1 = n
    BY ListFacts
<1>2. a = [i \in 1..n |-> s[1 - 1 + i]]
    BY <1>1 DEF AheadAt
<1>3. \A i \in 1..n : a[i] = s[i]
    BY <1>2
<1>4. a = [i \in 1..n |-> a[i]]
    BY <1>2
<1> HIDE DEF a, n
<1>5. IsList(a) /\ Len(a) = n
    BY <1>1, <1>4, Listed
<1> HIDE DEF s
<1>6. IsList(s) /\ Len(s) = n
    BY DEF s, n
<1>7. a = s
    BY <1>3, <1>5, <1>6, EqualLists
<1>. QED
    BY <1>7 DEF a, s

LEMMA LoadInitOK == LoadInit => LoadOK
<1> SUFFICES ASSUME LoadInit PROVE LoadOK
    OBVIOUS
<1>1. /\ hdr \in Headers /\ step = 1
      /\ down = [w \in Workers |-> <<>>] /\ up = [w \in Workers |-> 0]
      /\ expect = [w \in Workers |-> ConfigExpected] /\ got = [w \in Workers |-> <<>>]
      /\ status = [n \in Nodes |-> "loading"]
    BY DEF LoadInit
<1>2. hdr.nodes \in Nat \ {0} /\ hdr.layers \in Nat /\ 0 \in Nodes /\ Workers \subseteq Nodes
    BY <1>1, HeaderAssumption DEF Nodes, NodesOf, Workers
<1>3. ASSUME NEW w \in Workers PROVE WorkerOK(w)
    <2> DEFINE nb == Len(Buffers(hdr, w))
               a == Todos[hdr]
    <2>1. /\ IsList(a) /\ Fits(nb, ConfigExpected, Pick(w, "send", a))
          /\ Len(Pick(w, "await", a)) = 3
        BY <1>1, <1>3, FitsStart DEF Todos, Workers
    <2>2. a = AheadAt(hdr, step)
        BY <1>1, <2>1, AheadAtStart
    <2>3. nb \in Nat
        BY <1>2, BuffersList, ListFacts
    <2> HIDE DEF nb, a
    <2>4. <<>> \o Pick(w, "send", a) = Pick(w, "send", a)
        BY <2>1, PickLists, ConcatEmpty
    <2>5. Tracks(nb, w, ConfigExpected, <<>>, 0, <<>>, a)
        <3>1. Fits(nb, ConfigExpected, <<>> \o Pick(w, "send", a))
            BY <2>1, <2>4
        <3>2. Fields(<<>>) = {} /\ \A i \in 1..Len(<<>>) : Right(nb, <<>>[i].as, <<>>[i].val)
            BY EmptyList DEF Fields
        <3>3. Ready(ConfigExpected, Fields(<<>>))
            BY <3>2, StartClosing
        <3>4. 0 + Len(Acks(ConfigExpected)) = Len(Pick(w, "await", a))
            BY <2>1, StartClosing
        <3>. QED
            BY <2>1, <2>3, <3>1, <3>2, <3>3, <3>4, StartClosing, EmptyList DEF Tracks
    <2>6. /\ expect[w] = ConfigExpected /\ down[w] = <<>> /\ up[w] = 0 /\ got[w] = <<>>
          /\ status[w] = "loading"
        BY <1>1, <1>2, <1>3
    <2>7. Tracks(nb, w, expect[w], down[w], up[w], got[w], AheadAt(hdr, step))
        BY <2>2, <2>5, <2>6
    <2>. QED
        BY <2>6, <2>7, StartClosing DEF WorkerOK, nb
<1>4. OnWorkers(down) /\ OnWorkers(up) /\ OnWorkers(expect) /\ OnWorkers(got)
    BY <1>1 DEF OnWorkers
<1>5. status = [n \in Nodes |-> status[n]] /\ status[0] = "loading"
    BY <1>1, <1>2
<1>. QED
    BY <1>1, <1>3, <1>4, <1>5 DEF LoadOK

LEMMA OKInStep == LoadOK => StreamInStep
<1> SUFFICES ASSUME LoadOK, NEW w \in Workers, status[w] = "loading", down[w] # <<>>,
                    Head(expect[w]) # "writeAck"
             PROVE  Head(down[w]).as = Head(expect[w])
    BY DEF StreamInStep
<1> DEFINE nb == Len(Buffers(hdr, w))
           a == AheadAt(hdr, step)
<1>1. expect[w] # <<>> /\ Tracks(nb, w, expect[w], down[w], up[w], got[w], a)
    BY ReadingWorker
<1> HIDE DEF nb, a
<1>. QED
    BY <1>1, TrackRead

LEMMA OKServesLast == LoadOK => RootServesLast
<1> SUFFICES ASSUME LoadOK, status[0] = "serving", NEW w \in Workers, status[w] # "ended"
             PROVE  status[w] = "serving" /\ down[w] = <<>> /\ up[w] = 0
    BY DEF RootServesLast
<1> DEFINE nb == Len(Buffers(hdr, w))
           a == AheadAt(hdr, step)
           e == expect[w]
           d == down[w]
           u == up[w]
<1>1. /\ Tracks(nb, w, e, d, u, got[w], a)
      /\ status[w] = IF e = <<>> THEN "serving" ELSE "loading"
    BY DEF LoadOK, WorkerOK
<1>2. a = <<>>
    <2>1. IsList(Todos[hdr]) /\ ~ (step <= Len(Todos[hdr])) /\ hdr \in Headers /\ step \in Nat \ {0}
        BY TodosListed DEF LoadOK, Workers
    <2>. QED
        BY <2>1, AheadMoves
<1> HIDE DEF nb, a, e, d, u
<1>3. Pick(w, "send", a) = <<>> /\ Pick(w, "await", a) = <<>>
    BY <1>2, PickNone
<1>4. IsList(e) /\ IsList(d) /\ u \in Nat /\ Len(Acks(e)) \in Nat /\ u + Len(Acks(e)) = 0
    BY <1>1, <1>3, EmptyList, CountAcks DEF Tracks
<1>5. u = 0 /\ Len(Acks(e)) = 0
    BY <1>4
<1>6. e = <<>>
    <2> SUFFICES ASSUME e # <<>> PROVE FALSE
        OBVIOUS
    <2>1. PICK t, x : IsList(t) /\ e = t \o <<x>> /\ x = e[Len(e)]
        BY <1>4, ListEnd
    <2>2. x \in AckItems
        BY <1>1, <2>1 DEF Tracks, Closing
    <2>3. Len(Acks(<<x>>)) = 1 /\ IsList(<<x>>)
        BY <2>2, CountAcks, OneAndRest, EmptyList
    <2> DEFINE k == <<x>>
    <2>4. IsList(k) /\ Len(Acks(k)) = 1 /\ e = t \o k
        BY <2>1, <2>3
    <2> HIDE DEF k
    <2>5. Len(Acks(t \o k)) = Len(Acks(t)) + Len(Acks(k)) /\ Len(Acks(t)) \in Nat
        BY <2>1, <2>4, CountAcks
    <2>6. Len(Acks(t \o k)) = 0
        BY <1>5, <2>4
    <2> DEFINE m == Len(Acks(t))
    <2>7. m \in Nat /\ m + 1 = 0
        BY ONLY <2>4, <2>5, <2>6, Zenon
    <2> HIDE DEF m
    <2>. QED
        BY ONLY <2>7
<1>7. d = <<>>
    <2>1. Fits(nb, <<>>, d \o <<>>)
        BY <1>1, <1>3, <1>6 DEF Tracks
    <2>2. d \o <<>> = d
        BY <1>4, ConcatEmpty
    <2>. QED
        BY <2>1, <2>2, FitsEnd
<1>. QED
    BY <1>1, <1>5, <1>6, <1>7 DEF e, d, u

LEMMA BroughtUp == NodeSpec => []LoadOK
<1>1. NodeInit => LoadOK
    BY LoadInitOK DEF NodeInit
<1>2. LoadOK /\ [NodeNext]_nodeVars => LoadOK'
    <2> SUFFICES ASSUME LoadOK, [NodeNext]_nodeVars PROVE LoadOK'
        OBVIOUS
    <2>1. CASE BringUp
        BY <2>1, LoadNextOK DEF BringUp
    <2>2. CASE Infer
        <3>1. UNCHANGED <<hdr, step, down, up, expect, got, status>>
            BY <2>2 DEF Infer, ExecNext
        <3>. QED
            BY <3>1 DEF LoadOK, WorkerOK, OnWorkers, Workers, Nodes, NodesOf, AheadAt
    <2>3. CASE UNCHANGED nodeVars
        <3>1. UNCHANGED <<hdr, step, down, up, expect, got, status>>
            BY <2>3 DEF nodeVars, loadVars
        <3>. QED
            BY <3>1 DEF LoadOK, WorkerOK, OnWorkers, Workers, Nodes, NodesOf, AheadAt
    <2>. QED
        BY <2>1, <2>2, <2>3 DEF NodeNext
<1>. QED
    BY <1>1, <1>2, PTL DEF NodeSpec

\* For every model, cluster and connection size, and whichever process ends at
\* whatever moment: the field that a worker reads next is the one that
\* write_net, write_node or the weight loader wrote at that place, although
\* nothing in the stream says which it is.
THEOREM StreamStaysInStep == NodeSpec => []StreamInStep
<1>1. LoadOK => StreamInStep
    BY OKInStep
<1>. QED
    BY <1>1, BroughtUp, PTL

\* For every model and cluster: when the root has returned from finish(), no
\* worker is still loading, every byte written has been read and every ack taken.
THEOREM RootIsLast == NodeSpec => []RootServesLast
<1>1. LoadOK => RootServesLast
    BY OKServesLast
<1>. QED
    BY <1>1, BroughtUp, PTL

-----------------------------------------------------------------------------
\* Operators and the memory they work on.  What the name of a pipe or a buffer
\* says about its size.
Synced == {"ZQ", "q_y", "q_z_slice", "q_d", "q_moe_y", "q_moe_d"}
PerExpert == {"moe_y", "q_moe_y", "moe_d", "q_moe_d", "moe_l", "moe_s"}
TypeAs(h, name) == IF name \in Synced THEN h.sync ELSE F32
DepthAs(h, name) == IF name \in PerExpert THEN Active1(h) ELSE 1
PipeSize(h, name) ==
    CASE name = "POS" -> Size2(F32, h.batches, 1)
      [] name = "TOK" -> Size2(F32, h.batches, 1)
      [] name = "X" -> Size2(F32, h.batches, h.dim)
      [] name = "LG" -> Size2(F32, h.batches, h.vocab)
      [] name = "ZQ" -> Size2(h.sync, h.batches, h.dim * h.nodes)

AsNamed(h, entry) ==
    LET name == entry.place.id[1]
        size == entry.size
    IN  /\ size.ft = TypeAs(h, name) /\ size.z = DepthAs(h, name)
        /\ name \in {"POS", "TOK", "X", "LG", "ZQ"} => size = PipeSize(h, name)
        /\ name = "gt" => size.x = Experts1(h)
        /\ name = "moe_s" => size.x = 1

\* The names of all nodes' pipes and buffers but the caches.
NamesOf(h) ==
    {"POS", "TOK", "X", "LG", "ZQ", "x", "y", "z", "q_z_slice", "q", "k_temp", "v_temp",
     "inv_rms", "rope_cache", "att", "lg", "d", "l", "gt", "act_exp_ix", "moe_y", "moe_d",
     "moe_l", "moe_s"}
    \cup (IF Quantised(h) THEN {"q_y", "q_d", "q_moe_y", "q_moe_d"} ELSE {})

\* The list s has entries of these names, and all entries as their names say.
Listing(h, s, names) ==
    /\ IsList(s)
    /\ \A i \in 1..Len(s) : AsNamed(h, s[i])
    /\ \A name \in names : \E i \in 1..Len(s) : s[i].place.id = <<name, 0>>

LEMMA ListingConcat ==
    ASSUME NEW h, NEW s, NEW t, NEW a, NEW b, Listing(h, s, a), Listing(h, t, b)
    PROVE  Listing(h, s \o t, a \cup b)
<1>1. IsList(s) /\ IsList(t)
    BY DEF Listing
<1>2. /\ IsList(s \o t) /\ Len(s \o t) = Len(s) + Len(t)
      /\ \A i \in 1..Len(s) : (s \o t)[i] = s[i]
      /\ \A i \in 1..Len(t) : (s \o t)[Len(s) + i] = t[i]
    BY <1>1, ConcatList
<1>3. Len(s) \in Nat /\ Len(t) \in Nat
    BY <1>1, ListFacts
<1> DEFINE u == s \o t
<1> HIDE DEF u
<1>4. \A i \in 1..Len(u) : AsNamed(h, u[i])
    <2> TAKE i \in 1..Len(u)
    <2>1. (\E j \in 1..Len(s) : u[i] = s[j]) \/ (\E j \in 1..Len(t) : u[i] = t[j])
        BY <1>1, ConcatElements DEF u
    <2>. QED
        BY <2>1 DEF Listing
<1>5. ASSUME NEW name \in a PROVE \E i \in 1..Len(u) : u[i].place.id = <<name, 0>>
    <2>1. PICK i \in 1..Len(s) : s[i].place.id = <<name, 0>>
        BY <1>5 DEF Listing
    <2>2. i \in 1..Len(u) /\ u[i] = s[i]
        BY <1>2, <1>3 DEF u
    <2>. QED
        BY <2>1, <2>2
<1>6. ASSUME NEW name \in b PROVE \E i \in 1..Len(u) : u[i].place.id = <<name, 0>>
    <2>1. PICK i \in 1..Len(t) : t[i].place.id = <<name, 0>>
        BY <1>6 DEF Listing
    <2>2. Len(s) + i \in 1..Len(u) /\ u[Len(s) + i] = t[i]
        BY <1>2, <1>3 DEF u
    <2>. QED
        BY <2>1, <2>2
<1>. QED
    BY <1>2, <1>4, <1>5, <1>6 DEF Listing, u

LEMMA ListingFour ==
    ASSUME NEW h, NEW s, NEW t, NEW u, NEW v, NEW a, NEW b, NEW c, NEW d,
           Listing(h, s, a), Listing(h, t, b), Listing(h, u, c), Listing(h, v, d)
    PROVE  Listing(h, ((s \o t) \o u) \o v, ((a \cup b) \cup c) \cup d)
<1>1. Listing(h, s \o t, a \cup b)
    BY ListingConcat
<1>2. Listing(h, (s \o t) \o u, (a \cup b) \cup c)
    BY <1>1, ListingConcat
<1>. QED
    BY <1>2, ListingConcat

\* One entry, and one that is there under a condition.
LEMMA ListingOne ==
    ASSUME NEW h, NEW entry, NEW name, entry.place.id = <<name, 0>>, AsNamed(h, entry)
    PROVE  Listing(h, <<entry>>, {name})
<1>1. IsList(<<entry>>) /\ Len(<<entry>>) = 1 /\ <<entry>>[1] = entry
    BY OneAndRest, EmptyList
<1>2. 1 \in 1..Len(<<entry>>)
    BY <1>1
<1>. QED
    BY <1>1, <1>2 DEF Listing

LEMMA ListingIf ==
    ASSUME NEW h, NEW s, NEW names, Listing(h, s, names), NEW c
    PROVE  Listing(h, If(c, s), IF c THEN names ELSE {})
<1>1. CASE c
    BY <1>1 DEF If
<1>2. CASE ~c
    <2>1. IsList(<<>>) /\ Len(<<>>) = 0
        BY EmptyList
    <2>2. \A i \in 1..Len(<<>>) : FALSE
        BY <2>1
    <2>3. If(c, s) = <<>> /\ (IF c THEN names ELSE {}) = {}
        BY <1>2 DEF If
    <2>. QED
        BY <2>1, <2>2, <2>3 DEF Listing
<1>. QED
    BY <1>1, <1>2

LEMMA PipesNamed ==
    ASSUME NEW h PROVE Listing(h, Pipes(h), {"POS", "TOK", "X", "LG", "ZQ"})
<1> DEFINE E(name, size) == [place |-> Pipe(name), size |-> size]
<1>1. \A name, size : E(name, size).place.id = <<name, 0>>
    BY DEF Pipe
<1>2. \A name \in {"POS", "TOK", "X", "LG", "ZQ"} : AsNamed(h, E(name, PipeSize(h, name)))
    BY <1>1 DEF AsNamed, PipeSize, TypeAs, DepthAs, Synced, PerExpert, Size2, Size3
<1>3. \A name \in {"POS", "TOK", "X", "LG", "ZQ"} :
          Listing(h, <<E(name, PipeSize(h, name))>>, {name})
    <2> HIDE DEF E
    <2>. QED
        BY <1>1, <1>2, ListingOne
<1> DEFINE a == <<E("POS", PipeSize(h, "POS"))>>
           b == <<E("TOK", PipeSize(h, "TOK"))>>
           c == <<E("X", PipeSize(h, "X"))>>
           d == <<E("LG", PipeSize(h, "LG"))>>
           e == <<E("ZQ", PipeSize(h, "ZQ"))>>
<1>4. Pipes(h) = (((a \o b) \o c) \o d) \o e
    BY DEF Pipes, PipeSize
<1>5. /\ Listing(h, a, {"POS"}) /\ Listing(h, b, {"TOK"}) /\ Listing(h, c, {"X"})
      /\ Listing(h, d, {"LG"}) /\ Listing(h, e, {"ZQ"})
    BY <1>3
<1> HIDE DEF a, b, c, d, e
<1>6. Listing(h, (((a \o b) \o c) \o d) \o e,
              ((({"POS"} \cup {"TOK"}) \cup {"X"}) \cup {"LG"}) \cup {"ZQ"})
    BY <1>5, ListingConcat
<1>7. ((({"POS"} \cup {"TOK"}) \cup {"X"}) \cup {"LG"}) \cup {"ZQ"}
          = {"POS", "TOK", "X", "LG", "ZQ"}
    OBVIOUS
<1>. QED
    BY <1>4, <1>6, <1>7

LEMMA CachesNamed ==
    ASSUME NEW h, h.layers \in Nat PROVE Listing(h, Caches(h), {})
<1> DEFINE n == 2 * h.layers
           cache(i) == [place |-> LayerBuffer(IF i % 2 = 1 THEN "k" ELSE "v", (i - 1) \div 2),
                        size |-> Size2(F32, h.seqLen, KvDim0(h))]
<1>1. n \in Nat
    OBVIOUS
<1>2. \A i : AsNamed(h, cache(i))
    <2> TAKE i
    <2>1. cache(i).place.id[1] = IF i % 2 = 1 THEN "k" ELSE "v"
        BY DEF LayerBuffer
    <2>2. cache(i).size = Size2(F32, h.seqLen, KvDim0(h))
        OBVIOUS
    <2> HIDE DEF cache
    <2>. QED
        BY <2>1, <2>2 DEF AsNamed, TypeAs, DepthAs, Synced, PerExpert, Size2, Size3
<1>3. Caches(h) = [i \in 1..n |-> cache(i)]
    BY DEF Caches
<1> HIDE DEF cache, n
<1>4. Caches(h) = [i \in 1..n |-> Caches(h)[i]]
    BY <1>3
<1>5. IsList(Caches(h)) /\ Len(Caches(h)) = n
    BY <1>1, <1>4, Listed
<1>. QED
    BY <1>2, <1>3, <1>5 DEF Listing

LEMMA BuffersNamed ==
    ASSUME NEW h, h.layers \in Nat, NEW node
    PROVE  Listing(h, Buffers(h, node), NamesOf(h) \ {"POS", "TOK", "X", "LG", "ZQ"})
<1> DEFINE E(name, size) == [place |-> Buffer(name), size |-> size]
           Add(name, size) == <<E(name, size)>>
           b == h.batches
           plain == {"x", "y", "z", "q", "k_temp", "v_temp", "inv_rms", "rope_cache", "att",
                     "lg", "d", "l", "act_exp_ix"}
<1>1. \A name, size : E(name, size).place.id = <<name, 0>> /\ E(name, size).size = size
    BY DEF Buffer
<1> HIDE DEF E
<1>2. ASSUME NEW name \in plain, NEW y, NEW x PROVE Listing(h, Add(name, Size2(F32, y, x)), {name})
    <2>1. AsNamed(h, E(name, Size2(F32, y, x)))
        BY <1>1 DEF AsNamed, TypeAs, DepthAs, Synced, PerExpert, Size2, Size3
    <2>. QED
        BY <1>1, <2>1, ListingOne
<1>3. ASSUME NEW name \in {"q_y", "q_z_slice", "q_d"}, NEW y, NEW x
      PROVE  Listing(h, Add(name, Size2(h.sync, y, x)), {name})
    <2>1. AsNamed(h, E(name, Size2(h.sync, y, x)))
        BY <1>1 DEF AsNamed, TypeAs, DepthAs, Synced, PerExpert, Size2, Size3
    <2>. QED
        BY <1>1, <2>1, ListingOne
<1>4. ASSUME NEW name \in {"moe_y", "moe_d", "moe_l", "moe_s"}, NEW y, NEW x, name = "moe_s" => x = 1
      PROVE  Listing(h, Add(name, Size3(F32, Active1(h), y, x)), {name})
    <2>1. AsNamed(h, E(name, Size3(F32, Active1(h), y, x)))
        BY <1>1, <1>4 DEF AsNamed, TypeAs, DepthAs, Synced, PerExpert, Size3
    <2>. QED
        BY <1>1, <2>1, ListingOne
<1>5. ASSUME NEW name \in {"q_moe_y", "q_moe_d"}, NEW y, NEW x
      PROVE  Listing(h, Add(name, Size3(h.sync, Active1(h), y, x)), {name})
    <2>1. AsNamed(h, E(name, Size3(h.sync, Active1(h), y, x)))
        BY <1>1 DEF AsNamed, TypeAs, DepthAs, Synced, PerExpert, Size3
    <2>. QED
        BY <1>1, <2>1, ListingOne
<1>6. Listing(h, Add("gt", Size2(F32, b, Experts1(h))), {"gt"})
    <2>1. AsNamed(h, E("gt", Size2(F32, b, Experts1(h))))
        BY <1>1 DEF AsNamed, TypeAs, DepthAs, Synced, PerExpert, Size2, Size3
    <2>. QED
        BY <1>1, <2>1, ListingOne
<1> DEFINE Opt(names) == IF Quantised(h) THEN names ELSE {}
<1>7. ASSUME NEW s, NEW names, Listing(h, s, names)
      PROVE  Listing(h, If(Quantised(h), s), Opt(names))
    BY <1>7, ListingIf
<1> DEFINE x1 == Add("x", Size2(F32, b, h.dim))
           x2 == Add("y", Size2(F32, b, h.dim))
           x3 == If(Quantised(h), Add("q_y", Size2(h.sync, b, h.dim)))
           x4 == Add("z", Size2(F32, b, h.qDim))
           x5 == Add("q_z_slice", Size2(h.sync, b, h.qDim \div h.nodes))
           x6 == Add("q", Size2(F32, b, QSlice(h).d0))
           x7 == Add("k_temp", Size2(F32, b, KSlice(h).d0))
           x8 == Add("v_temp", Size2(F32, b, KSlice(h).d0))
           x9 == Add("inv_rms", Size2(F32, b, InvCols(h)))
           x10 == Add("rope_cache", RopeSlice(h, node).cacheSize)
           x11 == Add("att", AttSlice(h).size)
           x12 == Add("lg", Size2(F32, b, h.vocab \div h.nodes))
           x13 == Add("d", Size2(F32, b, W1Slice(h).d0))
           x14 == If(Quantised(h), Add("q_d", Size2(h.sync, b, W1Slice(h).d0)))
           x15 == Add("l", Size2(F32, b, W1Slice(h).d0))
           x16 == Add("gt", Size2(F32, b, Experts1(h)))
           x17 == Add("act_exp_ix", Size2(F32, b, Active1(h)))
           x18 == Add("moe_y", Size3(F32, Active1(h), b, h.dim))
           x19 == If(Quantised(h), Add("q_moe_y", Size3(h.sync, Active1(h), b, h.dim)))
           x20 == Add("moe_d", Size3(F32, Active1(h), b, W1Slice(h).d0))
           x21 == If(Quantised(h), Add("q_moe_d", Size3(h.sync, Active1(h), b, W1Slice(h).d0)))
           x22 == Add("moe_l", Size3(F32, Active1(h), b, W1Slice(h).d0))
           x23 == Add("moe_s", Size3(F32, Active1(h), b, 1))
           x24 == Caches(h)
<1> DEFINE p1 == ((x1 \o x2) \o x3) \o x4
           p2 == ((p1 \o x5) \o x6) \o x7
           p3 == ((p2 \o x8) \o x9) \o x10
           p4 == ((p3 \o x11) \o x12) \o x13
           p5 == ((p4 \o x14) \o x15) \o x16
           p6 == ((p5 \o x17) \o x18) \o x19
           p7 == ((p6 \o x20) \o x21) \o x22
           q == (p7 \o x23) \o x24
<1>10. Buffers(h, node) = q
    BY DEF Buffers, E
<1>11. /\ Listing(h, x1, {"x"}) /\ Listing(h, x2, {"y"}) /\ Listing(h, x4, {"z"})
       /\ Listing(h, x6, {"q"}) /\ Listing(h, x7, {"k_temp"}) /\ Listing(h, x8, {"v_temp"})
       /\ Listing(h, x9, {"inv_rms"})
       /\ Listing(h, x12, {"lg"}) /\ Listing(h, x13, {"d"}) /\ Listing(h, x15, {"l"})
       /\ Listing(h, x17, {"act_exp_ix"})
    <2> HIDE DEF Add
    <2>. QED
        BY <1>2
<1>12. Listing(h, x10, {"rope_cache"})
    <2>1. RopeSlice(h, node).cacheSize
              = Size2(F32, h.seqLen, IF h.rope = "LLAMA" THEN node * (h.qDim \div h.nodes) + (h.qDim \div h.nodes) ELSE 1)
        BY DEF RopeSlice
    <2> HIDE DEF Add
    <2>. QED
        BY <1>2, <2>1
<1>13. Listing(h, x11, {"att"})
    <2>1. AttSlice(h).size = Size2(F32, h.batches, (h.qDim \div h.nodes) * h.seqLen)
        BY DEF AttSlice
    <2> HIDE DEF Add
    <2>. QED
        BY <1>2, <2>1
<1>14. Listing(h, x5, {"q_z_slice"}) /\ Listing(h, x16, {"gt"})
    <2> HIDE DEF Add
    <2>. QED
        BY <1>3, <1>6
<1>15. Listing(h, x3, Opt({"q_y"})) /\ Listing(h, x14, Opt({"q_d"}))
    <2> HIDE DEF Add, Opt
    <2>. QED
        BY <1>3, <1>7
<1>16. Listing(h, x18, {"moe_y"}) /\ Listing(h, x20, {"moe_d"}) /\ Listing(h, x22, {"moe_l"})
       /\ Listing(h, x23, {"moe_s"})
    <2> HIDE DEF Add
    <2>. QED
        BY <1>4
<1>17. Listing(h, x19, Opt({"q_moe_y"})) /\ Listing(h, x21, Opt({"q_moe_d"}))
    <2> HIDE DEF Add, Opt
    <2>. QED
        BY <1>5, <1>7
<1>18. Listing(h, x24, {})
    BY CachesNamed
<1> DEFINE P1 == (({"x"} \cup {"y"}) \cup Opt({"q_y"})) \cup {"z"}
           P2 == ((P1 \cup {"q_z_slice"}) \cup {"q"}) \cup {"k_temp"}
           P3 == ((P2 \cup {"v_temp"}) \cup {"inv_rms"}) \cup {"rope_cache"}
           P4 == ((P3 \cup {"att"}) \cup {"lg"}) \cup {"d"}
           P5 == ((P4 \cup Opt({"q_d"})) \cup {"l"}) \cup {"gt"}
           P6 == ((P5 \cup {"act_exp_ix"}) \cup {"moe_y"}) \cup Opt({"q_moe_y"})
           P7 == ((P6 \cup {"moe_d"}) \cup Opt({"q_moe_d"})) \cup {"moe_l"}
           Q == (P7 \cup {"moe_s"}) \cup {}
<1>19. Q = NamesOf(h) \ {"POS", "TOK", "X", "LG", "ZQ"}
    BY DEF NamesOf
<1> HIDE DEF x1, x2, x3, x4, x5, x6, x7, x8, x9, x10, x11, x12, x13, x14, x15, x16, x17, x18, x19,
             x20, x21, x22, x23, x24, Opt, Add
<1>20. Listing(h, p1, P1)
    BY <1>11, <1>15, ListingFour
<1> HIDE DEF p1, P1
<1>21. Listing(h, p2, P2)
    BY <1>20, <1>11, <1>14, ListingFour
<1> HIDE DEF p2, P2
<1>22. Listing(h, p3, P3)
    BY <1>21, <1>11, <1>12, ListingFour
<1> HIDE DEF p3, P3
<1>23. Listing(h, p4, P4)
    BY <1>22, <1>11, <1>13, ListingFour
<1> HIDE DEF p4, P4
<1>24. Listing(h, p5, P5)
    BY <1>23, <1>11, <1>14, <1>15, ListingFour
<1> HIDE DEF p5, P5
<1>25. Listing(h, p6, P6)
    BY <1>24, <1>11, <1>16, <1>17, ListingFour
<1> HIDE DEF p6, P6
<1>26. Listing(h, p7, P7)
    BY <1>25, <1>16, <1>17, ListingFour
<1> HIDE DEF p7, P7
<1>27. Listing(h, q, Q)
    BY <1>26, <1>16, <1>18, ListingConcat
<1>. QED
    BY <1>10, <1>19, <1>27

\* The list of places that Allocate gets: each place of NamesOf is in the
\* allocated memory, with a size as its name says.
Places(h, node) == Pipes(h) \o Buffers(h, node)

LEMMA AllocatedAsNamed ==
    ASSUME NEW h, h.layers \in Nat, NEW node
    PROVE  LET size == Allocate(Places(h, node))
           IN  /\ \A id \in DOMAIN size : AsNamed(h, [place |-> [id |-> id], size |-> size[id]])
               /\ \A name \in NamesOf(h) : <<name, 0>> \in DOMAIN size
<1> DEFINE s == Places(h, node)
           number == [id \in {s[i].place.id : i \in 1..Len(s)} |->
                         CHOOSE i \in 1..Len(s) : s[i].place.id = id]
           size == Allocate(s)
<1>1. Listing(h, s, {"POS", "TOK", "X", "LG", "ZQ"} \cup (NamesOf(h) \ {"POS", "TOK", "X", "LG", "ZQ"}))
    <2> DEFINE p == Pipes(h)
               b == Buffers(h, node)
               P == {"POS", "TOK", "X", "LG", "ZQ"}
               B == NamesOf(h) \ P
    <2>1. Listing(h, p, P)
        BY PipesNamed
    <2>2. Listing(h, b, B)
        BY BuffersNamed
    <2>3. s = p \o b
        BY DEF Places
    <2> HIDE DEF p, b, P, B, s
    <2>4. Listing(h, s, P \cup B)
        BY <2>1, <2>2, <2>3, ListingConcat
    <2>. QED
        BY <2>4 DEF P, B
<1>2. size = [id \in DOMAIN number |-> s[number[id]].size]
    BY DEF Allocate
<1> HIDE DEF s, size
<1>3. ASSUME NEW id \in DOMAIN size
      PROVE  AsNamed(h, [place |-> [id |-> id], size |-> size[id]])
    <2>1. id \in {s[i].place.id : i \in 1..Len(s)} /\ size[id] = s[number[id]].size
        BY <1>2
    <2>2. number[id] = CHOOSE i \in 1..Len(s) : s[i].place.id = id
        BY <2>1
    <2> HIDE DEF number
    <2>3. number[id] \in 1..Len(s) /\ s[number[id]].place.id = id
        BY <2>1, <2>2
    <2>4. AsNamed(h, s[number[id]])
        BY <1>1, <2>3 DEF Listing
    <2>. QED
        BY <2>1, <2>3, <2>4 DEF AsNamed
<1>4. ASSUME NEW name \in NamesOf(h) PROVE <<name, 0>> \in DOMAIN size
    <2>1. \E i \in 1..Len(s) : s[i].place.id = <<name, 0>>
        BY <1>1 DEF Listing
    <2>. QED
        BY <1>2, <2>1
<1>. QED
    BY <1>3, <1>4 DEF size, s

-----------------------------------------------------------------------------
\* What forward() relies on of an operator: that the places it looks at are
\* there, that they are the ones whose types it has code for, and that its
\* configuration has numbers.
Known(h, ptr) == \E name \in NamesOf(h) : ptr.place.id = <<name, 0>>
TypeOf(h, ptr) == TypeAs(h, ptr.place.id[1])

Fine(h, op) ==
    /\ op.code \in {"MERGE_ADD", "EMBEDDING", "RMS_NORM", "MATMUL", "CAST", "MOE_GATE",
                    "SILU", "MUL", "SCALE"} => Known(h, op.in)
    /\ op.code \in {"MERGE_ADD", "EMBEDDING", "CAST", "REPEAT_Z"} => Known(h, op.out)
    /\ op.code = "MERGE_ADD" => op.out.place.id = <<"x", 0>>
    /\ op.code = "EMBEDDING" => op.in.place.id = <<"TOK", 0>> /\ op.out.place.id = <<"X", 0>>
    /\ op.code = "MATMUL" => /\ op.aux.active \in Nat
                             /\ <<TypeOf(h, op.in), op.weight.ft>> \in {<<F32, F32>>, <<h.sync, h.weight>>}
    /\ op.code = "MOE_GATE" => /\ op.in.place.id = <<"gt", 0>> /\ op.aux.k = h.active
                               /\ op.out.place.id = <<"moe_s", 0>> /\ h.arch = "QWEN3_MOE"

AllFine(h, ops) == IsList(ops) /\ \A i \in 1..Len(ops) : Fine(h, ops[i])

LEMMA FineConcat ==
    ASSUME NEW h, NEW s, NEW t, AllFine(h, s), AllFine(h, t)
    PROVE  AllFine(h, s \o t)
<1>1. IsList(s) /\ IsList(t)
    BY DEF AllFine
<1>2. IsList(s \o t)
    BY <1>1, ConcatList
<1> DEFINE u == s \o t
<1> HIDE DEF u
<1>3. \A i \in 1..Len(u) : Fine(h, u[i])
    <2> TAKE i \in 1..Len(u)
    <2>1. (\E j \in 1..Len(s) : u[i] = s[j]) \/ (\E j \in 1..Len(t) : u[i] = t[j])
        BY <1>1, ConcatElements DEF u
    <2>. QED
        BY <2>1 DEF AllFine
<1>. QED
    BY <1>2, <1>3 DEF AllFine, u

LEMMA FineIf ==
    ASSUME NEW h, NEW c, NEW s, AllFine(h, s) PROVE AllFine(h, If(c, s))
<1>1. AllFine(h, <<>>)
    <2>1. IsList(<<>>) /\ Len(<<>>) = 0
        BY EmptyList
    <2>2. \A i \in 1..Len(<<>>) : FALSE
        BY <2>1
    <2>. QED
        BY <2>1, <2>2 DEF AllFine
<1>. QED
    BY <1>1 DEF If

LEMMA FineOne ==
    ASSUME NEW h, NEW op, Fine(h, op) PROVE AllFine(h, <<op>>)
<1>1. IsList(<<op>>) /\ Len(<<op>>) = 1 /\ <<op>>[1] = op
    BY OneAndRest, EmptyList
<1>. QED
    BY <1>1 DEF AllFine

\* The places of the operators.
LEMMA KnownPlaces ==
    ASSUME NEW h, NEW name \in NamesOf(h)
    PROVE  /\ Known(h, Batch(Buffer(name))) /\ Known(h, Batch(Pipe(name)))
           /\ Known(h, BatchedSlice(Buffer(name))) /\ Known(h, BatchedSlice(Pipe(name)))
  BY DEF Known, Batch, BatchedSlice, Buffer, Pipe

LEMMA KnownQuantised ==
    ASSUME NEW h
    PROVE  /\ Known(h, Batch(YQ(h))) /\ TypeOf(h, Batch(YQ(h))) = h.sync
           /\ Known(h, Batch(DQ(h))) /\ TypeOf(h, Batch(DQ(h))) = h.sync
           /\ Known(h, Batch(MoeYQ(h))) /\ TypeOf(h, Batch(MoeYQ(h))) = h.sync
           /\ Known(h, Batch(MoeDQ(h))) /\ TypeOf(h, Batch(MoeDQ(h))) = h.sync
<1>1. \A name : Batch(Buffer(name)).place.id = <<name, 0>>
    BY DEF Batch, Buffer
<1>2. \A name : TypeOf(h, Batch(Buffer(name))) = TypeAs(h, name)
    BY <1>1 DEF TypeOf
<1>3. CASE Quantised(h)
    <2>1. /\ \A name \in {"q_y", "q_d", "q_moe_y", "q_moe_d"} :
               name \in NamesOf(h) /\ TypeAs(h, name) = h.sync
        BY <1>3 DEF NamesOf, TypeAs, Synced
    <2>2. \A name \in {"q_y", "q_d", "q_moe_y", "q_moe_d"} :
               Known(h, Batch(Buffer(name))) /\ TypeOf(h, Batch(Buffer(name))) = h.sync
        BY <1>2, <2>1, KnownPlaces
    <2>. QED
        BY <1>3, <2>2 DEF YQ, DQ, MoeYQ, MoeDQ
<1>4. CASE ~Quantised(h)
    <2>1. /\ \A name \in {"y", "d", "moe_y", "moe_d"} :
               name \in NamesOf(h) /\ TypeAs(h, name) = F32
        BY <1>4 DEF NamesOf, TypeAs, Synced
    <2>2. \A name \in {"y", "d", "moe_y", "moe_d"} :
               Known(h, Batch(Buffer(name))) /\ TypeOf(h, Batch(Buffer(name))) = F32
        BY <1>2, <2>1, KnownPlaces
    <2>3. h.sync = F32
        BY <1>4 DEF Quantised
    <2>. QED
        BY <1>4, <2>2, <2>3 DEF YQ, DQ, MoeYQ, MoeDQ
<1>. QED
    BY <1>3, <1>4

\* The operators one by one.
LEMMA FineCast ==
    ASSUME NEW h, NEW name, NEW l, NEW in, NEW out, Known(h, in), Known(h, out)
    PROVE  AllFine(h, Cast(name, l, in, out))
  BY FineOne DEF Cast, Op, Fine

LEMMA FineMergeAdd == ASSUME NEW h, NEW name, NEW l PROVE AllFine(h, MergeAdd(name, l))
<1>1. "ZQ" \in NamesOf(h) /\ "x" \in NamesOf(h)
    BY DEF NamesOf
<1>2. Known(h, Batch(Pipe("ZQ"))) /\ Known(h, Batch(Buffer("x")))
    BY <1>1, KnownPlaces
<1>3. Batch(Buffer("x")).place.id = <<"x", 0>>
    BY DEF Batch, Buffer
<1>. QED
    BY <1>2, <1>3, FineOne DEF MergeAdd, Op, Fine

LEMMA FineMatmul ==
    ASSUME NEW h, NEW name, NEW l, NEW in, NEW out, NEW weight, NEW experts, NEW active,
           Known(h, Batch(in)), active \in Nat,
           <<TypeOf(h, Batch(in)), weight.ft>> \in {<<F32, F32>>, <<h.sync, h.weight>>}
    PROVE  AllFine(h, Matmul(name, l, in, out, weight, experts, active))
  BY FineOne DEF Matmul, Op, Fine

LEMMA FineNorm ==
    ASSUME NEW h, NEW pre, NEW name, NEW l, NEW in, NEW out, NEW weight, NEW columns,
           Known(h, Batch(in))
    PROVE  AllFine(h, Norm(pre, name, l, in, out, weight, columns))
<1> DEFINE a == Op("INV_RMS", pre, l, Batch(in), Batch(Buffer("inv_rms")), Size0, [columns |-> columns])
           b == Op("RMS_NORM", name, l, Batch(in), Batch(out), weight,
                   [inv |-> Buffer("inv_rms"), columns |-> columns])
<1>1. AllFine(h, a) /\ AllFine(h, b)
    BY FineOne DEF Op, Fine
<1>2. Norm(pre, name, l, in, out, weight, columns) = a \o b
    BY DEF Norm
<1> HIDE DEF a, b
<1>. QED
    BY <1>1, <1>2, FineConcat

\* Operators that forward() takes with any types.
LEMMA FineAny ==
    ASSUME NEW h, NEW code \in {"INV_RMS", "ROPE", "SHIFT", "MULTIHEAD_ATT", "SOFTMAX", "MERGE_SUM"},
           NEW name, NEW l, NEW in, NEW out, NEW weight, NEW aux
    PROVE  AllFine(h, Op(code, name, l, in, out, weight, aux))
  BY FineOne DEF Op, Fine

LEMMA FineInPlace ==
    ASSUME NEW h, NEW code \in {"SILU", "MUL", "SCALE", "ROPE", "SOFTMAX"},
           NEW name, NEW l, NEW place, NEW aux, Known(h, Batch(place))
    PROVE  AllFine(h, InPlace(code, name, l, place, aux))
  BY FineOne DEF InPlace, Op, Fine

\* Places that all models have.
LEMMA CommonPlaces ==
    ASSUME NEW h
    PROVE  /\ \A name \in {"POS", "TOK", "X", "LG", "ZQ"} : Known(h, Batch(Pipe(name)))
           /\ \A name \in {"LG", "ZQ"} : Known(h, BatchedSlice(Pipe(name)))
           /\ \A name \in {"x", "y", "q", "k_temp", "v_temp", "q_z_slice", "lg", "d", "gt",
                           "moe_y", "moe_d", "moe_s"} : Known(h, Batch(Buffer(name)))
           /\ Known(h, BatchedSlice(Buffer("z")))
<1>1. {"POS", "TOK", "X", "LG", "ZQ", "x", "y", "q", "k_temp", "v_temp", "q_z_slice", "lg", "d",
       "gt", "moe_y", "moe_d", "moe_s", "z"} \subseteq NamesOf(h)
    BY DEF NamesOf
<1>. QED
    BY <1>1, KnownPlaces

\* The slices of the weights have the type of the weights.
LEMMA SliceTypes ==
    ASSUME NEW h
    PROVE  /\ QSlice(h).size.ft = h.weight /\ KSlice(h).size.ft = h.weight
           /\ WoSlice(h).size.ft = h.weight /\ W1Slice(h).size.ft = h.weight
           /\ W2Slice(h).size.ft = h.weight /\ WclsSlice(h).size.ft = h.weight
  BY DEF QSlice, KSlice, WoSlice, W1Slice, W2Slice, WclsSlice, RowSlice, ColSlice, Size2, Size3

LEMMA AttOpsFine == ASSUME NEW h, NEW node, NEW l PROVE AllFine(h, AttOps(h, node, l))
<1> DEFINE Rope(name, place, isQ) ==
               InPlace("ROPE", name, l, place,
                       [isQ |-> isQ, cache |-> Buffer("rope_cache"), slice |-> RopeSlice(h, node)])
           Shift(name, from, to) ==
               Op("SHIFT", name, l, Batch(Buffer(from)), Raw(LayerBuffer(to, l)), Size0, NoAux)
           Project(name, to, slice) == Matmul(name, l, YQ(h), Buffer(to), slice.size, 0, 0)
           o1 == IF l = 0 THEN Cast("block_cast_x", l, Batch(Pipe("X")), Batch(Buffer("x")))
                          ELSE MergeAdd("block_merge_add", l)
           o2 == Norm("block_norm_pre_0", "block_norm_0", l, Buffer("x"), Buffer("y"), NormSize(h), 1)
           o3 == If(Quantised(h), Cast("block_cast_y", l, Batch(Buffer("y")), Batch(YQ(h))))
           o4 == Project("block_matmul_q", "q", QSlice(h))
           o5 == Project("block_matmul_k", "k_temp", KSlice(h))
           o6 == Project("block_matmul_v", "v_temp", KSlice(h))
           o7a == Norm("block_norm_pre_q", "block_norm_q", l, Buffer("q"), Buffer("q"), HeadNormSize, QNormCols(h))
           o7b == Norm("block_norm_pre_k", "block_norm_k", l, Buffer("k_temp"), Buffer("k_temp"),
                       HeadNormSize, KNormCols(h))
           o7 == If(Qwen(h), o7a \o o7b)
           o8 == Rope("block_rope_q", Buffer("q"), TRUE)
           o9 == Rope("block_rope_k", Buffer("k_temp"), FALSE)
           o10 == Shift("block_shift_k", "k_temp", "k")
           o11 == Shift("block_shift_v", "v_temp", "v")
           o12 == Op("MULTIHEAD_ATT", "block_multihead_att", l,
                     BatchedSlice(Buffer("z")), BatchedSlice(Buffer("z")), Size0,
                     [heads |-> AttSlice(h).heads, heads0 |-> AttSlice(h).heads0,
                      kvHeads |-> h.kvHeads, kvDim0 |-> KvDim0(h), query |-> Buffer("q"),
                      key |-> LayerBuffer("k", l), value |-> LayerBuffer("v", l)])
           o13 == Cast("block_cast_y2", l, BatchedSlice(Buffer("z")), Batch(Buffer("q_z_slice")))
           o14 == Matmul("block_matmul_wo", l, Buffer("q_z_slice"), Buffer("y"), WoSlice(h).size, 0, 0)
           o15 == Cast("block_cast_d", l, Batch(Buffer("y")), BatchedSlice(Pipe("ZQ")))
<1>1. AttOps(h, node, l) = (((((((((((((o1 \o o2) \o o3) \o o4) \o o5) \o o6) \o o7) \o o8) \o o9)
                              \o o10) \o o11) \o o12) \o o13) \o o14) \o o15
    BY DEF AttOps
<1>2. AllFine(h, o1) /\ AllFine(h, o13) /\ AllFine(h, o15)
    BY FineCast, FineMergeAdd, CommonPlaces
<1>3. AllFine(h, o3)
    BY FineCast, FineIf, CommonPlaces, KnownQuantised
<1>4. AllFine(h, o2) /\ AllFine(h, o7a) /\ AllFine(h, o7b)
    BY FineNorm, CommonPlaces
<1>5. AllFine(h, o4) /\ AllFine(h, o5) /\ AllFine(h, o6)
    BY FineMatmul, KnownQuantised, SliceTypes
<1>6. AllFine(h, o14)
    <2>1. TypeOf(h, Batch(Buffer("q_z_slice"))) = h.sync
        BY DEF TypeOf, TypeAs, Batch, Buffer, Synced
    <2>. QED
        BY <2>1, FineMatmul, CommonPlaces, SliceTypes
<1>7. AllFine(h, o8) /\ AllFine(h, o9) /\ AllFine(h, o10) /\ AllFine(h, o11) /\ AllFine(h, o12)
    BY FineInPlace, FineAny, CommonPlaces
<1> HIDE DEF o7a, o7b
<1>8. AllFine(h, o7)
    BY <1>4, FineConcat, FineIf
<1> HIDE DEF o1, o2, o3, o4, o5, o6, o7, o8, o9, o10, o11, o12, o13, o14, o15
<1>. QED
    BY <1>1, <1>2, <1>3, <1>4, <1>5, <1>6, <1>7, <1>8, FineConcat

LEMMA DenseOpsFine == ASSUME NEW h, NEW l PROVE AllFine(h, DenseOps(h, l))
<1> DEFINE o1 == If(Quantised(h), Cast("block_cast_y3", l, Batch(Buffer("y")), Batch(YQ(h))))
           o2 == Matmul("block_matmul_w1", l, YQ(h), Buffer("d"), W1Slice(h).size, 0, 0)
           o3 == Matmul("block_matmul_w3", l, YQ(h), Buffer("l"), W1Slice(h).size, 0, 0)
           o4 == InPlace("SILU", "block_act", l, Buffer("d"), NoAux)
           o5 == InPlace("MUL", "block_mul", l, Buffer("d"), [multiplier |-> Buffer("l")])
           o6 == If(Quantised(h), Cast("block_cast_d2", l, Batch(Buffer("d")), Batch(DQ(h))))
           o7 == Matmul("block_matmul_w2", l, DQ(h), Buffer("y"), W2Slice(h).size, 0, 0)
<1>1. DenseOps(h, l) = (((((o1 \o o2) \o o3) \o o4) \o o5) \o o6) \o o7
    BY DEF DenseOps
<1>2. AllFine(h, o1) /\ AllFine(h, o6)
    BY FineCast, FineIf, CommonPlaces, KnownQuantised
<1>3. AllFine(h, o2) /\ AllFine(h, o3) /\ AllFine(h, o7)
    BY FineMatmul, KnownQuantised, SliceTypes
<1>4. AllFine(h, o4) /\ AllFine(h, o5)
    BY FineInPlace, CommonPlaces
<1> HIDE DEF o1, o2, o3, o4, o5, o6, o7
<1>. QED
    BY <1>1, <1>2, <1>3, <1>4, FineConcat

LEMMA MoeOpsFine ==
    ASSUME NEW h, h.arch = "QWEN3_MOE", h.active \in Nat, NEW l PROVE AllFine(h, MoeOps(h, l))
<1> DEFINE Experts(name, in, out, size) ==
               Matmul(name, l, in, out, [size EXCEPT !.z = h.experts], h.experts, h.active)
           o1 == Op("REPEAT_Z", "block_moe_y_repeat", l,
                    Batch(Buffer("y")), Batch(MoeYQ(h)), Size0, NoAux)
           o2 == Matmul("block_moe_gate", l, Buffer("y"), Buffer("gt"), Size2(F32, h.dim, h.experts), 0, 0)
           o3 == InPlace("SOFTMAX", "block_moe_softmax", l, Buffer("gt"), NoAux)
           o4 == Op("MOE_GATE", "block_moe_gate2", l, Batch(Buffer("gt")), Batch(Buffer("moe_s")),
                    Size0, [k |-> h.active, indexes |-> Buffer("act_exp_ix")])
           o5 == Experts("block_matmul_w1", MoeYQ(h), Buffer("moe_d"), W1Slice(h).size)
           o6 == Experts("block_matmul_w3", MoeYQ(h), Buffer("moe_l"), W1Slice(h).size)
           o7 == InPlace("SILU", "block_act", l, Buffer("moe_d"), NoAux)
           o8 == InPlace("MUL", "block_mul", l, Buffer("moe_d"), [multiplier |-> Buffer("moe_l")])
           o9 == If(Quantised(h), Cast("block_cast_d2", l, Batch(Buffer("moe_d")), Batch(MoeDQ(h))))
           o10 == Experts("block_matmul_w2", MoeDQ(h), Buffer("moe_y"), W2Slice(h).size)
           o11 == InPlace("SCALE", "block_moe_scale", l, Buffer("moe_y"), [scale |-> Buffer("moe_s")])
           o12 == Op("MERGE_SUM", "block_moe_merge_sum", l,
                     Batch(Buffer("moe_y")), Batch(Buffer("y")), Size0, NoAux)
<1>1. MoeOps(h, l) = ((((((((((o1 \o o2) \o o3) \o o4) \o o5) \o o6) \o o7) \o o8) \o o9) \o o10) \o o11) \o o12
    BY DEF MoeOps
<1>2. AllFine(h, o1)
    BY KnownQuantised, FineOne DEF Op, Fine
<1>3. AllFine(h, o2)
    <2>1. TypeOf(h, Batch(Buffer("y"))) = F32 /\ Size2(F32, h.dim, h.experts).ft = F32
        BY DEF TypeOf, TypeAs, Batch, Buffer, Synced, Size2, Size3
    <2>. QED
        BY <2>1, FineMatmul, CommonPlaces
<1>4. AllFine(h, o3) /\ AllFine(h, o7) /\ AllFine(h, o8) /\ AllFine(h, o11)
    BY FineInPlace, CommonPlaces
<1>5. AllFine(h, o4)
    <2>1. /\ Batch(Buffer("gt")).place.id = <<"gt", 0>> /\ Known(h, Batch(Buffer("gt")))
          /\ Batch(Buffer("moe_s")).place.id = <<"moe_s", 0>>
        BY CommonPlaces DEF Batch, Buffer
    <2>. QED
        BY <2>1, FineOne DEF Op, Fine
<1>6. ASSUME NEW size, NEW ft, NEW y, NEW x, size = Size2(ft, y, x)
      PROVE  [size EXCEPT !.z = h.experts].ft = ft
    BY <1>6 DEF Size2, Size3
<1>7. /\ [W1Slice(h).size EXCEPT !.z = h.experts].ft = h.weight
      /\ [W2Slice(h).size EXCEPT !.z = h.experts].ft = h.weight
    <2>1. W1Slice(h).size = Size2(h.weight, h.dim, h.ffDim \div h.nodes)
        BY DEF W1Slice, RowSlice
    <2>2. W2Slice(h).size = Size2(h.weight, h.ffDim \div h.nodes, h.dim)
        BY DEF W2Slice, ColSlice
    <2>. QED
        BY <1>6, <2>1, <2>2
<1>8. AllFine(h, o5) /\ AllFine(h, o6) /\ AllFine(h, o10)
    BY FineMatmul, KnownQuantised, <1>7
<1>9. AllFine(h, o9)
    BY FineCast, FineIf, CommonPlaces, KnownQuantised
<1>10. AllFine(h, o12)
    BY FineAny
<1> HIDE DEF o1, o2, o3, o4, o5, o6, o7, o8, o9, o10, o11, o12
<1>. QED
    BY <1>1, <1>2, <1>3, <1>4, <1>5, <1>8, <1>9, <1>10, FineConcat

LEMMA FfOpsFine == ASSUME NEW h, h.active \in Nat, NEW l PROVE AllFine(h, FfOps(h, l))
<1> DEFINE o1 == MergeAdd("block_merge_add2", l)
           o2 == Norm("block_norm_pre_1", "block_norm_1", l, Buffer("x"), Buffer("y"), NormSize(h), 1)
           o3 == IF h.arch = "QWEN3_MOE" THEN MoeOps(h, l) ELSE DenseOps(h, l)
           o4 == Cast("block_cast_d3", l, Batch(Buffer("y")), BatchedSlice(Pipe("ZQ")))
<1>1. FfOps(h, l) = ((o1 \o o2) \o o3) \o o4
    BY DEF FfOps
<1>2. AllFine(h, o1) /\ AllFine(h, o2) /\ AllFine(h, o4)
    BY FineMergeAdd, FineNorm, FineCast, CommonPlaces
<1>3. AllFine(h, o3)
    BY MoeOpsFine, DenseOpsFine
<1> HIDE DEF o1, o2, o3, o4
<1>. QED
    BY <1>1, <1>2, <1>3, FineConcat

LEMMA StartOpsFine == ASSUME NEW h, NEW node PROVE AllFine(h, StartOps(h, node))
<1>1. /\ Batch(Pipe("TOK")).place.id = <<"TOK", 0>> /\ Known(h, Batch(Pipe("TOK")))
      /\ Batch(Pipe("X")).place.id = <<"X", 0>> /\ Known(h, Batch(Pipe("X")))
    BY CommonPlaces DEF Batch, Pipe
<1>2. AllFine(h, Op("EMBEDDING", "embedding", 0, Batch(Pipe("TOK")), Batch(Pipe("X")),
                    Size2(F32, h.vocab, h.dim), NoAux))
    BY <1>1, FineOne DEF Op, Fine
<1>. QED
    BY <1>2, FineIf DEF StartOps

LEMMA EndOpsFine == ASSUME NEW h PROVE AllFine(h, EndOps(h))
<1> DEFINE o1 == MergeAdd("final_merge_add", 0)
           o2 == Norm("final_norm_pre", "final_norm", 0, Buffer("x"), Buffer("y"), NormSize(h), 1)
           o3 == If(Quantised(h), Cast("final_cast_y", 0, Batch(Buffer("y")), Batch(YQ(h))))
           o4 == Matmul("final_matmul_logits", 0, YQ(h), Buffer("lg"), WclsSlice(h).size, 0, 0)
           o5 == Cast("final_cast_logits", 0, Batch(Buffer("lg")), BatchedSlice(Pipe("LG")))
<1>1. EndOps(h) = (((o1 \o o2) \o o3) \o o4) \o o5
    BY DEF EndOps
<1>2. AllFine(h, o1) /\ AllFine(h, o2) /\ AllFine(h, o5)
    BY FineMergeAdd, FineNorm, FineCast, CommonPlaces
<1>3. AllFine(h, o3)
    BY FineCast, FineIf, CommonPlaces, KnownQuantised
<1>4. AllFine(h, o4)
    BY FineMatmul, KnownQuantised, SliceTypes
<1> HIDE DEF o1, o2, o3, o4, o5
<1>. QED
    BY <1>1, <1>2, <1>3, <1>4, FineConcat

\* ... and segment by segment, with the pipe each one synchronises.
GoodSync(sync) ==
    /\ sync.pipe \in {Pipe("X"), Pipe("ZQ"), Pipe("LG")}
    /\ sync.type \in {"WITH_ROOT", "NODE_SLICES", "NODE_SLICES_EXCEPT_ROOT"}

LEMMA SegmentsFine ==
    ASSUME NEW h, h.layers \in Nat, h.active \in Nat, NEW node,
           NEW k \in 1..Len(Segments(h, node))
    PROVE  LET s == Segments(h, node)[k]
           IN  AllFine(h, s.ops) /\ GoodSync(s.syncs[1])
<1> DEFINE Segment(ops, place, type) == [ops |-> ops, syncs |-> <<[pipe |-> place, type |-> type]>>]
           Layer(i) == IF i % 2 = 1
                       THEN Segment(AttOps(h, node, i \div 2), Pipe("ZQ"), "NODE_SLICES")
                       ELSE Segment(FfOps(h, i \div 2 - 1), Pipe("ZQ"), "NODE_SLICES")
           first == <<Segment(StartOps(h, node), Pipe("X"), "WITH_ROOT")>>
           n == 2 * h.layers
           layers == [i \in 1..n |-> Layer(i)]
           last == <<Segment(EndOps(h), Pipe("LG"), "NODE_SLICES_EXCEPT_ROOT")>>
           All(s) == AllFine(h, s.ops) /\ GoodSync(s.syncs[1])
<1>1. Segments(h, node) = (first \o layers) \o last
    BY DEF Segments
<1>2. ASSUME NEW ops, NEW place \in {Pipe("X"), Pipe("ZQ"), Pipe("LG")},
             NEW type \in {"WITH_ROOT", "NODE_SLICES", "NODE_SLICES_EXCEPT_ROOT"}, AllFine(h, ops)
      PROVE  All(Segment(ops, place, type))
    <2> DEFINE y == [pipe |-> place, type |-> type]
    <2>1. GoodSync(y)
        BY DEF GoodSync
    <2> HIDE DEF y
    <2>2. <<y>>[1] = y
        OBVIOUS
    <2>3. Segment(ops, place, type) = [ops |-> ops, syncs |-> <<y>>]
        BY DEF y
    <2>. QED
        BY <1>2, <2>1, <2>2, <2>3
<1> HIDE DEF Segment
<1>3. \A i \in 1..n : All(Layer(i))
    BY <1>2, AttOpsFine, FfOpsFine
<1>4. All(first[1]) /\ All(last[1])
    BY <1>2, StartOpsFine, EndOpsFine
<1>5. IsList(first) /\ Len(first) = 1 /\ IsList(last) /\ Len(last) = 1
    BY OneAndRest, EmptyList
<1>6. n \in Nat
    OBVIOUS
<1> HIDE DEF Layer, All, n
<1>7. IsList(layers) /\ Len(layers) = n
    BY <1>6, Listed
<1>8. \A i \in 1..Len(layers) : All(layers[i])
    BY <1>3, <1>7
<1>9. (\A i \in 1..Len(first) : All(first[i])) /\ (\A i \in 1..Len(last) : All(last[i]))
    BY <1>4, <1>5
<1> HIDE DEF first, layers, last
<1> DEFINE fl == first \o layers
<1>10. IsList(fl)
    BY <1>5, <1>7, ConcatList
<1> HIDE DEF fl
<1>11. \A i \in 1..Len(fl) : All(fl[i])
    <2> TAKE i \in 1..Len(fl)
    <2>1. (\E j \in 1..Len(first) : fl[i] = first[j]) \/ (\E j \in 1..Len(layers) : fl[i] = layers[j])
        <3>1. IsList(first) /\ IsList(layers)
            BY <1>5, <1>7
        <3>. QED
            BY <3>1, ConcatElements DEF fl
    <2>. QED
        BY <2>1, <1>8, <1>9
<1> DEFINE all == fl \o last
<1> HIDE DEF all
<1>12. ASSUME NEW i \in 1..Len(all) PROVE All(all[i])
    <2>1. (\E j \in 1..Len(fl) : all[i] = fl[j]) \/ (\E j \in 1..Len(last) : all[i] = last[j])
        <3>1. IsList(fl) /\ IsList(last)
            BY <1>5, <1>10
        <3>. QED
            BY <3>1, ConcatElements DEF all
    <2>. QED
        BY <2>1, <1>9, <1>11
<1>13. All(Segments(h, node)[k])
    BY <1>1, <1>12 DEF fl, all
<1>. QED
    BY <1>13 DEF All

-----------------------------------------------------------------------------
\* The steps of a node: operators and synchronisations, then the end.
GoodStep(h, s) ==
    \/ s.do = "op" /\ Fine(h, s.op)
    \/ s.do = "sync" /\ GoodSync(s.sync)

LEMMA StepsGood ==
    ASSUME NEW h \in Headers, NEW n \in NodesOf(h)
    PROVE  LET s == Steps[h][n]
           IN  /\ Len(s) \in Nat \ {0} /\ s[Len(s)] = End
               /\ \A i \in 1..Len(s) : i # Len(s) => GoodStep(h, s[i])
<1> DEFINE segments == Segments(h, n)
           ops(i) == [k \in 1..Len(segments[i].ops) |-> [do |-> "op", op |-> segments[i].ops[k]]]
           sync(i) == <<[do |-> "sync", sync |-> segments[i].syncs[1]]>>
           part(i) == ops(i) \o If(h.nodes > 1, sync(i))
           parts == [i \in 1..Len(segments) |-> part(i)]
           all == FlattenSeq(parts)
           AllGood(s) == \A i \in 1..Len(s) : GoodStep(h, s[i])
<1>1. h.layers \in Nat /\ h.active \in Nat
    BY HeaderAssumption
<1>2. Steps[h][n] = all \o <<End>>
    BY DEF Steps, StepsOf
<1>3. IsList(segments)
    BY <1>1, SegmentsLists
<1>4. ASSUME NEW i \in 1..Len(segments)
      PROVE  AllFine(h, segments[i].ops) /\ GoodSync(segments[i].syncs[1])
    BY <1>1, SegmentsFine
<1> HIDE DEF segments
<1>5. ASSUME NEW i \in 1..Len(segments) PROVE IsList(ops(i)) /\ AllGood(ops(i))
    <2> DEFINE o == segments[i].ops
               s == ops(i)
    <2>1. IsList(o) /\ \A k \in 1..Len(o) : Fine(h, o[k])
        BY <1>4 DEF AllFine
    <2>2. Len(o) \in Nat
        BY <2>1, ListFacts
    <2>3. s = [k \in 1..Len(o) |-> [do |-> "op", op |-> o[k]]]
        OBVIOUS
    <2> HIDE DEF o, s
    <2>4. s = [k \in 1..Len(o) |-> s[k]]
        BY <2>3
    <2>5. IsList(s) /\ Len(s) = Len(o)
        BY <2>2, <2>4, Listed
    <2>6. \A k \in 1..Len(s) : GoodStep(h, s[k])
        BY <2>1, <2>3, <2>5 DEF GoodStep
    <2>. QED
        BY <2>5, <2>6 DEF s
<1>6. ASSUME NEW i \in 1..Len(segments) PROVE IsList(sync(i)) /\ AllGood(sync(i))
    <2> DEFINE y == [do |-> "sync", sync |-> segments[i].syncs[1]]
    <2>1. GoodStep(h, y)
        BY <1>4 DEF GoodStep
    <2>2. sync(i) = <<y>>
        OBVIOUS
    <2> HIDE DEF y
    <2>3. IsList(<<y>>) /\ Len(<<y>>) = 1 /\ <<y>>[1] = y
        BY OneAndRest, EmptyList
    <2>. QED
        BY <2>1, <2>2, <2>3
<1>7. IsList(<<>>) /\ AllGood(<<>>)
    <2>1. IsList(<<>>) /\ Len(<<>>) = 0
        BY EmptyList
    <2>. QED
        BY <2>1
<1>8. ASSUME NEW i \in 1..Len(segments) PROVE IsList(part(i)) /\ AllGood(part(i))
    <2> DEFINE a == ops(i)
               b == If(h.nodes > 1, sync(i))
               c == a \o b
    <2>1. IsList(a) /\ AllGood(a)
        BY <1>5
    <2>2. IsList(b) /\ AllGood(b)
        <3> HIDE DEF sync, AllGood
        <3>. QED
            BY <1>6, <1>7 DEF If
    <2>3. part(i) = c
        OBVIOUS
    <2> HIDE DEF a, b
    <2>4. IsList(c)
        BY <2>1, <2>2, ConcatList
    <2> HIDE DEF c
    <2>5. AllGood(c)
        <3> SUFFICES ASSUME NEW k \in 1..Len(c) PROVE GoodStep(h, c[k])
            OBVIOUS
        <3>1. IsList(a) /\ IsList(b)
            BY <2>1, <2>2
        <3>2. (\E j \in 1..Len(a) : c[k] = a[j]) \/ (\E j \in 1..Len(b) : c[k] = b[j])
            BY <3>1, ConcatElements DEF c
        <3>. QED
            BY <2>1, <2>2, <3>2
    <2>. QED
        BY <2>3, <2>4, <2>5
<1>9. Len(segments) \in Nat
    BY <1>3, ListFacts
<1> HIDE DEF part
<1>10. /\ IsList(parts) /\ Len(parts) = Len(segments)
       /\ \A i \in 1..Len(parts) : parts[i] = part(i)
    <2>1. parts = [i \in 1..Len(segments) |-> parts[i]]
        OBVIOUS
    <2>2. \A i \in 1..Len(segments) : parts[i] = part(i)
        OBVIOUS
    <2> HIDE DEF parts
    <2>3. IsList(parts) /\ Len(parts) = Len(segments)
        BY <1>9, <2>1, Listed
    <2>. QED
        BY <2>2, <2>3
<1> HIDE DEF parts, AllGood
<1>11. AreLists(parts) /\ \A i \in 1..Len(parts) : AllGood(parts[i])
    BY <1>8, <1>10 DEF AreLists
<1>12. IsList(all) /\ AllGood(all)
    <2>1. IsList(all)
        BY <1>11, FlattenList
    <2>2. ASSUME NEW k \in 1..Len(all) PROVE GoodStep(h, all[k])
        <3>1. \E i \in 1..Len(parts) : \E j \in 1..Len(parts[i]) : all[k] = parts[i][j]
            BY <1>11, FlattenElements
        <3>. QED
            BY <1>11, <3>1 DEF AllGood
    <2>. QED
        BY <2>1, <2>2 DEF AllGood
<1> DEFINE last == <<End>>
           s == all \o last
<1>13. IsList(last) /\ Len(last) = 1 /\ last[1] = End
    <2> DEFINE y == End
    <2> HIDE DEF y
    <2>1. IsList(<<y>>) /\ Len(<<y>>) = 1 /\ <<y>>[1] = y
        BY OneAndRest, EmptyList
    <2>. QED
        BY <2>1 DEF y
<1> HIDE DEF all, last
<1>14. /\ Len(s) = Len(all) + Len(last)
       /\ \A i \in 1..Len(all) : s[i] = all[i]
       /\ \A i \in 1..Len(last) : s[Len(all) + i] = last[i]
    <2>1. IsList(all) /\ IsList(last)
        BY <1>12, <1>13
    <2>. QED
        BY <2>1, ConcatList
<1> HIDE DEF s
<1>15. Len(all) \in Nat
    BY <1>12, ListFacts
<1>16. Len(s) \in Nat \ {0} /\ s[Len(s)] = End
    <2>1. 1 \in 1..Len(last) /\ Len(s) = Len(all) + 1
        BY <1>13, <1>14
    <2>. QED
        BY <2>1, <1>13, <1>14, <1>15
<1>17. ASSUME NEW i \in 1..Len(s), i # Len(s) PROVE GoodStep(h, s[i])
    <2>1. i \in 1..Len(all)
        BY <1>13, <1>14, <1>15, <1>17
    <2>. QED
        BY <2>1, <1>12, <1>14 DEF AllGood
<1>18. Steps[h][n] = s
    BY <1>2 DEF s, last
<1>. QED
    BY <1>16, <1>17, <1>18

-----------------------------------------------------------------------------
\* What holds while nodes run forwards.
OnNodes(f) == f = [n \in Nodes |-> f[n]]
Shape(size, m) ==
    /\ DOMAIN m = DOMAIN size
    /\ \A id \in DOMAIN size :
          /\ DOMAIN m[id] = 0..(size[id].z * size[id].y - 1)
          /\ \A r \in DOMAIN m[id] : DOMAIN m[id][r] = 0..(size[id].x - 1)

\* How many rows a thread goes through in step s of a batch.
Limit(n, s, rows) == IF s.do = "op" THEN Depth(n, s.op) * rows ELSE 0

\* The places a of the threads, of a node that has so many.
Counted(threads, a, limit) ==
    /\ a = [ti \in 0..(threads - 1) |-> a[ti]]
    /\ \A ti \in 0..(threads - 1) :
          a[ti] = [row |-> a[ti].row, mode |-> a[ti].mode] /\ a[ti].row \in 0..limit

\* A thread that has seen ctx.weight still finds it, unless the cluster is one
\* of those that are known to race.
Weighed(threads, a, has) ==
    Threadsafe(hdr) =>
        \A ti \in 0..(threads - 1) : NeedsWeight(a[ti].mode) => threads = 1 /\ has

NodeOK(n) ==
    /\ pc[n] \in 1..Len(Steps[hdr][n]) /\ now[n] = Steps[hdr][n][pc[n]]
    /\ Shape(sizes[n], mem[n])
    /\ Counted(hdr.threads[n], at[n], Limit(n, now[n], fwd.rows))
    /\ Weighed(hdr.threads[n], at[n], HasWeight(n))
    /\ now[n].do # "op" => at[n] = Fresh(hdr, n)

Settled ==
    /\ hdr \in Headers
    /\ sizes = [n \in Nodes |-> Allocate(Places(hdr, n))]

ExecOK ==
    /\ Settled
    /\ failed \subseteq Nodes /\ fwd.rows \in Nat
    /\ OnNodes(mem) /\ OnNodes(raw) /\ OnNodes(pc) /\ OnNodes(now) /\ OnNodes(at)
    /\ \A n \in Nodes : NodeOK(n)
    /\ RaisesOnlyAsKnown

LEMMA SizesKnown ==
    ASSUME Settled, NEW n \in Nodes
    PROVE  /\ \A ptr : Known(hdr, ptr) =>
                 /\ SizeOf(n, ptr).ft = TypeOf(hdr, ptr) /\ SizeOf(n, ptr).z \in Nat
                 /\ ptr.place.id = <<"gt", 0>> => SizeOf(n, ptr).x = Experts1(hdr)
           /\ sizes[n][<<"moe_s", 0>>].x = 1
           /\ \A name \in {"POS", "TOK", "X", "LG", "ZQ"} :
                 /\ <<name, 0>> \in DOMAIN sizes[n]
                 /\ sizes[n][<<name, 0>>] = PipeSize(hdr, name)
<1> DEFINE size == sizes[n]
<1>1. hdr.layers \in Nat /\ hdr.active \in Nat
    BY HeaderAssumption DEF Settled
<1>2. size = Allocate(Places(hdr, n))
    BY DEF Settled
<1> HIDE DEF size
<1>3. /\ \A id \in DOMAIN size : AsNamed(hdr, [place |-> [id |-> id], size |-> size[id]])
      /\ \A name \in NamesOf(hdr) : <<name, 0>> \in DOMAIN size
    BY <1>1, <1>2, AllocatedAsNamed
<1>4. \A name : DepthAs(hdr, name) \in Nat
    BY <1>1 DEF DepthAs, Active1
<1>5. ASSUME NEW name \in NamesOf(hdr)
      PROVE  /\ <<name, 0>> \in DOMAIN size
             /\ size[<<name, 0>>].ft = TypeAs(hdr, name) /\ size[<<name, 0>>].z \in Nat
             /\ name \in {"POS", "TOK", "X", "LG", "ZQ"} => size[<<name, 0>>] = PipeSize(hdr, name)
             /\ name = "gt" => size[<<name, 0>>].x = Experts1(hdr)
             /\ name = "moe_s" => size[<<name, 0>>].x = 1
    <2>1. <<name, 0>> \in DOMAIN size
        BY <1>3
    <2> DEFINE entry == [place |-> [id |-> <<name, 0>>], size |-> size[<<name, 0>>]]
    <2>2. AsNamed(hdr, entry)
        BY <1>3, <2>1
    <2>3. entry.place.id[1] = name /\ entry.size = size[<<name, 0>>]
        OBVIOUS
    <2> HIDE DEF entry
    <2>. QED
        BY <1>4, <2>1, <2>2, <2>3 DEF AsNamed
<1>6. ASSUME NEW ptr, Known(hdr, ptr)
      PROVE  /\ SizeOf(n, ptr).ft = TypeOf(hdr, ptr) /\ SizeOf(n, ptr).z \in Nat
             /\ ptr.place.id = <<"gt", 0>> => SizeOf(n, ptr).x = Experts1(hdr)
    <2>1. PICK name \in NamesOf(hdr) : ptr.place.id = <<name, 0>>
        BY <1>6 DEF Known
    <2>2. SizeOf(n, ptr) = size[<<name, 0>>] /\ TypeOf(hdr, ptr) = TypeAs(hdr, name)
        BY <2>1 DEF SizeOf, TypeOf, size
    <2>3. ptr.place.id = <<"gt", 0>> => name = "gt"
        BY <2>1
    <2>. QED
        BY <1>5, <2>2, <2>3
<1>7. {"POS", "TOK", "X", "LG", "ZQ", "moe_s"} \subseteq NamesOf(hdr)
    BY DEF NamesOf
<1>. QED
    BY <1>5, <1>6, <1>7 DEF size

LEMMA DepthNat ==
    ASSUME Settled, NEW n \in Nodes, NEW op, Fine(hdr, op)
    PROVE  Depth(n, op) \in Nat
<1>1. op.code \in {"CAST", "SILU", "MUL", "SCALE"} => SizeOf(n, op.in).z \in Nat
    BY SizesKnown DEF Fine
<1>2. op.code = "REPEAT_Z" => SizeOf(n, op.out).z \in Nat
    BY SizesKnown DEF Fine
<1>3. op.code = "MATMUL" => op.aux.active \in Nat
    BY DEF Fine
<1>. QED
    BY <1>1, <1>2, <1>3 DEF Depth

\* forward() has code for all operators but for the combinations that
\* RaisesOnlyAsKnown lists.
LEMMA AllSupported ==
    ASSUME Settled, NEW n \in Nodes, NEW op, Fine(hdr, op),
           <<hdr.sync, hdr.weight>> \in {<<F32, F32>>, <<F32, "Q40">>, <<Q80, "Q40">>},
           ~ (hdr.arch = "QWEN3_MOE" /\ hdr.active >= Experts1(hdr))
    PROVE  Supported(n, op)
<1> DEFINE in == SizeOf(n, op.in)
           out == SizeOf(n, op.out)
<1>1. hdr.sync \in {F32, Q80}
    OBVIOUS
<1>2. \A name : TypeAs(hdr, name) \in {F32, Q80}
    BY <1>1 DEF TypeAs
<1>3. op.code \in {"MERGE_ADD", "EMBEDDING", "RMS_NORM", "MATMUL", "CAST", "MOE_GATE"} =>
          in.ft = TypeOf(hdr, op.in) /\ in.ft \in {F32, Q80}
    BY SizesKnown, <1>2 DEF Fine, TypeOf
<1>4. op.code \in {"MERGE_ADD", "EMBEDDING", "CAST"} =>
          out.ft = TypeOf(hdr, op.out) /\ out.ft \in {F32, Q80}
    BY SizesKnown, <1>2 DEF Fine, TypeOf
<1>5. op.code = "MERGE_ADD" => out.ft = F32
    <2>1. TypeAs(hdr, "x") = F32
        BY DEF TypeAs, Synced
    <2>2. op.code = "MERGE_ADD" => op.out.place.id[1] = "x"
        BY DEF Fine
    <2>. QED
        BY <1>4, <2>1, <2>2 DEF TypeOf
<1>6. op.code = "EMBEDDING" => in.ft = F32
    <2>1. TypeAs(hdr, "TOK") = F32
        BY DEF TypeAs, Synced
    <2>2. op.code = "EMBEDDING" => op.in.place.id[1] = "TOK"
        BY DEF Fine
    <2>. QED
        BY <1>3, <2>1, <2>2 DEF TypeOf
<1>7. op.code = "MATMUL" => <<in.ft, op.weight.ft>> \in {<<F32, F32>>, <<F32, "Q40">>, <<Q80, "Q40">>}
    BY <1>3 DEF Fine
<1>8. op.code = "MOE_GATE" => op.aux.k < in.x
    <2> SUFFICES ASSUME op.code = "MOE_GATE" PROVE op.aux.k < in.x
        OBVIOUS
    <2>1. op.aux.k = hdr.active /\ hdr.arch = "QWEN3_MOE" /\ in.x = Experts1(hdr)
        BY SizesKnown DEF Fine
    <2>2. hdr.active \in Nat /\ Experts1(hdr) \in Nat
        BY HeaderAssumption DEF Settled, Experts1
    <2>. QED
        BY <2>1, <2>2
<1> HIDE DEF in, out
<1>9. op.code = "CAST" => in.ft = out.ft \/ {in.ft, out.ft} = {F32, Q80}
    BY <1>3, <1>4
<1>. QED
    BY <1>3, <1>4, <1>5, <1>6, <1>7, <1>8, <1>9 DEF Supported, in, out

-----------------------------------------------------------------------------
\* Memory keeps its shape, whatever is written where.
MemOK(f) == OnNodes(f) /\ \A n \in Nodes : Shape(sizes[n], f[n])

LEMMA RowsKept ==
    ASSUME NEW size, NEW m, Shape(size, m), NEW id, NEW f, DOMAIN f = DOMAIN m[id],
           \A r \in DOMAIN f : DOMAIN f[r] = DOMAIN m[id][r]
    PROVE  Shape(size, [m EXCEPT ![id] = f])
<1> DEFINE g == [m EXCEPT ![id] = f]
<1>1. DOMAIN g = DOMAIN m
    OBVIOUS
<1>2. ASSUME NEW i \in DOMAIN m
      PROVE  DOMAIN g[i] = DOMAIN m[i] /\ \A r \in DOMAIN g[i] : DOMAIN g[i][r] = DOMAIN m[i][r]
    OBVIOUS
<1> HIDE DEF g
<1>3. Shape(size, g)
    BY <1>1, <1>2 DEF Shape
<1>. QED
    BY <1>3 DEF g

LEMMA NodeKept ==
    ASSUME NEW f, MemOK(f), NEW n \in Nodes, NEW m, Shape(sizes[n], m)
    PROVE  MemOK([f EXCEPT ![n] = m])
<1> DEFINE g == [f EXCEPT ![n] = m]
<1>1. f = [i \in Nodes |-> f[i]] /\ \A i \in Nodes : Shape(sizes[i], f[i])
    BY DEF MemOK, OnNodes
<1>2. g = [i \in Nodes |-> IF i = n THEN m ELSE f[i]]
    BY <1>1
<1> HIDE DEF g
<1>3. g = [i \in Nodes |-> g[i]]
    BY <1>2
<1>4. \A i \in Nodes : Shape(sizes[i], g[i])
    BY <1>1, <1>2
<1>. QED
    BY <1>3, <1>4 DEF MemOK, OnNodes, g

LEMMA WrittenShape ==
    ASSUME MemOK(mem), NEW n \in Nodes, NEW op, NEW ti, NEW z, NEW y, NEW share
    PROVE  MemOK(Written(n, op, ti, z, y, share))
<1> DEFINE id == op.out.place.id
           row == OutRow(n, op, z, y)
           cell(c) == Result(n, op, z, y, c - Offset(n, op.out))
           mine(c) == c - Offset(n, op.out) \in 0..(Width(n, op.out) - 1)
           new(m, c) == IF mine(c) /\ c - Offset(n, op.out) \in share THEN cell(c)
                        ELSE IF mine(c) /\ Converts(n, op, z) THEN Junk
                        ELSE m[c]
           rows == mem[n][id]
           g == [c \in DOMAIN rows[row] |-> new(rows[row], c)]
           f == [rows EXCEPT ![row] = g]
           m == [mem[n] EXCEPT ![id] = f]
<1>1. Written(n, op, ti, z, y, share) = [mem EXCEPT ![n] = m]
    BY DEF Written
<1> HIDE DEF new
<1>2. DOMAIN g = DOMAIN rows[row]
    OBVIOUS
<1> HIDE DEF g
<1>3. DOMAIN f = DOMAIN rows /\ \A r \in DOMAIN f : DOMAIN f[r] = DOMAIN rows[r]
    BY <1>2
<1> HIDE DEF f, row
<1>4. Shape(sizes[n], mem[n])
    BY DEF MemOK
<1>5. Shape(sizes[n], m)
    BY <1>3, <1>4, RowsKept
<1> HIDE DEF m
<1>6. MemOK([mem EXCEPT ![n] = m])
    BY <1>5, NodeKept
<1>. QED
    BY <1>1, <1>6

-----------------------------------------------------------------------------
\* The threads of a node.
LEMMA FreshCounted ==
    ASSUME NEW h \in Headers, NEW n \in NodesOf(h), NEW limit \in Nat, NEW has
    PROVE  /\ Counted(h.threads[n], Fresh(h, n), limit)
           /\ Weighed(h.threads[n], Fresh(h, n), has)
<1> DEFINE nt == h.threads[n]
           a == Fresh(h, n)
<1>1. a = [ti \in 0..(nt - 1) |-> [row |-> 0, mode |-> "new"]]
    BY DEF Fresh
<1> HIDE DEF a, nt
<1>2. a = [ti \in 0..(nt - 1) |-> a[ti]]
    BY <1>1
<1>3. \A ti \in 0..(nt - 1) : a[ti] = [row |-> a[ti].row, mode |-> a[ti].mode] /\ a[ti].row = 0
                              /\ a[ti].mode = "new"
    BY <1>1
<1>4. ~ NeedsWeight("new")
    BY DEF NeedsWeight
<1>5. Counted(nt, a, limit)
    BY <1>2, <1>3 DEF Counted
<1>6. Weighed(nt, a, has)
    BY <1>3, <1>4 DEF Weighed
<1>. QED
    BY <1>5, <1>6 DEF a, nt

\* What happens to a thread that goes on to another row, and to the others.
LEMMA ThreadGoesOn ==
    ASSUME NEW nt, NEW a, NEW limit \in Nat, Counted(nt, a, limit),
           NEW ti \in 0..(nt - 1), NEW row \in 0..limit, NEW has, NEW hasNow,
           Weighed(nt, a, has), nt \in Nat
    PROVE  LET b == [a EXCEPT ![ti] = [row |-> row, mode |-> "new"]]
           IN  Counted(nt, b, limit) /\ Weighed(nt, b, hasNow)
<1> DEFINE b == [a EXCEPT ![ti] = [row |-> row, mode |-> "new"]]
<1>1. a = [t \in 0..(nt - 1) |-> a[t]]
    BY DEF Counted
<1>2. b = [t \in 0..(nt - 1) |-> IF t = ti THEN [row |-> row, mode |-> "new"] ELSE a[t]]
    BY <1>1
<1> HIDE DEF b
<1>3. b = [t \in 0..(nt - 1) |-> b[t]]
    BY <1>2
<1>4. ASSUME NEW t \in 0..(nt - 1)
      PROVE  b[t] = [row |-> b[t].row, mode |-> b[t].mode] /\ b[t].row \in 0..limit
    <2>1. CASE t = ti
        <3>1. b[t] = [row |-> row, mode |-> "new"]
            BY <1>2, <2>1
        <3>. QED
            BY <3>1
    <2>2. CASE t # ti
        <3>1. b[t] = a[t]
            BY <1>2, <2>2
        <3>. QED
            BY <3>1 DEF Counted
    <2>. QED
        BY <2>1, <2>2
<1>5. ASSUME Threadsafe(hdr), NEW t \in 0..(nt - 1), NeedsWeight(b[t].mode) PROVE FALSE
    <2>1. CASE t = ti
        <3>1. b[t].mode = "new"
            BY <1>2, <2>1
        <3>. QED
            BY <1>5, <3>1 DEF NeedsWeight
    <2>2. CASE t # ti
        <3>1. b[t] = a[t]
            BY <1>2, <2>2
        <3>2. nt = 1
            BY <1>5, <3>1 DEF Weighed
        <3>. QED
            BY <2>2, <3>2
    <2>. QED
        BY <2>1, <2>2
<1>. QED
    BY <1>3, <1>4, <1>5 DEF Counted, Weighed, b

-----------------------------------------------------------------------------
\* Steps.  What has to be shown of a node after a step, in terms of the values
\* that the step gives its variables.
LEMMA NodeThen ==
    ASSUME NEW m, hdr' = hdr, sizes' = sizes,
           pc'[m] \in 1..Len(Steps[hdr][m]), now'[m] = Steps[hdr][m][pc'[m]],
           Shape(sizes[m], mem'[m]),
           Counted(hdr.threads[m], at'[m], Limit(m, now'[m], fwd'.rows)),
           Weighed(hdr.threads[m], at'[m], pc'[m] \in raw'[m]),
           now'[m].do # "op" => at'[m] = Fresh(hdr, m)
    PROVE  NodeOK(m)'
<1>1. Limit(m, now[m], fwd.rows)' = Limit(m, now'[m], fwd'.rows)
    BY DEF Limit, Depth, SizeOf
<1>2. Counted(hdr.threads[m], at[m], Limit(m, now[m], fwd.rows))'
    BY <1>1 DEF Counted
<1>3. Weighed(hdr.threads[m], at[m], HasWeight(m))'
    BY DEF Weighed, HasWeight
<1>4. Shape(sizes[m], mem[m])'
    BY DEF Shape
<1>5. (pc[m] \in 1..Len(Steps[hdr][m]) /\ now[m] = Steps[hdr][m][pc[m]])'
    BY DEF Steps, StepsOf
<1>6. (now[m].do # "op" => at[m] = Fresh(hdr, m))'
    BY DEF Fresh
<1>. QED
    BY <1>2, <1>3, <1>4, <1>5, <1>6 DEF NodeOK

\* Nothing has happened to the node but to its memory.
LEMMA NodeStays ==
    ASSUME ExecOK, NEW m \in Nodes, hdr' = hdr, sizes' = sizes, fwd' = fwd,
           pc'[m] = pc[m], now'[m] = now[m], at'[m] = at[m], raw'[m] = raw[m],
           Shape(sizes[m], mem'[m])
    PROVE  NodeOK(m)'
<1>1. NodeOK(m)
    BY DEF ExecOK
<1>. QED
    BY <1>1, NodeThen DEF NodeOK, HasWeight

LEMMA LimitNat ==
    ASSUME Settled, NEW n \in Nodes, NEW i \in 1..Len(Steps[hdr][n]), NEW rows \in Nat
    PROVE  Limit(n, Steps[hdr][n][i], rows) \in Nat
<1> DEFINE s == Steps[hdr][n]
<1>1. /\ Len(s) \in Nat \ {0} /\ s[Len(s)] = End
      /\ \A k \in 1..Len(s) : k # Len(s) => GoodStep(hdr, s[k])
    BY StepsGood DEF Settled, Nodes
<1> HIDE DEF s
<1>2. ASSUME s[i].do = "op" PROVE Depth(n, s[i].op) * rows \in Nat
    <2>1. s[i] # End
        BY <1>2 DEF End
    <2>2. Fine(hdr, s[i].op)
        BY <1>1, <1>2, <2>1 DEF GoodStep, s
    <2>3. Depth(n, s[i].op) \in Nat
        BY <2>2, DepthNat
    <2>. QED
        BY <2>3
<1>3. Limit(n, s[i], rows) \in Nat
    BY <1>2 DEF Limit
<1>. QED
    BY <1>3 DEF s

\* A node that has an operator or a synchronisation to do is not at its end.
LEMMA StepIsGood ==
    ASSUME ExecOK, NEW n \in Nodes, now[n].do \in {"op", "sync"}
    PROVE  pc[n] \in Nat /\ pc[n] + 1 \in 1..Len(Steps[hdr][n]) /\ GoodStep(hdr, now[n])
<1> DEFINE s == Steps[hdr][n]
<1>1. /\ Len(s) \in Nat \ {0} /\ s[Len(s)] = End
      /\ \A k \in 1..Len(s) : k # Len(s) => GoodStep(hdr, s[k])
    BY StepsGood DEF ExecOK, Settled, Nodes
<1>2. pc[n] \in 1..Len(s) /\ now[n] = s[pc[n]]
    BY DEF ExecOK, NodeOK
<1>3. now[n] # End
    BY DEF End
<1> HIDE DEF s
<1>. QED
    BY <1>1, <1>2, <1>3 DEF s

\* What an action leaves alone, or changes without harm.
Frame ==
    /\ hdr' = hdr /\ sizes' = sizes
    /\ now' = [n \in DOMAIN now |-> Steps[hdr][n][pc'[n]]]

LEMMA GoToOK ==
    ASSUME ExecOK, Frame, fwd' = fwd, failed' = failed, MemOK(mem'),
           NEW n \in Nodes, NEW ti \in Threads(n), now[n].do = "op",
           NEW row \in 0..Rows(n, now[n].op), GoTo(n, ti, row),
           raw' = [m \in Nodes |-> raw'[m]], \A m \in Nodes : m # n => raw'[m] = raw[m]
    PROVE  ExecOK'
<1> DEFINE limit == Limit(n, now[n], fwd.rows)
           nt == hdr.threads[n]
           moved == [at[n] EXCEPT ![ti] = [row |-> row, mode |-> "new"]]
           joined == \A t \in Threads(n) : moved[t].row = Rows(n, now[n].op)
<1>1. /\ hdr' = hdr /\ sizes' = sizes /\ hdr \in Headers
      /\ at = [m \in Nodes |-> at[m]] /\ pc = [m \in Nodes |-> pc[m]] /\ now = [m \in Nodes |-> now[m]]
    BY DEF Frame, ExecOK, Settled, OnNodes
<1>2. now' = [m \in Nodes |-> Steps[hdr][m][pc'[m]]]
    BY <1>1 DEF Frame
<1>3. /\ at' = [at EXCEPT ![n] = IF joined THEN Fresh(hdr, n) ELSE moved]
      /\ pc' = [pc EXCEPT ![n] = IF joined THEN @ + 1 ELSE @]
    BY DEF GoTo
<1> HIDE DEF joined, moved
<1>4. /\ at' = [m \in Nodes |-> IF m = n THEN IF joined THEN Fresh(hdr, n) ELSE moved ELSE at[m]]
      /\ pc' = [m \in Nodes |-> IF m = n THEN IF joined THEN pc[n] + 1 ELSE pc[n] ELSE pc[m]]
    BY <1>1, <1>3
<1>5. /\ pc[n] \in 1..Len(Steps[hdr][n]) /\ now[n] = Steps[hdr][n][pc[n]]
      /\ Counted(nt, at[n], limit) /\ Weighed(nt, at[n], HasWeight(n))
    BY DEF ExecOK, NodeOK
<1>6. nt \in Nat /\ fwd.rows \in Nat /\ n \in NodesOf(hdr)
    BY <1>1, HeaderAssumption DEF ExecOK, NodesOf, Nodes
<1>7. limit \in Nat /\ limit = Rows(n, now[n].op)
    BY <1>5, <1>6, LimitNat DEF ExecOK, Limit, Rows
<1>8. Shape(sizes[n], mem'[n])
    BY DEF MemOK
<1>9. NodeOK(n)'
    <2>1. CASE joined
        <3>1. pc'[n] = pc[n] + 1 /\ at'[n] = Fresh(hdr, n)
            BY <1>4, <2>1
        <3>2. pc'[n] \in 1..Len(Steps[hdr][n])
            BY <3>1, StepIsGood
        <3>3. now'[n] = Steps[hdr][n][pc'[n]]
            BY <1>2
        <3>4. Limit(n, now'[n], fwd'.rows) \in Nat
            BY <1>6, <3>2, <3>3, LimitNat DEF ExecOK
        <3>5. /\ Counted(nt, at'[n], Limit(n, now'[n], fwd'.rows))
              /\ Weighed(nt, at'[n], pc'[n] \in raw'[n])
            BY <1>1, <1>6, <3>1, <3>4, FreshCounted
        <3>. QED
            BY <1>1, <1>8, <3>1, <3>2, <3>3, <3>5, NodeThen
    <2>2. CASE ~joined
        <3>1. pc'[n] = pc[n] /\ at'[n] = moved
            BY <1>4, <2>2
        <3>2. now'[n] = now[n]
            BY <1>2, <1>5, <3>1
        <3>3. ti \in 0..(nt - 1)
            BY DEF Threads
        <3>4. Counted(nt, moved, limit) /\ Weighed(nt, moved, pc'[n] \in raw'[n])
            <4> HIDE DEF limit, nt
            <4>. QED
                BY <1>5, <1>6, <1>7, <3>3, ThreadGoesOn DEF moved
        <3>5. limit = Limit(n, now'[n], fwd'.rows)
            BY <3>2
        <3>. QED
            BY <1>1, <1>5, <1>8, <3>1, <3>2, <3>4, <3>5, NodeThen
    <2>. QED
        BY <2>1, <2>2
<1>10. ASSUME NEW m \in Nodes, m # n PROVE NodeOK(m)'
    <2>1. pc'[m] = pc[m] /\ at'[m] = at[m] /\ raw'[m] = raw[m]
        BY <1>4, <1>10
    <2>2. now'[m] = now[m]
        BY <1>2, <2>1, <1>10 DEF ExecOK, NodeOK
    <2>3. Shape(sizes[m], mem'[m])
        BY DEF MemOK
    <2>. QED
        BY <1>1, <2>1, <2>2, <2>3, NodeStays
<1>11. Nodes' = Nodes
    BY <1>1 DEF Nodes, NodesOf
<1>12. Settled'
    BY <1>1, <1>11 DEF ExecOK, Settled, Places
<1>13. OnNodes(mem)' /\ OnNodes(raw)' /\ OnNodes(pc)' /\ OnNodes(now)' /\ OnNodes(at)'
    <2>1. mem' = [m \in Nodes |-> mem'[m]]
        BY DEF MemOK, OnNodes
    <2>. QED
        BY <1>2, <1>4, <1>11, <2>1 DEF OnNodes
<1>14. RaisesOnlyAsKnown' /\ (failed \subseteq Nodes /\ fwd.rows \in Nat)'
    BY <1>1, <1>6, <1>11 DEF ExecOK, RaisesOnlyAsKnown
<1>. QED
    BY <1>9, <1>10, <1>11, <1>12, <1>13, <1>14 DEF ExecOK

\* An operator's thread goes on when it has written some memory.
LEMMA WorksOK ==
    ASSUME ExecOK, NEW n \in Nodes, NEW ti \in Threads(n), Works(n, ti, now[n].op)
    PROVE  /\ now[n].do = "op" /\ Fine(hdr, now[n].op)
           /\ at[n][ti].row \in Nat /\ at[n][ti].row + 1 \in 0..Rows(n, now[n].op)
           /\ Rows(n, now[n].op) \in 0..Rows(n, now[n].op)
           /\ raw = [m \in Nodes |-> raw[m]] /\ MemOK(mem)
<1>1. now[n].do = "op" /\ at[n][ti].row < Rows(n, now[n].op)
    BY DEF Works, Does
<1>2. /\ pc[n] \in 1..Len(Steps[hdr][n]) /\ now[n] = Steps[hdr][n][pc[n]] /\ fwd.rows \in Nat
      /\ Counted(hdr.threads[n], at[n], Limit(n, now[n], fwd.rows))
    BY DEF ExecOK, NodeOK
<1>3. Limit(n, now[n], fwd.rows) \in Nat /\ Limit(n, now[n], fwd.rows) = Rows(n, now[n].op)
    BY <1>1, <1>2, LimitNat DEF ExecOK, Limit, Rows
<1>4. at[n][ti].row \in 0..Rows(n, now[n].op)
    BY <1>2, <1>3 DEF Counted, Threads
<1> DEFINE k == Rows(n, now[n].op)
           r == at[n][ti].row
<1> HIDE DEF k, r
<1>5. k \in Nat /\ r \in 0..k /\ r < k
    BY <1>1, <1>3, <1>4 DEF k, r
<1>6. r \in Nat /\ r + 1 \in 0..k /\ k \in 0..k
    BY <1>5
<1>7. Fine(hdr, now[n].op)
    BY <1>1, StepIsGood DEF GoodStep
<1>8. raw = [m \in Nodes |-> raw[m]] /\ MemOK(mem)
    BY DEF ExecOK, OnNodes, NodeOK, MemOK
<1>. QED
    BY <1>1, <1>6, <1>7, <1>8 DEF k, r

LEMMA ComputeOK ==
    ASSUME ExecOK, Frame, NEW n \in Nodes, NEW ti \in Threads(n), Compute(n, ti)
    PROVE  ExecOK'
<1>1. /\ Works(n, ti, now[n].op) /\ GoTo(n, ti, at[n][ti].row + 1)
      /\ raw' = raw /\ failed' = failed /\ fwd' = fwd
    BY DEF Compute, NextRow
<1>2. PICK z, y, share : mem' = Written(n, now[n].op, ti, z, y, share)
    BY DEF Compute
<1>3. MemOK(mem')
    BY <1>1, <1>2, WorksOK, WrittenShape
<1>. QED
    BY <1>1, <1>3, WorksOK, GoToOK

LEMMA MultiplyOK ==
    ASSUME ExecOK, Frame, NEW n \in Nodes, NEW ti \in Threads(n), Multiply(n, ti)
    PROVE  ExecOK'
<1>1. /\ Works(n, ti, now[n].op) /\ GoTo(n, ti, at[n][ti].row + 1)
      /\ failed' = failed /\ fwd' = fwd
    BY DEF Multiply, NextRow
<1>2. PICK z, y, share : mem' = Written(n, now[n].op, ti, z, y, share)
    BY DEF Multiply
<1>3. MemOK(mem')
    BY <1>1, <1>2, WorksOK, WrittenShape
<1>4. raw' = [raw EXCEPT ![n] = @ \ {pc[n]}] \/ raw' = raw
    BY DEF Multiply
<1>5. raw = [m \in Nodes |-> raw[m]]
    BY <1>1, WorksOK
<1>6. raw' = [m \in Nodes |-> raw'[m]] /\ \A m \in Nodes : m # n => raw'[m] = raw[m]
    BY <1>4, <1>5
<1>. QED
    BY <1>1, <1>3, <1>6, WorksOK, GoToOK

LEMMA MultiplyBatchOK ==
    ASSUME ExecOK, Frame, NEW n \in Nodes, NEW ti \in Threads(n), MultiplyBatch(n, ti)
    PROVE  ExecOK'
<1> DEFINE op == now[n].op
           id == op.out.place.id
           width == Width(n, op.out)
           done == IF fwd.rows = 1 THEN 0..(width - 1) ELSE Split(width, hdr.threads[n], ti)
           cell(r, c) == IF c \in done THEN Result(n, op, 0, r, c) ELSE Junk
           rows == mem[n][id]
           f == [r \in DOMAIN rows |-> IF r >= fwd.rows THEN rows[r]
                                       ELSE [c \in DOMAIN rows[r] |-> cell(r, c)]]
           m == [mem[n] EXCEPT ![id] = f]
<1>1. /\ Works(n, ti, now[n].op) /\ GoTo(n, ti, Rows(n, now[n].op))
      /\ raw' = raw /\ failed' = failed /\ fwd' = fwd
    BY DEF MultiplyBatch
<1>2. mem' = [mem EXCEPT ![n] = m]
    BY DEF MultiplyBatch
<1> HIDE DEF cell
<1>3. DOMAIN f = DOMAIN rows /\ \A r \in DOMAIN f : DOMAIN f[r] = DOMAIN rows[r]
    <2>1. \A r \in DOMAIN rows : f[r] = IF r >= fwd.rows THEN rows[r]
                                        ELSE [c \in DOMAIN rows[r] |-> cell(r, c)]
        OBVIOUS
    <2>2. DOMAIN f = DOMAIN rows
        OBVIOUS
    <2>3. ASSUME NEW r \in DOMAIN rows PROVE DOMAIN f[r] = DOMAIN rows[r]
        <3>1. CASE r >= fwd.rows
            BY <2>1, <3>1
        <3>2. CASE ~ (r >= fwd.rows)
            <4>1. f[r] = [c \in DOMAIN rows[r] |-> cell(r, c)]
                BY <2>1, <3>2
            <4> HIDE DEF f
            <4>. QED
                BY <4>1
        <3>. QED
            BY <3>1, <3>2
    <2> HIDE DEF f
    <2>. QED
        BY <2>2, <2>3
<1> HIDE DEF f
<1>4. MemOK(mem) /\ Shape(sizes[n], mem[n])
    BY <1>1, WorksOK DEF MemOK
<1>5. Shape(sizes[n], m)
    BY <1>3, <1>4, RowsKept
<1> HIDE DEF m
<1>6. MemOK(mem')
    BY <1>2, <1>4, <1>5, NodeKept
<1>. QED
    BY <1>1, <1>6, WorksOK, GoToOK

LEMMA ChooseExpertsOK ==
    ASSUME ExecOK, Frame, NEW n \in Nodes, NEW ti \in Threads(n), ChooseExperts(n, ti)
    PROVE  ExecOK'
<1> DEFINE op == now[n].op
           y == at[n][ti].row
           gate == RowOf(n, op.in, 0, y)
           top == Top(n, y)
           chosen(k, path) ==
               Check(/\ Together(gate, 0) /\ gate[0].path = Gate(op.index),
                     [gate[0] EXCEPT !.path = path, !.col = top[k + 1]])
           index(k) == [chosen(k, <<<<"index", 0>>>>) EXCEPT !.at = top[k + 1]]
           weight(k) == chosen(k, Append(Gate(op.index), <<"expert", top[k + 1]>>))
           indexes == op.aux.indexes.id
           scales == op.out.place.id
           row(id, r) == IF id = indexes /\ r = y THEN [k \in DOMAIN mem[n][id][r] |-> index(k)]
                         ELSE IF id = scales /\ r % hdr.batches = y
                              THEN [c \in {0} |-> weight(r \div hdr.batches)]
                         ELSE mem[n][id][r]
           m == [id \in DOMAIN mem[n] |-> [r \in DOMAIN mem[n][id] |-> row(id, r)]]
<1>1. /\ Works(n, ti, now[n].op) /\ GoTo(n, ti, at[n][ti].row + 1)
      /\ raw' = raw /\ failed' = failed /\ fwd' = fwd /\ op.code = "MOE_GATE"
    BY DEF ChooseExperts, NextRow
<1>2. MemOK(mem) /\ Shape(sizes[n], mem[n])
    BY <1>1, WorksOK DEF MemOK
<1>3. mem' = mem \/ mem' = [mem EXCEPT ![n] = m]
    BY DEF ChooseExperts
<1>4. scales = <<"moe_s", 0>> /\ sizes[n][scales].x = 1
    <2>1. Fine(hdr, op)
        BY <1>1, WorksOK
    <2>2. sizes[n][<<"moe_s", 0>>].x = 1
        BY SizesKnown DEF ExecOK
    <2>. QED
        BY <1>1, <2>1, <2>2 DEF Fine
<1> HIDE DEF index, weight, y, indexes
<1>5. ASSUME NEW id \in DOMAIN sizes[n], NEW r \in DOMAIN mem[n][id]
      PROVE  DOMAIN row(id, r) = DOMAIN mem[n][id][r]
    <2>1. CASE id = indexes /\ r = y
        BY <2>1
    <2>2. CASE ~ (id = indexes /\ r = y) /\ id = scales /\ r % hdr.batches = y
        <3>1. row(id, r) = [c \in {0} |-> weight(r \div hdr.batches)]
            BY <2>2
        <3>2. DOMAIN row(id, r) = {0}
            BY <3>1
        <3>3. DOMAIN mem[n][id][r] = 0..(sizes[n][id].x - 1)
            BY <1>2 DEF Shape
        <3>4. sizes[n][id].x = 1
            BY <1>4, <2>2
        <3>5. 0..(1 - 1) = {0}
            OBVIOUS
        <3> HIDE DEF row
        <3>. QED
            BY <3>2, <3>3, <3>4, <3>5
    <2>3. CASE ~ (id = indexes /\ r = y) /\ ~ (id = scales /\ r % hdr.batches = y)
        BY <2>3
    <2>. QED
        BY <2>1, <2>2, <2>3
<1> HIDE DEF row
<1>6. Shape(sizes[n], m)
    <2>1. DOMAIN m = DOMAIN mem[n]
        OBVIOUS
    <2>2. ASSUME NEW id \in DOMAIN mem[n]
          PROVE  m[id] = [r \in DOMAIN mem[n][id] |-> row(id, r)]
        OBVIOUS
    <2> HIDE DEF m
    <2>3. DOMAIN mem[n] = DOMAIN sizes[n]
        BY <1>2 DEF Shape
    <2>4. ASSUME NEW id \in DOMAIN sizes[n]
          PROVE  /\ DOMAIN m[id] = DOMAIN mem[n][id]
                 /\ \A r \in DOMAIN m[id] : DOMAIN m[id][r] = DOMAIN mem[n][id][r]
        <3>1. m[id] = [r \in DOMAIN mem[n][id] |-> row(id, r)]
            BY <2>2, <2>3
        <3>2. DOMAIN m[id] = DOMAIN mem[n][id] /\ \A r \in DOMAIN m[id] : m[id][r] = row(id, r)
            BY <3>1
        <3>. QED
            BY <1>5, <3>2
    <2>. QED
        BY <1>2, <2>1, <2>3, <2>4 DEF Shape
<1> HIDE DEF m
<1>7. MemOK(mem')
    BY <1>2, <1>3, <1>6, NodeKept
<1>. QED
    BY <1>1, <1>7, WorksOK, GoToOK

\* What is left to show of the cluster when all nodes are as they should be.
LEMMA AllNodesOK ==
    ASSUME ExecOK, Frame, MemOK(mem'), fwd'.rows \in Nat, failed' \subseteq Nodes,
           raw' = [m \in Nodes |-> raw'[m]], pc' = [m \in Nodes |-> pc'[m]],
           at' = [m \in Nodes |-> at'[m]], \A m \in Nodes : NodeOK(m)', RaisesOnlyAsKnown'
    PROVE  ExecOK'
<1>1. hdr' = hdr /\ sizes' = sizes /\ now = [m \in Nodes |-> now[m]]
    BY DEF Frame, ExecOK, OnNodes
<1>2. now' = [m \in Nodes |-> Steps[hdr][m][pc'[m]]]
    BY <1>1 DEF Frame
<1>3. Nodes' = Nodes
    BY <1>1 DEF Nodes, NodesOf
<1>4. Settled'
    BY <1>1, <1>3 DEF ExecOK, Settled, Places
<1>5. mem' = [m \in Nodes |-> mem'[m]]
    BY DEF MemOK, OnNodes
<1>6. OnNodes(mem)' /\ OnNodes(raw)' /\ OnNodes(pc)' /\ OnNodes(now)' /\ OnNodes(at)'
    BY <1>2, <1>3, <1>5 DEF OnNodes
<1>. QED
    BY <1>3, <1>4, <1>6 DEF ExecOK

LEMMA TestWeightOK ==
    ASSUME ExecOK, Frame, NEW n \in Nodes, NEW ti \in Threads(n), TestWeight(n, ti)
    PROVE  ExecOK'
<1> DEFINE op == now[n].op
           mode == Mode(n, ti, op)
           a == at[n]
           b == [a EXCEPT ![ti].mode = mode]
           nt == hdr.threads[n]
           limit == Limit(n, now[n], fwd.rows)
<1>1. /\ Works(n, ti, op) /\ op.code = "MATMUL" /\ NeedsWeight(mode)
      /\ at' = [at EXCEPT ![n][ti].mode = mode]
      /\ mem' = mem /\ raw' = raw /\ pc' = pc /\ failed' = failed /\ fwd' = fwd
    BY DEF TestWeight
<1>2. /\ Fine(hdr, op) /\ MemOK(mem) /\ NodeOK(n)
      /\ at = [m \in Nodes |-> at[m]] /\ pc = [m \in Nodes |-> pc[m]] /\ now = [m \in Nodes |-> now[m]]
      /\ raw = [m \in Nodes |-> raw[m]] /\ hdr \in Headers
      /\ hdr' = hdr /\ sizes' = sizes
      /\ now' = [m \in DOMAIN now |-> Steps[hdr][m][pc'[m]]]
    BY <1>1, WorksOK DEF ExecOK, OnNodes, Settled, Frame
<1>3. op.weight.ft # F32 /\ HasWeight(n)
    BY <1>1 DEF Mode, NeedsWeight
<1>4. Threadsafe(hdr) => nt = 1
    <2>1. op.weight.ft \in {F32, hdr.weight}
        BY <1>1, <1>2 DEF Fine
    <2>2. n \in NodesOf(hdr)
        BY DEF Nodes
    <2>. QED
        BY <1>3, <2>1, <2>2 DEF Threadsafe
<1>5. /\ Counted(nt, a, limit) /\ Weighed(nt, a, HasWeight(n))
      /\ pc[n] \in 1..Len(Steps[hdr][n]) /\ now[n] = Steps[hdr][n][pc[n]]
      /\ Shape(sizes[n], mem[n]) /\ now[n].do = "op"
    BY <1>1, <1>2, WorksOK DEF NodeOK
<1> HIDE DEF mode, limit, op
<1>6. at' = [m \in Nodes |-> IF m = n THEN b ELSE at[m]]
    BY <1>1, <1>2
<1>7. Counted(nt, b, limit) /\ Weighed(nt, b, HasWeight(n))
    <2>1. /\ a = [t \in 0..(nt - 1) |-> a[t]]
          /\ \A t \in 0..(nt - 1) :
                a[t] = [row |-> a[t].row, mode |-> a[t].mode] /\ a[t].row \in 0..limit
        BY <1>5 DEF Counted
    <2>2. b = [t \in 0..(nt - 1) |-> IF t = ti THEN [a[t] EXCEPT !.mode = mode] ELSE a[t]]
        BY <2>1
    <2> HIDE DEF a, b, nt
    <2>3. b = [t \in 0..(nt - 1) |-> b[t]]
        BY <2>2
    <2>4. ASSUME NEW t \in 0..(nt - 1)
          PROVE  b[t] = [row |-> a[t].row, mode |-> IF t = ti THEN mode ELSE a[t].mode]
        <3>1. a[t] = [row |-> a[t].row, mode |-> a[t].mode]
            BY <2>1
        <3>2. b[t] = IF t = ti THEN [a[t] EXCEPT !.mode = mode] ELSE a[t]
            BY <2>2
        <3>. QED
            BY <3>1, <3>2
    <2>5. Counted(nt, b, limit)
        BY <2>1, <2>3, <2>4 DEF Counted
    <2>6. Weighed(nt, b, HasWeight(n))
        <3> SUFFICES ASSUME Threadsafe(hdr), NEW t \in 0..(nt - 1), NeedsWeight(b[t].mode)
                     PROVE  nt = 1 /\ HasWeight(n)
            BY DEF Weighed
        <3>. QED
            BY <1>3, <1>4 DEF nt
    <2>. QED
        BY <2>5, <2>6
<1>8. NodeOK(n)'
    <2>1. at'[n] = b /\ pc'[n] = pc[n] /\ mem'[n] = mem[n] /\ raw'[n] = raw[n]
        BY <1>1, <1>6
    <2>2. now'[n] = now[n]
        BY <1>2, <1>5, <2>1
    <2>3. Limit(n, now'[n], fwd'.rows) = limit
        BY <1>1, <2>2 DEF limit
    <2>4. HasWeight(n) <=> pc'[n] \in raw'[n]
        BY <2>1 DEF HasWeight
    <2> HIDE DEF b
    <2>5. Weighed(nt, at'[n], pc'[n] \in raw'[n])
        BY <1>7, <2>1, <2>4 DEF Weighed
    <2>. QED
        BY <1>2, <1>5, <1>7, <2>1, <2>2, <2>3, <2>5, NodeThen
<1>9. ASSUME NEW m \in Nodes, m # n PROVE NodeOK(m)'
    <2>1. at'[m] = at[m] /\ pc'[m] = pc[m] /\ mem'[m] = mem[m] /\ raw'[m] = raw[m]
        BY <1>1, <1>6, <1>9
    <2>2. now'[m] = now[m] /\ Shape(sizes[m], mem'[m])
        BY <1>2, <2>1 DEF ExecOK, NodeOK
    <2>. QED
        BY <1>1, <1>2, <2>1, <2>2, NodeStays
<1>10. \A m \in Nodes : NodeOK(m)'
    BY <1>8, <1>9
<1>11. RaisesOnlyAsKnown'
    BY <1>1, <1>2 DEF ExecOK, RaisesOnlyAsKnown
<1>12. at' = [m \in Nodes |-> at'[m]]
    BY <1>6
<1>13. failed' \subseteq Nodes /\ fwd'.rows \in Nat /\ MemOK(mem')
    BY <1>1, <1>2 DEF ExecOK
<1>14. raw' = [m \in Nodes |-> raw'[m]] /\ pc' = [m \in Nodes |-> pc'[m]]
    BY <1>1, <1>2
<1>. QED
    BY <1>10, <1>11, <1>12, <1>13, <1>14, AllNodesOK

LEMMA RaiseOK ==
    ASSUME ExecOK, Frame, NEW n \in Nodes, NEW ti \in Threads(n), Raise(n, ti)
    PROVE  ExecOK'
<1> DEFINE op == now[n].op
<1>1. /\ Works(n, ti, op)
      /\ ~Supported(n, op) \/ (NeedsWeight(at[n][ti].mode) /\ ~HasWeight(n))
      /\ failed' = failed \cup {n}
      /\ mem' = mem /\ raw' = raw /\ pc' = pc /\ at' = at /\ fwd' = fwd
    BY DEF Raise
<1>2. /\ Fine(hdr, op) /\ MemOK(mem) /\ NodeOK(n) /\ Settled
      /\ at = [m \in Nodes |-> at[m]] /\ pc = [m \in Nodes |-> pc[m]] /\ now = [m \in Nodes |-> now[m]]
      /\ raw = [m \in Nodes |-> raw[m]] /\ hdr' = hdr /\ sizes' = sizes
      /\ now' = [m \in DOMAIN now |-> Steps[hdr][m][pc'[m]]]
    BY <1>1, WorksOK DEF ExecOK, OnNodes, Frame
<1> HIDE DEF op
<1>3. ASSUME NEW m \in Nodes PROVE NodeOK(m)'
    <2>1. now'[m] = now[m] /\ Shape(sizes[m], mem'[m])
        BY <1>1, <1>2 DEF ExecOK, NodeOK
    <2>. QED
        BY <1>1, <1>2, <2>1, NodeStays
<1>4. RaisesOnlyAsKnown'
    <2>1. Threadsafe(hdr) /\ NeedsWeight(at[n][ti].mode) => HasWeight(n)
        <3>1. ti \in 0..(hdr.threads[n] - 1)
            BY DEF Threads
        <3>. QED
            BY <1>2, <3>1 DEF NodeOK, Weighed
    <2>2. RaisesOnlyAsKnown' <=>
            (failed' # {} => \/ <<hdr.sync, hdr.weight>> \notin {<<F32, F32>>, <<F32, "Q40">>, <<Q80, "Q40">>}
                             \/ hdr.arch = "QWEN3_MOE" /\ hdr.active >= Experts1(hdr)
                             \/ ~Threadsafe(hdr))
        BY <1>2 DEF RaisesOnlyAsKnown, Threadsafe, Experts1, NodesOf
    <2>. QED
        BY <1>1, <1>2, <2>1, <2>2, AllSupported
<1>5. failed' \subseteq Nodes /\ fwd'.rows \in Nat /\ MemOK(mem')
    BY <1>1, <1>2 DEF ExecOK
<1>6. raw' = [m \in Nodes |-> raw'[m]] /\ pc' = [m \in Nodes |-> pc'[m]] /\ at' = [m \in Nodes |-> at'[m]]
    BY <1>1, <1>2
<1>. QED
    BY <1>3, <1>4, <1>5, <1>6, AllNodesOK

\* A synchronisation puts rows of one node's pipe in place of those of others:
\* the pipe has the same size on all nodes.
LEMMA GatherShape ==
    ASSUME ExecOK, NEW n \in Nodes, NEW sync, GoodSync(sync), NEW r \in DOMAIN mem[n][sync.pipe.id]
    PROVE  DOMAIN Gather(sync.type, sync.pipe.id, n, r) = DOMAIN mem[n][sync.pipe.id][r]
<1> DEFINE id == sync.pipe.id
<1>1. 0 \in Nodes
    BY HeaderAssumption DEF ExecOK, Settled, Nodes, NodesOf
<1>2. PICK name \in {"X", "ZQ", "LG"} : sync.pipe = Pipe(name)
    BY DEF GoodSync
<1>3. id = <<name, 0>>
    BY <1>2 DEF Pipe
<1>4. \A m \in Nodes : id \in DOMAIN sizes[m] /\ sizes[m][id] = PipeSize(hdr, name)
    BY <1>3, SizesKnown DEF ExecOK
<1>5. \A m \in Nodes : Shape(sizes[m], mem[m])
    BY DEF ExecOK, NodeOK
<1> HIDE DEF id
<1>6. sizes[0][id] = sizes[n][id] /\ id \in DOMAIN sizes[0] /\ id \in DOMAIN sizes[n]
    BY <1>1, <1>4
<1>7. /\ DOMAIN mem[0][id] = 0..(sizes[0][id].z * sizes[0][id].y - 1)
      /\ DOMAIN mem[n][id] = 0..(sizes[n][id].z * sizes[n][id].y - 1)
      /\ \A i \in DOMAIN mem[0][id] : DOMAIN mem[0][id][i] = 0..(sizes[0][id].x - 1)
      /\ \A i \in DOMAIN mem[n][id] : DOMAIN mem[n][id][i] = 0..(sizes[n][id].x - 1)
    BY <1>1, <1>5, <1>6 DEF Shape
<1>8. r \in DOMAIN mem[n][id]
    BY DEF id
<1>9. DOMAIN mem[0][id][r] = DOMAIN mem[n][id][r]
    BY <1>6, <1>7, <1>8
<1> DEFINE slices == [c \in DOMAIN mem[n][id][r] |->
                        mem[(c * hdr.nodes) \div sizes[n][id].x][id][r][c]]
<1>10. DOMAIN slices = DOMAIN mem[n][id][r]
    OBVIOUS
<1>11. Gather(sync.type, id, n, r) =
          CASE sync.type = "WITH_ROOT" -> mem[0][id][r]
            [] sync.type = "NODE_SLICES" -> slices
            [] sync.type = "NODE_SLICES_EXCEPT_ROOT" -> IF n = 0 THEN slices ELSE mem[n][id][r]
    BY DEF Gather
<1> HIDE DEF slices
<1>12. sync.type \in {"WITH_ROOT", "NODE_SLICES", "NODE_SLICES_EXCEPT_ROOT"}
    BY DEF GoodSync
<1>13. DOMAIN Gather(sync.type, id, n, r) = DOMAIN mem[n][id][r]
    BY <1>9, <1>10, <1>11, <1>12
<1>. QED
    BY <1>13 DEF id

LEMMA SynchroniseOK ==
    ASSUME ExecOK, Frame, Synchronise
    PROVE  ExecOK'
<1> DEFINE sync == now[0].sync
           id == sync.pipe.id
           f(n) == [r \in DOMAIN mem[n][id] |->
                      IF r < fwd.rows THEN Gather(sync.type, id, n, r) ELSE mem[n][id][r]]
           m(n) == [mem[n] EXCEPT ![id] = f(n)]
<1>1. /\ \A n \in Nodes : now[n].do = "sync"
      /\ mem' = [n \in DOMAIN mem |-> m(n)]
      /\ pc' = [n \in DOMAIN pc |-> pc[n] + 1]
      /\ raw' = raw /\ at' = at /\ failed' = failed /\ fwd' = fwd
    BY DEF Synchronise, Does
<1>2. /\ Settled /\ hdr \in Headers /\ fwd.rows \in Nat /\ failed \subseteq Nodes
      /\ at = [n \in Nodes |-> at[n]] /\ pc = [n \in Nodes |-> pc[n]] /\ now = [n \in Nodes |-> now[n]]
      /\ raw = [n \in Nodes |-> raw[n]] /\ mem = [n \in Nodes |-> mem[n]]
      /\ hdr' = hdr /\ sizes' = sizes
      /\ now' = [n \in DOMAIN now |-> Steps[hdr][n][pc'[n]]]
    BY DEF ExecOK, OnNodes, Frame, Settled
<1>3. GoodSync(sync)
    <2>1. 0 \in Nodes
        BY <1>2, HeaderAssumption DEF Nodes, NodesOf
    <2>2. GoodStep(hdr, now[0]) /\ now[0].do = "sync"
        BY <1>1, <2>1, StepIsGood
    <2>. QED
        BY <2>2 DEF GoodStep
<1> HIDE DEF sync
<1>4. ASSUME NEW n \in Nodes PROVE Shape(sizes[n], m(n))
    <2>1. Shape(sizes[n], mem[n])
        BY DEF ExecOK, NodeOK
    <2>2. DOMAIN f(n) = DOMAIN mem[n][id]
        OBVIOUS
    <2>3. ASSUME NEW r \in DOMAIN mem[n][id] PROVE DOMAIN f(n)[r] = DOMAIN mem[n][id][r]
        <3>1. f(n)[r] = IF r < fwd.rows THEN Gather(sync.type, id, n, r) ELSE mem[n][id][r]
            OBVIOUS
        <3>2. DOMAIN Gather(sync.type, id, n, r) = DOMAIN mem[n][id][r]
            BY <1>3, GatherShape
        <3> HIDE DEF f
        <3>. QED
            BY <3>1, <3>2
    <2> HIDE DEF f, id
    <2>. QED
        BY <2>1, <2>2, <2>3, RowsKept
<1> HIDE DEF m
<1>5. mem' = [n \in Nodes |-> m(n)]
    BY <1>1, <1>2
<1>6. MemOK(mem')
    <2>1. mem' = [n \in Nodes |-> mem'[n]] /\ \A n \in Nodes : mem'[n] = m(n)
        BY <1>5
    <2>. QED
        BY <1>4, <2>1 DEF MemOK, OnNodes
<1>7. pc' = [n \in Nodes |-> pc[n] + 1]
    BY <1>1, <1>2
<1>8. ASSUME NEW n \in Nodes PROVE NodeOK(n)'
    <2>1. pc'[n] = pc[n] + 1 /\ pc[n] + 1 \in 1..Len(Steps[hdr][n])
        BY <1>1, <1>7, StepIsGood
    <2>2. now'[n] = Steps[hdr][n][pc'[n]]
        BY <1>2
    <2>3. Limit(n, now'[n], fwd'.rows) \in Nat
        BY <1>1, <1>2, <2>1, <2>2, LimitNat
    <2>4. at'[n] = Fresh(hdr, n)
        BY <1>1 DEF ExecOK, NodeOK
    <2>5. n \in NodesOf(hdr)
        BY DEF Nodes
    <2>6. /\ Counted(hdr.threads[n], at'[n], Limit(n, now'[n], fwd'.rows))
          /\ Weighed(hdr.threads[n], at'[n], pc'[n] \in raw'[n])
        BY <1>2, <2>3, <2>4, <2>5, FreshCounted
    <2>7. Shape(sizes[n], mem'[n])
        BY <1>6 DEF MemOK
    <2>. QED
        BY <1>2, <2>1, <2>2, <2>4, <2>6, <2>7, NodeThen
<1>9. RaisesOnlyAsKnown'
    BY <1>1, <1>2 DEF ExecOK, RaisesOnlyAsKnown
<1>10. raw' = [n \in Nodes |-> raw'[n]] /\ pc' = [n \in Nodes |-> pc'[n]] /\ at' = [n \in Nodes |-> at'[n]]
    BY <1>1, <1>2, <1>7
<1>11. failed' \subseteq Nodes /\ fwd'.rows \in Nat
    BY <1>1, <1>2
<1>. QED
    BY <1>6, <1>8, <1>9, <1>10, <1>11, AllNodesOK

\* The columns that the caller writes are as long as the pipes they go to.
LEMMA ForwardOK ==
    ASSUME ExecOK, Frame, NEW pos, NEW rows \in 1..hdr.batches, Forward(pos, rows)
    PROVE  ExecOK'
<1> DEFINE number == fwd.number + 1
           column(n, name, path) ==
               [r \in 0..(hdr.batches - 1) |->
                   IF r < rows THEN [c \in {0} |-> Value(path, 0, 0, pos + r, number)]
                   ELSE mem[n][<<name, 0>>][r]]
           a(n) == [mem[n] EXCEPT ![<<"POS", 0>>] = column(n, "POS", <<<<"position", 0>>>>)]
           b(n) == [a(n) EXCEPT ![<<"TOK", 0>>] =
                      IF n = 0 THEN column(n, "TOK", <<<<"token", 0>>>>) ELSE a(n)[<<"TOK", 0>>]]
<1>1. /\ failed = {} /\ failed' = failed /\ raw' = raw
      /\ fwd' = [pos |-> pos, rows |-> rows, number |-> number]
      /\ pc' = [n \in DOMAIN pc |-> 1]
      /\ at' = [n \in DOMAIN at |-> Fresh(hdr, n)]
    BY DEF Forward
<1>2. mem' = [n \in DOMAIN mem |-> b(n)]
    BY DEF Forward
<1>3. /\ Settled /\ hdr \in Headers
      /\ at = [n \in Nodes |-> at[n]] /\ pc = [n \in Nodes |-> pc[n]] /\ now = [n \in Nodes |-> now[n]]
      /\ raw = [n \in Nodes |-> raw[n]] /\ mem = [n \in Nodes |-> mem[n]]
      /\ hdr' = hdr /\ sizes' = sizes
      /\ now' = [n \in DOMAIN now |-> Steps[hdr][n][pc'[n]]]
    BY DEF ExecOK, OnNodes, Frame, Settled
<1>4. hdr.batches \in Nat /\ rows \in Nat
    BY <1>3, HeaderAssumption
<1>5. ASSUME NEW n \in Nodes, NEW name \in {"POS", "TOK"}, NEW path
      PROVE  /\ DOMAIN column(n, name, path) = DOMAIN mem[n][<<name, 0>>]
             /\ \A r \in DOMAIN mem[n][<<name, 0>>] :
                   DOMAIN column(n, name, path)[r] = DOMAIN mem[n][<<name, 0>>][r]
    <2> DEFINE id == <<name, 0>>
               v(r) == Value(path, 0, 0, pos + r, number)
    <2>1. Shape(sizes[n], mem[n])
        BY DEF ExecOK, NodeOK
    <2>2. id \in DOMAIN sizes[n] /\ sizes[n][id] = PipeSize(hdr, name)
        BY <1>3, SizesKnown
    <2>3. sizes[n][id].z = 1 /\ sizes[n][id].y = hdr.batches /\ sizes[n][id].x = 1
        BY <2>2 DEF PipeSize, Size2, Size3
    <2> HIDE DEF id, v
    <2>4. /\ DOMAIN mem[n][id] = 0..(1 * hdr.batches - 1)
          /\ \A r \in DOMAIN mem[n][id] : DOMAIN mem[n][id][r] = 0..(1 - 1)
        BY <2>1, <2>2, <2>3 DEF Shape
    <2>5. 1 * hdr.batches - 1 = hdr.batches - 1 /\ 0..(1 - 1) = {0}
        BY <1>4
    <2>6. column(n, name, path) = [r \in 0..(hdr.batches - 1) |->
                                     IF r < rows THEN [c \in {0} |-> v(r)] ELSE mem[n][id][r]]
        BY DEF id, v
    <2> HIDE DEF column
    <2>7. DOMAIN column(n, name, path) = 0..(hdr.batches - 1)
        BY <2>6
    <2>8. ASSUME NEW r \in 0..(hdr.batches - 1)
          PROVE  DOMAIN column(n, name, path)[r] = DOMAIN mem[n][id][r]
        <3>1. column(n, name, path)[r] = IF r < rows THEN [c \in {0} |-> v(r)] ELSE mem[n][id][r]
            BY <2>6
        <3>2. DOMAIN [c \in {0} |-> v(r)] = {0}
            OBVIOUS
        <3>3. DOMAIN mem[n][id][r] = {0}
            BY <2>4, <2>5
        <3>. QED
            BY <3>1, <3>2, <3>3
    <2>. QED
        BY <2>4, <2>5, <2>7, <2>8 DEF id
<1> HIDE DEF column
<1>6. ASSUME NEW n \in Nodes PROVE Shape(sizes[n], b(n))
    <2> DEFINE p == <<"POS", 0>>
               t == <<"TOK", 0>>
               cp == column(n, "POS", <<<<"position", 0>>>>)
               ct == column(n, "TOK", <<<<"token", 0>>>>)
               g == IF n = 0 THEN ct ELSE a(n)[t]
    <2>1. Shape(sizes[n], mem[n])
        BY DEF ExecOK, NodeOK
    <2>2. /\ DOMAIN cp = DOMAIN mem[n][p] /\ \A r \in DOMAIN mem[n][p] : DOMAIN cp[r] = DOMAIN mem[n][p][r]
          /\ DOMAIN ct = DOMAIN mem[n][t] /\ \A r \in DOMAIN mem[n][t] : DOMAIN ct[r] = DOMAIN mem[n][t][r]
        BY <1>5
    <2>3. p # t /\ t # p
        OBVIOUS
    <2>4. a(n) = [mem[n] EXCEPT ![p] = cp] /\ b(n) = [a(n) EXCEPT ![t] = g]
        OBVIOUS
    <2> HIDE DEF a, b, cp, ct, p, t
    <2>5. Shape(sizes[n], a(n))
        BY <2>1, <2>2, <2>4, RowsKept
    <2>6. a(n)[t] = mem[n][t]
        BY <2>3, <2>4
    <2>7. DOMAIN g = DOMAIN a(n)[t] /\ \A r \in DOMAIN g : DOMAIN g[r] = DOMAIN a(n)[t][r]
        BY <2>2, <2>6
    <2> HIDE DEF g
    <2>. QED
        BY <2>4, <2>5, <2>7, RowsKept
<1> HIDE DEF b
<1>7. MemOK(mem')
    <2>1. mem' = [n \in Nodes |-> b(n)]
        BY <1>2, <1>3
    <2>2. mem' = [n \in Nodes |-> mem'[n]] /\ \A n \in Nodes : mem'[n] = b(n)
        BY <2>1
    <2>. QED
        BY <1>6, <2>2 DEF MemOK, OnNodes
<1>8. pc' = [n \in Nodes |-> 1] /\ at' = [n \in Nodes |-> Fresh(hdr, n)]
    BY <1>1, <1>3
<1>9. ASSUME NEW n \in Nodes PROVE NodeOK(n)'
    <2>1. n \in NodesOf(hdr)
        BY DEF Nodes
    <2>2. pc'[n] = 1 /\ pc'[n] \in 1..Len(Steps[hdr][n]) /\ at'[n] = Fresh(hdr, n)
        BY <1>3, <1>8, <2>1, StepsGood
    <2>3. now'[n] = Steps[hdr][n][pc'[n]]
        BY <1>3
    <2>4. fwd'.rows = rows
        BY <1>1
    <2>5. Limit(n, now'[n], fwd'.rows) \in Nat
        BY <1>3, <1>4, <2>2, <2>3, <2>4, LimitNat
    <2>6. /\ Counted(hdr.threads[n], at'[n], Limit(n, now'[n], fwd'.rows))
          /\ Weighed(hdr.threads[n], at'[n], pc'[n] \in raw'[n])
        BY <1>3, <2>1, <2>2, <2>5, FreshCounted
    <2>7. Shape(sizes[n], mem'[n])
        BY <1>7 DEF MemOK
    <2>. QED
        BY <1>3, <2>2, <2>3, <2>6, <2>7, NodeThen
<1>10. RaisesOnlyAsKnown'
    BY <1>1 DEF RaisesOnlyAsKnown
<1>11. raw' = [n \in Nodes |-> raw'[n]] /\ pc' = [n \in Nodes |-> pc'[n]] /\ at' = [n \in Nodes |-> at'[n]]
    BY <1>1, <1>3, <1>8
<1>12. failed' \subseteq Nodes /\ fwd'.rows \in Nat
    BY <1>1, <1>4
<1>. QED
    BY <1>7, <1>9, <1>10, <1>11, <1>12, AllNodesOK

-----------------------------------------------------------------------------
LEMMA ExecInitOK == ASSUME ExecInit PROVE ExecOK
<1>1. /\ hdr \in Headers /\ failed = {} /\ fwd = [pos |-> 0, rows |-> 1, number |-> 0]
      /\ sizes = [n \in Nodes |-> Allocate(Places(hdr, n))]
      /\ mem = [n \in Nodes |-> [id \in DOMAIN sizes[n] |-> Blank(sizes[n][id])]]
      /\ raw = [n \in Nodes |-> Quartered(hdr, n)]
      /\ pc = [n \in Nodes |-> Len(Steps[hdr][n])]
      /\ now = [n \in Nodes |-> End] /\ at = [n \in Nodes |-> Fresh(hdr, n)]
    BY DEF ExecInit, Places
<1>2. Settled
    BY <1>1 DEF Settled
<1>3. OnNodes(mem) /\ OnNodes(raw) /\ OnNodes(pc) /\ OnNodes(now) /\ OnNodes(at)
    <2>1. mem = [n \in Nodes |-> mem[n]]
        BY <1>1
    <2>2. raw = [n \in Nodes |-> raw[n]]
        BY <1>1
    <2>. QED
        BY <1>1, <2>1, <2>2 DEF OnNodes
<1>4. ASSUME NEW n \in Nodes PROVE NodeOK(n)
    <2>1. n \in NodesOf(hdr)
        BY DEF Nodes
    <2>2. pc[n] \in 1..Len(Steps[hdr][n]) /\ now[n] = Steps[hdr][n][pc[n]]
        BY <1>1, <2>1, StepsGood
    <2>3. Shape(sizes[n], mem[n])
        <3> DEFINE size == sizes[n]
                   m == mem[n]
        <3>1. m = [id \in DOMAIN size |-> Blank(size[id])]
            BY <1>1
        <3> HIDE DEF size, m
        <3>2. DOMAIN m = DOMAIN size /\ \A id \in DOMAIN size : m[id] = Blank(size[id])
            BY <3>1
        <3>3. ASSUME NEW s
              PROVE  /\ DOMAIN Blank(s) = 0..(s.z * s.y - 1)
                     /\ \A r \in DOMAIN Blank(s) : DOMAIN Blank(s)[r] = 0..(s.x - 1)
            BY DEF Blank
        <3>4. Shape(size, m)
            BY <3>2, <3>3 DEF Shape
        <3>. QED
            BY <3>4 DEF size, m
    <2>4. Limit(n, now[n], fwd.rows) = 0 /\ at[n] = Fresh(hdr, n)
        BY <1>1 DEF Limit, End
    <2>5. Counted(hdr.threads[n], at[n], 0) /\ Weighed(hdr.threads[n], at[n], HasWeight(n))
        BY <1>1, <2>1, <2>4, FreshCounted
    <2>. QED
        BY <2>2, <2>3, <2>4, <2>5 DEF NodeOK
<1>5. RaisesOnlyAsKnown
    BY <1>1 DEF RaisesOnlyAsKnown
<1>6. failed \subseteq Nodes /\ fwd.rows \in Nat
    BY <1>1
<1>. QED
    BY <1>2, <1>3, <1>4, <1>5, <1>6 DEF ExecOK

LEMMA ExecNextOK == ASSUME ExecOK, ExecNext PROVE ExecOK'
<1>1. Frame
    BY DEF ExecNext, Frame
<1>2. ASSUME NEW pos \in 0..(hdr.seqLen - 1), NEW rows \in 1..hdr.batches, Forward(pos, rows)
      PROVE  ExecOK'
    BY <1>1, <1>2, ForwardOK
<1>3. ASSUME NEW n \in Nodes, NEW ti \in Threads(n), ThreadStep(n, ti)
      PROVE  ExecOK'
    <2>1. CASE Compute(n, ti)
        BY <1>1, <2>1, ComputeOK
    <2>2. CASE ChooseExperts(n, ti)
        BY <1>1, <2>2, ChooseExpertsOK
    <2>3. CASE TestWeight(n, ti)
        BY <1>1, <2>3, TestWeightOK
    <2>4. CASE Multiply(n, ti)
        BY <1>1, <2>4, MultiplyOK
    <2>5. CASE MultiplyBatch(n, ti)
        BY <1>1, <2>5, MultiplyBatchOK
    <2>6. CASE Raise(n, ti)
        BY <1>1, <2>6, RaiseOK
    <2>. QED
        BY <1>3, <2>1, <2>2, <2>3, <2>4, <2>5, <2>6 DEF ThreadStep
<1>4. ASSUME Synchronise PROVE ExecOK'
    BY <1>1, <1>4, SynchroniseOK
<1>. QED
    BY <1>2, <1>3, <1>4 DEF ExecNext

\* Bringing nodes up leaves all that forwards work on alone.
LEMMA ExecStays ==
    ASSUME ExecOK, hdr' = hdr, UNCHANGED <<sizes, mem, raw, pc, now, at, failed, fwd>>
    PROVE  ExecOK'
<1>1. Nodes' = Nodes
    BY DEF Nodes, NodesOf
<1>2. Settled'
    BY <1>1 DEF ExecOK, Settled, Places
<1>3. OnNodes(mem)' /\ OnNodes(raw)' /\ OnNodes(pc)' /\ OnNodes(now)' /\ OnNodes(at)'
    BY <1>1 DEF ExecOK, OnNodes
<1>4. ASSUME NEW n \in Nodes PROVE NodeOK(n)'
    BY NodeStays DEF ExecOK, NodeOK
<1>5. RaisesOnlyAsKnown'
    BY DEF ExecOK, RaisesOnlyAsKnown
<1>. QED
    BY <1>1, <1>2, <1>3, <1>4, <1>5 DEF ExecOK

LEMMA BringUpKeepsModel == ASSUME LoadNext PROVE hdr' = hdr
<1>1. ASSUME RootStep PROVE hdr' = hdr
    BY <1>1 DEF RootStep, RootSend, RootReadAck, RootLoad, RootCheck, RootRaise, RootServe
<1>2. ASSUME NEW w \in Workers, WorkerStep(w) PROVE hdr' = hdr
    BY <1>2 DEF WorkerStep, ReadConfig, ReadName, ReadWeight, WriteAck, WorkerRaise, WorkerEnd
<1>3. ASSUME NEW w \in Workers, Crash(w) PROVE hdr' = hdr
    BY <1>3 DEF Crash, WorkerEnd
<1>4. ASSUME RootCrash PROVE hdr' = hdr
    BY <1>4 DEF RootCrash
<1>. QED
    BY <1>1, <1>2, <1>3, <1>4 DEF LoadNext

LEMMA NodesRun == NodeSpec => []ExecOK
<1>1. NodeInit => ExecOK
    BY ExecInitOK DEF NodeInit
<1>2. ASSUME ExecOK, [NodeNext]_nodeVars PROVE ExecOK'
    <2>1. CASE BringUp
        BY <1>2, <2>1, BringUpKeepsModel, ExecStays DEF BringUp
    <2>2. CASE Infer
        BY <1>2, <2>2, ExecNextOK DEF Infer
    <2>3. CASE UNCHANGED nodeVars
        BY <1>2, <2>3, ExecStays DEF nodeVars, execVars
    <2>. QED
        BY <1>2, <2>1, <2>2, <2>3 DEF NodeNext
<1>. QED
    BY <1>1, <1>2, PTL DEF NodeSpec

\* No operator of NnExecutor walks past its rows or columns: whatever the model
\* and the cluster, with any number of threads, memory keeps the sizes of its
\* pipes and buffers, all nodes are in one of their steps, and no thread goes
\* past the rows of its operator.
THEOREM ExecTypes == NodeSpec => []ExecTypeOK
<1>1. ASSUME ExecOK PROVE ExecTypeOK
    <2>1. ASSUME NEW n \in Nodes, NEW ti \in Threads(n)
          PROVE  at[n][ti].row \in 0..(IF now[n].do = "op" THEN Rows(n, now[n].op) ELSE 0)
        <3>1. Counted(hdr.threads[n], at[n], Limit(n, now[n], fwd.rows))
            BY <1>1 DEF ExecOK, NodeOK
        <3>. QED
            BY <3>1 DEF Counted, Threads, Limit, Rows
    <2>2. ASSUME NEW n \in Nodes
          PROVE  Shape(sizes[n], mem[n]) /\ pc[n] \in 1..Len(Steps[hdr][n])
        BY <1>1 DEF ExecOK, NodeOK
    <2>. QED
        BY <1>1, <2>1, <2>2 DEF ExecOK, Settled, ExecTypeOK, Shape
<1>. QED
    BY <1>1, NodesRun, PTL

\* A forward of NnExecutor raises for no other reasons than the known ones:
\* operators that the graph builder lists for types forward() has no code for,
\* a gate that is to choose all experts, or threads that race for ctx.weight.
THEOREM RaisesAsKnown == NodeSpec => []RaisesOnlyAsKnown
<1>1. ExecOK => RaisesOnlyAsKnown
    BY DEF ExecOK
<1>. QED
    BY <1>1, NodesRun, PTL

-----------------------------------------------------------------------------
\* What a worker makes of field k of a list: the bytes of a configuration are
\* unpacked with the code seven fields before.
Seen(s, k) == IF s[k].as = "opConfig" THEN Unpack(s[k - 7].val, s[k].val) ELSE s[k].val

\* Seven fields before each configuration is the last code before it.
Placed(s) ==
    /\ IsList(s)
    /\ \A k \in 1..Len(s) : s[k].as = "opConfig" =>
           k > 7 /\ s[k - 7].as = "opCode" /\ \A j \in (k - 6)..(k - 1) : s[j].as # "opCode"

Within(s, K) == IsList(s) /\ \A k \in 1..Len(s) : s[k].as \in K

\* The values of the fields of one kind, as a worker sees them.
OneVal(kind, s, k) == If(s[k].as = kind, <<Seen(s, k)>>)
Vals(kind, s) == FlattenSeq([k \in 1..Len(s) |-> OneVal(kind, s, k)])

LEMMA ValsLists ==
    ASSUME NEW kind, NEW r, IsList(r)
    PROVE  /\ AreLists([k \in 1..Len(r) |-> OneVal(kind, r, k)])
           /\ Len([k \in 1..Len(r) |-> OneVal(kind, r, k)]) = Len(r)
           /\ IsList(Vals(kind, r))
<1> DEFINE m == [k \in 1..Len(r) |-> OneVal(kind, r, k)]
<1>1. Len(r) \in Nat
    BY ListFacts
<1>2. IsList(m) /\ Len(m) = Len(r)
    BY <1>1, Listed
<1>3. \A k \in 1..Len(m) : IsList(m[k])
    <2>1. \A k : IsList(OneVal(kind, r, k))
        BY EmptyList, OneAndRest DEF OneVal, If
    <2>. QED
        BY <1>2, <2>1
<1> HIDE DEF m
<1>4. AreLists(m)
    BY <1>2, <1>3 DEF AreLists
<1>. QED
    BY <1>2, <1>4, FlattenList DEF m, Vals

LEMMA PlacedNone == Placed(<<>>)
  BY EmptyList DEF Placed

LEMMA SeenConcat ==
    ASSUME NEW r, NEW s, Placed(r), Placed(s)
    PROVE  /\ \A k \in 1..Len(r) : (r \o s)[k].as = r[k].as /\ Seen(r \o s, k) = Seen(r, k)
           /\ \A k \in 1..Len(s) : /\ (r \o s)[Len(r) + k].as = s[k].as
                                   /\ Seen(r \o s, Len(r) + k) = Seen(s, k)
           /\ Placed(r \o s)
<1> DEFINE u == r \o s
<1>1. /\ IsList(u) /\ Len(u) = Len(r) + Len(s) /\ Len(r) \in Nat /\ Len(s) \in Nat
      /\ \A i \in 1..Len(r) : u[i] = r[i]
      /\ \A i \in 1..Len(s) : u[Len(r) + i] = s[i]
    BY ConcatList, ListFacts DEF Placed
<1> HIDE DEF u
<1>2. ASSUME NEW k \in 1..Len(r) PROVE u[k].as = r[k].as /\ Seen(u, k) = Seen(r, k)
    <2>1. u[k] = r[k]
        BY <1>1
    <2>2. r[k].as = "opConfig" => k - 7 \in 1..Len(r)
        BY <1>1 DEF Placed
    <2>3. r[k].as = "opConfig" => u[k - 7] = r[k - 7]
        BY <1>1, <2>2
    <2>. QED
        BY <2>1, <2>3 DEF Seen
<1>3. ASSUME NEW k \in 1..Len(s)
      PROVE  u[Len(r) + k].as = s[k].as /\ Seen(u, Len(r) + k) = Seen(s, k)
    <2>1. u[Len(r) + k] = s[k]
        BY <1>1
    <2>2. s[k].as = "opConfig" => k - 7 \in 1..Len(s)
        BY <1>1 DEF Placed
    <2>3. (Len(r) + k) - 7 = Len(r) + (k - 7)
        BY <1>1
    <2>4. s[k].as = "opConfig" => u[(Len(r) + k) - 7] = s[k - 7]
        BY <1>1, <2>2, <2>3
    <2>. QED
        BY <2>1, <2>4 DEF Seen
<1>4. ASSUME NEW k \in 1..Len(u), u[k].as = "opConfig"
      PROVE  k > 7 /\ u[k - 7].as = "opCode" /\ \A j \in (k - 6)..(k - 1) : u[j].as # "opCode"
    <2>1. CASE k \in 1..Len(r)
        <3>1. r[k].as = "opConfig"
            BY <1>1, <1>4, <2>1
        <3>2. k > 7 /\ r[k - 7].as = "opCode" /\ \A j \in (k - 6)..(k - 1) : r[j].as # "opCode"
            BY <2>1, <3>1 DEF Placed
        <3>3. \A j \in (k - 7)..(k - 1) : j \in 1..Len(r)
            BY <1>1, <2>1, <3>2
        <3>4. \A j \in (k - 7)..(k - 1) : u[j] = r[j]
            BY <1>1, <3>3
        <3>5. k - 7 \in (k - 7)..(k - 1) /\ \A j \in (k - 6)..(k - 1) : j \in (k - 7)..(k - 1)
            BY <1>1
        <3>. QED
            BY <3>2, <3>4, <3>5
    <2>2. CASE k \notin 1..Len(r)
        <3>1. k - Len(r) \in 1..Len(s) /\ k = Len(r) + (k - Len(r))
            BY <1>1, <2>2
        <3>2. PICK i \in 1..Len(s) : k = Len(r) + i
            BY <3>1
        <3>3. s[i].as = "opConfig"
            BY <1>1, <1>4, <3>2
        <3>4. i > 7 /\ s[i - 7].as = "opCode" /\ \A j \in (i - 6)..(i - 1) : s[j].as # "opCode"
            BY <3>3 DEF Placed
        <3>5. ASSUME NEW j \in (k - 7)..(k - 1) PROVE u[j] = s[j - Len(r)] /\ j - Len(r) \in 1..Len(s)
            <4>1. j - Len(r) \in 1..Len(s) /\ Len(r) + (j - Len(r)) = j
                BY <1>1, <3>2, <3>4
            <4>. QED
                BY <1>1, <4>1
        <3>6. k - 7 \in (k - 7)..(k - 1) /\ (k - 7) - Len(r) = i - 7
            BY <1>1, <3>2
        <3>7. \A j \in (k - 6)..(k - 1) : j \in (k - 7)..(k - 1) /\ j - Len(r) \in (i - 6)..(i - 1)
            BY <1>1, <3>2
        <3>8. u[k - 7] = s[i - 7]
            BY <3>5, <3>6
        <3>9. k > 7
            BY <1>1, <3>2, <3>4
        <3>. QED
            BY <3>4, <3>5, <3>7, <3>8, <3>9
    <2>. QED
        BY <2>1, <2>2
<1>5. Placed(u)
    BY <1>1, <1>4 DEF Placed
<1>. QED
    BY <1>2, <1>3, <1>5 DEF u

LEMMA ValsConcat ==
    ASSUME NEW kind, NEW r, NEW s, Placed(r), Placed(s)
    PROVE  Vals(kind, r \o s) = Vals(kind, r) \o Vals(kind, s)
<1> DEFINE m(q) == [k \in 1..Len(q) |-> OneVal(kind, q, k)]
<1>1. IsList(r) /\ IsList(s)
    BY DEF Placed
<1>2. IsList(r \o s) /\ Len(r \o s) = Len(r) + Len(s) /\ Len(r) \in Nat /\ Len(s) \in Nat
    BY <1>1, ConcatList, ListFacts
<1>3. \A i \in 1..Len(r) : m(r \o s)[i] = m(r)[i]
    <2>1. \A i \in 1..Len(r) : OneVal(kind, r \o s, i) = OneVal(kind, r, i)
        BY SeenConcat DEF OneVal
    <2>2. \A i \in 1..Len(r) : i \in 1..Len(r \o s)
        BY <1>2
    <2>. QED
        BY <2>1, <2>2
<1>4. \A i \in 1..Len(s) : m(r \o s)[Len(r) + i] = m(s)[i]
    <2>1. \A i \in 1..Len(s) : OneVal(kind, r \o s, Len(r) + i) = OneVal(kind, s, i)
        BY SeenConcat DEF OneVal
    <2>2. \A i \in 1..Len(s) : Len(r) + i \in 1..Len(r \o s)
        BY <1>2
    <2>. QED
        BY <2>1, <2>2
<1>5. /\ AreLists(m(r)) /\ Len(m(r)) = Len(r) /\ AreLists(m(s)) /\ Len(m(s)) = Len(s)
      /\ AreLists(m(r \o s)) /\ Len(m(r \o s)) = Len(r \o s)
    BY <1>1, <1>2, ValsLists
<1>6. \A q : Vals(kind, q) = FlattenSeq(m(q))
    BY DEF Vals
<1> HIDE DEF m
<1> DEFINE a == m(r)
           b == m(s)
           c == m(r \o s)
<1>7. /\ IsList(a) /\ IsList(b) /\ IsList(c) /\ Len(c) = Len(a) + Len(b)
      /\ \A i \in 1..Len(a) : c[i] = a[i]
      /\ \A i \in 1..Len(b) : c[Len(a) + i] = b[i]
    BY <1>2, <1>3, <1>4, <1>5 DEF AreLists
<1>8. Vals(kind, r \o s) = FlattenSeq(c) /\ Vals(kind, r) = FlattenSeq(a)
      /\ Vals(kind, s) = FlattenSeq(b) /\ AreLists(a) /\ AreLists(b)
    BY <1>5, <1>6
<1> HIDE DEF a, b, c
<1>9. c = a \o b
    BY <1>7, ConcatIs
<1>. QED
    BY <1>8, <1>9, FlattenConcat

\* A list without fields of the kind, and one with one.
LEMMA ValsAbsent ==
    ASSUME NEW kind, NEW s, IsList(s), \A k \in 1..Len(s) : s[k].as # kind
    PROVE  Vals(kind, s) = <<>>
<1> DEFINE m == [k \in 1..Len(s) |-> OneVal(kind, s, k)]
<1>1. AreLists(m) /\ Len(m) = Len(s) /\ Len(s) \in Nat
    BY ValsLists, ListFacts
<1>2. \A k \in 1..Len(s) : m[k] = <<>>
    BY DEF OneVal, If
<1>3. 0 \notin 1..Len(m)
    BY <1>1
<1> HIDE DEF m
<1>4. FlattenSeq(m) = <<>>
    BY <1>1, <1>2, <1>3, FlattenSingle
<1>. QED
    BY <1>4 DEF Vals, m

LEMMA ValsLone ==
    ASSUME NEW kind, NEW s, IsList(s), NEW k \in 1..Len(s), s[k].as = kind,
           \A i \in 1..Len(s) : i # k => s[i].as # kind
    PROVE  Vals(kind, s) = <<Seen(s, k)>>
<1> DEFINE m == [i \in 1..Len(s) |-> OneVal(kind, s, i)]
<1>1. AreLists(m) /\ Len(m) = Len(s)
    BY ValsLists
<1>2. m[k] = <<Seen(s, k)>> /\ \A i \in 1..Len(s) : i # k => m[i] = <<>>
    BY DEF OneVal, If
<1> HIDE DEF m
<1>3. FlattenSeq(m) = m[k]
    BY <1>1, <1>2, FlattenSingle
<1>. QED
    BY <1>2, <1>3 DEF Vals, m

LEMMA ValsNone == ASSUME NEW kind PROVE Vals(kind, <<>>) = <<>>
  BY EmptyList, ValsAbsent

AllPlaced(rr) == IsList(rr) /\ \A i \in 1..Len(rr) : Placed(rr[i])

LEMMA PlacedLists == ASSUME NEW rr, AllPlaced(rr) PROVE AreLists(rr)
  BY DEF AllPlaced, AreLists, Placed

LEMMA WithinConcat ==
    ASSUME NEW K, NEW r, NEW s, Within(r, K), Within(s, K)
    PROVE  Within(r \o s, K)
<1>1. IsList(r) /\ IsList(s)
    BY DEF Within
<1> DEFINE u == r \o s
<1>2. IsList(u)
    BY <1>1, ConcatList
<1> HIDE DEF u
<1>3. ASSUME NEW k \in 1..Len(u) PROVE u[k].as \in K
    <2>1. (\E j \in 1..Len(r) : u[k] = r[j]) \/ (\E j \in 1..Len(s) : u[k] = s[j])
        BY <1>1, ConcatElements DEF u
    <2>. QED
        BY <2>1 DEF Within
<1>. QED
    BY <1>2, <1>3 DEF Within, u

LEMMA WithinFlatten ==
    ASSUME NEW K, NEW rr, IsList(rr), \A i \in 1..Len(rr) : Within(rr[i], K)
    PROVE  Within(FlattenSeq(rr), K)
<1>1. AreLists(rr)
    BY DEF AreLists, Within
<1> DEFINE u == FlattenSeq(rr)
<1>2. IsList(u)
    BY <1>1, FlattenList
<1>3. \A k \in 1..Len(u) : \E i \in 1..Len(rr) : \E j \in 1..Len(rr[i]) : u[k] = rr[i][j]
    BY <1>1, FlattenElements
<1> HIDE DEF u
<1>4. \A k \in 1..Len(u) : u[k].as \in K
    BY <1>3 DEF Within
<1>. QED
    BY <1>2, <1>4 DEF Within, u

\* A list without configurations.
LEMMA PlainPlaced ==
    ASSUME NEW K, "opConfig" \notin K, NEW s, Within(s, K)
    PROVE  Placed(s)
  BY DEF Placed, Within

LEMMA ValsWithin ==
    ASSUME NEW K, NEW kind, kind \notin K, NEW s, Within(s, K)
    PROVE  Vals(kind, s) = <<>>
  BY ValsAbsent DEF Within

LEMMA ValsFlatten ==
    ASSUME NEW kind, NEW rr, AllPlaced(rr)
    PROVE  /\ Placed(FlattenSeq(rr))
           /\ AreLists([i \in 1..Len(rr) |-> Vals(kind, rr[i])])
           /\ Len([i \in 1..Len(rr) |-> Vals(kind, rr[i])]) = Len(rr)
           /\ Vals(kind, FlattenSeq(rr)) = FlattenSeq([i \in 1..Len(rr) |-> Vals(kind, rr[i])])
<1> DEFINE m(q) == [i \in 1..Len(q) |-> Vals(kind, q[i])]
<1>0. ASSUME NEW q, AreLists(q) PROVE AreLists(m(q)) /\ Len(m(q)) = Len(q) /\ Len(q) \in Nat
    <2>1. Len(q) \in Nat
        BY <1>0, ListFacts DEF AreLists
    <2>2. IsList(m(q)) /\ Len(m(q)) = Len(q)
        BY <2>1, Listed
    <2>3. ASSUME NEW i \in 1..Len(q) PROVE IsList(m(q)[i])
        <3>1. IsList(q[i]) /\ m(q)[i] = Vals(kind, q[i])
            BY <1>0, <2>3 DEF AreLists
        <3>. QED
            BY <3>1, ValsLists
    <2>. QED
        BY <2>1, <2>2, <2>3 DEF AreLists
<1> DEFINE Goal(q) == Placed(FlattenSeq(q)) /\ Vals(kind, FlattenSeq(q)) = FlattenSeq(m(q))
           T == {n \in Nat : \A q : AllPlaced(q) /\ Len(q) = n => Goal(q)}
<1>1. 0 \in T
    <2> SUFFICES ASSUME NEW q, AllPlaced(q), Len(q) = 0 PROVE Goal(q)
        OBVIOUS
    <2>1. AreLists(q) /\ q = <<>>
        BY PlacedLists, ListFacts DEF AllPlaced
    <2>2. m(q) = <<>>
        BY <1>0, <2>1, ListFacts DEF AreLists
    <2> HIDE DEF m
    <2>. QED
        BY <2>1, <2>2, FlattenNone, ValsNone, PlacedNone
<1>2. ASSUME NEW n \in Nat, n \in T PROVE n + 1 \in T
    <2> SUFFICES ASSUME NEW q, AllPlaced(q), Len(q) = n + 1 PROVE Goal(q)
        OBVIOUS
    <2>0. AreLists(q)
        BY PlacedLists
    <2>1. q # <<>>
        BY EmptyList
    <2>2. PICK p, t : /\ AreLists(p) /\ IsList(t) /\ q = Append(p, t) /\ Len(q) = Len(p) + 1
                      /\ t = q[Len(q)] /\ \A i \in 1..Len(p) : p[i] = q[i]
        BY <2>0, <2>1, ListsEnd
    <2>3. Len(p) = n
        BY <2>2, <1>0
    <2>4. AllPlaced(p) /\ Placed(t)
        <3>1. Len(q) \in 1..Len(q) /\ \A i \in 1..Len(p) : i \in 1..Len(q)
            BY <2>2, <2>3
        <3>. QED
            BY <2>2, <3>1 DEF AllPlaced, AreLists
    <2>5. Placed(FlattenSeq(p)) /\ Vals(kind, FlattenSeq(p)) = FlattenSeq(m(p))
        BY <1>2, <2>3, <2>4
    <2>6. FlattenSeq(q) = FlattenSeq(p) \o t
        BY <2>2, FlattenAppend
    <2>7. IsList(Vals(kind, t))
        BY <2>2, ValsLists
    <2> DEFINE a == Append(m(p), Vals(kind, t))
    <2>8. /\ AreLists(a) /\ Len(a) = n + 1 /\ a[n + 1] = Vals(kind, t)
          /\ \A i \in 1..n : a[i] = m(p)[i]
        <3>1. AreLists(m(p)) /\ Len(m(p)) = n
            BY <1>0, <2>2, <2>3
        <3> HIDE DEF m
        <3>. QED
            BY <3>1, <2>7, AppendLists
    <2> HIDE DEF a
    <2>9. m(q) = a
        <3>1. ASSUME NEW i \in 1..(n + 1) PROVE m(q)[i] = a[i]
            <4>1. CASE i = n + 1
                BY <4>1, <2>2, <2>3, <2>8
            <4>2. CASE i \in 1..n
                BY <4>2, <2>2, <2>3, <2>8
            <4>. QED
                BY <4>1, <4>2
        <3>2. IsList(m(q)) /\ Len(m(q)) = n + 1
            BY <1>0, <2>0 DEF AreLists
        <3> HIDE DEF m
        <3>. QED
            BY <3>1, <3>2, <2>8, EqualLists DEF AreLists
    <2>10. FlattenSeq(a) = FlattenSeq(m(p)) \o Vals(kind, t)
        <3>1. AreLists(m(p))
            BY <1>0, <2>2
        <3> HIDE DEF m
        <3>. QED
            BY <3>1, <2>7, FlattenAppend DEF a
    <2>11. /\ Vals(kind, FlattenSeq(p) \o t) = Vals(kind, FlattenSeq(p)) \o Vals(kind, t)
           /\ Placed(FlattenSeq(p) \o t)
        <3> DEFINE f == FlattenSeq(p)
        <3>1. Placed(f)
            BY <2>5
        <3> HIDE DEF f
        <3>2. Vals(kind, f \o t) = Vals(kind, f) \o Vals(kind, t) /\ Placed(f \o t)
            BY <2>4, <3>1, ValsConcat, SeenConcat
        <3>. QED
            BY <3>2 DEF f
    <2> HIDE DEF m
    <2>. QED
        BY <2>5, <2>6, <2>9, <2>10, <2>11
<1>3. Nat \subseteq T
    <2> HIDE DEF T
    <2>. QED
        BY <1>1, <1>2, AllNumbers
<1>4. AreLists(rr)
    BY PlacedLists
<1>5. Len(rr) \in T
    BY <1>0, <1>3, <1>4
<1>. QED
    BY <1>0, <1>4, <1>5
-----------------------------------------------------------------------------
\* The elements of a list, each looked up in a function.
LookUp(f, s) == [i \in 1..Len(s) |-> f[s[i]]]

LEMMA LookUpList ==
    ASSUME NEW f, NEW s, IsList(s)
    PROVE  IsList(LookUp(f, s)) /\ Len(LookUp(f, s)) = Len(s) /\ Len(s) \in Nat
           /\ \A i \in 1..Len(s) : LookUp(f, s)[i] = f[s[i]]
<1>1. Len(s) \in Nat
    BY ListFacts
<1> DEFINE g == [i \in 1..Len(s) |-> f[s[i]]]
<1>2. g = [i \in 1..Len(s) |-> g[i]] /\ \A i \in 1..Len(s) : g[i] = f[s[i]]
    OBVIOUS
<1> HIDE DEF g
<1>3. IsList(g) /\ Len(g) = Len(s)
    BY <1>1, <1>2, Listed
<1>. QED
    BY <1>1, <1>2, <1>3 DEF LookUp, g

LEMMA LookUpConcat ==
    ASSUME NEW f, NEW s, NEW t, IsList(s), IsList(t)
    PROVE  LookUp(f, s \o t) = LookUp(f, s) \o LookUp(f, t)
<1> DEFINE u == s \o t
           a == LookUp(f, s)
           b == LookUp(f, t)
           c == LookUp(f, u)
<1>1. /\ IsList(u) /\ Len(u) = Len(s) + Len(t) /\ Len(s) \in Nat /\ Len(t) \in Nat
      /\ \A i \in 1..Len(s) : u[i] = s[i]
      /\ \A i \in 1..Len(t) : u[Len(s) + i] = t[i]
    BY ConcatList, ListFacts
<1> HIDE DEF u
<1>2. /\ IsList(a) /\ Len(a) = Len(s) /\ \A i \in 1..Len(s) : a[i] = f[s[i]]
      /\ IsList(b) /\ Len(b) = Len(t) /\ \A i \in 1..Len(t) : b[i] = f[t[i]]
      /\ IsList(c) /\ Len(c) = Len(u) /\ \A i \in 1..Len(u) : c[i] = f[u[i]]
    BY <1>1, LookUpList
<1> HIDE DEF a, b, c
<1>3. \A i \in 1..Len(a) : c[i] = a[i]
    BY <1>1, <1>2
<1>4. ASSUME NEW i \in 1..Len(b) PROVE c[Len(a) + i] = b[i]
    <2>1. Len(s) + i \in 1..Len(u)
        BY <1>1, <1>2
    <2>. QED
        BY <2>1, <1>1, <1>2
<1>5. IsList(a) /\ IsList(b) /\ IsList(c) /\ Len(c) = Len(a) + Len(b)
    BY <1>1, <1>2
<1>6. c = a \o b
    BY ONLY <1>3, <1>4, <1>5, ConcatIs
<1>. QED
    BY <1>6 DEF a, b, c, u

LEMMA LookUpFlatten ==
    ASSUME NEW f, NEW rr, AreLists(rr)
    PROVE  LookUp(f, FlattenSeq(rr)) = FlattenSeq([i \in 1..Len(rr) |-> LookUp(f, rr[i])])
<1> DEFINE m(q) == [i \in 1..Len(q) |-> LookUp(f, q[i])]
<1>0. ASSUME NEW q, AreLists(q) PROVE AreLists(m(q)) /\ Len(m(q)) = Len(q) /\ Len(q) \in Nat
    <2>1. Len(q) \in Nat
        BY <1>0, ListFacts DEF AreLists
    <2>2. IsList(m(q)) /\ Len(m(q)) = Len(q)
        BY <2>1, Listed
    <2>3. ASSUME NEW i \in 1..Len(q) PROVE IsList(m(q)[i])
        <3>1. IsList(q[i]) /\ m(q)[i] = LookUp(f, q[i])
            BY <1>0, <2>3 DEF AreLists
        <3>. QED
            BY <3>1, LookUpList
    <2>. QED
        BY <2>1, <2>2, <2>3 DEF AreLists
<1> DEFINE Goal(q) == LookUp(f, FlattenSeq(q)) = FlattenSeq(m(q))
           T == {n \in Nat : \A q : AreLists(q) /\ Len(q) = n => Goal(q)}
<1>1. 0 \in T
    <2> SUFFICES ASSUME NEW q, AreLists(q), Len(q) = 0 PROVE Goal(q)
        OBVIOUS
    <2>1. q = <<>>
        BY ListFacts DEF AreLists
    <2>2. m(q) = <<>>
        BY <1>0, <2>1, ListFacts DEF AreLists
    <2>3. LookUp(f, <<>>) = <<>>
        BY LookUpList, EmptyList, ListFacts
    <2> HIDE DEF m
    <2>. QED
        BY <2>1, <2>2, <2>3, FlattenNone
<1>2. ASSUME NEW n \in Nat, n \in T PROVE n + 1 \in T
    <2> SUFFICES ASSUME NEW q, AreLists(q), Len(q) = n + 1 PROVE Goal(q)
        OBVIOUS
    <2>1. q # <<>>
        BY EmptyList
    <2>2. PICK p, t : /\ AreLists(p) /\ IsList(t) /\ q = Append(p, t) /\ Len(q) = Len(p) + 1
                      /\ t = q[Len(q)] /\ \A i \in 1..Len(p) : p[i] = q[i]
        BY <2>1, ListsEnd
    <2>3. Len(p) = n
        BY <2>2, <1>0
    <2>4. LookUp(f, FlattenSeq(p)) = FlattenSeq(m(p))
        BY <1>2, <2>2, <2>3
    <2>5. FlattenSeq(q) = FlattenSeq(p) \o t /\ IsList(FlattenSeq(p))
        BY <2>2, FlattenAppend, FlattenList
    <2>6. IsList(LookUp(f, t))
        BY <2>2, LookUpList
    <2> DEFINE a == Append(m(p), LookUp(f, t))
    <2>7. /\ AreLists(a) /\ Len(a) = n + 1 /\ a[n + 1] = LookUp(f, t)
          /\ \A i \in 1..n : a[i] = m(p)[i]
        <3>1. AreLists(m(p)) /\ Len(m(p)) = n
            BY <1>0, <2>2, <2>3
        <3> HIDE DEF m
        <3>. QED
            BY <3>1, <2>6, AppendLists
    <2> HIDE DEF a
    <2>8. m(q) = a
        <3>1. ASSUME NEW i \in 1..(n + 1) PROVE m(q)[i] = a[i]
            <4>1. CASE i = n + 1
                BY <4>1, <2>2, <2>3, <2>7
            <4>2. CASE i \in 1..n
                BY <4>2, <2>2, <2>3, <2>7
            <4>. QED
                BY <4>1, <4>2
        <3>2. IsList(m(q)) /\ Len(m(q)) = n + 1
            BY <1>0 DEF AreLists
        <3> HIDE DEF m
        <3>. QED
            BY <3>1, <3>2, <2>7, EqualLists DEF AreLists
    <2>9. FlattenSeq(a) = FlattenSeq(m(p)) \o LookUp(f, t)
        <3>1. AreLists(m(p))
            BY <1>0, <2>2
        <3> HIDE DEF m
        <3>. QED
            BY <3>1, <2>6, FlattenAppend DEF a
    <2>10. LookUp(f, FlattenSeq(p) \o t) = LookUp(f, FlattenSeq(p)) \o LookUp(f, t)
        BY <2>2, <2>5, LookUpConcat
    <2> HIDE DEF m
    <2>. QED
        BY <2>4, <2>5, <2>8, <2>9, <2>10
<1>3. Nat \subseteq T
    <2> HIDE DEF T
    <2>. QED
        BY <1>1, <1>2, AllNumbers
<1>4. Len(rr) \in T
    BY <1>0, <1>3
<1>. QED
    BY <1>0, <1>4
-----------------------------------------------------------------------------
\* Lists of equal pieces: one value of the kind in each piece.
LEMMA ValsRuns ==
    ASSUME NEW kind, NEW rr, AllPlaced(rr), NEW v,
           \A i \in 1..Len(rr) : Vals(kind, rr[i]) = <<v[i]>>
    PROVE  Vals(kind, FlattenSeq(rr)) = [i \in 1..Len(rr) |-> v[i]]
<1> DEFINE s == [i \in 1..Len(rr) |-> v[i]]
<1>1. Len(rr) \in Nat
    BY ListFacts DEF AllPlaced
<1>2. s = [i \in 1..Len(rr) |-> s[i]] /\ \A i \in 1..Len(rr) : s[i] = v[i]
    OBVIOUS
<1> HIDE DEF s
<1>3. IsList(s) /\ Len(s) = Len(rr)
    BY <1>1, <1>2, Listed
<1>4. FlattenSeq([i \in 1..Len(s) |-> <<s[i]>>]) = s
    BY <1>3, FlattenSingles
<1>5. [i \in 1..Len(s) |-> <<s[i]>>] = [i \in 1..Len(rr) |-> Vals(kind, rr[i])]
    BY <1>2, <1>3
<1>6. Vals(kind, FlattenSeq(rr)) = FlattenSeq([i \in 1..Len(rr) |-> Vals(kind, rr[i])])
    BY ValsFlatten
<1>. QED
    BY ONLY <1>4, <1>5, <1>6 DEF s

LEMMA ValsPair ==
    ASSUME NEW a, NEW b, a # b, a # "opConfig", b # "opConfig", NEW x, NEW y,
           NEW s, s = <<Field(a, x), Field(b, y)>>
    PROVE  Within(s, {a, b}) /\ Placed(s) /\ Vals(a, s) = <<x>> /\ Vals(b, s) = <<y>>
<1>1. IsList(s)
    BY Tuple2
<1>2. Len(s) = 2 /\ s[1].as = a /\ s[2].as = b /\ s[1].val = x /\ s[2].val = y
    BY DEF Field
<1>3. \A k \in 1..Len(s) : k = 1 \/ k = 2
    BY <1>2
<1>4. Within(s, {a, b})
    BY <1>1, <1>2, <1>3 DEF Within
<1>5. Placed(s)
    BY <1>4, PlainPlaced
<1>6. Vals(a, s) = <<Seen(s, 1)>> /\ Vals(b, s) = <<Seen(s, 2)>>
    <2>1. 1 \in 1..Len(s) /\ 2 \in 1..Len(s)
        BY <1>2
    <2>. QED
        BY <1>1, <1>2, <1>3, <2>1, ValsLone
<1>7. Seen(s, 1) = x /\ Seen(s, 2) = y
    BY <1>2 DEF Seen
<1>. QED
    BY <1>4, <1>5, <1>6, <1>7

Paired(a, b, n, v, u, rr) ==
    /\ a # b /\ a # "opConfig" /\ b # "opConfig"
    /\ n \in Nat /\ IsList(rr) /\ Len(rr) = n
    /\ \A i \in 1..n : rr[i] = <<Field(a, v[i]), Field(b, u[i])>>
    /\ v = [i \in 1..n |-> v[i]] /\ u = [i \in 1..n |-> u[i]]

LEMMA ValsPairs ==
    ASSUME NEW a, NEW b, NEW n, NEW v, NEW u, NEW rr, Paired(a, b, n, v, u, rr)
    PROVE  /\ Within(FlattenSeq(rr), {a, b}) /\ Placed(FlattenSeq(rr))
           /\ Vals(a, FlattenSeq(rr)) = v /\ Vals(b, FlattenSeq(rr)) = u
<1>1. /\ a # b /\ a # "opConfig" /\ b # "opConfig"
      /\ n \in Nat /\ IsList(rr) /\ Len(rr) = n
      /\ \A i \in 1..n : rr[i] = <<Field(a, v[i]), Field(b, u[i])>>
      /\ v = [i \in 1..n |-> v[i]] /\ u = [i \in 1..n |-> u[i]]
    BY DEF Paired
<1>2. \A i \in 1..n : /\ Within(rr[i], {a, b}) /\ Placed(rr[i])
                      /\ Vals(a, rr[i]) = <<v[i]>> /\ Vals(b, rr[i]) = <<u[i]>>
    <2> TAKE i \in 1..n
    <2> DEFINE x == v[i]
               y == u[i]
    <2>1. rr[i] = <<Field(a, x), Field(b, y)>>
        BY <1>1
    <2> HIDE DEF x, y
    <2>2. /\ Within(rr[i], {a, b}) /\ Placed(rr[i])
          /\ Vals(a, rr[i]) = <<x>> /\ Vals(b, rr[i]) = <<y>>
        BY ONLY <1>1, <2>1, ValsPair
    <2>. QED
        BY <2>1, <2>2 DEF x, y
<1>3. IsList(rr) /\ Len(rr) = n
    BY <1>1
<1>4. AllPlaced(rr)
    BY <1>2, <1>3 DEF AllPlaced
<1>5. Within(FlattenSeq(rr), {a, b})
    BY <1>2, <1>3, WithinFlatten
<1>6. Placed(FlattenSeq(rr))
    BY <1>4, ValsFlatten
<1>7. /\ Vals(a, FlattenSeq(rr)) = [i \in 1..Len(rr) |-> v[i]]
      /\ Vals(b, FlattenSeq(rr)) = [i \in 1..Len(rr) |-> u[i]]
    <2>1. \A i \in 1..Len(rr) : Vals(a, rr[i]) = <<v[i]>> /\ Vals(b, rr[i]) = <<u[i]>>
        BY <1>2, <1>3
    <2>. QED
        BY ONLY <2>1, <1>4, ValsRuns
<1>. QED
    BY <1>1, <1>5, <1>6, <1>7

LEMMA ValsSingle ==
    ASSUME NEW a, a # "opConfig", NEW x
    PROVE  Within(<<Field(a, x)>>, {a}) /\ Placed(<<Field(a, x)>>) /\ Vals(a, <<Field(a, x)>>) = <<x>>
<1> DEFINE s == <<Field(a, x)>>
<1>1. IsList(s) /\ Len(s) = 1 /\ s[1].as = a /\ s[1].val = x
    BY OneAndRest, EmptyList DEF Field
<1> HIDE DEF s
<1>2. Within(s, {a})
    BY <1>1 DEF Within
<1>3. Placed(s)
    BY <1>2, PlainPlaced
<1>4. Vals(a, s) = <<Seen(s, 1)>>
    BY <1>1, ValsLone
<1>. QED
    BY <1>1, <1>2, <1>3, <1>4 DEF Seen, s

LEMMA ValsFour ==
    ASSUME NEW kind, NEW p, NEW q, NEW r, NEW s, Placed(p), Placed(q), Placed(r), Placed(s)
    PROVE  /\ Placed(((p \o q) \o r) \o s)
           /\ Vals(kind, ((p \o q) \o r) \o s)
                  = ((Vals(kind, p) \o Vals(kind, q)) \o Vals(kind, r)) \o Vals(kind, s)
<1>1. Placed(p \o q) /\ Vals(kind, p \o q) = Vals(kind, p) \o Vals(kind, q)
    BY SeenConcat, ValsConcat
<1> DEFINE a == p \o q
<1> HIDE DEF a
<1>2. Placed(a \o r) /\ Vals(kind, a \o r) = Vals(kind, a) \o Vals(kind, r)
    BY <1>1, SeenConcat, ValsConcat DEF a
<1> DEFINE b == a \o r
<1> HIDE DEF b
<1>3. Placed(b \o s) /\ Vals(kind, b \o s) = Vals(kind, b) \o Vals(kind, s)
    BY <1>2, SeenConcat, ValsConcat DEF b
<1>. QED
    BY <1>1, <1>2, <1>3 DEF a, b

LEMMA WithinMore ==
    ASSUME NEW K, NEW L, K \subseteq L, NEW s, Within(s, K) PROVE Within(s, L)
  BY DEF Within

NetKinds == {"ack", "nBatches", "nNodes", "nPipes", "pipeSize", "pipeName", "nPreSyncs", "preSync"}

LEMMA ValsNet ==
    ASSUME NEW c, IsList(c.pipes), IsList(c.preSyncs)
    PROVE  /\ Within(NetFields(c), NetKinds) /\ Placed(NetFields(c))
           /\ Vals("nBatches", NetFields(c)) = <<c.batches>>
           /\ Vals("nNodes", NetFields(c)) = <<c.nodes>>
           /\ Vals("pipeSize", NetFields(c)) = [i \in 1..Len(c.pipes) |-> c.pipes[i].size]
           /\ Vals("pipeName", NetFields(c)) = [i \in 1..Len(c.pipes) |-> c.pipes[i].place]
<1> DEFINE n == Len(c.pipes)
           A == <<Field("ack", 0), Field("nBatches", c.batches), Field("nNodes", c.nodes), Field("nPipes", n)>>
           extents == [i \in 1..n |-> c.pipes[i].size]
           places == [i \in 1..n |-> c.pipes[i].place]
           pipes == [i \in 1..n |-> <<Field("pipeSize", c.pipes[i].size), Field("pipeName", c.pipes[i].place)>>]
           P == FlattenSeq(pipes)
           C == <<Field("nPreSyncs", Len(c.preSyncs))>>
           syncs == [i \in 1..Len(c.preSyncs) |-> <<Field("preSync", c.preSyncs[i])>>]
           S == FlattenSeq(syncs)
<1>0. n \in Nat /\ Len(c.preSyncs) \in Nat
    BY ListFacts
<1>1. NetFields(c) = ((A \o P) \o C) \o S
    BY DEF NetFields, Concat
<1>2. /\ Within(A, {"ack", "nBatches", "nNodes", "nPipes"})
      /\ Vals("nBatches", A) = <<c.batches>> /\ Vals("nNodes", A) = <<c.nodes>>
    <2>1. IsList(A)
        BY Tuple4
    <2>2. /\ Len(A) = 4 /\ A[1].as = "ack" /\ A[2].as = "nBatches" /\ A[3].as = "nNodes"
          /\ A[4].as = "nPipes" /\ A[2].val = c.batches /\ A[3].val = c.nodes
        BY DEF Field
    <2> HIDE DEF A
    <2>3. \A k \in 1..Len(A) : k \in {1, 2, 3, 4}
        BY <2>2
    <2>4. Within(A, {"ack", "nBatches", "nNodes", "nPipes"})
        BY <2>1, <2>2, <2>3 DEF Within
    <2>5. 2 \in 1..Len(A) /\ 3 \in 1..Len(A)
        BY <2>2
    <2>6. Vals("nBatches", A) = <<Seen(A, 2)>> /\ Vals("nNodes", A) = <<Seen(A, 3)>>
        BY <2>1, <2>2, <2>3, <2>5, ValsLone
    <2>. QED
        BY <2>2, <2>4, <2>6 DEF Seen
<1>3. /\ Within(P, {"pipeSize", "pipeName"}) /\ Vals("pipeSize", P) = extents /\ Vals("pipeName", P) = places
    <2>0. pipes = [i \in 1..n |-> pipes[i]]
        OBVIOUS
    <2>1. \A i \in 1..n : pipes[i] = <<Field("pipeSize", extents[i]), Field("pipeName", places[i])>>
        OBVIOUS
    <2>2. extents = [i \in 1..n |-> extents[i]] /\ places = [i \in 1..n |-> places[i]]
        OBVIOUS
    <2> HIDE DEF pipes, extents, places, n
    <2>3. IsList(pipes) /\ Len(pipes) = n /\ n \in Nat
        BY <1>0, <2>0, Listed
    <2>4. Paired("pipeSize", "pipeName", n, extents, places, pipes)
        BY <2>1, <2>2, <2>3 DEF Paired
    <2>. QED
        BY <2>4, ValsPairs
<1>4. Within(C, {"nPreSyncs"})
    BY ValsSingle
<1>5. Within(S, {"preSync"})
    <2>1. syncs = [i \in 1..Len(c.preSyncs) |-> syncs[i]]
        OBVIOUS
    <2>2. \A i \in 1..Len(c.preSyncs) : Within(syncs[i], {"preSync"})
        BY ValsSingle
    <2> HIDE DEF syncs
    <2>3. IsList(syncs) /\ Len(syncs) = Len(c.preSyncs)
        BY <1>0, <2>1, Listed
    <2>. QED
        BY <2>2, <2>3, WithinFlatten
<1> HIDE DEF A, P, C, S, extents, places, n
<1>6. Placed(A) /\ Placed(P) /\ Placed(C) /\ Placed(S)
    BY <1>2, <1>3, <1>4, <1>5, PlainPlaced
<1>7. Within(A, NetKinds) /\ Within(P, NetKinds) /\ Within(C, NetKinds) /\ Within(S, NetKinds)
    <2>1. /\ {"ack", "nBatches", "nNodes", "nPipes"} \subseteq NetKinds
          /\ {"pipeSize", "pipeName"} \subseteq NetKinds
          /\ {"nPreSyncs"} \subseteq NetKinds /\ {"preSync"} \subseteq NetKinds
        BY DEF NetKinds
    <2>. QED
        BY <2>1, <1>2, <1>3, <1>4, <1>5, WithinMore
<1>8. Within(NetFields(c), NetKinds)
    BY <1>1, <1>7, WithinConcat
<1>9. /\ Placed(NetFields(c))
      /\ \A kind : Vals(kind, NetFields(c))
                     = ((Vals(kind, A) \o Vals(kind, P)) \o Vals(kind, C)) \o Vals(kind, S)
    BY <1>1, <1>6, ValsFour
<1>10. /\ Vals("nBatches", P) = <<>> /\ Vals("nBatches", C) = <<>> /\ Vals("nBatches", S) = <<>>
       /\ Vals("nNodes", P) = <<>> /\ Vals("nNodes", C) = <<>> /\ Vals("nNodes", S) = <<>>
       /\ Vals("pipeSize", A) = <<>> /\ Vals("pipeSize", C) = <<>> /\ Vals("pipeSize", S) = <<>>
       /\ Vals("pipeName", A) = <<>> /\ Vals("pipeName", C) = <<>> /\ Vals("pipeName", S) = <<>>
    <2>1. \A kind \in {"pipeSize", "pipeName"} : Vals(kind, A) = <<>>
        BY <1>2, ValsWithin
    <2>2. \A kind \in {"nBatches", "nNodes"} : Vals(kind, P) = <<>>
        BY <1>3, ValsWithin
    <2>3. \A kind \in {"nBatches", "nNodes", "pipeSize", "pipeName"} : Vals(kind, C) = <<>>
        BY <1>4, ValsWithin
    <2>4. \A kind \in {"nBatches", "nNodes", "pipeSize", "pipeName"} : Vals(kind, S) = <<>>
        BY <1>5, ValsWithin
    <2>. QED
        BY ONLY <2>1, <2>2, <2>3, <2>4
<1>11. \A x : IsList(x) => x \o <<>> = x /\ <<>> \o x = x
    BY ConcatEmpty
<1>12. IsList(<<c.batches>>) /\ IsList(<<c.nodes>>) /\ IsList(extents) /\ IsList(places) /\ IsList(<<>>)
    BY <1>3, <1>6, ValsLists, OneAndRest, EmptyList DEF Placed
<1>13. Vals("nBatches", NetFields(c)) = <<c.batches>> /\ Vals("nNodes", NetFields(c)) = <<c.nodes>>
    BY <1>2, <1>9, <1>10, <1>11, <1>12
<1>14. Vals("pipeSize", NetFields(c)) = extents
    <2>1. Vals("pipeSize", NetFields(c)) = ((<<>> \o extents) \o <<>>) \o <<>>
        BY <1>3, <1>9, <1>10
    <2>. QED
        BY <2>1, <1>11, <1>12
<1>15. Vals("pipeName", NetFields(c)) = places
    <2>1. Vals("pipeName", NetFields(c)) = ((<<>> \o places) \o <<>>) \o <<>>
        BY <1>3, <1>9, <1>10
    <2>. QED
        BY <2>1, <1>11, <1>12
<1>. QED
    BY <1>8, <1>9, <1>13, <1>14, <1>15 DEF extents, places, n

\* The fields of an operator.
OpKinds == {"opCode", "opIndex", "opWeight", "configSize", "opName", "opInput", "opOutput", "opConfig"}
Asked(kind, op) ==
    CASE kind = "opName" -> op.name
      [] kind = "opInput" -> op.in
      [] kind = "opOutput" -> op.out
      [] kind = "opWeight" -> op.weight
      [] kind = "opConfig" -> Unpack(op.code, Pack(op))
AskedOfOps == {"opName", "opInput", "opOutput", "opWeight", "opConfig"}

LEMMA ValsOp ==
    ASSUME NEW op
    PROVE  /\ Within(OpFields(op), OpKinds) /\ Placed(OpFields(op))
           /\ \A kind \in AskedOfOps : Vals(kind, OpFields(op)) = <<Asked(kind, op)>>
<1> DEFINE s == OpFields(op)
<1>1. IsList(s)
    BY Tuple8 DEF OpFields
<1>2. /\ Len(s) = 8 /\ s[1].as = "opCode" /\ s[2].as = "opIndex" /\ s[3].as = "opWeight"
      /\ s[4].as = "configSize" /\ s[5].as = "opName" /\ s[6].as = "opInput"
      /\ s[7].as = "opOutput" /\ s[8].as = "opConfig"
      /\ s[1].val = op.code /\ s[3].val = op.weight /\ s[5].val = op.name
      /\ s[6].val = op.in /\ s[7].val = op.out /\ s[8].val = Pack(op)
    BY DEF OpFields, Field
<1> HIDE DEF s
<1>3. \A k \in 1..Len(s) : k \in {1, 2, 3, 4, 5, 6, 7, 8}
    BY <1>2
<1>4. Within(s, OpKinds)
    BY <1>1, <1>2, <1>3 DEF Within, OpKinds
<1>5. Placed(s)
    <2>1. ASSUME NEW k \in 1..Len(s), s[k].as = "opConfig" PROVE k = 8
        BY <1>2, <1>3, <2>1
    <2>2. s[8 - 7].as = "opCode" /\ 8 > 7
        BY <1>2
    <2>3. \A j \in (8 - 6)..(8 - 1) : j \in {2, 3, 4, 5, 6, 7}
        OBVIOUS
    <2>4. \A j \in (8 - 6)..(8 - 1) : s[j].as # "opCode"
        BY <1>2, <2>3
    <2>. QED
        BY <1>1, <2>1, <2>2, <2>4 DEF Placed
<1>6. ASSUME NEW k \in {3, 5, 6, 7, 8} PROVE Vals(s[k].as, s) = <<Seen(s, k)>>
    <2>1. k \in 1..Len(s) /\ \A i \in 1..Len(s) : i # k => s[i].as # s[k].as
        BY <1>2, <1>3
    <2>. QED
        BY <1>1, <2>1, ValsLone
<1>7. /\ Seen(s, 3) = op.weight /\ Seen(s, 5) = op.name /\ Seen(s, 6) = op.in /\ Seen(s, 7) = op.out
      /\ Seen(s, 8) = Unpack(op.code, Pack(op))
    <2>1. 8 - 7 = 1
        OBVIOUS
    <2>. QED
        BY <1>2, <2>1 DEF Seen
<1>8. ASSUME NEW kind \in AskedOfOps PROVE Vals(kind, s) = <<Asked(kind, op)>>
    <2>1. CASE kind = "opName"
        BY <1>2, <1>6, <1>7, <2>1 DEF Asked
    <2>2. CASE kind = "opInput"
        BY <1>2, <1>6, <1>7, <2>2 DEF Asked
    <2>3. CASE kind = "opOutput"
        BY <1>2, <1>6, <1>7, <2>3 DEF Asked
    <2>4. CASE kind = "opWeight"
        BY <1>2, <1>6, <1>7, <2>4 DEF Asked
    <2>5. CASE kind = "opConfig"
        BY <1>2, <1>6, <1>7, <2>5 DEF Asked
    <2>. QED
        BY <2>1, <2>2, <2>3, <2>4, <2>5 DEF AskedOfOps
<1>. QED
    BY <1>4, <1>5, <1>8 DEF s
LEMMA ValsThree ==
    ASSUME NEW kind, NEW p, NEW q, NEW r, Placed(p), Placed(q), Placed(r)
    PROVE  /\ Placed((p \o q) \o r)
           /\ Vals(kind, (p \o q) \o r) = (Vals(kind, p) \o Vals(kind, q)) \o Vals(kind, r)
<1>1. Placed(p \o q) /\ Vals(kind, p \o q) = Vals(kind, p) \o Vals(kind, q)
    BY SeenConcat, ValsConcat
<1> DEFINE a == p \o q
<1> HIDE DEF a
<1>2. Placed(a \o r) /\ Vals(kind, a \o r) = Vals(kind, a) \o Vals(kind, r)
    BY <1>1, SeenConcat, ValsConcat DEF a
<1>. QED
    BY <1>1, <1>2 DEF a

SegmentKinds == {"nSyncs", "nOps", "syncPipe", "syncType"} \cup OpKinds

LEMMA ValsSegment ==
    ASSUME NEW s, IsList(s.syncs), Len(s.syncs) = 1, IsList(s.ops)
    PROVE  /\ Within(SegmentFields(s), SegmentKinds) /\ Placed(SegmentFields(s))
           /\ Vals("nOps", SegmentFields(s)) = <<Len(s.ops)>>
           /\ Vals("syncType", SegmentFields(s)) = <<s.syncs[1].type>>
           /\ \A kind \in AskedOfOps :
                 Vals(kind, SegmentFields(s)) = [i \in 1..Len(s.ops) |-> Asked(kind, s.ops[i])]
<1> DEFINE A == <<Field("nSyncs", Len(s.syncs)), Field("nOps", Len(s.ops))>>
           syncs == [i \in 1..Len(s.syncs) |->
                       <<Field("syncPipe", s.syncs[i].pipe), Field("syncType", s.syncs[i].type)>>]
           pipes == [i \in 1..Len(s.syncs) |-> s.syncs[i].pipe]
           types == [i \in 1..Len(s.syncs) |-> s.syncs[i].type]
           ops == [i \in 1..Len(s.ops) |-> OpFields(s.ops[i])]
           S == FlattenSeq(syncs)
           O == FlattenSeq(ops)
           value(kind) == [i \in 1..Len(s.ops) |-> Asked(kind, s.ops[i])]
<1>0. Len(s.ops) \in Nat
    BY ListFacts
<1>1. SegmentFields(s) = (A \o S) \o O
    BY DEF SegmentFields, Concat
<1>2. Within(A, {"nSyncs", "nOps"}) /\ Placed(A) /\ Vals("nOps", A) = <<Len(s.ops)>>
    <2> DEFINE x == Len(s.syncs)
               y == Len(s.ops)
    <2>1. A = <<Field("nSyncs", x), Field("nOps", y)>>
        OBVIOUS
    <2> HIDE DEF A, x, y
    <2>2. Within(A, {"nSyncs", "nOps"}) /\ Placed(A) /\ Vals("nOps", A) = <<y>>
        BY <2>1, ValsPair
    <2>. QED
        BY <2>2 DEF y
<1>3. /\ Within(S, {"syncPipe", "syncType"}) /\ Placed(S)
      /\ Vals("syncType", S) = <<s.syncs[1].type>>
    <2>1. syncs = [i \in 1..1 |-> syncs[i]]
        OBVIOUS
    <2>2. \A i \in 1..1 : syncs[i] = <<Field("syncPipe", pipes[i]), Field("syncType", types[i])>>
        OBVIOUS
    <2>3. pipes = [i \in 1..1 |-> pipes[i]] /\ types = [i \in 1..1 |-> types[i]]
        OBVIOUS
    <2>4. types = <<s.syncs[1].type>>
        OBVIOUS
    <2> HIDE DEF syncs, pipes, types
    <2>5. IsList(syncs) /\ Len(syncs) = 1
        BY <2>1, Listed
    <2>6. Paired("syncPipe", "syncType", 1, pipes, types, syncs)
        BY <2>2, <2>3, <2>5 DEF Paired
    <2>. QED
        BY <2>4, <2>6, ValsPairs
<1>4. /\ Within(O, OpKinds) /\ Placed(O)
      /\ \A kind \in AskedOfOps : Vals(kind, O) = value(kind)
    <2>1. ops = [i \in 1..Len(s.ops) |-> ops[i]]
        OBVIOUS
    <2>2. \A i \in 1..Len(s.ops) : ops[i] = OpFields(s.ops[i])
        OBVIOUS
    <2> HIDE DEF ops
    <2>3. IsList(ops) /\ Len(ops) = Len(s.ops)
        BY <1>0, <2>1, Listed
    <2>4. \A i \in 1..Len(ops) : Within(ops[i], OpKinds) /\ Placed(ops[i])
        BY <2>2, <2>3, ValsOp
    <2>5. AllPlaced(ops)
        BY <2>3, <2>4 DEF AllPlaced
    <2>6. Within(O, OpKinds) /\ Placed(O)
        BY <2>3, <2>4, <2>5, WithinFlatten, ValsFlatten
    <2>7. ASSUME NEW kind \in AskedOfOps PROVE Vals(kind, O) = value(kind)
        <3> DEFINE v == value(kind)
        <3>1. \A i \in 1..Len(ops) : Vals(kind, ops[i]) = <<v[i]>>
            BY <2>2, <2>3, ValsOp
        <3>2. v = [i \in 1..Len(ops) |-> v[i]]
            BY <2>3
        <3> HIDE DEF v
        <3>3. Vals(kind, FlattenSeq(ops)) = [i \in 1..Len(ops) |-> v[i]]
            BY ONLY <2>5, <3>1, ValsRuns
        <3>. QED
            BY <3>2, <3>3 DEF v
    <2>. QED
        BY <2>6, <2>7
<1> HIDE DEF A, S, O, value
<1>5. Within(SegmentFields(s), SegmentKinds)
    <2>1. /\ {"nSyncs", "nOps"} \subseteq SegmentKinds /\ {"syncPipe", "syncType"} \subseteq SegmentKinds
          /\ OpKinds \subseteq SegmentKinds
        BY DEF SegmentKinds
    <2>2. Within(A, SegmentKinds) /\ Within(S, SegmentKinds) /\ Within(O, SegmentKinds)
        BY <1>2, <1>3, <1>4, <2>1, WithinMore
    <2>. QED
        BY <1>1, <2>2, WithinConcat
<1>6. /\ Placed(SegmentFields(s))
      /\ \A kind : Vals(kind, SegmentFields(s)) = (Vals(kind, A) \o Vals(kind, S)) \o Vals(kind, O)
    BY <1>1, <1>2, <1>3, <1>4, ValsThree
<1>7. "nOps" \notin OpKinds /\ "syncType" \notin OpKinds
    BY DEF OpKinds
<1>8. /\ Vals("nOps", S) = <<>> /\ Vals("nOps", O) = <<>>
      /\ Vals("syncType", A) = <<>> /\ Vals("syncType", O) = <<>>
    BY <1>2, <1>3, <1>4, <1>7, ValsWithin
<1>9. ASSUME NEW kind \in AskedOfOps PROVE Vals(kind, A) = <<>> /\ Vals(kind, S) = <<>>
    <2>1. kind \notin {"nSyncs", "nOps"} /\ kind \notin {"syncPipe", "syncType"}
        BY DEF AskedOfOps
    <2>. QED
        BY <1>2, <1>3, <2>1, ValsWithin
<1>10. \A x : IsList(x) => x \o <<>> = x /\ <<>> \o x = x
    BY ConcatEmpty
<1>11. IsList(<<>>) /\ \A x : IsList(<<x>>)
    BY OneAndRest, EmptyList
<1>12. Vals("nOps", SegmentFields(s)) = <<Len(s.ops)>>
    <2>1. Vals("nOps", SegmentFields(s)) = (<<Len(s.ops)>> \o <<>>) \o <<>>
        BY <1>2, <1>6, <1>8
    <2>. QED
        BY <2>1, <1>10, <1>11
<1>13. Vals("syncType", SegmentFields(s)) = <<s.syncs[1].type>>
    <2>1. Vals("syncType", SegmentFields(s)) = (<<>> \o <<s.syncs[1].type>>) \o <<>>
        BY <1>3, <1>6, <1>8
    <2>. QED
        BY <2>1, <1>10, <1>11
<1>14. ASSUME NEW kind \in AskedOfOps PROVE Vals(kind, SegmentFields(s)) = value(kind)
    <2>1. Vals(kind, SegmentFields(s)) = (<<>> \o <<>>) \o Vals(kind, O)
        BY <1>6, <1>9
    <2>2. IsList(Vals(kind, O))
        BY <1>4, ValsLists DEF Within
    <2>3. (<<>> \o <<>>) \o Vals(kind, O) = Vals(kind, O)
        BY <1>10, <1>11, <2>2
    <2>. QED
        BY <1>4, <2>1, <2>3
<1>. QED
    BY <1>5, <1>6, <1>12, <1>13, <1>14 DEF value

NodeKinds == {"ack", "nodeIndex", "nBuffers", "nSegments", "bufferSize", "bufferName"} \cup SegmentKinds

LEMMA ValsNode ==
    ASSUME NEW c, IsList(c.buffers), IsList(c.segments),
           \A k \in 1..Len(c.segments) : /\ IsList(c.segments[k].syncs) /\ Len(c.segments[k].syncs) = 1
                                         /\ IsList(c.segments[k].ops)
    PROVE  /\ Within(NodeFields(c), NodeKinds) /\ Placed(NodeFields(c))
           /\ Vals("nodeIndex", NodeFields(c)) = <<c.index>>
           /\ Vals("bufferSize", NodeFields(c)) = [i \in 1..Len(c.buffers) |-> c.buffers[i].size]
           /\ Vals("bufferName", NodeFields(c)) = [i \in 1..Len(c.buffers) |-> c.buffers[i].place]
           /\ Vals("nOps", NodeFields(c)) = [k \in 1..Len(c.segments) |-> Len(c.segments[k].ops)]
           /\ Vals("syncType", NodeFields(c)) = [k \in 1..Len(c.segments) |-> c.segments[k].syncs[1].type]
           /\ \A kind \in AskedOfOps :
                 Vals(kind, NodeFields(c))
                     = FlattenSeq([k \in 1..Len(c.segments) |->
                          [i \in 1..Len(c.segments[k].ops) |-> Asked(kind, c.segments[k].ops[i])]])
<1> DEFINE nb == Len(c.buffers)
           ns == Len(c.segments)
           A == <<Field("ack", 0), Field("nodeIndex", c.index), Field("nBuffers", nb), Field("nSegments", ns)>>
           buffers == [i \in 1..nb |->
                         <<Field("bufferSize", c.buffers[i].size), Field("bufferName", c.buffers[i].place)>>]
           extents == [i \in 1..nb |-> c.buffers[i].size]
           places == [i \in 1..nb |-> c.buffers[i].place]
           segments == [k \in 1..ns |-> SegmentFields(c.segments[k])]
           lens == [k \in 1..ns |-> Len(c.segments[k].ops)]
           types == [k \in 1..ns |-> c.segments[k].syncs[1].type]
           P == FlattenSeq(buffers)
           S == FlattenSeq(segments)
           value(kind) == FlattenSeq([k \in 1..ns |->
                              [i \in 1..Len(c.segments[k].ops) |-> Asked(kind, c.segments[k].ops[i])]])
           Head4 == {"ack", "nodeIndex", "nBuffers", "nSegments"}
<1>0. nb \in Nat /\ ns \in Nat
    BY ListFacts
<1>1. NodeFields(c) = (A \o P) \o S
    BY DEF NodeFields, Concat
<1>2. Within(A, Head4) /\ Vals("nodeIndex", A) = <<c.index>>
    <2>1. IsList(A)
        BY Tuple4
    <2>2. /\ Len(A) = 4 /\ A[1].as = "ack" /\ A[2].as = "nodeIndex" /\ A[3].as = "nBuffers"
          /\ A[4].as = "nSegments" /\ A[2].val = c.index
        BY DEF Field
    <2> HIDE DEF A
    <2>3. \A k \in 1..Len(A) : k \in {1, 2, 3, 4}
        BY <2>2
    <2>4. Within(A, Head4)
        BY <2>1, <2>2, <2>3 DEF Within
    <2>5. 2 \in 1..Len(A)
        BY <2>2
    <2>6. Vals("nodeIndex", A) = <<Seen(A, 2)>>
        BY <2>1, <2>2, <2>3, <2>5, ValsLone
    <2>. QED
        BY <2>2, <2>4, <2>6 DEF Seen
<1>3. /\ Within(P, {"bufferSize", "bufferName"})
      /\ Vals("bufferSize", P) = extents /\ Vals("bufferName", P) = places
    <2>0. buffers = [i \in 1..nb |-> buffers[i]]
        OBVIOUS
    <2>1. \A i \in 1..nb : buffers[i] = <<Field("bufferSize", extents[i]), Field("bufferName", places[i])>>
        OBVIOUS
    <2>2. extents = [i \in 1..nb |-> extents[i]] /\ places = [i \in 1..nb |-> places[i]]
        OBVIOUS
    <2> HIDE DEF buffers, extents, places, nb
    <2>3. IsList(buffers) /\ Len(buffers) = nb /\ nb \in Nat
        BY <1>0, <2>0, Listed
    <2>4. Paired("bufferSize", "bufferName", nb, extents, places, buffers)
        BY <2>1, <2>2, <2>3 DEF Paired
    <2>. QED
        BY <2>4, ValsPairs
<1>4. /\ Within(S, SegmentKinds) /\ Placed(S)
      /\ Vals("nOps", S) = lens /\ Vals("syncType", S) = types
      /\ \A kind \in AskedOfOps : Vals(kind, S) = value(kind)
    <2>0. segments = [i \in 1..ns |-> segments[i]]
        OBVIOUS
    <2>1. \A k \in 1..ns : segments[k] = SegmentFields(c.segments[k])
        OBVIOUS
    <2>2. /\ lens = [k \in 1..ns |-> lens[k]] /\ types = [k \in 1..ns |-> types[k]]
          /\ \A k \in 1..ns : lens[k] = Len(c.segments[k].ops) /\ types[k] = c.segments[k].syncs[1].type
        OBVIOUS
    <2> HIDE DEF segments, lens, types
    <2>3. IsList(segments) /\ Len(segments) = ns
        BY <1>0, <2>0, Listed
    <2>4. ASSUME NEW k \in 1..ns
          PROVE  /\ Within(segments[k], SegmentKinds) /\ Placed(segments[k])
                 /\ Vals("nOps", segments[k]) = <<lens[k]>>
                 /\ Vals("syncType", segments[k]) = <<types[k]>>
                 /\ \A kind \in AskedOfOps : Vals(kind, segments[k])
                       = [i \in 1..Len(c.segments[k].ops) |-> Asked(kind, c.segments[k].ops[i])]
        <3> DEFINE s == c.segments[k]
        <3>1. IsList(s.syncs) /\ Len(s.syncs) = 1 /\ IsList(s.ops)
            OBVIOUS
        <3>2. segments[k] = SegmentFields(s) /\ lens[k] = Len(s.ops) /\ types[k] = s.syncs[1].type
            BY <2>1, <2>2
        <3> HIDE DEF s
        <3>3. /\ Within(SegmentFields(s), SegmentKinds) /\ Placed(SegmentFields(s))
              /\ Vals("nOps", SegmentFields(s)) = <<Len(s.ops)>>
              /\ Vals("syncType", SegmentFields(s)) = <<s.syncs[1].type>>
              /\ \A kind \in AskedOfOps :
                    Vals(kind, SegmentFields(s)) = [i \in 1..Len(s.ops) |-> Asked(kind, s.ops[i])]
            BY ONLY <3>1, ValsSegment
        <3>. QED
            BY <3>2, <3>3 DEF s
    <2>5. AllPlaced(segments)
        BY <2>3, <2>4 DEF AllPlaced
    <2>6. Within(S, SegmentKinds) /\ Placed(S)
        BY <2>3, <2>4, <2>5, WithinFlatten, ValsFlatten
    <2>7. Vals("nOps", S) = lens /\ Vals("syncType", S) = types
        <3>2. Vals("nOps", FlattenSeq(segments)) = [k \in 1..Len(segments) |-> lens[k]]
            <4>1. \A k \in 1..Len(segments) : Vals("nOps", segments[k]) = <<lens[k]>>
                BY <2>3, <2>4
            <4>. QED
                BY ONLY <2>5, <4>1, ValsRuns
        <3>3. Vals("syncType", FlattenSeq(segments)) = [k \in 1..Len(segments) |-> types[k]]
            <4>1. \A k \in 1..Len(segments) : Vals("syncType", segments[k]) = <<types[k]>>
                BY <2>3, <2>4
            <4>. QED
                BY ONLY <2>5, <4>1, ValsRuns
        <3>. QED
            BY <2>2, <2>3, <3>2, <3>3
    <2>8. ASSUME NEW kind \in AskedOfOps PROVE Vals(kind, S) = value(kind)
        <3>1. Vals(kind, FlattenSeq(segments))
                  = FlattenSeq([k \in 1..Len(segments) |-> Vals(kind, segments[k])])
            BY <2>5, ValsFlatten
        <3>2. [k \in 1..Len(segments) |-> Vals(kind, segments[k])]
                  = [k \in 1..ns |-> [i \in 1..Len(c.segments[k].ops) |-> Asked(kind, c.segments[k].ops[i])]]
            BY <2>3, <2>4
        <3>. QED
            BY <3>1, <3>2
    <2>. QED
        BY <2>6, <2>7, <2>8
<1> HIDE DEF A, P, S, value, extents, places, lens, types
<1>5. Placed(A) /\ Placed(P)
    BY <1>2, <1>3, PlainPlaced
<1>6. Within(NodeFields(c), NodeKinds)
    <2>1. /\ Head4 \subseteq NodeKinds /\ {"bufferSize", "bufferName"} \subseteq NodeKinds
          /\ SegmentKinds \subseteq NodeKinds
        BY DEF NodeKinds
    <2>2. Within(A, NodeKinds) /\ Within(P, NodeKinds) /\ Within(S, NodeKinds)
        BY <1>2, <1>3, <1>4, <2>1, WithinMore
    <2>. QED
        BY <1>1, <2>2, WithinConcat
<1>7. /\ Placed(NodeFields(c))
      /\ \A kind : Vals(kind, NodeFields(c)) = (Vals(kind, A) \o Vals(kind, P)) \o Vals(kind, S)
    BY <1>1, <1>4, <1>5, ValsThree
<1>8. /\ Vals("nodeIndex", P) = <<>> /\ Vals("nodeIndex", S) = <<>>
      /\ Vals("bufferSize", A) = <<>> /\ Vals("bufferSize", S) = <<>>
      /\ Vals("bufferName", A) = <<>> /\ Vals("bufferName", S) = <<>>
    <2>1. "nodeIndex" \notin SegmentKinds /\ "bufferSize" \notin SegmentKinds /\ "bufferName" \notin SegmentKinds
        BY DEF SegmentKinds, OpKinds
    <2>. QED
        BY <1>2, <1>3, <1>4, <2>1, ValsWithin
<1>9. ASSUME NEW kind \in {"nOps", "syncType"} \cup AskedOfOps PROVE Vals(kind, A) = <<>> /\ Vals(kind, P) = <<>>
    <2>1. kind \notin Head4 /\ kind \notin {"bufferSize", "bufferName"}
        BY DEF AskedOfOps
    <2>. QED
        BY <1>2, <1>3, <2>1, ValsWithin
<1>10. \A x : IsList(x) => x \o <<>> = x /\ <<>> \o x = x
    BY ConcatEmpty
<1>11. IsList(<<>>) /\ IsList(<<c.index>>) /\ IsList(extents) /\ IsList(places)
    BY <1>3, <1>5, ValsLists, OneAndRest, EmptyList DEF Placed
<1>12. Vals("nodeIndex", NodeFields(c)) = <<c.index>>
    <2>1. Vals("nodeIndex", NodeFields(c)) = (<<c.index>> \o <<>>) \o <<>>
        BY <1>2, <1>7, <1>8
    <2>. QED
        BY <2>1, <1>10, <1>11
<1>13. Vals("bufferSize", NodeFields(c)) = extents /\ Vals("bufferName", NodeFields(c)) = places
    <2>1. /\ Vals("bufferSize", NodeFields(c)) = (<<>> \o extents) \o <<>>
          /\ Vals("bufferName", NodeFields(c)) = (<<>> \o places) \o <<>>
        BY <1>3, <1>7, <1>8
    <2>. QED
        BY <2>1, <1>10, <1>11
<1>14. ASSUME NEW kind \in {"nOps", "syncType"} \cup AskedOfOps PROVE Vals(kind, NodeFields(c)) = Vals(kind, S)
    <2>1. Vals(kind, NodeFields(c)) = (<<>> \o <<>>) \o Vals(kind, S)
        BY <1>7, <1>9
    <2>2. IsList(Vals(kind, S))
        BY <1>4, ValsLists DEF Within
    <2>3. (<<>> \o <<>>) \o Vals(kind, S) = Vals(kind, S)
        BY <1>10, <1>11, <2>2
    <2>. QED
        BY <2>1, <2>3
<1>15. Vals("nOps", NodeFields(c)) = lens /\ Vals("syncType", NodeFields(c)) = types
    BY <1>4, <1>14
<1>16. \A kind \in AskedOfOps : Vals(kind, NodeFields(c)) = value(kind)
    BY <1>4, <1>14
<1>. QED
    BY <1>6, <1>7, <1>12, <1>13, <1>15, <1>16 DEF value, extents, places, lens, types
-----------------------------------------------------------------------------
\* Each operator of the graph is unpacked as it was packed.
Configured(op) == Unpack(op.code, Pack(op)) = op.aux
AllConfigured(ops) == IsList(ops) /\ \A i \in 1..Len(ops) : Configured(ops[i])

LEMMA ConfiguredConcat ==
    ASSUME NEW s, NEW t, AllConfigured(s), AllConfigured(t)
    PROVE  AllConfigured(s \o t)
<1>1. IsList(s) /\ IsList(t)
    BY DEF AllConfigured
<1> DEFINE u == s \o t
<1>2. IsList(u)
    BY <1>1, ConcatList
<1> HIDE DEF u
<1>3. \A i \in 1..Len(u) : Configured(u[i])
    <2> TAKE i \in 1..Len(u)
    <2>1. (\E j \in 1..Len(s) : u[i] = s[j]) \/ (\E j \in 1..Len(t) : u[i] = t[j])
        BY <1>1, ConcatElements DEF u
    <2>. QED
        BY <2>1 DEF AllConfigured
<1>. QED
    BY <1>2, <1>3 DEF AllConfigured, u

LEMMA ConfiguredIf ==
    ASSUME NEW c, NEW s, AllConfigured(s) PROVE AllConfigured(If(c, s))
<1>1. AllConfigured(<<>>)
    <2>1. IsList(<<>>) /\ Len(<<>>) = 0
        BY EmptyList
    <2>2. \A i \in 1..Len(<<>>) : FALSE
        BY <2>1
    <2>. QED
        BY <2>1, <2>2 DEF AllConfigured
<1>. QED
    BY <1>1 DEF If

LEMMA ConfiguredOne ==
    ASSUME NEW op, Configured(op) PROVE AllConfigured(<<op>>)
<1>1. IsList(<<op>>) /\ Len(<<op>>) = 1 /\ <<op>>[1] = op
    BY OneAndRest, EmptyList
<1>. QED
    BY <1>1 DEF AllConfigured

WithConfig == {"INV_RMS", "RMS_NORM", "MATMUL", "ROPE", "MULTIHEAD_ATT", "MUL", "SCALE", "MOE_GATE"}

LEMMA ConfiguredOps ==
    /\ \A code, name, l, in, out, weight : code \notin WithConfig
           => AllConfigured(Op(code, name, l, in, out, weight, NoAux))
    /\ \A name, l, in, out, weight, columns :
           AllConfigured(Op("INV_RMS", name, l, in, out, weight, [columns |-> columns]))
    /\ \A name, l, in, out, weight, inv, columns :
           AllConfigured(Op("RMS_NORM", name, l, in, out, weight, [inv |-> inv, columns |-> columns]))
    /\ \A name, l, in, out, weight, x, y, z :
           AllConfigured(Op("MATMUL", name, l, in, out, weight, [experts |-> x, active |-> y, indexes |-> z]))
    /\ \A name, l, in, out, weight, x :
           AllConfigured(Op("MUL", name, l, in, out, weight, [multiplier |-> x]))
    /\ \A name, l, in, out, weight, x :
           AllConfigured(Op("SCALE", name, l, in, out, weight, [scale |-> x]))
    /\ \A name, l, in, out, weight, x, y :
           AllConfigured(Op("MOE_GATE", name, l, in, out, weight, [k |-> x, indexes |-> y]))
<1>1. \A op : op.code \notin WithConfig /\ op.aux = NoAux => Configured(op)
    BY DEF Configured, Unpack, Pack, WithConfig
<1>2. \A op, x : op.code = "INV_RMS" /\ op.aux = [columns |-> x] => Configured(op)
    BY DEF Configured, Unpack, Pack
<1>3. \A op, x, y : op.code = "RMS_NORM" /\ op.aux = [inv |-> x, columns |-> y] => Configured(op)
    BY DEF Configured, Unpack, Pack
<1>4. \A op, x, y, z : op.code = "MATMUL" /\ op.aux = [experts |-> x, active |-> y, indexes |-> z]
          => Configured(op)
    BY DEF Configured, Unpack, Pack
<1>5. \A op, x : op.code = "MUL" /\ op.aux = [multiplier |-> x] => Configured(op)
    BY DEF Configured, Unpack, Pack
<1>6. \A op, x : op.code = "SCALE" /\ op.aux = [scale |-> x] => Configured(op)
    BY DEF Configured, Unpack, Pack
<1>7. \A op, x, y : op.code = "MOE_GATE" /\ op.aux = [k |-> x, indexes |-> y] => Configured(op)
    BY DEF Configured, Unpack, Pack
<1>. QED
    BY <1>1, <1>2, <1>3, <1>4, <1>5, <1>6, <1>7, ConfiguredOne DEF Op
LEMMA ConfiguredRope ==
    ASSUME NEW h, NEW node, NEW name, NEW l, NEW place, NEW isQ, NEW cache
    PROVE  AllConfigured(InPlace("ROPE", name, l, place,
                                 [isQ |-> isQ, cache |-> cache, slice |-> RopeSlice(h, node)]))
<1> DEFINE slice == RopeSlice(h, node)
<1>1. slice = [qDim0 |-> slice.qDim0, qDimStart |-> slice.qDimStart, qDimEnd |-> slice.qDimEnd,
               qShift |-> slice.qShift, kvDim0 |-> slice.kvDim0, kvDimStart |-> slice.kvDimStart,
               cacheSize |-> slice.cacheSize]
    BY DEF RopeSlice
<1> HIDE DEF slice
<1>2. ASSUME NEW op, op.code = "ROPE", op.aux = [isQ |-> isQ, cache |-> cache, slice |-> slice]
      PROVE  Configured(op)
    <2> DEFINE two == <<isQ, cache>>
               rope == [i \in 1..7 |-> slice[RopeFields[i]]]
               b == two \o rope
    <2>1. op.aux.isQ = isQ /\ op.aux.cache = cache /\ op.aux.slice = slice
        BY <1>2
    <2>2. Len(RopeFields) = 7
        BY DEF RopeFields
    <2>3. Pack(op) = b
        BY <1>2, <2>1, <2>2 DEF Pack
    <2>4. /\ rope[1] = slice.qDim0 /\ rope[2] = slice.qDimStart /\ rope[3] = slice.qDimEnd
          /\ rope[4] = slice.qShift /\ rope[5] = slice.kvDim0 /\ rope[6] = slice.kvDimStart
          /\ rope[7] = slice.cacheSize
        BY DEF RopeFields
    <2>5. rope = [i \in 1..7 |-> rope[i]]
        OBVIOUS
    <2>6. two[1] = isQ /\ two[2] = cache /\ Len(two) = 2 /\ IsList(two)
        BY Tuple2
    <2> HIDE DEF two, rope
    <2>7. IsList(rope) /\ Len(rope) = 7
        BY <2>5, Listed
    <2>8. /\ \A i \in 1..Len(two) : b[i] = two[i]
          /\ \A i \in 1..Len(rope) : b[Len(two) + i] = rope[i]
        <3>1. IsList(two) /\ IsList(rope)
            BY <2>6, <2>7
        <3>. QED
            BY ONLY <3>1, ConcatList
    <2> HIDE DEF b
    <2>9. /\ b[1] = isQ /\ b[2] = cache /\ b[3] = slice.qDim0 /\ b[4] = slice.qDimStart
          /\ b[5] = slice.qDimEnd /\ b[6] = slice.qShift /\ b[7] = slice.kvDim0
          /\ b[8] = slice.kvDimStart /\ b[9] = slice.cacheSize
        <3>1. /\ b[1] = two[1] /\ b[2] = two[2] /\ b[2 + 1] = rope[1] /\ b[2 + 2] = rope[2]
              /\ b[2 + 3] = rope[3] /\ b[2 + 4] = rope[4] /\ b[2 + 5] = rope[5] /\ b[2 + 6] = rope[6]
              /\ b[2 + 7] = rope[7]
            BY <2>6, <2>7, <2>8
        <3>. QED
            BY <2>4, <2>6, <3>1
    <2>10. Unpack("ROPE", b) = [isQ |-> b[1], cache |-> b[2],
               slice |-> [qDim0 |-> b[3], qDimStart |-> b[4], qDimEnd |-> b[5], qShift |-> b[6],
                          kvDim0 |-> b[7], kvDimStart |-> b[8], cacheSize |-> b[9]]]
        BY DEF Unpack
    <2>11. Unpack("ROPE", b) = [isQ |-> isQ, cache |-> cache, slice |-> slice]
        BY <1>1, <2>9, <2>10
    <2>. QED
        BY <1>2, <2>3, <2>11 DEF Configured
<1>. QED
    BY <1>2, ConfiguredOne DEF InPlace, Op, slice

LEMMA ConfiguredAtt ==
    ASSUME NEW name, NEW l, NEW in, NEW out, NEW weight, NEW x1, NEW x2, NEW x3, NEW x4, NEW x5, NEW x6, NEW x7
    PROVE  AllConfigured(Op("MULTIHEAD_ATT", name, l, in, out, weight,
                            [heads |-> x1, heads0 |-> x2, kvHeads |-> x3, kvDim0 |-> x4,
                             query |-> x5, key |-> x6, value |-> x7]))
<1>1. ASSUME NEW op, op.code = "MULTIHEAD_ATT",
             op.aux = [heads |-> x1, heads0 |-> x2, kvHeads |-> x3, kvDim0 |-> x4,
                       query |-> x5, key |-> x6, value |-> x7]
      PROVE  Configured(op)
    <2>1. Pack(op) = <<x1, x2, x3, x4, x5, x6, x7>>
        BY <1>1 DEF Pack
    <2>. QED
        BY <1>1, <2>1 DEF Configured, Unpack
<1>. QED
    BY <1>1, ConfiguredOne DEF Op

LEMMA ConfiguredMade ==
    /\ \A name, l, in, out : AllConfigured(Cast(name, l, in, out))
    /\ \A name, l : AllConfigured(MergeAdd(name, l))
    /\ \A name, l, in, out, weight, experts, active :
           AllConfigured(Matmul(name, l, in, out, weight, experts, active))
    /\ \A pre, name, l, in, out, weight, columns :
           AllConfigured(Norm(pre, name, l, in, out, weight, columns))
    /\ \A name, l, place : AllConfigured(InPlace("SILU", name, l, place, NoAux))
    /\ \A name, l, place : AllConfigured(InPlace("SOFTMAX", name, l, place, NoAux))
    /\ \A name, l, place, x : AllConfigured(InPlace("MUL", name, l, place, [multiplier |-> x]))
    /\ \A name, l, place, x : AllConfigured(InPlace("SCALE", name, l, place, [scale |-> x]))
    /\ \A name, l, in, out, weight : AllConfigured(Op("REPEAT_Z", name, l, in, out, weight, NoAux))
    /\ \A name, l, in, out, weight : AllConfigured(Op("MERGE_SUM", name, l, in, out, weight, NoAux))
    /\ \A name, l, in, out, weight : AllConfigured(Op("SHIFT", name, l, in, out, weight, NoAux))
    /\ \A name, l, in, out, weight : AllConfigured(Op("EMBEDDING", name, l, in, out, weight, NoAux))
<1>1. \A code \in {"CAST", "MERGE_ADD", "SILU", "SOFTMAX", "REPEAT_Z", "MERGE_SUM", "SHIFT", "EMBEDDING"} :
          \A name, l, in, out, weight : AllConfigured(Op(code, name, l, in, out, weight, NoAux))
    <2>1. \A code \in {"CAST", "MERGE_ADD", "SILU", "SOFTMAX", "REPEAT_Z", "MERGE_SUM", "SHIFT", "EMBEDDING"} :
              code \notin WithConfig
        BY DEF WithConfig
    <2>. QED
        BY <2>1, ConfiguredOps
<1>2. \A pre, name, l, in, out, weight, columns : AllConfigured(Norm(pre, name, l, in, out, weight, columns))
    BY ConfiguredOps, ConfiguredConcat DEF Norm
<1>. QED
    BY <1>1, <1>2, ConfiguredOps DEF Cast, MergeAdd, Matmul, InPlace

LEMMA AttOpsConfigured == ASSUME NEW h, NEW node, NEW l PROVE AllConfigured(AttOps(h, node, l))
  BY ConfiguredMade, ConfiguredAtt, ConfiguredRope, ConfiguredConcat, ConfiguredIf DEF AttOps

LEMMA DenseOpsConfigured == ASSUME NEW h, NEW l PROVE AllConfigured(DenseOps(h, l))
  BY ConfiguredMade, ConfiguredConcat, ConfiguredIf DEF DenseOps

LEMMA MoeOpsConfigured == ASSUME NEW h, NEW l PROVE AllConfigured(MoeOps(h, l))
  BY ConfiguredMade, ConfiguredOps, ConfiguredConcat, ConfiguredIf DEF MoeOps

LEMMA FfOpsConfigured == ASSUME NEW h, NEW l PROVE AllConfigured(FfOps(h, l))
  BY ConfiguredMade, ConfiguredConcat, DenseOpsConfigured, MoeOpsConfigured DEF FfOps

LEMMA StartOpsConfigured == ASSUME NEW h, NEW node PROVE AllConfigured(StartOps(h, node))
  BY ConfiguredMade, ConfiguredIf DEF StartOps

LEMMA EndOpsConfigured == ASSUME NEW h PROVE AllConfigured(EndOps(h))
  BY ConfiguredMade, ConfiguredConcat, ConfiguredIf DEF EndOps
LEMMA SegmentsConfigured ==
    ASSUME NEW h, h.layers \in Nat, NEW node, NEW k \in 1..Len(Segments(h, node))
    PROVE  AllConfigured(Segments(h, node)[k].ops)
<1> DEFINE Segment(ops, place, type) == [ops |-> ops, syncs |-> <<[pipe |-> place, type |-> type]>>]
           Layer(i) == IF i % 2 = 1
                       THEN Segment(AttOps(h, node, i \div 2), Pipe("ZQ"), "NODE_SLICES")
                       ELSE Segment(FfOps(h, i \div 2 - 1), Pipe("ZQ"), "NODE_SLICES")
           first == <<Segment(StartOps(h, node), Pipe("X"), "WITH_ROOT")>>
           n == 2 * h.layers
           layers == [i \in 1..n |-> Layer(i)]
           last == <<Segment(EndOps(h), Pipe("LG"), "NODE_SLICES_EXCEPT_ROOT")>>
           All(s) == \A i \in 1..Len(s) : AllConfigured(s[i].ops)
<1>1. Segments(h, node) = (first \o layers) \o last
    BY DEF Segments
<1>2. \A ops, place, type : Segment(ops, place, type).ops = ops
    OBVIOUS
<1> HIDE DEF Segment
<1>3. \A i \in 1..n : AllConfigured(Layer(i).ops)
    BY <1>2, AttOpsConfigured, FfOpsConfigured
<1>4. AllConfigured(first[1].ops) /\ AllConfigured(last[1].ops)
    BY <1>2, StartOpsConfigured, EndOpsConfigured
<1>5. IsList(first) /\ Len(first) = 1 /\ IsList(last) /\ Len(last) = 1
    BY OneAndRest, EmptyList
<1>6. n \in Nat
    OBVIOUS
<1> HIDE DEF Layer, n
<1>7. IsList(layers) /\ Len(layers) = n
    BY <1>6, Listed
<1>8. All(first) /\ All(layers) /\ All(last)
    <2>1. All(layers)
        BY <1>3, <1>7
    <2>2. All(first) /\ All(last)
        <3> HIDE DEF first, last
        <3>. QED
            BY <1>4, <1>5
    <2>. QED
        BY <2>1, <2>2
<1> HIDE DEF first, layers, last
<1>9. ASSUME NEW s, NEW t, IsList(s), IsList(t), All(s), All(t) PROVE All(s \o t)
    BY <1>9, ConcatElements
<1>10. IsList(first \o layers)
    BY <1>5, <1>7, ConcatList
<1>11. All((first \o layers) \o last)
    BY <1>5, <1>7, <1>8, <1>9, <1>10
<1>. QED
    BY <1>1, <1>11

-----------------------------------------------------------------------------
\* The whole configuration of a worker.
ConfigOf(h, w) == NetFields(NetConfig(h)) \o NodeFields(NodeConfig(h, w))

AsBuilt(kind, h, w) ==
    CASE kind = "nNodes" -> <<h.nodes>>
      [] kind = "nBatches" -> <<h.batches>>
      [] kind = "pipeName" -> Each(LAMBDA p : p.place, Pipes(h))
      [] kind = "pipeSize" -> Each(LAMBDA p : p.size, Pipes(h))
      [] kind = "nodeIndex" -> <<w>>
      [] kind = "bufferName" -> Each(LAMBDA b : b.place, Buffers(h, w))
      [] kind = "bufferSize" -> Each(LAMBDA b : b.size, Buffers(h, w))
      [] kind = "nOps" -> Each(LAMBDA s : Len(s.ops), Segments(h, w))
      [] kind = "syncType" -> Each(LAMBDA s : s.syncs[1].type, Segments(h, w))
      [] kind = "opName" -> Each(LAMBDA o : o.name, Ops(h, w))
      [] kind = "opInput" -> Each(LAMBDA o : o.in, Ops(h, w))
      [] kind = "opOutput" -> Each(LAMBDA o : o.out, Ops(h, w))
      [] kind = "opWeight" -> Each(LAMBDA o : o.weight, Ops(h, w))
      [] kind = "opConfig" -> Each(LAMBDA o : o.aux, Ops(h, w))
AskedOfNet == {"nNodes", "nBatches", "pipeName", "pipeSize"}
AskedOfNode == {"nodeIndex", "bufferName", "bufferSize", "nOps", "syncType"} \cup AskedOfOps
AskedKinds == AskedOfNet \cup AskedOfNode

\* The operators of all segments, and what they are asked for.
LEMMA OpsLists ==
    ASSUME NEW h, h.layers \in Nat, NEW w
    PROVE  /\ AreLists([k \in 1..Len(Segments(h, w)) |-> Segments(h, w)[k].ops])
           /\ Ops(h, w) = FlattenSeq([k \in 1..Len(Segments(h, w)) |-> Segments(h, w)[k].ops])
           /\ IsList(Ops(h, w))
<1> DEFINE segments == Segments(h, w)
           lists == [k \in 1..Len(segments) |-> segments[k].ops]
<1>1. Len(segments) \in Nat
    BY SegmentsLists, ListFacts
<1>2. IsList(lists) /\ Len(lists) = Len(segments)
    <2>1. lists = [k \in 1..Len(segments) |-> lists[k]]
        OBVIOUS
    <2> HIDE DEF lists
    <2>. QED
        BY <1>1, <2>1, Listed
<1>3. AreLists(lists)
    BY <1>2, SegmentsLists DEF AreLists
<1>4. Ops(h, w) = FlattenSeq(lists)
    BY DEF Ops, Concat
<1>. QED
    BY <1>3, <1>4, FlattenList

LEMMA AskedOps ==
    ASSUME NEW h, h.layers \in Nat, NEW w, NEW kind \in AskedOfOps
    PROVE  FlattenSeq([k \in 1..Len(Segments(h, w)) |->
                          [i \in 1..Len(Segments(h, w)[k].ops) |-> Asked(kind, Segments(h, w)[k].ops[i])]])
               = [i \in 1..Len(Ops(h, w)) |-> Asked(kind, Ops(h, w)[i])]
<1> DEFINE lists == [k \in 1..Len(Segments(h, w)) |-> Segments(h, w)[k].ops]
           ops == Ops(h, w)
           all == {ops[i] : i \in 1..Len(ops)} \cup UNION {{lists[k][i] : i \in 1..Len(lists[k])} : k \in 1..Len(lists)}
           f == [op \in all |-> Asked(kind, op)]
<1>1. AreLists(lists) /\ ops = FlattenSeq(lists) /\ IsList(ops)
    BY OpsLists
<1>2. Len(lists) = Len(Segments(h, w))
    <2>1. Len(Segments(h, w)) \in Nat
        BY SegmentsLists, ListFacts
    <2>2. lists = [k \in 1..Len(Segments(h, w)) |-> lists[k]]
        OBVIOUS
    <2> HIDE DEF lists
    <2>. QED
        BY <2>1, <2>2, Listed
<1>3. \A k \in 1..Len(Segments(h, w)) : lists[k] = Segments(h, w)[k].ops
    OBVIOUS
<1> HIDE DEF lists, ops
<1>4. \A i \in 1..Len(ops) : f[ops[i]] = Asked(kind, ops[i])
    OBVIOUS
<1>5. \A k \in 1..Len(lists) : \A i \in 1..Len(lists[k]) : f[lists[k][i]] = Asked(kind, lists[k][i])
    OBVIOUS
<1> HIDE DEF f
<1>6. LookUp(f, ops) = FlattenSeq([k \in 1..Len(lists) |-> LookUp(f, lists[k])])
    BY <1>1, LookUpFlatten
<1>7. LookUp(f, ops) = [i \in 1..Len(ops) |-> Asked(kind, ops[i])]
    BY <1>4 DEF LookUp
<1>8. [k \in 1..Len(lists) |-> LookUp(f, lists[k])]
          = [k \in 1..Len(Segments(h, w)) |->
                [i \in 1..Len(Segments(h, w)[k].ops) |-> Asked(kind, Segments(h, w)[k].ops[i])]]
    BY <1>2, <1>3, <1>5 DEF LookUp
<1>. QED
    BY <1>6, <1>7, <1>8 DEF ops

LEMMA OpsConfigured ==
    ASSUME NEW h, h.layers \in Nat, NEW w, NEW i \in 1..Len(Ops(h, w))
    PROVE  Asked("opConfig", Ops(h, w)[i]) = Ops(h, w)[i].aux
<1> DEFINE lists == [k \in 1..Len(Segments(h, w)) |-> Segments(h, w)[k].ops]
<1>1. AreLists(lists) /\ Ops(h, w) = FlattenSeq(lists)
    BY OpsLists
<1>2. Len(lists) = Len(Segments(h, w))
    <2>1. Len(Segments(h, w)) \in Nat
        BY SegmentsLists, ListFacts
    <2>2. lists = [k \in 1..Len(Segments(h, w)) |-> lists[k]]
        OBVIOUS
    <2> HIDE DEF lists
    <2>. QED
        BY <2>1, <2>2, Listed
<1>3. \A k \in 1..Len(lists) : AllConfigured(lists[k])
    BY <1>2, SegmentsConfigured
<1> HIDE DEF lists
<1>4. \E k \in 1..Len(lists) : \E j \in 1..Len(lists[k]) : Ops(h, w)[i] = lists[k][j]
    BY <1>1, FlattenElements
<1>5. Configured(Ops(h, w)[i])
    BY <1>3, <1>4 DEF AllConfigured
<1>. QED
    BY <1>5 DEF Configured, Asked

\* The values a worker has read of its whole configuration.
LEMMA ConfigPlaced ==
    ASSUME NEW h, h.layers \in Nat, NEW w
    PROVE  /\ IsList(NetFields(NetConfig(h))) /\ IsList(NodeFields(NodeConfig(h, w)))
           /\ Placed(ConfigOf(h, w)) /\ Within(ConfigOf(h, w), NetKinds \cup NodeKinds)
           /\ \A kind \in AskedOfNet : Vals(kind, ConfigOf(h, w)) = Vals(kind, NetFields(NetConfig(h)))
           /\ \A kind \in AskedOfNode : Vals(kind, ConfigOf(h, w)) = Vals(kind, NodeFields(NodeConfig(h, w)))
<1> DEFINE net == NetFields(NetConfig(h))
           node == NodeFields(NodeConfig(h, w))
<1>1. IsList(NetConfig(h).pipes) /\ IsList(NetConfig(h).preSyncs)
    <2>1. NetConfig(h).pipes = Pipes(h) /\ NetConfig(h).preSyncs = <<Pipe("POS")>>
        BY DEF NetConfig
    <2>. QED
        BY <2>1, PipesList, OneAndRest, EmptyList
<1>2. Within(net, NetKinds) /\ Placed(net)
    BY <1>1, ValsNet
<1>3. /\ IsList(NodeConfig(h, w).buffers) /\ IsList(NodeConfig(h, w).segments)
      /\ \A k \in 1..Len(NodeConfig(h, w).segments) :
            /\ IsList(NodeConfig(h, w).segments[k].syncs) /\ Len(NodeConfig(h, w).segments[k].syncs) = 1
            /\ IsList(NodeConfig(h, w).segments[k].ops)
    <2>1. NodeConfig(h, w).buffers = Buffers(h, w) /\ NodeConfig(h, w).segments = Segments(h, w)
        BY DEF NodeConfig
    <2>. QED
        BY <2>1, BuffersList, SegmentsLists
<1>4. Within(node, NodeKinds) /\ Placed(node)
    BY <1>3, ValsNode
<1> HIDE DEF net, node
<1>5. ConfigOf(h, w) = net \o node
    BY DEF ConfigOf, net, node
<1>6. Placed(ConfigOf(h, w)) /\ \A kind : Vals(kind, ConfigOf(h, w)) = Vals(kind, net) \o Vals(kind, node)
    BY <1>2, <1>4, <1>5, SeenConcat, ValsConcat
<1>7. Within(ConfigOf(h, w), NetKinds \cup NodeKinds)
    <2>1. Within(net, NetKinds \cup NodeKinds) /\ Within(node, NetKinds \cup NodeKinds)
        BY <1>2, <1>4, WithinMore
    <2>. QED
        BY <1>5, <2>1, WithinConcat
<1>8. \A kind : IsList(Vals(kind, net)) /\ IsList(Vals(kind, node))
    BY <1>2, <1>4, ValsLists DEF Within
<1>9. \A x : IsList(x) => x \o <<>> = x /\ <<>> \o x = x
    BY ConcatEmpty
<1>10. ASSUME NEW kind \in AskedOfNet PROVE Vals(kind, ConfigOf(h, w)) = Vals(kind, net)
    <2>1. kind \notin NodeKinds
        BY DEF AskedOfNet, NodeKinds, SegmentKinds, OpKinds
    <2>2. Vals(kind, node) = <<>>
        BY <1>4, <2>1, ValsWithin
    <2>. QED
        BY <1>6, <1>8, <1>9, <2>2
<1>11. ASSUME NEW kind \in AskedOfNode PROVE Vals(kind, ConfigOf(h, w)) = Vals(kind, node)
    <2>1. kind \notin NetKinds
        BY DEF AskedOfNode, AskedOfOps, NetKinds
    <2>2. Vals(kind, net) = <<>>
        BY <1>2, <2>1, ValsWithin
    <2>. QED
        BY <1>6, <1>8, <1>9, <2>2
<1>12. IsList(net) /\ IsList(node)
    BY <1>2, <1>4 DEF Within
<1>. QED
    BY <1>6, <1>7, <1>10, <1>11, <1>12 DEF net, node

LEMMA ConfigVals ==
    ASSUME NEW h, h.layers \in Nat, NEW w, NEW kind \in AskedKinds
    PROVE  Vals(kind, ConfigOf(h, w)) = AsBuilt(kind, h, w)
<1> DEFINE net == NetFields(NetConfig(h))
           node == NodeFields(NodeConfig(h, w))
<1>1. CASE kind \in AskedOfNet
    <2>1. /\ NetConfig(h).pipes = Pipes(h) /\ NetConfig(h).preSyncs = <<Pipe("POS")>>
          /\ NetConfig(h).batches = h.batches /\ NetConfig(h).nodes = h.nodes
        BY DEF NetConfig
    <2>2. IsList(NetConfig(h).pipes) /\ IsList(NetConfig(h).preSyncs)
        BY <2>1, PipesList, OneAndRest, EmptyList
    <2>3. /\ Vals("nBatches", net) = <<h.batches>> /\ Vals("nNodes", net) = <<h.nodes>>
          /\ Vals("pipeSize", net) = [i \in 1..Len(Pipes(h)) |-> Pipes(h)[i].size]
          /\ Vals("pipeName", net) = [i \in 1..Len(Pipes(h)) |-> Pipes(h)[i].place]
        BY <2>1, <2>2, ValsNet
    <2>4. Vals(kind, ConfigOf(h, w)) = Vals(kind, net)
        BY <1>1, ConfigPlaced
    <2>5. CASE kind = "nNodes"
        BY <2>3, <2>4, <2>5 DEF AsBuilt
    <2>6. CASE kind = "nBatches"
        BY <2>3, <2>4, <2>6 DEF AsBuilt
    <2>7. CASE kind = "pipeSize"
        BY <2>3, <2>4, <2>7 DEF AsBuilt, Each
    <2>8. CASE kind = "pipeName"
        BY <2>3, <2>4, <2>8 DEF AsBuilt, Each
    <2>. QED
        BY <1>1, <2>5, <2>6, <2>7, <2>8 DEF AskedOfNet
<1>2. CASE kind \in AskedOfNode
    <2> DEFINE c == NodeConfig(h, w)
               s == Segments(h, w)
    <2>1. c.buffers = Buffers(h, w) /\ c.segments = s /\ c.index = w
        BY DEF NodeConfig
    <2>2. /\ IsList(c.buffers) /\ IsList(c.segments)
          /\ \A k \in 1..Len(c.segments) : /\ IsList(c.segments[k].syncs) /\ Len(c.segments[k].syncs) = 1
                                           /\ IsList(c.segments[k].ops)
        BY <2>1, BuffersList, SegmentsLists
    <2> HIDE DEF c
    <2>3. /\ Vals("nodeIndex", NodeFields(c)) = <<w>>
          /\ Vals("bufferSize", NodeFields(c)) = [i \in 1..Len(Buffers(h, w)) |-> Buffers(h, w)[i].size]
          /\ Vals("bufferName", NodeFields(c)) = [i \in 1..Len(Buffers(h, w)) |-> Buffers(h, w)[i].place]
          /\ Vals("nOps", NodeFields(c)) = [k \in 1..Len(s) |-> Len(s[k].ops)]
          /\ Vals("syncType", NodeFields(c)) = [k \in 1..Len(s) |-> s[k].syncs[1].type]
          /\ \A a \in AskedOfOps :
                Vals(a, NodeFields(c))
                    = FlattenSeq([k \in 1..Len(s) |-> [i \in 1..Len(s[k].ops) |-> Asked(a, s[k].ops[i])]])
        <3>1. /\ Vals("nodeIndex", NodeFields(c)) = <<c.index>>
              /\ Vals("bufferSize", NodeFields(c)) = [i \in 1..Len(c.buffers) |-> c.buffers[i].size]
              /\ Vals("bufferName", NodeFields(c)) = [i \in 1..Len(c.buffers) |-> c.buffers[i].place]
              /\ Vals("nOps", NodeFields(c)) = [k \in 1..Len(c.segments) |-> Len(c.segments[k].ops)]
              /\ Vals("syncType", NodeFields(c))
                     = [k \in 1..Len(c.segments) |-> c.segments[k].syncs[1].type]
              /\ \A a \in AskedOfOps :
                    Vals(a, NodeFields(c))
                        = FlattenSeq([k \in 1..Len(c.segments) |->
                             [i \in 1..Len(c.segments[k].ops) |-> Asked(a, c.segments[k].ops[i])]])
            BY ONLY <2>2, ValsNode
        <3>. QED
            BY ONLY <2>1, <3>1
    <2>4. Vals(kind, ConfigOf(h, w)) = Vals(kind, NodeFields(c))
        BY <1>2, ConfigPlaced DEF c
    <2>5. CASE kind \in AskedOfOps
        <3>1. Vals(kind, NodeFields(c)) = [i \in 1..Len(Ops(h, w)) |-> Asked(kind, Ops(h, w)[i])]
            <4>1. FlattenSeq([k \in 1..Len(s) |-> [i \in 1..Len(s[k].ops) |-> Asked(kind, s[k].ops[i])]])
                      = [i \in 1..Len(Ops(h, w)) |-> Asked(kind, Ops(h, w)[i])]
                BY <2>5, AskedOps
            <4> HIDE DEF s
            <4>. QED
                BY <2>3, <2>5, <4>1
        <3>2. CASE kind = "opName"
            BY <2>4, <3>1, <3>2 DEF AsBuilt, Asked, Each
        <3>3. CASE kind = "opInput"
            BY <2>4, <3>1, <3>3 DEF AsBuilt, Asked, Each
        <3>4. CASE kind = "opOutput"
            BY <2>4, <3>1, <3>4 DEF AsBuilt, Asked, Each
        <3>5. CASE kind = "opWeight"
            BY <2>4, <3>1, <3>5 DEF AsBuilt, Asked, Each
        <3>6. CASE kind = "opConfig"
            <4>1. [i \in 1..Len(Ops(h, w)) |-> Asked(kind, Ops(h, w)[i])]
                      = [i \in 1..Len(Ops(h, w)) |-> Ops(h, w)[i].aux]
                BY <3>6, OpsConfigured
            <4>2. AsBuilt(kind, h, w) = [i \in 1..Len(Ops(h, w)) |-> Ops(h, w)[i].aux]
                BY <3>6 DEF AsBuilt, Each
            <4>. QED
                BY <2>4, <3>1, <4>1, <4>2
        <3>. QED
            BY <2>5, <3>2, <3>3, <3>4, <3>5, <3>6 DEF AskedOfOps
    <2>6. CASE kind = "nodeIndex"
        BY <2>3, <2>4, <2>6 DEF AsBuilt
    <2>7. CASE kind = "bufferSize"
        BY <2>3, <2>4, <2>7 DEF AsBuilt, Each
    <2>8. CASE kind = "bufferName"
        BY <2>3, <2>4, <2>8 DEF AsBuilt, Each
    <2>9. CASE kind = "nOps"
        BY <2>3, <2>4, <2>9 DEF AsBuilt, Each
    <2>10. CASE kind = "syncType"
        BY <2>3, <2>4, <2>10 DEF AsBuilt, Each
    <2>. QED
        BY <1>2, <2>5, <2>6, <2>7, <2>8, <2>9, <2>10 DEF AskedOfNode
<1>. QED
    BY <1>1, <1>2 DEF AskedKinds

-----------------------------------------------------------------------------
\* How far a worker has come with its configuration: g is the part of C it has
\* read, and R, what it will be sent, is the rest of C and fields of weights.
Parted(C, R, c, r, f) ==
    /\ IsList(c) /\ IsList(r) /\ Within(f, WeightFields)
    /\ C = c \o r /\ R = r \o f
Told(C, R, g) ==
    \E c, r, f : /\ Parted(C, R, c, r, f) /\ IsList(g) /\ Len(g) = Len(c)
                 /\ \A k \in 1..Len(g) : g[k] = Field(C[k].as, Seen(C, k))

ConfigKinds == NetKinds \cup NodeKinds

LEMMA KindsApart == ConfigKinds \cap WeightFields = {}
  BY DEF ConfigKinds, NetKinds, NodeKinds, SegmentKinds, OpKinds, WeightFields

LEMMA HeadWithin ==
    ASSUME NEW K, NEW s, Within(s, K), s # <<>>
    PROVE  Head(s).as \in K /\ Within(Tail(s), K)
<1>1. /\ IsList(Tail(s)) /\ Len(s) \in Nat /\ Len(s) >= 1 /\ Len(Tail(s)) = Len(s) - 1
      /\ Head(s) = s[1] /\ \A i \in 1..Len(Tail(s)) : Tail(s)[i] = s[i + 1]
    BY HeadAndTail DEF Within
<1>2. 1 \in 1..Len(s) /\ \A i \in 1..Len(Tail(s)) : i + 1 \in 1..Len(s)
    BY <1>1
<1>. QED
    BY <1>1, <1>2 DEF Within

\* What is next is of the configuration as long as some of it is left.
LEMMA NextOfConfig ==
    ASSUME NEW C, NEW R, NEW c, NEW r, NEW f, Within(C, ConfigKinds), Parted(C, R, c, r, f), r # <<>>
    PROVE  /\ Head(R).as \in ConfigKinds /\ Head(R) = C[Len(c) + 1] /\ Len(c) + 1 \in 1..Len(C)
           /\ Len(c \o <<Head(R)>>) = Len(c) + 1
           /\ Parted(C, Tail(R), c \o <<Head(R)>>, Tail(r), f)
<1>1. IsList(f) /\ IsList(c) /\ IsList(r) /\ Within(f, WeightFields) /\ C = c \o r /\ R = r \o f
    BY DEF Within, Parted
<1>2. Head(R) = Head(r) /\ Tail(R) = Tail(r) \o f
    BY <1>1, ConcatHead
<1>3. IsList(Tail(r)) /\ Len(r) \in Nat /\ Len(r) >= 1 /\ Head(r) = r[1] /\ r = <<Head(r)>> \o Tail(r)
    BY <1>1, HeadAndTail
<1>4. Len(C) = Len(c) + Len(r) /\ C[Len(c) + 1] = r[1]
    <2>1. 1 \in 1..Len(r)
        BY <1>3
    <2>2. /\ Len(c \o r) = Len(c) + Len(r)
          /\ \A i \in 1..Len(r) : (c \o r)[Len(c) + i] = r[i]
        BY ONLY <1>1, ConcatList
    <2>. QED
        BY <1>1, <2>1, <2>2
<1>5. Len(c) \in Nat
    BY <1>1, ListFacts
<1>6. Len(c) + 1 \in 1..Len(C)
    BY <1>3, <1>4, <1>5
<1>7. Head(R).as \in ConfigKinds
    BY <1>2, <1>3, <1>4, <1>6 DEF Within
<1> DEFINE h == <<Head(R)>>
           t == Tail(r)
<1>8. IsList(h) /\ Len(h) = 1 /\ IsList(t) /\ r = h \o t /\ Tail(R) = t \o f
    BY <1>2, <1>3, OneAndRest
<1> HIDE DEF h, t
<1>9. (c \o h) \o t = c \o (h \o t)
    BY ONLY <1>1, <1>8, ConcatRegroup
<1>10. IsList(c \o h) /\ Len(c \o h) = Len(c) + 1
    <2>1. IsList(c \o h) /\ Len(c \o h) = Len(c) + Len(h)
        BY ONLY <1>1, <1>8, ConcatList
    <2>. QED
        BY <1>8, <2>1
<1> DEFINE d == c \o h
<1>11. IsList(d) /\ C = d \o t
    BY <1>1, <1>8, <1>9, <1>10
<1> HIDE DEF d
<1>12. Parted(C, Tail(R), d, t, f)
    BY <1>1, <1>8, <1>11 DEF Parted
<1>. QED
    BY <1>2, <1>3, <1>4, <1>6, <1>7, <1>10, <1>12 DEF d, h, t

LEMMA NextOfWeights ==
    ASSUME NEW C, NEW R, NEW c, NEW f, Parted(C, R, c, <<>>, f), R # <<>>
    PROVE  Head(R).as \in WeightFields /\ c = C /\ Parted(C, Tail(R), c, <<>>, Tail(f))
<1>1. IsList(f) /\ IsList(c) /\ Within(f, WeightFields) /\ C = c \o <<>> /\ R = <<>> \o f
    BY DEF Within, Parted
<1>2. c \o <<>> = c /\ <<>> \o f = f
    BY <1>1, ConcatEmpty
<1>3. R = f /\ c = C
    BY <1>1, <1>2
<1>4. Head(f).as \in WeightFields /\ Within(Tail(f), WeightFields)
    BY <1>1, <1>3, HeadWithin
<1> DEFINE t == Tail(f)
<1>5. IsList(t) /\ <<>> \o t = t
    BY <1>4, ConcatEmpty DEF Within
<1>6. Parted(C, t, c, <<>>, t)
    BY <1>1, <1>4, <1>5, EmptyList DEF Parted
<1>. QED
    BY <1>3, <1>4, <1>6

\* A worker that is about to read a field of a weight has its configuration.
LEMMA ToldAll ==
    ASSUME NEW C, Within(C, ConfigKinds), NEW R, NEW g, Told(C, R, g),
           R # <<>>, Head(R).as \in WeightFields
    PROVE  /\ Told(C, Tail(R), g)
           /\ IsList(g) /\ Len(g) = Len(C)
           /\ \A k \in 1..Len(g) : g[k] = Field(C[k].as, Seen(C, k))
<1>1. PICK c, r, f : /\ Parted(C, R, c, r, f) /\ IsList(g) /\ Len(g) = Len(c)
                     /\ \A k \in 1..Len(g) : g[k] = Field(C[k].as, Seen(C, k))
    BY DEF Told
<1>2. r = <<>>
    <2>1. r # <<>> => Head(R).as \in ConfigKinds
        BY <1>1, NextOfConfig
    <2>. QED
        BY <2>1, KindsApart
<1>3. c = C /\ Parted(C, Tail(R), c, <<>>, Tail(f))
    BY <1>1, <1>2, NextOfWeights
<1>5. Told(C, Tail(R), g)
    BY <1>1, <1>3 DEF Told
<1>. QED
    BY <1>1, <1>3, <1>5

\* The last field of a kind that was read.
LEMMA LatestIs ==
    ASSUME NEW w, NEW as, IsList(got[w]), NEW i \in 1..Len(got[w]), got[w][i].as = as,
           \A j \in (i + 1)..Len(got[w]) : got[w][j].as # as
    PROVE  Latest(w, as) = got[w][i].val
<1> DEFINE g == got[w]
           P(m) == g[m].as = as /\ \A j \in DOMAIN g : g[j].as = as => j <= m
           c == CHOOSE m \in DOMAIN g : P(m)
<1>1. Len(g) \in Nat /\ DOMAIN g = 1..Len(g)
    BY ListFacts
<1>2. ASSUME NEW j \in DOMAIN g, g[j].as = as PROVE j <= i
    <2>1. j \notin (i + 1)..Len(g)
        BY <1>2
    <2>. QED
        BY <1>1, <2>1
<1>3. i \in DOMAIN g /\ P(i)
    BY <1>1, <1>2
<1>4. c \in DOMAIN g /\ P(c)
    <2> HIDE DEF P
    <2>. QED
        BY <1>3
<1>5. c = i
    <2>1. i <= c
        BY <1>1, <1>3, <1>4
    <2>2. c <= i
        BY <1>2, <1>4
    <2> HIDE DEF c
    <2>. QED
        BY <1>1, <1>3, <1>4, <2>1, <2>2
<1>. QED
    BY <1>5 DEF Latest

\* A worker reads the next field of its configuration, and takes it for what it
\* is.
CodeIs(g, x) ==
    \A i \in 1..Len(g) :
        g[i].as = "opCode" /\ (\A j \in (i + 1)..Len(g) : g[j].as # "opCode") => x = g[i].val
Taken(field, x) == IF field.as = "opConfig" THEN Unpack(x, field.val) ELSE field.val

LEMMA TakenIsSeen ==
    ASSUME NEW C, Placed(C), NEW g, NEW n \in Nat, Len(g) = n, n + 1 \in 1..Len(C),
           \A i \in 1..n : g[i] = Field(C[i].as, Seen(C, i)),
           NEW x, CodeIs(g, x)
    PROVE  Taken(C[n + 1], x) = Seen(C, n + 1)
<1> DEFINE k == n + 1
<1>1. CASE C[k].as = "opConfig"
    <2>1. k > 7 /\ C[k - 7].as = "opCode" /\ \A j \in (k - 6)..(k - 1) : C[j].as # "opCode"
        BY <1>1 DEF Placed
    <2>2. k - 7 \in 1..n /\ (k - 7) + 1 = k - 6 /\ k - 1 = n
        BY <2>1
    <2>3. \A i \in 1..n : g[i].as = C[i].as /\ g[i].val = Seen(C, i)
        BY DEF Field
    <2> DEFINE p == k - 7
    <2>4. p \in 1..n /\ C[p].as = "opCode" /\ g[p].as = "opCode" /\ g[p].val = Seen(C, p)
        BY <2>1, <2>2, <2>3
    <2>5. g[p].val = C[p].val
        BY <2>4 DEF Seen
    <2>6. ASSUME NEW j \in (p + 1)..n PROVE g[j].as # "opCode"
        <3>1. j \in (k - 6)..(k - 1) /\ j \in 1..n
            BY <2>1, <2>2
        <3>. QED
            BY <2>1, <2>3, <3>1
    <2>7. x = C[p].val
        <3> HIDE DEF p
        <3>. QED
            BY <2>4, <2>5, <2>6 DEF CodeIs
    <2>. QED
        BY <1>1, <2>7 DEF Seen, Taken
<1>2. CASE C[k].as # "opConfig"
    BY <1>2 DEF Seen, Taken
<1>. QED
    BY <1>1, <1>2

LEMMA ToldConfig ==
    ASSUME NEW C, Within(C, ConfigKinds), Placed(C), NEW R, NEW g, Told(C, R, g),
           R # <<>>, Head(R).as \notin WeightFields, NEW x, CodeIs(g, x)
    PROVE  Told(C, Tail(R), Append(g, Field(Head(R).as, Taken(Head(R), x))))
<1> DEFINE y == Field(Head(R).as, Taken(Head(R), x))
           s == <<y>>
           new == Append(g, y)
<1>1. PICK c, r, f : /\ Parted(C, R, c, r, f) /\ IsList(g) /\ Len(g) = Len(c)
                     /\ \A i \in 1..Len(g) : g[i] = Field(C[i].as, Seen(C, i))
    BY DEF Told
<1>2. r # <<>>
    <2> SUFFICES ASSUME r = <<>> PROVE FALSE
        OBVIOUS
    <2>1. Parted(C, R, c, <<>>, f)
        BY <1>1
    <2>2. Head(R).as \in WeightFields
        BY <2>1, NextOfWeights
    <2>. QED
        BY <2>2
<1> DEFINE n == Len(g)
           d == c \o <<Head(R)>>
           t == Tail(r)
<1>3. Head(R) = C[n + 1] /\ n + 1 \in 1..Len(C) /\ Len(d) = n + 1 /\ Parted(C, Tail(R), d, t, f)
    BY <1>1, <1>2, NextOfConfig
<1>4. n \in Nat
    BY <1>1, ListFacts
<1> HIDE DEF n, d, t
<1>5. \A i \in 1..n : g[i] = Field(C[i].as, Seen(C, i))
    BY <1>1 DEF n
<1>6. y = Field(C[n + 1].as, Seen(C, n + 1))
    <2>1. Taken(C[n + 1], x) = Seen(C, n + 1)
        BY <1>3, <1>4, <1>5, TakenIsSeen DEF n
    <2>. QED
        BY <1>3, <2>1
<1>7. IsList(s) /\ Len(s) = 1 /\ s[1] = y
    BY OneAndRest, EmptyList
<1>8. new = g \o s
    BY <1>1, AppendList
<1> HIDE DEF y, s, new
<1>9. IsList(new) /\ Len(new) = n + 1 /\ new[n + 1] = y /\ \A i \in 1..n : new[i] = g[i]
    <2>0. IsList(g) /\ IsList(s)
        BY <1>1, <1>7
    <2>1. /\ IsList(g \o s) /\ Len(g \o s) = Len(g) + Len(s)
          /\ \A i \in 1..Len(g) : (g \o s)[i] = g[i]
          /\ \A i \in 1..Len(s) : (g \o s)[Len(g) + i] = s[i]
        BY ONLY <2>0, ConcatList
    <2>2. 1 \in 1..Len(s)
        BY <1>7
    <2>. QED
        BY <1>7, <1>8, <2>1, <2>2 DEF n
<1>10. ASSUME NEW i \in 1..Len(new) PROVE new[i] = Field(C[i].as, Seen(C, i))
    <2>1. i \in 1..n \/ i = n + 1
        BY <1>4, <1>9
    <2>. QED
        BY <1>5, <1>6, <1>9, <2>1
<1>11. Told(C, Tail(R), new)
    BY <1>3, <1>9, <1>10 DEF Told
<1>. QED
    BY <1>11 DEF new, y

-----------------------------------------------------------------------------
\* The part of a worker in what is told: what it has read, what is on its way
\* and what the root will send make up its configuration and fields of weights.
ToldOK(w) ==
    IF status[w] = "ended" THEN expect[w] = <<>>
    ELSE Told(ConfigOf(hdr, w), down[w] \o Pick(w, "send", AheadAt(hdr, step)), got[w])

LEMMA ConfigFacts ==
    ASSUME NEW h \in Headers, NEW w
    PROVE  Placed(ConfigOf(h, w)) /\ Within(ConfigOf(h, w), ConfigKinds)
  BY ConfigPlaced, HeaderAssumption DEF ConfigKinds

\* The fields of a weight.
LEMMA FieldsOfWeight ==
    ASSUME NEW h, NEW x, NEW v
    PROVE  Within(FieldsOf(h, x, v), WeightFields)
<1> DEFINE s == FieldsOf(h, x, v)
<1>1. IsList(s) /\ Len(s) = 5
    BY Tuple5a DEF FieldsOf
<1>2. /\ s[1].as = "name" /\ s[2].as = "index" /\ s[3].as = "offset" /\ s[4].as = "nBytes"
      /\ s[5].as = "bytes"
    BY DEF FieldsOf, Field
<1> HIDE DEF s
<1>3. \A i \in 1..Len(s) : s[i].as \in WeightFields
    BY <1>1, <1>2 DEF WeightFields
<1>. QED
    BY <1>1, <1>3 DEF Within, s

LEMMA ToldStart ==
    ASSUME NEW h \in Headers, NEW w \in 1..(h.nodes - 1)
    PROVE  Told(ConfigOf(h, w), Pick(w, "send", Todo(h)), <<>>)
<1> DEFINE N == NetFields(NetConfig(h))
           G(v) == NodeFields(NodeConfig(h, v))
           C == ConfigOf(h, w)
           ws == Weights(h)
           each == [i \in 1..Len(ws) |-> FieldsOf(h, ws[i], w)]
           F == FlattenSeq(each)
           end == <<Field("name", EndMark)>>
<1>0. h.nodes \in Nat \ {0} /\ h.layers \in Nat /\ h.experts \in Nat
    BY HeaderAssumption
<1>1. IsList(C) /\ C = N \o G(w)
    BY ConfigFacts DEF Within, ConfigOf
<1>2. IsList(N) /\ \A v : IsList(G(v))
    BY <1>0, ConfigPlaced
<1>3. Pick(w, "send", Todo(h)) = ((N \o G(w)) \o F) \o end
    BY <1>0, <1>2, TodoFor
<1>4. Within(F, WeightFields)
    <2>1. IsList(ws) /\ Len(ws) \in Nat
        BY <1>0, WeightsNamed, ListFacts DEF Named
    <2> HIDE DEF ws
    <2>2. each = [i \in 1..Len(ws) |-> each[i]] /\ \A i \in 1..Len(ws) : each[i] = FieldsOf(h, ws[i], w)
        OBVIOUS
    <2> HIDE DEF each
    <2>3. IsList(each) /\ Len(each) = Len(ws)
        BY <2>1, <2>2, Listed
    <2>4. \A i \in 1..Len(each) : Within(each[i], WeightFields)
        BY <2>2, <2>3, FieldsOfWeight
    <2>. QED
        BY <2>3, <2>4, WithinFlatten
<1>5. Within(end, WeightFields)
    <2>1. IsList(end) /\ Len(end) = 1 /\ end[1].as = "name"
        BY OneAndRest, EmptyList DEF Field
    <2> HIDE DEF end
    <2>. QED
        BY <2>1 DEF Within, WeightFields
<1> HIDE DEF N, G, C, ws, each, F, end
<1> DEFINE f == F \o end
<1>6. Within(f, WeightFields)
    BY <1>4, <1>5, WithinConcat
<1>7. (C \o F) \o end = C \o f
    <2>1. IsList(C) /\ IsList(F) /\ IsList(end)
        BY <1>1, <1>4, <1>5 DEF Within
    <2>. QED
        BY ONLY <2>1, ConcatRegroup
<1> HIDE DEF f
<1>8. Parted(C, Pick(w, "send", Todo(h)), <<>>, C, f)
    BY <1>1, <1>3, <1>6, <1>7, EmptyList, ConcatEmpty DEF Parted
<1>. QED
    BY <1>8, EmptyList DEF Told, C

-----------------------------------------------------------------------------
\* What is told stays told: the fields of a send go from what the root has
\* ahead of it to the connection.
LEMMA SendKept ==
    ASSUME NEW w, NEW d, NEW a, IsList(d), IsList(a), a # <<>>, Head(a).do = "send", Head(a).node = w
    PROVE  Append(d, Head(a).field) \o Pick(w, "send", Tail(a)) = d \o Pick(w, "send", a)
<1> DEFINE f == <<Head(a).field>>
           p == Pick(w, "send", Tail(a))
<1>1. Append(d, Head(a).field) = d \o f
    BY AppendList
<1>2. Item(w, "send", Head(a)) = f
    BY DEF Item
<1>3. Pick(w, "send", a) = f \o p
    BY <1>2, PickHead
<1>4. IsList(f) /\ IsList(p)
    BY HeadAndTail, PickLists, OneAndRest, EmptyList
<1> HIDE DEF f, p
<1>5. (d \o f) \o p = d \o (f \o p)
    BY <1>4, ConcatRegroup
<1>. QED
    BY <1>1, <1>3, <1>5 DEF p

LEMMA PassKept ==
    ASSUME NEW w, NEW a, IsList(a), a # <<>>, Head(a).do = "send" => Head(a).node # w
    PROVE  Pick(w, "send", Tail(a)) = Pick(w, "send", a)
<1>1. Item(w, "send", Head(a)) = <<>>
    BY DEF Item
<1> DEFINE p == Pick(w, "send", Tail(a))
<1>2. IsList(Tail(a))
    BY HeadAndTail
<1>3. IsList(p)
    BY <1>2, PickLists
<1>4. Pick(w, "send", a) = <<>> \o p
    BY <1>1, PickHead
<1> HIDE DEF p
<1>. QED
    BY <1>3, <1>4, ConcatEmpty DEF p

LEMMA ToldKept ==
    ASSUME NEW w, ToldOK(w), hdr' = hdr, step' = step, expect'[w] = expect[w], down'[w] = down[w],
           got'[w] = got[w], status'[w] = status[w]
    PROVE  ToldOK(w)'
  BY DEF ToldOK

\* What worker w will be sent does not change when the root does the next thing
\* on its list.
Stream(w) == down[w] \o Pick(w, "send", AheadAt(hdr, step))

LEMMA StreamTask ==
    ASSUME LoadOK, NEW task \in Tasks, NEW w \in Workers, status[w] # "ended",
           RootSend(task) \/ RootReadAck(task) \/ RootLoad(task) \/ RootCheck(task)
    PROVE  Stream(w)' = Stream(w)
<1> DEFINE a == AheadAt(hdr, step)
<1>1. step' = step + 1 /\ UNCHANGED <<hdr, expect, got, status>>
    BY DEF RootSend, RootReadAck, RootLoad, RootCheck
<1>2. IsList(a) /\ IsList(down[w])
    BY DEF LoadOK, WorkerOK, Tracks
<1>3. /\ step <= Len(Todos[hdr]) /\ IsList(Todos[hdr]) /\ hdr \in Headers /\ step \in Nat \ {0}
      /\ a # <<>> /\ Head(a) = task
    BY TaskIsNext DEF LoadOK
<1>4. Tail(a) = AheadAt(hdr, step + 1)
    BY <1>3, AheadMoves
<1>5. AheadAt(hdr, step)' = AheadAt(hdr, step + 1)
    BY <1>1 DEF AheadAt
<1> HIDE DEF a
<1>6. CASE task.do = "send" /\ task.node = w
    <2>1. down' = [down EXCEPT ![w] = Append(down[w], task.field)]
        BY <1>6 DEF RootSend, RootReadAck, RootLoad, RootCheck
    <2>2. down'[w] = Append(down[w], task.field)
        BY <2>1, Updated DEF LoadOK, OnWorkers
    <2> DEFINE d == down[w]
    <2>3. /\ IsList(d) /\ IsList(a) /\ a # <<>> /\ Head(a).do = "send" /\ Head(a).node = w
          /\ down'[w] = Append(d, Head(a).field)
        BY <1>2, <1>3, <1>6, <2>2
    <2> HIDE DEF d
    <2>4. Append(d, Head(a).field) \o Pick(w, "send", Tail(a)) = d \o Pick(w, "send", a)
        BY ONLY <2>3, SendKept
    <2>. QED
        BY <1>4, <1>5, <2>3, <2>4 DEF Stream, a, d
<1>7. CASE ~ (task.do = "send" /\ task.node = w)
    <2>1. down'[w] = down[w]
        <3>1. CASE down' = down
            BY <3>1
        <3>2. CASE down' # down
            <4>1. task.do = "send" /\ down' = [down EXCEPT ![task.node] = Append(down[task.node], task.field)]
                BY <3>2 DEF RootSend, RootReadAck, RootLoad, RootCheck
            <4>. QED
                BY <1>7, <4>1, Updated DEF LoadOK, OnWorkers
        <3>. QED
            BY <3>1, <3>2
    <2>2. Pick(w, "send", Tail(a)) = Pick(w, "send", a)
        BY <1>2, <1>3, <1>7, PassKept
    <2>. QED
        BY <1>4, <1>5, <2>1, <2>2 DEF Stream, a
<1>. QED
    BY <1>6, <1>7

\* What a worker reads from the connection is the head of what it will be sent.
LEMMA StreamRead ==
    ASSUME LoadOK, NEW w \in Workers, status[w] = "loading", down[w] # <<>>, Head(expect[w]) # "writeAck"
    PROVE  /\ Stream(w) # <<>> /\ Head(Stream(w)) = Head(down[w]) /\ Head(Stream(w)).as = Head(expect[w])
           /\ Tail(Stream(w)) = Tail(down[w]) \o Pick(w, "send", AheadAt(hdr, step))
<1> DEFINE p == Pick(w, "send", AheadAt(hdr, step))
           d == down[w]
<1>1. IsList(AheadAt(hdr, step)) /\ IsList(d)
    BY DEF LoadOK, WorkerOK, Tracks
<1>2. IsList(p)
    BY <1>1, PickLists
<1>3. Head(d).as = Head(expect[w])
    BY OKInStep DEF StreamInStep
<1>4. d # <<>>
    OBVIOUS
<1> HIDE DEF p, d
<1>5. Head(d \o p) = Head(d) /\ Tail(d \o p) = Tail(d) \o p /\ d \o p # <<>>
    BY <1>1, <1>2, <1>4, ConcatHead
<1>. QED
    BY <1>3, <1>5 DEF p, d, Stream

\* The root does the next thing on its list.
LEMMA ToldTask ==
    ASSUME LoadOK, NEW task \in Tasks, NEW w \in Workers, ToldOK(w),
           RootSend(task) \/ RootReadAck(task) \/ RootLoad(task) \/ RootCheck(task)
    PROVE  ToldOK(w)'
<1>1. UNCHANGED <<hdr, expect, got, status>>
    BY DEF RootSend, RootReadAck, RootLoad, RootCheck
<1>2. CASE status[w] = "ended"
    BY <1>1, <1>2 DEF ToldOK
<1>3. CASE status[w] # "ended"
    BY <1>1, <1>3, StreamTask DEF ToldOK, Stream
<1>. QED
    BY <1>2, <1>3

\* The root serves or ends.
LEMMA ToldStatus ==
    ASSUME LoadOK, NEW s, status' = [status EXCEPT ![0] = s], NEW w \in Workers, ToldOK(w),
           UNCHANGED <<hdr, step, down, expect, got>>
    PROVE  ToldOK(w)'
<1>1. w \in Nodes /\ w # 0
    BY HeaderAssumption DEF LoadOK, Nodes, NodesOf, Workers
<1>2. status'[w] = status[w]
    BY <1>1, Updated DEF LoadOK
<1>. QED
    BY <1>2, ToldKept

LEMMA ToldRead ==
    ASSUME LoadOK, NEW w \in Workers, status[w] = "loading", down[w] # <<>>, Head(expect[w]) # "writeAck",
           ToldOK(w)
    PROVE  LET R == down[w] \o Pick(w, "send", AheadAt(hdr, step))
           IN  /\ Told(ConfigOf(hdr, w), R, got[w]) /\ R # <<>>
               /\ Head(R) = Head(down[w]) /\ Head(R).as = Head(expect[w])
               /\ Tail(R) = Tail(down[w]) \o Pick(w, "send", AheadAt(hdr, step))
<1>1. Told(ConfigOf(hdr, w), Stream(w), got[w])
    BY DEF ToldOK, Stream
<1>. QED
    BY <1>1, StreamRead DEF Stream

LEMMA ToldReadConfig ==
    ASSUME LoadOK, NEW w \in Workers, ReadConfig(w), ToldOK(w)
    PROVE  ToldOK(w)'
<1> DEFINE x == Latest(w, "opCode")
           C == ConfigOf(hdr, w)
           p == Pick(w, "send", AheadAt(hdr, step))
           R == down[w] \o p
           as == Head(expect[w])
           val == IF as = "opConfig" THEN Unpack(x, Head(down[w]).val) ELSE Head(down[w]).val
           k == Append(got[w], Field(as, val))
<1>1. /\ status[w] = "loading" /\ as # "writeAck" /\ as \notin WeightFields /\ down[w] # <<>>
      /\ got' = [got EXCEPT ![w] = k]
      /\ down' = [down EXCEPT ![w] = Tail(down[w])]
      /\ UNCHANGED <<hdr, step, status>>
    BY DEF ReadConfig, Reading
<1>2. /\ Told(C, R, got[w]) /\ R # <<>> /\ Head(R) = Head(down[w]) /\ Head(R).as = as
      /\ Tail(R) = Tail(down[w]) \o p
    BY <1>1, ToldRead
<1>3. Placed(C) /\ Within(C, ConfigKinds)
    BY ConfigFacts DEF LoadOK
<1>4. CodeIs(got[w], x)
    <2>1. IsList(got[w])
        BY <1>2 DEF Told
    <2> HIDE DEF x
    <2> SUFFICES ASSUME NEW i \in 1..Len(got[w]), got[w][i].as = "opCode",
                        \A j \in (i + 1)..Len(got[w]) : got[w][j].as # "opCode"
                 PROVE  x = got[w][i].val
        BY DEF CodeIs
    <2>. QED
        BY <2>1, LatestIs DEF x
<1>5. k = Append(got[w], Field(Head(R).as, Taken(Head(R), x)))
    BY <1>2 DEF Taken
<1> HIDE DEF x, C, p, R, as, k
<1>6. Told(C, Tail(R), k)
    BY <1>1, <1>2, <1>3, <1>4, <1>5, ToldConfig
<1>7. got'[w] = k /\ down'[w] = Tail(down[w])
    BY <1>1, Updated DEF LoadOK, OnWorkers
<1>8. Told(C, down'[w] \o p, got'[w])
    BY <1>2, <1>6, <1>7
<1>9. C = ConfigOf(hdr, w)' /\ p = Pick(w, "send", AheadAt(hdr, step))'
    BY <1>1 DEF C, p, AheadAt
<1>. QED
    BY <1>1, <1>8, <1>9 DEF ToldOK

LEMMA ToldReadWeight ==
    ASSUME LoadOK, NEW w \in Workers, ReadName(w) \/ ReadWeight(w), ToldOK(w)
    PROVE  ToldOK(w)'
<1> DEFINE C == ConfigOf(hdr, w)
           p == Pick(w, "send", AheadAt(hdr, step))
           R == down[w] \o p
<1>1. /\ status[w] = "loading" /\ Head(expect[w]) \in WeightFields /\ Head(expect[w]) # "writeAck"
      /\ down[w] # <<>>
      /\ down' = [down EXCEPT ![w] = Tail(down[w])]
      /\ UNCHANGED <<hdr, step, got, status>>
    BY Zenon DEF ReadName, ReadWeight, Reading, WeightFields
<1>2. /\ Told(C, R, got[w]) /\ R # <<>> /\ Head(R).as = Head(expect[w])
      /\ Tail(R) = Tail(down[w]) \o p
    BY <1>1, ToldRead
<1>3. Within(C, ConfigKinds)
    BY ConfigFacts DEF LoadOK
<1> HIDE DEF C, p, R
<1>4. Told(C, Tail(R), got[w])
    BY <1>1, <1>2, <1>3, ToldAll
<1>5. down'[w] = Tail(down[w]) /\ got'[w] = got[w]
    BY <1>1, Updated DEF LoadOK, OnWorkers
<1>6. Told(C, down'[w] \o p, got'[w])
    BY <1>2, <1>4, <1>5
<1>7. C = ConfigOf(hdr, w)' /\ p = Pick(w, "send", AheadAt(hdr, step))'
    BY <1>1 DEF C, p, AheadAt
<1>. QED
    BY <1>1, <1>6, <1>7 DEF ToldOK

LEMMA ToldWriteAck ==
    ASSUME LoadOK, NEW w \in Workers, WriteAck(w), ToldOK(w)
    PROVE  ToldOK(w)'
<1>1. /\ status[w] = "loading" /\ UNCHANGED <<hdr, step, down, got>>
      /\ status' = IF Len(expect[w]) = 1 THEN [status EXCEPT ![w] = "serving"] ELSE status
    BY DEF WriteAck
<1>2. w \in Nodes /\ status = [n \in Nodes |-> status[n]]
    BY DEF LoadOK, Nodes, NodesOf, Workers
<1>3. status'[w] # "ended"
    <2>1. CASE Len(expect[w]) = 1
        <3>1. status' = [status EXCEPT ![w] = "serving"]
            BY <1>1, <2>1
        <3>2. status'[w] = "serving"
            BY <1>2, <3>1, Updated
        <3>. QED
            BY <3>2
    <2>2. CASE Len(expect[w]) # 1
        BY <1>1, <2>2
    <2>. QED
        BY <2>1, <2>2
<1>4. ConfigOf(hdr, w)' = ConfigOf(hdr, w) /\ AheadAt(hdr, step)' = AheadAt(hdr, step)
    BY <1>1 DEF AheadAt
<1>. QED
    BY <1>1, <1>3, <1>4 DEF ToldOK

LEMMA ToldEnd ==
    ASSUME LoadOK, NEW w \in Workers, WorkerEnd(w)
    PROVE  ToldOK(w)'
<1>1. status' = [status EXCEPT ![w] = "ended"] /\ expect' = [expect EXCEPT ![w] = <<>>]
    BY DEF WorkerEnd
<1>2. w \in Nodes /\ status = [n \in Nodes |-> status[n]]
    BY DEF LoadOK, Nodes, NodesOf, Workers
<1>3. status'[w] = "ended" /\ expect'[w] = <<>>
    BY <1>1, <1>2, Updated DEF LoadOK, OnWorkers
<1>. QED
    BY <1>3 DEF ToldOK

\* A step of one worker.
LEMMA StepOfOne ==
    ASSUME NEW v, WorkerStep(v) \/ Crash(v)
    PROVE  /\ UNCHANGED <<hdr, step>>
           /\ status' = status \/ \E x : status' = [status EXCEPT ![v] = x]
           /\ expect' = expect \/ \E x : expect' = [expect EXCEPT ![v] = x]
           /\ down' = down \/ \E x : down' = [down EXCEPT ![v] = x]
           /\ got' = got \/ \E x : got' = [got EXCEPT ![v] = x]
<1>1. CASE ReadConfig(v)
    <2>1. /\ UNCHANGED <<hdr, step, status>>
          /\ down' = [down EXCEPT ![v] = Tail(down[v])]
        BY <1>1 DEF ReadConfig
    <2>2. (\E x : got' = [got EXCEPT ![v] = x]) /\ \E x : expect' = [expect EXCEPT ![v] = x]
        BY <1>1, Zenon DEF ReadConfig
    <2>. QED
        BY <2>1, <2>2
<1>2. CASE ReadName(v)
    <2>1. /\ UNCHANGED <<hdr, step, got, status>>
          /\ down' = [down EXCEPT ![v] = Tail(down[v])]
        BY <1>2, Zenon DEF ReadName
    <2>2. \E x : expect' = [expect EXCEPT ![v] = x]
        BY <1>2, NameFollows
    <2>. QED
        BY <2>1, <2>2
<1>3. CASE ReadWeight(v)
    BY <1>3 DEF ReadWeight
<1>4. CASE WriteAck(v)
    BY <1>4 DEF WriteAck
<1>5. CASE WorkerEnd(v)
    BY <1>5 DEF WorkerEnd
<1>. QED
    BY <1>1, <1>2, <1>3, <1>4, <1>5 DEF WorkerStep, WorkerRaise, Crash

LEMMA ToldNextOK ==
    ASSUME LoadOK, LoadNext, NEW w \in Workers, ToldOK(w)
    PROVE  ToldOK(w)'
<1>1. CASE RootStep
    <2>1. ASSUME NEW task \in Tasks,
                 RootSend(task) \/ RootReadAck(task) \/ RootLoad(task) \/ RootCheck(task) \/ RootRaise(task)
          PROVE  ToldOK(w)'
        <3>1. CASE RootRaise(task)
            BY <3>1, ToldStatus DEF RootRaise
        <3>2. CASE RootSend(task) \/ RootReadAck(task) \/ RootLoad(task) \/ RootCheck(task)
            BY <3>2, ToldTask
        <3>. QED
            BY <2>1, <3>1, <3>2
    <2>2. CASE RootServe
        BY <2>2, ToldStatus DEF RootServe
    <2>. QED
        BY <1>1, <2>1, <2>2 DEF RootStep
<1>2. ASSUME NEW v \in Workers, WorkerStep(v) \/ Crash(v)
      PROVE  ToldOK(w)'
    <2>1. CASE v = w
        <3>1. CASE WorkerEnd(v)
            BY <2>1, <3>1, ToldEnd
        <3>2. CASE ~ WorkerEnd(v)
            BY <1>2, <2>1, <3>2, ToldReadConfig, ToldReadWeight, ToldWriteAck
               DEF WorkerStep, WorkerRaise, Crash
        <3>. QED
            BY <3>1, <3>2
    <2>2. CASE v # w
        <3>1. w \in Nodes /\ v \in Nodes /\ status = [n \in Nodes |-> status[n]]
            BY DEF LoadOK, Nodes, NodesOf, Workers
        <3>2. /\ UNCHANGED <<hdr, step>>
              /\ status' = status \/ \E x : status' = [status EXCEPT ![v] = x]
              /\ expect' = expect \/ \E x : expect' = [expect EXCEPT ![v] = x]
              /\ down' = down \/ \E x : down' = [down EXCEPT ![v] = x]
              /\ got' = got \/ \E x : got' = [got EXCEPT ![v] = x]
            BY <1>2, StepOfOne
        <3>3. status'[w] = status[w]
            BY <2>2, <3>1, <3>2, Updated
        <3>4. expect'[w] = expect[w]
            BY <2>2, <3>2, Updated DEF LoadOK, OnWorkers
        <3>5. down'[w] = down[w]
            BY <2>2, <3>2, Updated DEF LoadOK, OnWorkers
        <3>6. got'[w] = got[w]
            BY <2>2, <3>2, Updated DEF LoadOK, OnWorkers
        <3>. QED
            BY <3>2, <3>3, <3>4, <3>5, <3>6, ToldKept
    <2>. QED
        BY <2>1, <2>2
<1>3. CASE RootCrash
    BY <1>3, ToldStatus DEF RootCrash
<1>. QED
    BY <1>1, <1>2, <1>3 DEF LoadNext

LEMMA ToldInitOK == ASSUME LoadInit, NEW w \in Workers PROVE ToldOK(w)
<1>1. /\ hdr \in Headers /\ step = 1 /\ status[w] # "ended"
      /\ down[w] = <<>> /\ got[w] = <<>>
    BY HeaderAssumption DEF LoadInit, Workers, Nodes, NodesOf
<1>2. IsList(Todos[hdr]) /\ Todos[hdr] = Todo(hdr)
    BY <1>1, TodosListed DEF Todos, Workers
<1>3. AheadAt(hdr, step) = Todo(hdr)
    BY <1>1, <1>2, AheadAtStart
<1> DEFINE p == Pick(w, "send", Todo(hdr))
<1>4. IsList(p)
    BY <1>2, PickLists
<1>5. Told(ConfigOf(hdr, w), p, <<>>)
    BY <1>1, ToldStart DEF Workers
<1> HIDE DEF p
<1>6. <<>> \o p = p
    BY <1>4, ConcatEmpty
<1>. QED
    BY <1>1, <1>3, <1>5, <1>6 DEF ToldOK, p

\* Every worker has what it was told.
LEMMA AllTold == NodeSpec => [](\A w \in Workers : ToldOK(w))
<1> DEFINE Inv == \A w \in Workers : ToldOK(w)
<1>1. NodeInit => Inv
    BY ToldInitOK DEF NodeInit
<1>2. LoadOK /\ Inv /\ [NodeNext]_nodeVars => Inv'
    <2> SUFFICES ASSUME LoadOK, Inv, [NodeNext]_nodeVars PROVE Inv'
        OBVIOUS
    <2>1. CASE BringUp
        <3>1. LoadNext
            BY <2>1 DEF BringUp
        <3>2. Workers' = Workers
            BY <3>1 DEF Workers, LoadNext, RootStep, RootSend, RootReadAck, RootLoad, RootCheck,
                        RootRaise, RootServe, WorkerStep, ReadConfig, ReadName, ReadWeight, WriteAck,
                        WorkerRaise, WorkerEnd, Crash, RootCrash
        <3>. QED
            BY <3>1, <3>2, ToldNextOK
    <2>2. CASE UNCHANGED <<hdr, step, down, up, expect, got, status>>
        BY <2>2 DEF ToldOK, Workers, AheadAt
    <2>3. CASE Infer
        BY <2>2, <2>3 DEF Infer, ExecNext
    <2>4. CASE UNCHANGED nodeVars
        BY <2>2, <2>4 DEF nodeVars, loadVars
    <2>. QED
        BY <2>1, <2>3, <2>4 DEF NodeNext
<1>3. NodeSpec => []LoadOK
    BY BroughtUp
<1>. QED
    BY <1>1, <1>2, <1>3, PTL DEF NodeSpec

\* Of what a worker has read, the values of one kind.
LEMMA ReadIsVals ==
    ASSUME NEW C, NEW w, NEW kind, IsList(got[w]), Len(got[w]) = Len(C),
           \A k \in 1..Len(got[w]) : got[w][k] = Field(C[k].as, Seen(C, k))
    PROVE  Read(w, kind) = Vals(kind, C)
<1> DEFINE g == got[w]
           n == Len(g)
           a == [k \in 1..n |-> If(g[k].as = kind, <<g[k].val>>)]
           b == [k \in 1..n |-> OneVal(kind, C, k)]
<1>1. Read(w, kind) = FlattenSeq(a)
    BY DEF Read, Concat
<1>2. Vals(kind, C) = FlattenSeq(b)
    BY DEF Vals
<1>3. ASSUME NEW k \in 1..n PROVE If(g[k].as = kind, <<g[k].val>>) = OneVal(kind, C, k)
    <2>1. g[k] = Field(C[k].as, Seen(C, k))
        OBVIOUS
    <2>2. g[k].as = C[k].as /\ g[k].val = Seen(C, k)
        <3> HIDE DEF g
        <3>. QED
            BY <2>1 DEF Field
    <2>. QED
        BY <2>2 DEF OneVal
<1>4. a = b
    BY <1>3
<1>. QED
    BY <1>1, <1>2, <1>4

\* A worker that waits for the name of a weight has read all of it.
LEMMA HeadOf ==
    ASSUME NEW e, IsList(e), NEW x, NEW y, x # y, Head(e \o <<x>>) = y
    PROVE  e # <<>> /\ Head(e) = y
<1> DEFINE s == <<x>>
<1>1. IsList(s) /\ s \o <<>> = s
    BY OneAndRest, EmptyList, ConcatEmpty
<1>2. Head(s) = x
    OBVIOUS
<1>3. Head(e \o s) = y
    OBVIOUS
<1> HIDE DEF s
<1>4. e # <<>>
    <2> SUFFICES ASSUME e = <<>> PROVE FALSE
        OBVIOUS
    <2>1. e \o s = s
        BY <1>1, ConcatEmpty
    <2>. QED
        BY <1>2, <1>3, <2>1
<1>5. Head(e \o s) = Head(e)
    BY <1>1, <1>4, ConcatHead
<1>. QED
    BY <1>3, <1>4, <1>5

LEMMA WaitingHasRead ==
    ASSUME LoadOK, NEW w \in Workers, ToldOK(w), Head(expect[w] \o <<"">>) = "name"
    PROVE  \A kind \in AskedKinds : Read(w, kind) = AsBuilt(kind, hdr, w)
<1> DEFINE C == ConfigOf(hdr, w)
           R == down[w] \o Pick(w, "send", AheadAt(hdr, step))
           e == expect[w]
           nb == Len(Buffers(hdr, w))
<1>1. IsList(e)
    <2>1. CASE status[w] = "ended"
        BY <2>1, EmptyList DEF ToldOK
    <2>2. CASE status[w] # "ended"
        BY <2>2 DEF LoadOK, WorkerOK, Tracks
    <2>. QED
        BY <2>1, <2>2
<1>2. e # <<>> /\ Head(e) = "name"
    <2>1. EndMark # "name" /\ Head(e \o <<EndMark>>) = "name"
        BY Zenon DEF EndMark
    <2> HIDE DEF e
    <2>. QED
        BY <1>1, <2>1, HeadOf
<1>3. status[w] # "ended"
    BY <1>2 DEF ToldOK
<1>4. Told(C, R, got[w]) /\ Fits(nb, e, R)
    BY <1>3 DEF ToldOK, LoadOK, WorkerOK, Tracks
<1>5. Within(C, ConfigKinds) /\ \A kind \in AskedKinds : Vals(kind, C) = AsBuilt(kind, hdr, w)
    BY ConfigFacts, ConfigVals, HeaderAssumption DEF LoadOK
<1> HIDE DEF C, R, e, nb
<1>6. R # <<>> /\ Head(R).as \in WeightFields
    BY <1>2, <1>4, FitsStep DEF WeightFields
<1>7. /\ IsList(got[w]) /\ Len(got[w]) = Len(C)
      /\ \A k \in 1..Len(got[w]) : got[w][k] = Field(C[k].as, Seen(C, k))
    BY <1>4, <1>5, <1>6, ToldAll
<1>8. \A kind : Read(w, kind) = Vals(kind, C)
    BY <1>7, ReadIsVals
<1>. QED
    BY <1>5, <1>8

LEMMA ToldIsBuilt ==
    ASSUME LoadOK, \A w \in Workers : ToldOK(w)
    PROVE  ConfigAsBuilt
<1> SUFFICES ASSUME NEW w \in Workers, Head(expect[w] \o <<"">>) = "name"
             PROVE  LET segments == Segments(hdr, w)
                        ops == Ops(hdr, w)
                    IN  /\ Read(w, "nNodes") = <<hdr.nodes>> /\ Read(w, "nBatches") = <<hdr.batches>>
                        /\ Read(w, "pipeName") = Each(LAMBDA p : p.place, Pipes(hdr))
                        /\ Read(w, "pipeSize") = Each(LAMBDA p : p.size, Pipes(hdr))
                        /\ Read(w, "nodeIndex") = <<w>>
                        /\ Read(w, "bufferName") = Each(LAMBDA b : b.place, Buffers(hdr, w))
                        /\ Read(w, "bufferSize") = Each(LAMBDA b : b.size, Buffers(hdr, w))
                        /\ Read(w, "nOps") = Each(LAMBDA s : Len(s.ops), segments)
                        /\ Read(w, "syncType") = Each(LAMBDA s : s.syncs[1].type, segments)
                        /\ Read(w, "opName") = Each(LAMBDA o : o.name, ops)
                        /\ Read(w, "opInput") = Each(LAMBDA o : o.in, ops)
                        /\ Read(w, "opOutput") = Each(LAMBDA o : o.out, ops)
                        /\ Read(w, "opWeight") = Each(LAMBDA o : o.weight, ops)
                        /\ Len(Read(w, "opConfig")) = Len(ops)
                        /\ \A i \in 1..Len(ops) : Read(w, "opConfig")[i] = ops[i].aux
    BY Zenon DEF ConfigAsBuilt
<1>1. \A kind \in AskedKinds : Read(w, kind) = AsBuilt(kind, hdr, w)
    BY WaitingHasRead
<1>2. /\ Read(w, "nNodes") = <<hdr.nodes>> /\ Read(w, "nBatches") = <<hdr.batches>>
      /\ Read(w, "pipeName") = Each(LAMBDA p : p.place, Pipes(hdr))
      /\ Read(w, "pipeSize") = Each(LAMBDA p : p.size, Pipes(hdr))
    BY <1>1 DEF AskedKinds, AskedOfNet, AsBuilt
<1>3. /\ Read(w, "nodeIndex") = <<w>>
      /\ Read(w, "bufferName") = Each(LAMBDA b : b.place, Buffers(hdr, w))
      /\ Read(w, "bufferSize") = Each(LAMBDA b : b.size, Buffers(hdr, w))
    BY <1>1 DEF AskedKinds, AskedOfNode, AsBuilt
<1>4. /\ Read(w, "nOps") = Each(LAMBDA s : Len(s.ops), Segments(hdr, w))
      /\ Read(w, "syncType") = Each(LAMBDA s : s.syncs[1].type, Segments(hdr, w))
    BY <1>1 DEF AskedKinds, AskedOfNode, AsBuilt
<1>5. /\ Read(w, "opName") = Each(LAMBDA o : o.name, Ops(hdr, w))
      /\ Read(w, "opInput") = Each(LAMBDA o : o.in, Ops(hdr, w))
      /\ Read(w, "opOutput") = Each(LAMBDA o : o.out, Ops(hdr, w))
      /\ Read(w, "opWeight") = Each(LAMBDA o : o.weight, Ops(hdr, w))
      /\ Read(w, "opConfig") = Each(LAMBDA o : o.aux, Ops(hdr, w))
    BY <1>1 DEF AskedKinds, AskedOfNode, AskedOfOps, AsBuilt
<1>6. /\ Len(Read(w, "opConfig")) = Len(Ops(hdr, w))
      /\ \A i \in 1..Len(Ops(hdr, w)) : Read(w, "opConfig")[i] = Ops(hdr, w)[i].aux
    <2> DEFINE ops == Ops(hdr, w)
               f == [i \in 1..Len(ops) |-> ops[i].aux]
    <2>1. Len(ops) \in Nat
        BY OpsLists, ListFacts, HeaderAssumption DEF LoadOK
    <2>2. Read(w, "opConfig") = f
        BY <1>5 DEF Each
    <2> HIDE DEF ops
    <2>3. f = [i \in 1..Len(ops) |-> f[i]] /\ \A i \in 1..Len(ops) : f[i] = ops[i].aux
        OBVIOUS
    <2> HIDE DEF f
    <2>4. Len(f) = Len(ops)
        BY <2>1, <2>3, Listed
    <2>. QED
        BY <2>2, <2>3, <2>4 DEF ops
<1>. QED
    BY <1>2, <1>3, <1>4, <1>5, <1>6

\* For every model, cluster and connection size: a worker that waits for a
\* weight has read the net and the node configuration that build_llm_net made
\* for it - pipes, buffers, segments, syncs, and every operator with its
\* configuration packed by the root and unpacked by the worker - with nothing
\* missing, twice or out of place.
THEOREM ConfigurationAsBuilt == NodeSpec => []ConfigAsBuilt
<1>1. LoadOK /\ (\A w \in Workers : ToldOK(w)) => ConfigAsBuilt
    BY ToldIsBuilt
<1>. QED
    BY <1>1, AllTold, BroughtUp, PTL
===============================================================================
