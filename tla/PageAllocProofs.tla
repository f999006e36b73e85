-------------------------- MODULE PageAllocProofs --------------------------
(* The page allocator is sound for any sizes of pages, number of units and   *)
(* requests.                                                                 *)
EXTENDS PageAlloc, WellFoundedInduction, TLAPS

-----------------------------------------------------------------------------
(* Induction, over a set in place of a predicate. *)
LEMMA LeastCounterexample ==
  ASSUME NEW S \in SUBSET Nat, S # {}
  PROVE  \E m \in S : \A n \in S : m <= n
<1>1. PICK m \in S : \A n \in S : ~ (<<n, m>> \in OpToRel(<, Nat))
  BY NatLessThanWellFounded, WFMin
<1>2. ASSUME NEW n \in S PROVE m <= n
  <2>1. <<n, m>> \in Nat \X Nat /\ ~(n < m)
    BY <1>1 DEF OpToRel
  <2> QED
    BY <2>1
<1> QED
  BY <1>2

LEMMA UpTo ==
  ASSUME NEW N \in Nat, NEW S, 0 \in S, \A n \in 0..(N - 1) : n \in S => n + 1 \in S
  PROVE  \A n \in 0..N : n \in S
<1> DEFINE Out == {n \in 0..N : n \notin S}
<1> SUFFICES ASSUME Out # {} PROVE FALSE
  OBVIOUS
<1>1. PICK m \in Out : \A n \in Out : m <= n
  <2>1. Out \in SUBSET Nat
    OBVIOUS
  <2> HIDE DEF Out
  <2> QED
    BY <2>1, LeastCounterexample
<1>2. m # 0 /\ m - 1 \in 0..(N - 1)
  BY <1>1
<1>3. m - 1 \notin Out
  BY <1>1, <1>2
<1> QED
  BY <1>1, <1>2, <1>3

-----------------------------------------------------------------------------
(* Powers of two *)
Pow == power_of_two
Depths == 0..(P_16M - P_4K)

LEMMA Sizes == /\ P_4K \in Nat /\ P_16M \in Nat /\ 1 < P_4K /\ P_4K <= P_16M
               /\ P_16M - P_4K \in Nat
BY PageAssumption DEF HAVE_BUBBLE

LEMMA PowDef ==
  /\ Pow = [k \in 0..(P_16M + 1) |-> IF k = 0 THEN 1 ELSE 2 * Pow[k - 1]]
<1> DEFINE Is(f, n) == f = [k \in 0..n |-> IF k = 0 THEN 1 ELSE 2 * f[k - 1]]
           S == {n \in Nat : \E f : Is(f, n)}
<1> USE Sizes
<1>1. 0 \in S
  <2>1. Is([k \in 0..0 |-> 1], 0)
    OBVIOUS
  <2> QED
    BY <2>1
<1>2. ASSUME NEW n \in 0..P_16M, n \in S PROVE n + 1 \in S
  <2>1. PICK f : Is(f, n)
    BY <1>2
  <2>2. PICK g : g = [k \in 0..(n + 1) |-> IF k = 0 THEN 1 ELSE 2 * f[k - 1]]
    OBVIOUS
  <2>3. \A k \in 0..n : g[k] = f[k]
    BY <2>1, <2>2
  <2>4. \A k \in 0..(n + 1) : k # 0 => g[k - 1] = f[k - 1]
    BY <2>3
  <2>5. g = [k \in 0..(n + 1) |-> IF k = 0 THEN 1 ELSE 2 * g[k - 1]]
    BY <2>2, <2>4
  <2>6. Is(g, n + 1)
    BY <2>5
  <2> HIDE DEF Is
  <2>7. n + 1 \in Nat /\ \E h : Is(h, n + 1)
    BY <2>6
  <2> QED
    BY <2>7
<1>3. P_16M + 1 \in S
  <2> HIDE DEF S
  <2>1. P_16M + 1 \in Nat /\ (P_16M + 1) - 1 = P_16M
    OBVIOUS
  <2> QED
    BY <1>1, <1>2, <2>1, UpTo
<1>4. \E f : Is(f, P_16M + 1)
  BY <1>3
<1> QED
  BY <1>4 DEF Pow, power_of_two

LEMMA PowStep ==
  /\ Pow[0] = 1
  /\ \A k \in 0..P_16M : Pow[k + 1] = 2 * Pow[k]
BY PowDef, Sizes

LEMMA PowPositive == \A k \in 0..(P_16M + 1) : Pow[k] \in Nat /\ Pow[k] > 0
<1> DEFINE S == {k \in Nat : Pow[k] \in Nat /\ Pow[k] > 0}
<1>1. 0 \in S
  BY PowStep
<1>2. ASSUME NEW k \in 0..P_16M, k \in S PROVE k + 1 \in S
  BY <1>2, PowStep
<1>3. \A k \in 0..(P_16M + 1) : k \in S
  <2> HIDE DEF S
  <2>1. P_16M + 1 \in Nat /\ (P_16M + 1) - 1 = P_16M
    BY Sizes
  <2> QED
    BY <1>1, <1>2, <2>1, UpTo
<1> QED
  BY <1>3

LEMMA PowSplit ==
  \A j, k \in 0..P_16M : j + k <= P_16M => Pow[j + k] = Pow[j] * Pow[k]
<1> SUFFICES ASSUME NEW j \in 0..P_16M
             PROVE  \A k \in 0..(P_16M - j) : Pow[j + k] = Pow[j] * Pow[k]
  BY Sizes
<1> DEFINE S == {k \in Nat : Pow[j + k] = Pow[j] * Pow[k]}
<1>1. 0 \in S
  BY PowStep, PowPositive, Sizes
<1>2. ASSUME NEW k \in 0..(P_16M - j - 1), k \in S PROVE k + 1 \in S
  <2>1. j + k \in 0..P_16M /\ k \in 0..P_16M /\ (j + k) + 1 = j + (k + 1)
    BY Sizes
  <2>2. Pow[j + (k + 1)] = 2 * (Pow[j] * Pow[k])
    BY <1>2, <2>1, PowStep
  <2>3. Pow[k + 1] = 2 * Pow[k] /\ Pow[j] \in Nat /\ Pow[k] \in Nat
    <3>1. j \in 0..(P_16M + 1) /\ k \in 0..(P_16M + 1)
      BY <2>1, Sizes
    <3> QED
      BY <2>1, <3>1, PowStep, PowPositive
  <2>4. PICK a \in Nat, b \in Nat : a = Pow[j] /\ b = Pow[k]
    BY <2>3
  <2>5. 2 * (a * b) = a * (2 * b)
    OBVIOUS
  <2> QED
    BY <2>2, <2>3, <2>4, <2>5
<1> HIDE DEF S
<1>3. P_16M - j \in Nat
  BY Sizes
<1>4. \A k \in 0..(P_16M - j) : k \in S
  BY <1>1, <1>2, <1>3, UpTo
<1> QED
  BY <1>4 DEF S

LEMMA PowMonotonic == \A j, k \in 0..P_16M : j <= k => Pow[j] <= Pow[k]
<1> SUFFICES ASSUME NEW j \in 0..P_16M, NEW k \in 0..P_16M, j <= k PROVE Pow[j] <= Pow[k]
  OBVIOUS
<1>1. k - j \in 0..P_16M /\ j + (k - j) = k
  BY Sizes
<1>2. Pow[k] = Pow[j] * Pow[k - j]
  BY <1>1, PowSplit, Sizes
<1>3. PICK a \in Nat, b \in Nat : a = Pow[j] /\ b = Pow[k - j] /\ b > 0
  BY <1>1, PowPositive, Sizes
<1>4. a <= a * b
  BY <1>3
<1> QED
  BY <1>2, <1>3, <1>4

-----------------------------------------------------------------------------
(* The nodes of the tree: depth, and the part of the unit that a node covers. *)
Start(n) == Pow[P_16M - DepthOf(n)] * (n - Pow[DepthOf(n)])
Size(n) == Pow[P_16M - DepthOf(n)]
Inner(n) == DepthOf(n) < P_16M - P_4K

LEMMA DepthIs ==
  ASSUME NEW k \in Depths, NEW n \in Nat, Pow[k] <= n, n < Pow[k + 1]
  PROVE  n \in Nodes /\ DepthOf(n) = k
<1> USE Sizes
<1>1. k \in 0..(P_16M + 1) /\ k + 1 \in 0..P_16M /\ P_16M - P_4K + 1 \in 0..P_16M
  BY DEF Depths
<1>2. Pow[k] \in Nat /\ Pow[k + 1] \in Nat /\ Pow[P_16M - P_4K + 1] \in Nat /\ Pow[k] > 0
  BY <1>1, PowPositive
<1>3. Pow[k + 1] <= Pow[P_16M - P_4K + 1]
  BY <1>1, PowMonotonic DEF Depths
<1>4. n \in Nodes
  BY <1>2, <1>3 DEF Nodes, Pow
<1>5. ASSUME NEW j \in Depths, Pow[j] <= n, n < Pow[j + 1] PROVE j = k
  <2>1. j \in 0..P_16M /\ j + 1 \in 0..P_16M /\ k \in 0..P_16M
    BY DEF Depths
  <2>2. Pow[j] \in Nat /\ Pow[j + 1] \in Nat
    BY <2>1, PowPositive
  <2>3. CASE j + 1 <= k
    BY <1>1, <1>2, <1>5, <2>1, <2>2, <2>3, PowMonotonic
  <2>4. CASE k + 1 <= j
    BY <1>1, <1>2, <1>5, <2>1, <2>2, <2>4, PowMonotonic
  <2> QED
    BY <2>1, <2>3, <2>4
<1> QED
  BY <1>4, <1>5 DEF DepthOf, Depths, Pow

LEMMA NodeDepth ==
  ASSUME NEW n \in Nodes
  PROVE  /\ n \in Nat /\ n > 0
         /\ DepthOf(n) \in Depths
         /\ Pow[DepthOf(n)] <= n /\ n < Pow[DepthOf(n) + 1]
<1> USE Sizes
<1> DEFINE S == {k \in Nat : n < Pow[k + 1] => \E j \in Depths : Pow[j] <= n /\ n < Pow[j + 1]}
<1>1. n \in Nat /\ n > 0
  BY DEF Nodes
<1>2. 0 \in S
  BY <1>1, PowStep DEF Depths
<1>3. ASSUME NEW k \in 0..(P_16M - P_4K - 1), k \in S PROVE k + 1 \in S
  <2>1. CASE n < Pow[k + 1]
    BY <1>3, <2>1
  <2>2. CASE ~(n < Pow[k + 1])
    <3>1. k + 1 \in Depths /\ k + 1 \in 0..(P_16M + 1)
      BY DEF Depths
    <3>2. Pow[k + 1] \in Nat
      BY <3>1, PowPositive
    <3> QED
      BY <1>1, <2>2, <3>1, <3>2
  <2> QED
    BY <2>1, <2>2
<1>4. P_16M - P_4K \in S
  <2> HIDE DEF S
  <2> QED
    BY <1>2, <1>3, UpTo
<1>5. n < Pow[(P_16M - P_4K) + 1]
  <2>1. Pow[P_16M - P_4K + 1] \in Nat
    BY PowPositive
  <2> QED
    BY <2>1 DEF Nodes, Pow
<1>6. \E j \in Depths : Pow[j] <= n /\ n < Pow[j + 1]
  BY <1>4, <1>5
<1> QED
  BY <1>1, <1>6, DepthIs

LEMMA RootNode == 1 \in Nodes /\ DepthOf(1) = 0
BY DepthIs, PowStep, Sizes DEF Depths

LEMMA NodeSpan ==
  ASSUME NEW n \in Nodes
  PROVE  /\ Size(n) \in Nat /\ Size(n) > 0
         /\ Start(n) \in Nat /\ Start(n) + Size(n) <= Pow[P_16M]
<1> USE Sizes
<1>1. PICK k \in Depths : k = DepthOf(n) /\ Pow[k] <= n /\ n < Pow[k + 1] /\ n \in Nat
  BY NodeDepth
<1>2. k \in 0..P_16M /\ k + 1 \in 0..P_16M /\ P_16M - k \in 0..P_16M /\ k + (P_16M - k) = P_16M
  BY DEF Depths
<1>3. PICK a \in Nat, b \in Nat : a = Pow[k] /\ b = Pow[P_16M - k] /\ a > 0 /\ b > 0
  BY <1>2, PowPositive
<1>4. Pow[k + 1] = 2 * a /\ Pow[P_16M] = a * b
  BY <1>2, <1>3, PowStep, PowSplit
<1>5. n - a \in Nat /\ (n - a) + 1 <= a
  BY <1>1, <1>3, <1>4
<1>6. PICK d \in Nat : d = n - a
  BY <1>5
<1>7. b * d + b = b * (d + 1)
  OBVIOUS
<1>8. b * (d + 1) <= b * a
  BY <1>5, <1>6
<1>9. Size(n) = b /\ Start(n) = b * d
  BY <1>1, <1>3, <1>6 DEF Size, Start
<1> QED
  BY <1>3, <1>4, <1>7, <1>8, <1>9

LEMMA Children ==
  ASSUME NEW n \in Nodes, Inner(n)
  PROVE  /\ left_branch(n) \in Nodes /\ right_branch(n) \in Nodes
         /\ DepthOf(left_branch(n)) = DepthOf(n) + 1
         /\ DepthOf(right_branch(n)) = DepthOf(n) + 1
         /\ Size(left_branch(n)) = Size(right_branch(n))
         /\ Size(n) = 2 * Size(left_branch(n))
         /\ Start(left_branch(n)) = Start(n)
         /\ Start(right_branch(n)) = Start(n) + Size(left_branch(n))
<1> USE Sizes
<1>1. PICK k \in Depths : k = DepthOf(n) /\ Pow[k] <= n /\ n < Pow[k + 1] /\ n \in Nat
  BY NodeDepth
<1>2. k + 1 \in Depths /\ k \in 0..P_16M /\ k + 1 \in 0..P_16M /\ (k + 1) + 1 = k + 2
      /\ P_16M - k \in 0..P_16M /\ P_16M - (k + 1) \in 0..P_16M
      /\ P_16M - k = (P_16M - (k + 1)) + 1 /\ k + 2 \in 0..(P_16M + 1)
  BY <1>1 DEF Depths, Inner
<1>3. PICK a \in Nat, b \in Nat : a = Pow[k] /\ b = Pow[P_16M - (k + 1)]
  BY <1>2, PowPositive
<1>4. Pow[k + 1] = 2 * a /\ Pow[k + 2] = 2 * Pow[k + 1] /\ Pow[P_16M - k] = 2 * b
  BY <1>2, <1>3, PowStep
<1>5. left_branch(n) \in Nat /\ Pow[k + 1] <= left_branch(n) /\ left_branch(n) < Pow[(k + 1) + 1]
  BY <1>1, <1>2, <1>3, <1>4 DEF left_branch
<1>6. right_branch(n) \in Nat /\ Pow[k + 1] <= right_branch(n) /\ right_branch(n) < Pow[(k + 1) + 1]
  BY <1>1, <1>2, <1>3, <1>4 DEF right_branch
<1>7. left_branch(n) \in Nodes /\ DepthOf(left_branch(n)) = k + 1
  BY <1>2, <1>5, DepthIs
<1>8. right_branch(n) \in Nodes /\ DepthOf(right_branch(n)) = k + 1
  BY <1>2, <1>6, DepthIs
<1>9. PICK d \in Nat : d = n - a
  BY <1>1, <1>3
<1>10. Size(n) = 2 * b /\ Size(left_branch(n)) = b /\ Size(right_branch(n)) = b
  BY <1>1, <1>3, <1>4, <1>7, <1>8 DEF Size
<1>11. Start(n) = (2 * b) * d
  BY <1>1, <1>3, <1>4, <1>9 DEF Start
<1>12. Start(left_branch(n)) = b * (2 * d) /\ Start(right_branch(n)) = b * (2 * d + 1)
  <2>1. left_branch(n) - 2 * a = 2 * d /\ right_branch(n) - 2 * a = 2 * d + 1
    BY <1>1, <1>3, <1>9 DEF left_branch, right_branch
  <2> QED
    BY <2>1, <1>3, <1>4, <1>7, <1>8 DEF Start
<1>13. b * (2 * d) = (2 * b) * d /\ b * (2 * d + 1) = (2 * b) * d + b
  OBVIOUS
<1> QED
  BY <1>1, <1>7, <1>8, <1>10, <1>11, <1>12, <1>13

LEMMA Parent ==
  ASSUME NEW m \in Nodes, m # 1
  PROVE  \E n \in Nodes : Inner(n) /\ (m = left_branch(n) \/ m = right_branch(n))
<1> USE Sizes
<1>1. PICK k \in Depths : k = DepthOf(m) /\ Pow[k] <= m /\ m < Pow[k + 1] /\ m \in Nat /\ m > 0
  BY NodeDepth
<1>2. k # 0
  BY <1>1, PowStep
<1>3. k - 1 \in Depths /\ k - 1 \in 0..P_16M /\ k \in 0..P_16M /\ (k - 1) + 1 = k
  BY <1>2 DEF Depths
<1>4. PICK a \in Nat : a = Pow[k - 1] /\ Pow[k] = 2 * a /\ Pow[k + 1] = 4 * a
  <2>1. Pow[k - 1] \in Nat
    BY <1>3, PowPositive
  <2>2. Pow[k] = 2 * Pow[k - 1] /\ Pow[k + 1] = 2 * Pow[k]
    BY <1>3, PowStep
  <2> QED
    BY <2>1, <2>2
<1>5. PICK n \in Nat : m = 2 * n \/ m = 2 * n + 1
  <2>1. m \div 2 \in Nat /\ (m = 2 * (m \div 2) \/ m = 2 * (m \div 2) + 1)
    BY <1>1
  <2> QED
    BY <2>1
<1>6. a <= n /\ n < 2 * a
  BY <1>1, <1>4, <1>5
<1>7. n \in Nodes /\ DepthOf(n) = k - 1
  BY <1>3, <1>4, <1>6, DepthIs
<1> QED
  BY <1>3, <1>5, <1>7 DEF Inner, left_branch, right_branch, Depths

(* n is p or a node below it. *)
Below(n, p) ==
  DepthOf(p) <= DepthOf(n) /\ Start(p) <= Start(n) /\ Start(n) < Start(p) + Size(p)

LEMMA BelowRoot ==
  ASSUME NEW n \in Nodes
  PROVE  Below(n, 1)
<1>1. Start(1) = 0 /\ Size(1) = Pow[P_16M]
  <2>1. Pow[P_16M] \in Nat
    BY PowPositive, Sizes
  <2> QED
    BY <2>1, RootNode, PowStep, Sizes DEF Start, Size
<1> QED
  BY <1>1, NodeSpan, NodeDepth, RootNode DEF Below, Depths

LEMMA BelowChild ==
  ASSUME NEW n \in Nodes, NEW p \in Nodes, Below(n, p), n # p
  PROVE  Inner(p) /\ (Below(n, left_branch(p)) \/ Below(n, right_branch(p)))
<1> USE Sizes
<1>1. DepthOf(p) # DepthOf(n)
  <2> SUFFICES ASSUME DepthOf(p) = DepthOf(n) PROVE FALSE
    OBVIOUS
  <2>1. PICK k \in Depths : k = DepthOf(n) /\ k = DepthOf(p)
    BY NodeDepth
  <2>2. /\ n \in Nat /\ Pow[k] <= n
        /\ p \in Nat /\ Pow[k] <= p
    BY <2>1, NodeDepth
  <2>3. k \in 0..(P_16M + 1) /\ P_16M - k \in 0..(P_16M + 1)
    BY DEF Depths
  <2>4. PICK a \in Nat, s \in Nat : a = Pow[k] /\ s = Pow[P_16M - k] /\ s > 0
    BY <2>3, PowPositive
  <2>5. PICK i \in Nat, j \in Nat : i = n - a /\ j = p - a
    BY <2>2, <2>4
  <2>6. s * j <= s * i /\ s * i < s * j + s
    BY <2>1, <2>4, <2>5 DEF Below, Start, Size
  <2>7. s * j + s = s * (j + 1)
    OBVIOUS
  <2>8. i = j
    <3>1. CASE i + 1 <= j
      <4>1. s * (i + 1) <= s * j
        BY <3>1
      <4>2. s * (i + 1) = s * i + s
        OBVIOUS
      <4> QED
        BY <4>1, <4>2, <2>4, <2>6
    <3>2. CASE j + 1 <= i
      <4>1. s * (j + 1) <= s * i
        BY <3>2
      <4> QED
        BY <4>1, <2>6, <2>7
    <3> QED
      BY <3>1, <3>2
  <2> QED
    BY <2>2, <2>4, <2>5, <2>8
<1>2. DepthOf(n) \in Depths /\ DepthOf(p) \in Depths
  BY NodeDepth
<1>3. Inner(p) /\ DepthOf(p) + 1 <= DepthOf(n)
  BY <1>1, <1>2 DEF Below, Inner, Depths
<1>4. left_branch(p) \in Nodes /\ right_branch(p) \in Nodes
  BY <1>3, Children
<1>5. /\ Start(n) \in Nat /\ Start(p) \in Nat
      /\ Size(left_branch(p)) \in Nat
  BY <1>4, NodeSpan
<1> QED
  BY <1>3, <1>4, <1>5, Children DEF Below

LEMMA BelowWithin ==
  ASSUME NEW n \in Nodes, NEW p \in Nodes, Below(n, p)
  PROVE  Start(n) + Size(n) <= Start(p) + Size(p)
<1> USE Sizes
<1>1. PICK k \in Depths, l \in Depths :
        /\ k = DepthOf(n) /\ l = DepthOf(p) /\ l <= k
        /\ n \in Nat /\ Pow[k] <= n /\ p \in Nat /\ Pow[l] <= p
  BY NodeDepth DEF Below
<1>2. /\ k - l \in 0..P_16M /\ P_16M - k \in 0..P_16M /\ (k - l) + (P_16M - k) = P_16M - l
      /\ P_16M - l \in 0..P_16M /\ k \in 0..P_16M /\ l \in 0..P_16M
  BY <1>1 DEF Depths
<1>3. PICK q \in Nat, s \in Nat, i \in Nat, j \in Nat :
        /\ q = Pow[k - l] /\ s = Pow[P_16M - k] /\ s > 0
        /\ i = n - Pow[k] /\ j = p - Pow[l]
  <2>1. Pow[k - l] \in Nat /\ Pow[P_16M - k] \in Nat /\ Pow[P_16M - k] > 0
    BY <1>2, PowPositive
  <2>2. Pow[k] \in Nat /\ Pow[l] \in Nat
    BY <1>2, PowPositive
  <2>3. n - Pow[k] \in Nat /\ p - Pow[l] \in Nat
    BY <1>1, <2>2
  <2> QED
    BY <2>1, <2>3
<1>4. Pow[P_16M - l] = q * s
  BY <1>2, <1>3, PowSplit
<1>5. /\ Start(n) = s * i /\ Size(n) = s
      /\ Start(p) = (q * s) * j /\ Size(p) = q * s
  BY <1>1, <1>3, <1>4 DEF Start, Size
<1>6. (q * s) * j + q * s = s * (q * j + q)
  OBVIOUS
<1>7. PICK t \in Nat : t = q * j + q
  OBVIOUS
<1>8. s * i < s * t
  BY <1>5, <1>6, <1>7 DEF Below
<1>9. i + 1 <= t
  <2> SUFFICES ASSUME t <= i PROVE FALSE
    OBVIOUS
  <2>1. s * t <= s * i
    OBVIOUS
  <2>2. s * t \in Nat /\ s * i \in Nat
    OBVIOUS
  <2> QED
    BY <2>1, <2>2, <1>8
<1>10. s * (i + 1) <= s * t
  BY <1>9
<1>11. s * (i + 1) = s * i + s
  OBVIOUS
<1> QED
  BY <1>5, <1>6, <1>7, <1>10, <1>11

-----------------------------------------------------------------------------
(* What the descent relies on, for a tree of sizes. *)
Whole(tree, n) == tree[n] = BaseSize(n)

TreeOk(tree) ==
  /\ tree \in [Nodes -> PAGE_SIZE \cup {HAVE_BUBBLE, FULL_USED}]
  /\ \A n \in Nodes : tree[n] <= BaseSize(n)
  /\ \A n \in Nodes : Inner(n) /\ Whole(tree, n) =>
       Whole(tree, left_branch(n)) /\ Whole(tree, right_branch(n))
  /\ \A n \in Nodes : Inner(n) /\ tree[n] >= P_4K =>
       Whole(tree, n) \/ tree[left_branch(n)] >= tree[n] \/ tree[right_branch(n)] >= tree[n]

LEMMA Values ==
  ASSUME NEW tree, TreeOk(tree), NEW n \in Nodes
  PROVE  /\ tree[n] \in Nat /\ BaseSize(n) \in PAGE_SIZE
         /\ BaseSize(n) = P_16M - DepthOf(n) /\ Size(n) = Pow[BaseSize(n)]
BY Sizes, NodeDepth DEF TreeOk, BaseSize, PAGE_SIZE, Depths, HAVE_BUBBLE, FULL_USED, Size

(* Everything below a whole node is whole. *)
LEMMA WholeBelow ==
  ASSUME NEW tree, TreeOk(tree), NEW n \in Nodes, NEW p \in Nodes,
         Below(n, p), Whole(tree, p)
  PROVE  Whole(tree, n)
<1> DEFINE S == {d \in Nat : \A m, q \in Nodes :
                   DepthOf(m) - DepthOf(q) = d /\ Below(m, q) /\ Whole(tree, q) => Whole(tree, m)}
<1>1. \A q \in Nodes : Inner(q) /\ Whole(tree, q) =>
         Whole(tree, left_branch(q)) /\ Whole(tree, right_branch(q))
  BY DEF TreeOk
<1>2. 0 \in S
  <2>1. ASSUME NEW m \in Nodes, NEW q \in Nodes, DepthOf(m) - DepthOf(q) = 0, Below(m, q)
        PROVE  m = q
    <3> SUFFICES ASSUME m # q PROVE FALSE
      OBVIOUS
    <3>1. Inner(q) /\ (Below(m, left_branch(q)) \/ Below(m, right_branch(q)))
      BY <2>1, BelowChild
    <3>2. DepthOf(q) + 1 <= DepthOf(m)
      BY <3>1, Children DEF Below
    <3>3. DepthOf(q) \in Int /\ DepthOf(m) \in Int
      BY NodeDepth DEF Depths
    <3> QED
      BY <2>1, <3>2, <3>3
  <2> QED
    BY <2>1
<1>3. ASSUME NEW d \in 0..(P_16M - 1), d \in S PROVE d + 1 \in S
  <2>1. ASSUME NEW m \in Nodes, NEW q \in Nodes,
               DepthOf(m) - DepthOf(q) = d + 1, Below(m, q), Whole(tree, q)
        PROVE  Whole(tree, m)
    <3>1. DepthOf(q) \in Int /\ DepthOf(m) \in Int
      BY NodeDepth DEF Depths
    <3>2. m # q
      BY <2>1, <3>1
    <3>3. Inner(q) /\ (Below(m, left_branch(q)) \/ Below(m, right_branch(q)))
      BY <2>1, <3>2, BelowChild
    <3>4. PICK r \in Nodes : Below(m, r) /\ DepthOf(r) = DepthOf(q) + 1 /\ Whole(tree, r)
      BY <1>1, <2>1, <3>3, Children
    <3>5. DepthOf(m) - DepthOf(r) = d
      BY <2>1, <3>1, <3>4
    <3> QED
      BY <1>3, <3>4, <3>5
  <2> QED
    BY <2>1
<1>4. \A d \in 0..P_16M : d \in S
  <2> HIDE DEF S
  <2> QED
    BY <1>2, <1>3, UpTo, Sizes
<1>5. DepthOf(n) - DepthOf(p) \in 0..P_16M
  BY NodeDepth, Sizes DEF Depths, Below
<1> QED
  BY <1>4, <1>5

-----------------------------------------------------------------------------
(* The descent of get_space_in_page *)
LEMMA PathDef ==
  ASSUME NEW tree, NEW req \in PAGE_SIZE
  PROVE  Path(tree, req) = [k \in 0..(P_16M - req) |->
           IF k = 0 THEN 1 ELSE Turn(tree, Path(tree, req)[k - 1], req)]
<1> DEFINE Is(f, n) == f = [k \in 0..n |-> IF k = 0 THEN 1 ELSE Turn(tree, f[k - 1], req)]
           S == {n \in Nat : \E f : Is(f, n)}
<1>1. 0 \in S
  <2>1. Is([k \in 0..0 |-> 1], 0)
    OBVIOUS
  <2> QED
    BY <2>1
<1>2. ASSUME NEW n \in 0..(P_16M - req - 1), n \in S PROVE n + 1 \in S
  <2>1. PICK f : Is(f, n)
    BY <1>2
  <2>2. PICK g : g = [k \in 0..(n + 1) |-> IF k = 0 THEN 1 ELSE Turn(tree, f[k - 1], req)]
    OBVIOUS
  <2>3. \A k \in 0..n : g[k] = f[k]
    BY <2>1, <2>2
  <2>4. \A k \in 0..(n + 1) : k # 0 => g[k - 1] = f[k - 1]
    BY <2>3
  <2>5. g = [k \in 0..(n + 1) |-> IF k = 0 THEN 1 ELSE Turn(tree, g[k - 1], req)]
    BY <2>2, <2>4
  <2>6. Is(g, n + 1)
    BY <2>5
  <2> HIDE DEF Is
  <2>7. n + 1 \in Nat /\ \E h : Is(h, n + 1)
    BY <2>6
  <2> QED
    BY <2>7
<1>3. P_16M - req \in S
  <2> HIDE DEF S
  <2>1. P_16M - req \in Nat
    BY Sizes DEF PAGE_SIZE
  <2> QED
    BY <1>1, <1>2, <2>1, UpTo
<1>4. \E f : Is(f, P_16M - req)
  BY <1>3
<1> QED
  BY <1>4 DEF Path

LEMMA PathStep ==
  ASSUME NEW tree, NEW req \in PAGE_SIZE
  PROVE  /\ DOMAIN Path(tree, req) = 0..(P_16M - req)
         /\ Path(tree, req)[0] = 1
         /\ \A k \in 0..(P_16M - req - 1) :
              Path(tree, req)[k + 1] = Turn(tree, Path(tree, req)[k], req)
<1>1. P_16M - req \in Nat
  BY Sizes DEF PAGE_SIZE
<1>2. PICK f : f = Path(tree, req)
  OBVIOUS
<1>3. f = [k \in 0..(P_16M - req) |-> IF k = 0 THEN 1 ELSE Turn(tree, f[k - 1], req)]
  BY <1>2, PathDef
<1>4. DOMAIN f = 0..(P_16M - req) /\ f[0] = 1
  BY <1>1, <1>3
<1>5. ASSUME NEW k \in 0..(P_16M - req - 1) PROVE f[k + 1] = Turn(tree, f[k], req)
  <2>1. k + 1 \in 0..(P_16M - req) /\ k + 1 # 0 /\ (k + 1) - 1 = k
    BY <1>1
  <2> QED
    BY <1>3, <2>1
<1> QED
  BY <1>2, <1>4, <1>5

(* The path goes down one level at a time. *)
LEMMA PathNodes ==
  ASSUME NEW tree, NEW req \in PAGE_SIZE, NEW k \in 0..(P_16M - req)
  PROVE  Path(tree, req)[k] \in Nodes /\ DepthOf(Path(tree, req)[k]) = k
<1> DEFINE S == {j \in Nat : Path(tree, req)[j] \in Nodes /\ DepthOf(Path(tree, req)[j]) = j}
<1>1. 0 \in S
  BY PathStep, RootNode
<1>2. ASSUME NEW j \in 0..(P_16M - req - 1), j \in S PROVE j + 1 \in S
  <2>1. PICK p \in Nodes : p = Path(tree, req)[j] /\ DepthOf(p) = j
    BY <1>2
  <2>2. Inner(p)
    BY <2>1, Sizes DEF Inner, PAGE_SIZE
  <2>3. Path(tree, req)[j + 1] = left_branch(p) \/ Path(tree, req)[j + 1] = right_branch(p)
    BY <2>1, PathStep DEF Turn
  <2> QED
    BY <2>1, <2>2, <2>3, Children
<1>3. P_16M - req \in Nat
  BY Sizes DEF PAGE_SIZE
<1>4. \A j \in 0..(P_16M - req) : j \in S
  <2> HIDE DEF S
  <2> QED
    BY <1>1, <1>2, <1>3, UpTo
<1> QED
  BY <1>4

(* Every node of the path promises the size that is asked for. *)
LEMMA PathPromises ==
  ASSUME NEW tree, TreeOk(tree), NEW req \in PAGE_SIZE, tree[1] >= req,
         NEW k \in 0..(P_16M - req)
  PROVE  tree[Path(tree, req)[k]] >= req
<1> DEFINE S == {j \in Nat : tree[Path(tree, req)[j]] >= req}
<1>1. 0 \in S
  BY PathStep
<1>2. ASSUME NEW j \in 0..(P_16M - req - 1), j \in S PROVE j + 1 \in S
  <2>1. PICK p \in Nodes : p = Path(tree, req)[j] /\ DepthOf(p) = j
    <3>1. j \in 0..(P_16M - req)
      BY Sizes DEF PAGE_SIZE
    <3> QED
      BY <3>1, PathNodes
  <2>2. Inner(p)
    BY <2>1, Sizes DEF Inner, PAGE_SIZE
  <2>3. tree[p] >= req /\ tree[p] >= P_4K /\ tree[p] \in Nat
    BY <1>2, <2>1, Values, Sizes DEF PAGE_SIZE
  <2>4. PICK l \in Nodes, r \in Nodes :
          /\ l = left_branch(p) /\ r = right_branch(p)
          /\ DepthOf(l) = j + 1 /\ DepthOf(r) = j + 1
    BY <2>1, <2>2, Children
  <2>5. tree[l] \in Nat /\ tree[r] \in Nat /\ BaseSize(l) >= req /\ BaseSize(r) >= req
    BY <2>4, Values, Sizes DEF PAGE_SIZE
  <2>6. tree[l] >= req \/ tree[r] >= req
    <3>1. CASE Whole(tree, p)
      BY <2>2, <2>4, <2>5, <3>1 DEF TreeOk, Whole
    <3>2. CASE tree[l] >= tree[p] \/ tree[r] >= tree[p]
      BY <2>3, <2>5, <3>2, Sizes DEF PAGE_SIZE
    <3> QED
      BY <2>2, <2>3, <2>4, <3>1, <3>2 DEF TreeOk
  <2>7. tree[Turn(tree, p, req)] >= req
    BY <2>4, <2>6 DEF Turn
  <2> QED
    BY <2>1, <2>7, PathStep
<1>3. P_16M - req \in Nat
  BY Sizes DEF PAGE_SIZE
<1>4. \A j \in 0..(P_16M - req) : j \in S
  <2> HIDE DEF S
  <2> QED
    BY <1>1, <1>2, <1>3, UpTo
<1> QED
  BY <1>4

LEMMA TargetWhole ==
  ASSUME NEW tree, TreeOk(tree), NEW req \in PAGE_SIZE, tree[1] >= req
  PROVE  /\ Target(tree, req) \in Nodes
         /\ DepthOf(Target(tree, req)) = P_16M - req
         /\ tree[Target(tree, req)] = req
         /\ Whole(tree, Target(tree, req))
<1>1. P_16M - req \in 0..(P_16M - req) /\ P_16M - (P_16M - req) = req
  BY Sizes DEF PAGE_SIZE
<1>2. PICK t \in Nodes : t = Target(tree, req) /\ DepthOf(t) = P_16M - req
  BY <1>1, PathNodes DEF Target
<1>3. tree[t] >= req
  BY <1>1, <1>2, PathPromises DEF Target
<1>4. tree[t] <= BaseSize(t) /\ BaseSize(t) = req /\ tree[t] \in Nat
  BY <1>1, <1>2, Values DEF TreeOk
<1> QED
  BY <1>2, <1>3, <1>4 DEF Whole, PAGE_SIZE

Apart(n, p) == Start(n) + Size(n) <= Start(p) \/ Start(p) + Size(p) <= Start(n)

(* No full node overlaps the page that the descent ends in. *)
LEMMA TargetApart ==
  ASSUME NEW tree, TreeOk(tree), NEW req \in PAGE_SIZE, tree[1] >= req,
         NEW n \in Nodes, tree[n] = FULL_USED
  PROVE  Apart(n, Target(tree, req))
<1> DEFINE S == {j \in Nat : Apart(n, Path(tree, req)[j]) \/ Below(n, Path(tree, req)[j])}
<1>1. 0 \in S
  BY PathStep, BelowRoot
<1>2. ASSUME NEW j \in 0..(P_16M - req - 1), j \in S PROVE j + 1 \in S
  <2>1. j \in 0..(P_16M - req) /\ j + 1 \in 0..(P_16M - req) /\ j + 1 \in Nat
    BY Sizes DEF PAGE_SIZE
  <2>2. PICK p \in Nodes, c \in Nodes :
          /\ p = Path(tree, req)[j] /\ c = Path(tree, req)[j + 1]
          /\ DepthOf(p) = j /\ tree[p] >= req
    BY <2>1, PathNodes, PathPromises
  <2>3. Inner(p) /\ n # p
    BY <2>2, Sizes DEF Inner, PAGE_SIZE, FULL_USED
  <2>4. PICK l \in Nodes, r \in Nodes :
          /\ l = left_branch(p) /\ r = right_branch(p)
          /\ Start(l) = Start(p) /\ Start(r) = Start(p) + Size(l)
          /\ Size(l) = Size(r) /\ Size(p) = 2 * Size(l)
    BY <2>3, Children
  <2>5. c = l \/ c = r
    BY <2>1, <2>2, <2>4, PathStep DEF Turn
  <2>6. /\ Start(p) \in Nat /\ Size(p) \in Nat /\ Start(n) \in Nat /\ Size(n) \in Nat
        /\ Start(l) \in Nat /\ Size(l) \in Nat /\ Start(r) \in Nat /\ Size(r) \in Nat
    BY NodeSpan
  <2>7. CASE Apart(n, p)
    BY <2>2, <2>4, <2>5, <2>6, <2>7 DEF Apart
  <2>8. CASE Below(n, p)
    <3>1. Below(n, l) \/ Below(n, r)
      BY <2>3, <2>4, <2>8, BelowChild
    <3>2. CASE c = l
      <4>1. Apart(n, c) \/ Below(n, c)
        BY <2>4, <2>6, <3>1, <3>2 DEF Below, Apart
      <4> QED
        BY <2>1, <2>2, <4>1, Zenon
    <3>3. CASE c = r
      <4>1. CASE Below(n, l)
        <5>1. Start(n) + Size(n) <= Start(l) + Size(l)
          BY <4>1, BelowWithin
        <5>2. Apart(n, c)
          BY <2>4, <3>3, <5>1 DEF Apart
        <5> QED
          BY <2>1, <2>2, <5>2, Zenon
      <4>2. CASE Below(n, r)
        BY <2>1, <2>2, <3>3, <4>2, Zenon
      <4> QED
        BY <3>1, <4>1, <4>2
    <3> QED
      BY <2>5, <3>2, <3>3
  <2> QED
    BY <1>2, <2>2, <2>7, <2>8
<1>3. P_16M - req \in Nat
  BY Sizes DEF PAGE_SIZE
<1>4. \A j \in 0..(P_16M - req) : j \in S
  <2> HIDE DEF S
  <2> QED
    BY <1>1, <1>2, <1>3, UpTo
<1>5. Apart(n, Target(tree, req)) \/ Below(n, Target(tree, req))
  BY <1>3, <1>4 DEF Target
<1>6. ~Below(n, Target(tree, req))
  <2> SUFFICES ASSUME Below(n, Target(tree, req)) PROVE FALSE
    OBVIOUS
  <2>1. Whole(tree, n)
    BY TargetWhole, WholeBelow
  <2> QED
    BY <2>1, Values, Sizes DEF Whole, PAGE_SIZE, FULL_USED
<1> QED
  BY <1>5, <1>6

-----------------------------------------------------------------------------
(* The way back of get_space_in_page *)
Left(tree, req) ==
  LET path == Path(tree, req)
      left[k \in 0..(P_16M - req)] ==
        IF k = P_16M - req THEN FULL_USED
        ELSE IF Bubble(tree[path[k]], req) THEN HAVE_BUBBLE
        ELSE Larger(left[k + 1], tree[Sibling(path[k + 1])])
  IN  left

LEMMA AfterIs ==
  ASSUME NEW tree, NEW req
  PROVE  TreeAfter(tree, req) =
           [n \in Nodes |-> IF \E k \in DOMAIN Path(tree, req) : Path(tree, req)[k] = n
                            THEN Left(tree, req)[DepthOf(n)] ELSE tree[n]]
BY DEF TreeAfter, Left

LEMMA LeftDef ==
  ASSUME NEW tree, NEW req \in PAGE_SIZE
  PROVE  Left(tree, req) = [k \in 0..(P_16M - req) |->
           IF k = P_16M - req THEN FULL_USED
           ELSE IF Bubble(tree[Path(tree, req)[k]], req) THEN HAVE_BUBBLE
           ELSE Larger(Left(tree, req)[k + 1], tree[Sibling(Path(tree, req)[k + 1])])]
<1> DEFINE N == P_16M - req
           Val(f, k) == IF k = N THEN FULL_USED
                        ELSE IF Bubble(tree[Path(tree, req)[k]], req) THEN HAVE_BUBBLE
                        ELSE Larger(f[k + 1], tree[Sibling(Path(tree, req)[k + 1])])
           Is(f, d) == f = [k \in (N - d)..N |-> Val(f, k)]
           S == {d \in Nat : \E f : Is(f, d)}
<1>0. N \in Nat
  BY Sizes DEF PAGE_SIZE
<1>1. 0 \in S
  <2>1. Is([k \in (N - 0)..N |-> FULL_USED], 0)
    BY <1>0
  <2> HIDE DEF Is
  <2> QED
    BY <2>1
<1>2. ASSUME NEW d \in 0..(N - 1), d \in S PROVE d + 1 \in S
  <2> HIDE DEF N
  <2>1. PICK f : Is(f, d)
    BY <1>2
  <2> HIDE DEF Val
  <2>2. PICK g : g = [k \in (N - (d + 1))..N |-> Val(f, k)]
    OBVIOUS
  <2>3. \A k \in (N - d)..N : g[k] = f[k]
    BY <1>0, <2>1, <2>2
  <2>4. \A k \in (N - (d + 1))..N : k # N => g[k + 1] = f[k + 1]
    BY <1>0, <2>3
  <2>5. \A k \in (N - (d + 1))..N : Val(f, k) = Val(g, k)
    BY <2>4 DEF Val
  <2>6. Is(g, d + 1)
    BY <2>2, <2>5
  <2> HIDE DEF Is
  <2>7. d + 1 \in Nat /\ \E h : Is(h, d + 1)
    BY <2>6
  <2> QED
    BY <2>7
<1>3. N \in S
  <2> HIDE DEF S, N
  <2> QED
    BY <1>0, <1>1, <1>2, UpTo
<1>4. \E f : f = [k \in 0..N |-> Val(f, k)]
  <2>1. N - N = 0
    BY <1>0
  <2> QED
    BY <1>3, <2>1
<1> QED
  BY <1>4 DEF Left

LEMMA LeftStep ==
  ASSUME NEW tree, NEW req \in PAGE_SIZE, NEW k \in 0..(P_16M - req)
  PROVE  Left(tree, req)[k] =
           IF k = P_16M - req THEN FULL_USED
           ELSE IF Bubble(tree[Path(tree, req)[k]], req) THEN HAVE_BUBBLE
           ELSE Larger(Left(tree, req)[k + 1], tree[Sibling(Path(tree, req)[k + 1])])
<1> DEFINE Val(f, j) == IF j = P_16M - req THEN FULL_USED
                        ELSE IF Bubble(tree[Path(tree, req)[j]], req) THEN HAVE_BUBBLE
                        ELSE Larger(f[j + 1], tree[Sibling(Path(tree, req)[j + 1])])
<1>1. PICK f : f = Left(tree, req)
  OBVIOUS
<1>2. f = [j \in 0..(P_16M - req) |-> Val(f, j)]
  BY <1>1, LeftDef
<1>3. f[k] = Val(f, k)
  <2> HIDE DEF Val
  <2> QED
    BY <1>2
<1> QED
  BY <1>1, <1>3

LEMMA SiblingIs ==
  ASSUME NEW n \in Nat
  PROVE  /\ Sibling(left_branch(n)) = right_branch(n)
         /\ Sibling(right_branch(n)) = left_branch(n)
<1>1. (2 * n) % 2 = 0 /\ (2 * n + 1) % 2 = 1
  OBVIOUS
<1> QED
  BY <1>1 DEF Sibling, left_branch, right_branch

(* What the way back leaves in a node is less than the size of its page. *)
LEMMA LeftBound ==
  ASSUME NEW tree, TreeOk(tree), NEW req \in PAGE_SIZE, tree[1] >= req,
         NEW k \in 0..(P_16M - req)
  PROVE  /\ Left(tree, req)[k] \in PAGE_SIZE \cup {HAVE_BUBBLE, FULL_USED}
         /\ Left(tree, req)[k] < P_16M - k
<1> DEFINE N == P_16M - req
           V == PAGE_SIZE \cup {HAVE_BUBBLE, FULL_USED}
           S == {d \in Nat : Left(tree, req)[N - d] \in V
                             /\ Left(tree, req)[N - d] < P_16M - (N - d)}
<1>0. N \in Nat /\ P_16M - N = req /\ req > 1
  BY Sizes DEF PAGE_SIZE
<1>1. 0 \in S
  <2>1. Left(tree, req)[N] = FULL_USED
    BY <1>0, LeftDef
  <2>2. N - 0 = N /\ P_16M - (N - 0) = req
    BY <1>0
  <2> QED
    BY <1>0, <2>1, <2>2 DEF FULL_USED, PAGE_SIZE
<1>2. ASSUME NEW d \in 0..(N - 1), d \in S PROVE d + 1 \in S
  <2>1. PICK j \in 0..N : j = N - (d + 1) /\ j + 1 = N - d /\ j + 1 \in 0..N /\ j # N
    BY <1>0
  <2>2. PICK p \in Nodes, c \in Nodes :
          p = Path(tree, req)[j] /\ c = Path(tree, req)[j + 1] /\ DepthOf(p) = j
    BY <2>1, PathNodes
  <2>3. Inner(p) /\ p \in Nat
    BY <2>1, <2>2, <1>0, Sizes, NodeDepth DEF Inner, PAGE_SIZE
  <2>4. c = left_branch(p) \/ c = right_branch(p)
    BY <1>0, <2>1, <2>2, PathStep DEF Turn
  <2>5. PICK s \in Nodes : s = Sibling(c) /\ DepthOf(s) = j + 1
    <3>1. CASE c = left_branch(p)
      <4>1. Sibling(c) = right_branch(p)
        BY <2>3, <3>1, SiblingIs
      <4>2. right_branch(p) \in Nodes /\ DepthOf(right_branch(p)) = j + 1
        BY <2>2, <2>3, Children
      <4> QED
        BY <4>1, <4>2
    <3>2. CASE c = right_branch(p)
      <4>1. Sibling(c) = left_branch(p)
        BY <2>3, <3>2, SiblingIs
      <4>2. left_branch(p) \in Nodes /\ DepthOf(left_branch(p)) = j + 1
        BY <2>2, <2>3, Children
      <4> QED
        BY <4>1, <4>2
    <3> QED
      BY <2>4, <3>1, <3>2
  <2>6. tree[s] \in V /\ tree[s] \in Nat /\ tree[s] <= P_16M - (j + 1)
    BY <2>5, Values DEF TreeOk
  <2>7. Left(tree, req)[j + 1] \in V /\ Left(tree, req)[j + 1] < P_16M - (j + 1)
    BY <1>2, <2>1
  <2>8. Left(tree, req)[j] = IF Bubble(tree[p], req) THEN HAVE_BUBBLE
                             ELSE Larger(Left(tree, req)[j + 1], tree[s])
    <3>1. j \in 0..N
      BY <2>1
    <3>2. Left(tree, req)[j] = IF j = N THEN FULL_USED
            ELSE IF Bubble(tree[Path(tree, req)[j]], req) THEN HAVE_BUBBLE
            ELSE Larger(Left(tree, req)[j + 1], tree[Sibling(Path(tree, req)[j + 1])])
      BY <3>1, LeftStep
    <3> QED
      BY <2>1, <2>2, <2>5, <3>2, Zenon
  <2>9. \A v \in V : v \in Nat
    BY Sizes DEF PAGE_SIZE, HAVE_BUBBLE, FULL_USED
  <2>10. 1 < P_16M - j
    BY <1>0, <2>1, Sizes
  <2>11. Left(tree, req)[j] \in {HAVE_BUBBLE, Left(tree, req)[j + 1], tree[s]}
    BY <2>8 DEF Larger
  <2>12. \A v \in {HAVE_BUBBLE, Left(tree, req)[j + 1], tree[s]} : v \in V /\ v < P_16M - j
    <3>1. HAVE_BUBBLE \in V /\ HAVE_BUBBLE = 1
      BY DEF HAVE_BUBBLE
    <3>2. Left(tree, req)[j + 1] \in Nat
      BY <2>7, <2>9
    <3> HIDE DEF V
    <3> QED
      BY <2>1, <2>6, <2>7, <2>10, <3>1, <3>2, Sizes
  <2> QED
    BY <2>1, <2>11, <2>12
<1>3. \A d \in 0..N : d \in S
  <2> HIDE DEF S, N
  <2> QED
    BY <1>0, <1>1, <1>2, UpTo
<1>4. N - k \in 0..N /\ N - (N - k) = k
  BY <1>0
<1> QED
  BY <1>3, <1>4

-----------------------------------------------------------------------------
(* The tree after get_space_in_page *)
OnPath(tree, req, n) == \E k \in 0..(P_16M - req) : n = Path(tree, req)[k]

LEMMA AfterOn ==
  ASSUME NEW tree, NEW req \in PAGE_SIZE, NEW k \in 0..(P_16M - req)
  PROVE  TreeAfter(tree, req)[Path(tree, req)[k]] = Left(tree, req)[k]
<1>1. PICK p \in Nodes : p = Path(tree, req)[k] /\ DepthOf(p) = k
  BY PathNodes
<1>2. \E j \in DOMAIN Path(tree, req) : Path(tree, req)[j] = p
  BY <1>1, PathStep
<1>3. TreeAfter(tree, req)[p] = Left(tree, req)[DepthOf(p)]
  BY <1>2, AfterIs
<1> QED
  BY <1>1, <1>3

LEMMA AfterOff ==
  ASSUME NEW tree, NEW req \in PAGE_SIZE, NEW n \in Nodes, ~OnPath(tree, req, n)
  PROVE  TreeAfter(tree, req)[n] = tree[n]
<1>1. ~ \E j \in DOMAIN Path(tree, req) : Path(tree, req)[j] = n
  BY PathStep DEF OnPath
<1> QED
  BY <1>1, AfterIs

(* A child of the path has its parent on it. *)
LEMMA ChildOnPath ==
  ASSUME NEW tree, NEW req \in PAGE_SIZE, NEW n \in Nodes, Inner(n), NEW c,
         c = left_branch(n) \/ c = right_branch(n), OnPath(tree, req, c)
  PROVE  OnPath(tree, req, n)
<1>1. PICK k \in 0..(P_16M - req) : c = Path(tree, req)[k]
  BY DEF OnPath
<1>2. DepthOf(c) = k /\ DepthOf(c) = DepthOf(n) + 1 /\ DepthOf(n) \in Nat /\ n \in Nat
  <2>1. DepthOf(c) = k
    BY <1>1, PathNodes
  <2>2. DepthOf(c) = DepthOf(n) + 1
    BY Children
  <2>3. DepthOf(n) \in Nat /\ n \in Nat
    BY NodeDepth DEF Depths
  <2> QED
    BY <2>1, <2>2, <2>3
<1>3. k - 1 \in 0..(P_16M - req - 1) /\ (k - 1) + 1 = k /\ k - 1 \in 0..(P_16M - req)
  BY <1>2, Sizes DEF PAGE_SIZE
<1>4. PICK q \in Nodes : q = Path(tree, req)[k - 1] /\ q \in Nat
  BY <1>3, PathNodes, NodeDepth
<1>5. c = left_branch(q) \/ c = right_branch(q)
  BY <1>1, <1>3, <1>4, PathStep DEF Turn
<1>6. q = n
  BY <1>2, <1>4, <1>5 DEF left_branch, right_branch
<1> QED
  BY <1>3, <1>4, <1>6 DEF OnPath

LEMMA AfterValues ==
  ASSUME NEW tree, TreeOk(tree), NEW req \in PAGE_SIZE, tree[1] >= req, NEW n \in Nodes
  PROVE  /\ TreeAfter(tree, req)[n] \in PAGE_SIZE \cup {HAVE_BUBBLE, FULL_USED}
         /\ TreeAfter(tree, req)[n] <= BaseSize(n)
         /\ OnPath(tree, req, n) => TreeAfter(tree, req)[n] < BaseSize(n)
<1>1. CASE OnPath(tree, req, n)
  <2>1. PICK k \in 0..(P_16M - req) : n = Path(tree, req)[k]
    BY <1>1 DEF OnPath
  <2>2. TreeAfter(tree, req)[n] = Left(tree, req)[k] /\ DepthOf(n) = k
    BY <2>1, AfterOn, PathNodes
  <2>3. /\ Left(tree, req)[k] \in PAGE_SIZE \cup {HAVE_BUBBLE, FULL_USED}
        /\ Left(tree, req)[k] < P_16M - k
    BY LeftBound
  <2>4. BaseSize(n) = P_16M - k /\ BaseSize(n) \in Int
    BY <2>2, Values, Sizes DEF PAGE_SIZE
  <2>5. Left(tree, req)[k] \in Int
    BY <2>3, Sizes DEF PAGE_SIZE, HAVE_BUBBLE, FULL_USED
  <2> QED
    BY <2>2, <2>3, <2>4, <2>5
<1>2. CASE ~OnPath(tree, req, n)
  BY <1>2, AfterOff DEF TreeOk
<1> QED
  BY <1>1, <1>2

LEMMA AfterOk ==
  ASSUME NEW tree, TreeOk(tree), NEW req \in PAGE_SIZE, tree[1] >= req
  PROVE  TreeOk(TreeAfter(tree, req))
<1> USE Sizes
<1>1. PICK new : new = TreeAfter(tree, req)
  OBVIOUS
<1>2. new \in [Nodes -> PAGE_SIZE \cup {HAVE_BUBBLE, FULL_USED}]
  <2>1. new = [n \in Nodes |-> new[n]]
    BY <1>1, AfterIs
  <2> QED
    BY <1>1, <2>1, AfterValues
<1>3. \A n \in Nodes : new[n] <= BaseSize(n)
  BY <1>1, AfterValues
<1>4. ASSUME NEW n \in Nodes, Inner(n), Whole(new, n)
      PROVE  Whole(new, left_branch(n)) /\ Whole(new, right_branch(n))
  <2>1. new[n] \in Int /\ BaseSize(n) \in Int
    BY <1>2, Values DEF PAGE_SIZE, HAVE_BUBBLE, FULL_USED
  <2>2. ~OnPath(tree, req, n)
    BY <1>1, <1>4, <2>1, AfterValues DEF Whole
  <2>3. Whole(tree, n)
    BY <1>1, <1>4, <2>2, AfterOff DEF Whole
  <2>4. ~OnPath(tree, req, left_branch(n)) /\ ~OnPath(tree, req, right_branch(n))
    BY <1>4, <2>2, ChildOnPath
  <2>5. left_branch(n) \in Nodes /\ right_branch(n) \in Nodes
    BY <1>4, Children
  <2>6. Whole(tree, left_branch(n)) /\ Whole(tree, right_branch(n))
    BY <1>4, <2>3 DEF TreeOk
  <2>7. new[left_branch(n)] = tree[left_branch(n)] /\ new[right_branch(n)] = tree[right_branch(n)]
    BY <1>1, <2>4, <2>5, AfterOff
  <2> QED
    BY <2>6, <2>7 DEF Whole
<1>5. ASSUME NEW n \in Nodes, Inner(n), new[n] >= P_4K
      PROVE  \/ Whole(new, n)
             \/ new[left_branch(n)] >= new[n] \/ new[right_branch(n)] >= new[n]
  <2>1. left_branch(n) \in Nodes /\ right_branch(n) \in Nodes /\ n \in Nat
    BY <1>5, Children, NodeDepth
  <2>2. CASE OnPath(tree, req, n)
    <3>1. PICK k \in 0..(P_16M - req) : n = Path(tree, req)[k]
      BY <2>2 DEF OnPath
    <3>2. new[n] = Left(tree, req)[k]
      BY <1>1, <3>1, AfterOn
    <3>3. k # P_16M - req /\ new[n] # HAVE_BUBBLE
      <4>1. new[n] # FULL_USED /\ new[n] # HAVE_BUBBLE
        BY <1>5 DEF FULL_USED, HAVE_BUBBLE
      <4> QED
        BY <3>2, <4>1, LeftStep
    <3>4. k + 1 \in 0..(P_16M - req) /\ k \in 0..(P_16M - req - 1)
      BY <3>3 DEF PAGE_SIZE
    <3>5. PICK c : c = Path(tree, req)[k + 1] /\ (c = left_branch(n) \/ c = right_branch(n))
      BY <3>1, <3>4, PathStep DEF Turn
    <3>6. new[n] = Larger(new[c], tree[Sibling(c)])
      <4>1. new[c] = Left(tree, req)[k + 1]
        BY <1>1, <3>4, <3>5, AfterOn
      <4>2. new[n] = IF Bubble(tree[Path(tree, req)[k]], req) THEN HAVE_BUBBLE
                     ELSE Larger(Left(tree, req)[k + 1], tree[Sibling(Path(tree, req)[k + 1])])
        BY <3>2, <3>3, LeftStep
      <4>3. new[n] = Larger(Left(tree, req)[k + 1], tree[Sibling(Path(tree, req)[k + 1])])
        BY <3>3, <4>2
      <4> QED
        BY <3>5, <4>1, <4>3
    <3>7. PICK s \in Nodes : /\ s = Sibling(c)
                             /\ {c, s} = {left_branch(n), right_branch(n)}
      BY <2>1, <3>5, SiblingIs
    <3>8. ~OnPath(tree, req, s)
      <4> SUFFICES ASSUME NEW j \in 0..(P_16M - req), s = Path(tree, req)[j] PROVE FALSE
        BY DEF OnPath
      <4>1. DepthOf(s) = j /\ DepthOf(c) = k + 1
        BY <3>4, <3>5, PathNodes
      <4>2. DepthOf(s) = DepthOf(c)
        BY <1>5, <3>5, <3>7, Children
      <4>3. s = c
        BY <4>1, <4>2, <3>5
      <4> QED
        BY <2>1, <3>7, <4>3 DEF left_branch, right_branch
    <3>9. new[s] = tree[s]
      BY <1>1, <3>8, AfterOff
    <3>10. new[n] = new[c] \/ new[n] = new[s]
      BY <3>6, <3>7, <3>9 DEF Larger
    <3>11. new[n] \in Int
      BY <1>2 DEF PAGE_SIZE, HAVE_BUBBLE, FULL_USED
    <3>12. new[c] >= new[n] \/ new[s] >= new[n]
      BY <3>10, <3>11
    <3> QED
      BY <3>7, <3>12
  <2>3. CASE ~OnPath(tree, req, n)
    <3>1. ~OnPath(tree, req, left_branch(n)) /\ ~OnPath(tree, req, right_branch(n))
      BY <1>5, <2>3, ChildOnPath
    <3>2. /\ new[n] = tree[n]
          /\ new[left_branch(n)] = tree[left_branch(n)]
          /\ new[right_branch(n)] = tree[right_branch(n)]
      BY <1>1, <2>1, <2>3, <3>1, AfterOff
    <3> QED
      BY <1>5, <3>2 DEF TreeOk, Whole
  <2> QED
    BY <2>2, <2>3
<1>6. TreeOk(new)
  BY <1>2, <1>3, <1>4, <1>5 DEF TreeOk
<1> QED
  BY <1>1, <1>6

(* The target is full afterwards, and what was full still is. *)
LEMMA AfterFull ==
  ASSUME NEW tree, TreeOk(tree), NEW req \in PAGE_SIZE, tree[1] >= req
  PROVE  /\ TreeAfter(tree, req)[Target(tree, req)] = FULL_USED
         /\ \A n \in Nodes : tree[n] = FULL_USED => TreeAfter(tree, req)[n] = FULL_USED
<1>1. P_16M - req \in 0..(P_16M - req)
  BY Sizes DEF PAGE_SIZE
<1>2. TreeAfter(tree, req)[Target(tree, req)] = FULL_USED
  <2>1. Left(tree, req)[P_16M - req] = FULL_USED
    BY <1>1, LeftStep
  <2> QED
    BY <1>1, <2>1, AfterOn DEF Target
<1>3. ASSUME NEW n \in Nodes, tree[n] = FULL_USED PROVE ~OnPath(tree, req, n)
  <2> SUFFICES ASSUME NEW k \in 0..(P_16M - req), n = Path(tree, req)[k] PROVE FALSE
    BY DEF OnPath
  <2>1. tree[n] >= req
    BY PathPromises
  <2> QED
    BY <1>3, <2>1, Sizes DEF FULL_USED, PAGE_SIZE
<1> QED
  BY <1>2, <1>3, AfterOff

-----------------------------------------------------------------------------
(* page_free *)
Freed(u, ptr) ==
  LET freed[base \in (P_4K - 1)..P_16M] ==
        [n \in 1..(power_of_two[P_16M - base + 1] - 1) |->
           LET addr == convert_page_to_phsics(u, n, base) IN
           IF base < P_4K \/ Outside(ptr, addr, base) THEN page[u]
           ELSE IF addr = ptr /\ page[u][n] = FULL_USED THEN [page[u] EXCEPT ![n] = base]
           ELSE IF ptr < addr + power_of_two[base - 1]
                THEN Settled(freed[base - 1][left_branch(n)], n, base)
                ELSE Settled(freed[base - 1][right_branch(n)], n, base)]
  IN  freed

(* One level of free_space_in_page, given the trees that the level below gives. *)
Level(u, ptr, base, below) ==
  [n \in 1..(power_of_two[P_16M - base + 1] - 1) |->
     IF base < P_4K \/ Outside(ptr, convert_page_to_phsics(u, n, base), base) THEN page[u]
     ELSE IF convert_page_to_phsics(u, n, base) = ptr /\ page[u][n] = FULL_USED
          THEN [page[u] EXCEPT ![n] = base]
     ELSE IF ptr < convert_page_to_phsics(u, n, base) + power_of_two[base - 1]
          THEN Settled(below[left_branch(n)], n, base)
          ELSE Settled(below[right_branch(n)], n, base)]

LEMMA FreedDef ==
  ASSUME NEW u, NEW ptr
  PROVE  Freed(u, ptr) = [base \in (P_4K - 1)..P_16M |->
           Level(u, ptr, base, Freed(u, ptr)[base - 1])]
<1> DEFINE L == P_4K - 1
           Is(f, d) == f = [base \in L..(L + d) |-> Level(u, ptr, base, f[base - 1])]
           S == {d \in Nat : \E f : Is(f, d)}
<1>0. L \in Nat /\ P_16M - L \in Nat /\ L + (P_16M - L) = P_16M
  BY Sizes
<1>1. 0 \in S
  <2>1. PICK g : g = [base \in L..L |-> Level(u, ptr, base, <<>>)]
    OBVIOUS
  <2>2. \A base \in L..L : Level(u, ptr, base, <<>>) = Level(u, ptr, base, g[base - 1])
    BY Sizes DEF Level
  <2> HIDE DEF L
  <2>3. Is(g, 0)
    <3>1. L + 0 = L
      BY <1>0
    <3> QED
      BY <2>1, <2>2, <3>1
  <2> HIDE DEF Is
  <2> QED
    BY <2>3
<1>2. ASSUME NEW d \in 0..(P_16M - L - 1), d \in S PROVE d + 1 \in S
  <2>1. PICK f : Is(f, d)
    BY <1>2
  <2>2. PICK g : g = [base \in L..(L + (d + 1)) |-> Level(u, ptr, base, f[base - 1])]
    OBVIOUS
  <2>3. ASSUME NEW base \in L..(L + d) PROVE g[base] = f[base]
    <3> HIDE DEF L
    <3>1. base \in L..(L + (d + 1))
      BY <1>0
    <3>2. g[base] = Level(u, ptr, base, f[base - 1])
      BY <2>2, <3>1
    <3>3. f[base] = Level(u, ptr, base, f[base - 1])
      BY <2>1
    <3> QED
      BY <3>2, <3>3
  <2>4. \A base \in L..(L + (d + 1)) : base # L => g[base - 1] = f[base - 1]
    <3> HIDE DEF L
    <3> QED
      BY <1>0, <2>3
  <2>5. \A base \in L..(L + (d + 1)) :
           Level(u, ptr, base, f[base - 1]) = Level(u, ptr, base, g[base - 1])
    <3> SUFFICES ASSUME NEW base \in L..(L + (d + 1))
                 PROVE  Level(u, ptr, base, f[base - 1]) = Level(u, ptr, base, g[base - 1])
      OBVIOUS
    <3>1. CASE base = L
      <4>1. base < P_4K
        BY <3>1, Sizes
      <4> QED
        BY <4>1 DEF Level
    <3>2. CASE base # L
      BY <2>4, <3>2
    <3> QED
      BY <3>1, <3>2
  <2>6. Is(g, d + 1)
    <3> HIDE DEF L
    <3> QED
      BY <2>2, <2>5
  <2> HIDE DEF Is
  <2>7. d + 1 \in Nat /\ \E h : Is(h, d + 1)
    BY <2>6
  <2> QED
    BY <2>7
<1>3. P_16M - L \in S
  <2> HIDE DEF S, L
  <2> QED
    BY <1>0, <1>1, <1>2, UpTo
<1>4. \E f : f = [base \in L..P_16M |-> Level(u, ptr, base, f[base - 1])]
  BY <1>0, <1>3
<1> QED
  BY <1>4 DEF Freed, Level

(* free_space_in_page turns away at the root: the address of every page of the
   unit is below the end of the root.                                        *)
LEMMA FreedSame ==
  ASSUME NEW u \in Nat, NEW ptr \in Nat,
         ptr < begin_alloc_addr + u * Pow[P_16M] + Pow[P_16M]
  PROVE  TreeFreed(u, ptr) = page[u]
<1> USE Sizes
<1>1. TreeFreed(u, ptr) = Freed(u, ptr)[P_16M][1]
  BY DEF TreeFreed, Freed
<1>2. Freed(u, ptr)[P_16M] = Level(u, ptr, P_16M, Freed(u, ptr)[P_16M - 1])
  <2>1. PICK f : f = Freed(u, ptr)
    OBVIOUS
  <2>2. f = [base \in (P_4K - 1)..P_16M |-> Level(u, ptr, base, f[base - 1])]
    BY <2>1, FreedDef
  <2>3. P_16M \in (P_4K - 1)..P_16M
    OBVIOUS
  <2> QED
    BY <2>1, <2>2, <2>3
<1>3. Pow[P_16M - P_16M + 1] = 2 /\ Pow[P_16M] \in Nat /\ Pow[P_16M - P_16M] = 1
  BY PowStep, PowPositive
<1>4. 1 \in 1..(power_of_two[P_16M - P_16M + 1] - 1)
  BY <1>3 DEF Pow
<1>5. Outside(ptr, convert_page_to_phsics(u, 1, P_16M), P_16M)
  <2>1. PICK s \in Nat : s = Pow[P_16M]
    BY <1>3
  <2>2. convert_page_to_phsics(u, 1, P_16M) = begin_alloc_addr + u * s
    BY <1>3, <2>1, PageAssumption DEF convert_page_to_phsics, FirstOf, Pow
  <2>3. u * s \in Nat
    OBVIOUS
  <2> QED
    BY <2>1, <2>2, <2>3, PageAssumption DEF Outside, Pow
<1> QED
  BY <1>1, <1>2, <1>4, <1>5 DEF Level

-----------------------------------------------------------------------------
(* Sizes and addresses *)
LEMMA TransPageSize ==
  ASSUME NEW size \in Nat
  PROVE  /\ trans_page_size(size) = P_REFUSE <=> LevelsFor(size) = {}
         /\ LevelsFor(size) # {} =>
              /\ trans_page_size(size) \in PAGE_SIZE
              /\ size <= Pow[trans_page_size(size)]
<1> USE Sizes
<1>1. P_REFUSE \notin PAGE_SIZE
  BY DEF P_REFUSE, PAGE_SIZE
<1>2. ASSUME LevelsFor(size) # {} PROVE trans_page_size(size) \in LevelsFor(size)
  <2>1. LevelsFor(size) \in SUBSET Nat
    BY DEF LevelsFor, PAGE_SIZE
  <2>2. PICK m \in LevelsFor(size) : \A n \in LevelsFor(size) : m <= n
    BY <1>2, <2>1, LeastCounterexample
  <2>3. Min(LevelsFor(size)) \in LevelsFor(size)
    BY <2>2 DEF Min
  <2> QED
    BY <1>2, <2>3 DEF trans_page_size
<1> QED
  BY <1>1, <1>2 DEF trans_page_size, LevelsFor, Pow

Addr(u, n) == begin_alloc_addr + u * Pow[P_16M] + Start(n)

LEMMA Converted ==
  ASSUME NEW u, NEW n, NEW req \in PAGE_SIZE, DepthOf(n) = P_16M - req
  PROVE  convert_page_to_phsics(u, n, req) = Addr(u, n) /\ Size(n) = Pow[req]
<1>1. P_16M - (P_16M - req) = req
  BY Sizes DEF PAGE_SIZE
<1> QED
  BY <1>1 DEF convert_page_to_phsics, Addr, Start, Size, FirstOf, Pow

(* A page lies in its unit. *)
LEMMA AddrRange ==
  ASSUME NEW u \in Units, NEW n \in Nodes
  PROVE  /\ Addr(u, n) \in Nat /\ u * Pow[P_16M] \in Nat /\ Pow[P_16M] \in Nat
         /\ begin_alloc_addr + u * Pow[P_16M] <= Addr(u, n)
         /\ Addr(u, n) + Size(n) <= begin_alloc_addr + (u * Pow[P_16M] + Pow[P_16M])
         /\ \A v \in Nat : u < v => u * Pow[P_16M] + Pow[P_16M] <= v * Pow[P_16M]
<1>1. PICK s \in Nat : s = Pow[P_16M]
  BY PowPositive, Sizes
<1>2. u \in Nat /\ begin_alloc_addr \in Nat
  BY PageAssumption DEF Units
<1>3. u * s \in Nat
  BY <1>2
<1>4. ASSUME NEW v \in Nat, u < v PROVE u * s + s <= v * s
  <2>1. (u + 1) * s <= v * s
    BY <1>2, <1>4
  <2>2. (u + 1) * s = u * s + s
    BY <1>2
  <2> QED
    BY <2>1, <2>2
<1> QED
  BY <1>1, <1>2, <1>3, <1>4, NodeSpan DEF Addr

LEMMA Quotient ==
  ASSUME NEW q \in Nat, NEW d \in Nat, NEW r \in Nat, r < d
  PROVE  (q * d + r) \div d = q
OBVIOUS

LEMMA UnitOfAddr ==
  ASSUME NEW u \in Units, NEW n \in Nodes
  PROVE  UnitOf(Addr(u, n)) = u
<1>1. PICK s \in Nat, i \in Nat : s = Pow[P_16M] /\ i = Start(n) /\ i < s
  BY NodeSpan, PowPositive, Sizes
<1>2. u \in Nat /\ begin_alloc_addr \in Nat
  BY PageAssumption DEF Units
<1>3. Addr(u, n) - begin_alloc_addr = u * s + i
  BY <1>1, <1>2 DEF Addr
<1>4. (u * s + i) \div s = u
  BY <1>1, <1>2, Quotient
<1> QED
  BY <1>1, <1>3, <1>4 DEF UnitOf, Pow

-----------------------------------------------------------------------------
(* The inductive invariant.  A page that a caller has, or is about to get, is a
   full node of the tree: what the descent chooses is whole, hence has no full
   node below it, above it or beside it in common.                           *)
TreesOk == \A u \in Units : TreeOk(page[u])

Placed(a) ==
  \E u \in Units, n \in Nodes :
    a.addr = Addr(u, n) /\ a.bytes <= Size(n) /\ page[u][n] = FULL_USED

AllPlaced ==
  /\ \A a \in live : Placed(a)
  /\ \A c \in Callers : \A a \in Returned(c) : Placed(a)

CallersOk ==
  \A c \in Callers :
    /\ pc[c] = "probe" => bytes[c] \in Requests /\ LevelsFor(bytes[c]) # {}
    /\ ret[c] # Null => pc[c] = "done" /\ bytes[c] \in Requests

Inv == TypeOK /\ TreesOk /\ AllPlaced /\ PagesDisjoint /\ CallersOk

-----------------------------------------------------------------------------
(* The initial trees are whole. *)
LEMMA InitInv == Init => Inv
<1> SUFFICES ASSUME Init PROVE Inv
  OBVIOUS
<1> USE DEF Init
<1>1. \A n \in Nodes : BaseSize(n) \in PAGE_SIZE
  BY NodeDepth, Sizes DEF BaseSize, Depths, PAGE_SIZE
<1>2. TypeOK
  BY <1>1, PageAssumption DEF TypeOK
<1>3. ASSUME NEW u \in Units PROVE TreeOk(page[u])
  <2>1. page[u] = [n \in Nodes |-> BaseSize(n)]
    OBVIOUS
  <2>2. \A n \in Nodes : page[u][n] = BaseSize(n) /\ BaseSize(n) \in Int
    BY <1>1, <2>1 DEF PAGE_SIZE
  <2>3. page[u] \in [Nodes -> PAGE_SIZE \cup {HAVE_BUBBLE, FULL_USED}]
    BY <1>1, <2>1
  <2> QED
    BY <2>2, <2>3, Children DEF TreeOk, Whole
<1>4. \A c \in Callers : Returned(c) = {}
  BY DEF Returned
<1>5. AllPlaced /\ PagesDisjoint
  BY <1>4 DEF AllPlaced, PagesDisjoint
<1>6. CallersOk
  BY DEF CallersOk
<1> QED
  BY <1>2, <1>3, <1>5, <1>6 DEF Inv, TreesOk

(* Pages in two places do not overlap. *)
LEMMA PlacesApart ==
  ASSUME NEW u \in Units, NEW v \in Units, NEW n \in Nodes, NEW m \in Nodes,
         u # v \/ Apart(n, m), NEW a, NEW b,
         a.addr = Addr(u, n), a.bytes \in Nat, a.bytes <= Size(n),
         b.addr = Addr(v, m), b.bytes \in Nat, b.bytes <= Size(m)
  PROVE  Disjoint(a, b) /\ Disjoint(b, a)
<1>1. u \in Nat /\ v \in Nat /\ begin_alloc_addr \in Nat
  BY PageAssumption DEF Units
<1>2. /\ Size(n) \in Nat /\ Size(m) \in Nat /\ Start(n) \in Nat /\ Start(m) \in Nat
      /\ Addr(u, n) \in Nat /\ Addr(v, m) \in Nat
      /\ u * Pow[P_16M] \in Nat /\ v * Pow[P_16M] \in Nat /\ Pow[P_16M] \in Nat
  BY NodeSpan, AddrRange
<1>3. CASE u = v
  BY <1>1, <1>2, <1>3 DEF Apart, Addr, Disjoint
<1>4. CASE u < v
  <2>1. Addr(u, n) + Size(n) <= Addr(v, m)
    <3>1. u * Pow[P_16M] + Pow[P_16M] <= v * Pow[P_16M]
      BY <1>1, <1>4, AddrRange
    <3>2. Addr(u, n) + Size(n) <= begin_alloc_addr + (u * Pow[P_16M] + Pow[P_16M])
      BY AddrRange
    <3>3. begin_alloc_addr + v * Pow[P_16M] <= Addr(v, m)
      BY AddrRange
    <3> QED
      BY <1>1, <1>2, <3>1, <3>2, <3>3
  <2> QED
    BY <1>2, <2>1 DEF Disjoint
<1>5. CASE v < u
  <2>1. Addr(v, m) + Size(m) <= Addr(u, n)
    <3>1. v * Pow[P_16M] + Pow[P_16M] <= u * Pow[P_16M]
      BY <1>1, <1>5, AddrRange
    <3>2. Addr(v, m) + Size(m) <= begin_alloc_addr + (v * Pow[P_16M] + Pow[P_16M])
      BY AddrRange
    <3>3. begin_alloc_addr + u * Pow[P_16M] <= Addr(u, n)
      BY AddrRange
    <3> QED
      BY <1>1, <1>2, <3>1, <3>2, <3>3
  <2> QED
    BY <1>2, <2>1 DEF Disjoint
<1> QED
  BY <1>1, <1>3, <1>4, <1>5

LEMMA AllocCallInv ==
  ASSUME Inv, NEW c \in Callers, NEW size \in Requests, AllocCall(c, size)
  PROVE  Inv'
<1> USE DEF Inv, AllocCall
<1>1. size \in Nat
  BY PageAssumption
<1>2. TypeOK'
  BY <1>1, PageAssumption DEF TypeOK
<1>3. \A d \in Callers : Returned(d)' = Returned(d)
  <2>1. ret[c] = Null
    BY DEF CallersOk
  <2> QED
    BY <2>1 DEF Returned, TypeOK
<1>4. TreesOk' /\ AllPlaced' /\ PagesDisjoint'
  BY <1>3 DEF TreesOk, AllPlaced, Placed, PagesDisjoint
<1>5. CallersOk'
  <2>1. ASSUME NEW d \in Callers
        PROVE  /\ pc'[d] = "probe" => bytes'[d] \in Requests /\ LevelsFor(bytes'[d]) # {}
               /\ ret'[d] # Null => pc'[d] = "done" /\ bytes'[d] \in Requests
    <3>1. CASE d = c
      <4>1. bytes'[c] = size /\ ret'[c] = Null
        BY DEF TypeOK, CallersOk
      <4>2. pc'[c] = "probe" => trans_page_size(size) # P_REFUSE
        BY DEF TypeOK
      <4> QED
        BY <1>1, <3>1, <4>1, <4>2, TransPageSize
    <3>2. CASE d # c
      BY <3>2 DEF TypeOK, CallersOk
    <3> QED
      BY <3>1, <3>2
  <2> QED
    BY <2>1 DEF CallersOk
<1> QED
  BY <1>2, <1>4, <1>5

LEMMA NoUnitInv ==
  ASSUME Inv, NEW c \in Callers, NoUnit(c)
  PROVE  Inv'
<1> USE DEF Inv, NoUnit
<1>1. TypeOK'
  BY DEF TypeOK
<1>2. \A d \in Callers : Returned(d)' = Returned(d)
  BY DEF Returned
<1>3. TreesOk' /\ AllPlaced' /\ PagesDisjoint'
  BY <1>2 DEF TreesOk, AllPlaced, Placed, PagesDisjoint
<1>4. CallersOk'
  BY DEF CallersOk, TypeOK
<1> QED
  BY <1>1, <1>3, <1>4

LEMMA AllocReturnInv ==
  ASSUME Inv, NEW c \in Callers, AllocReturn(c)
  PROVE  Inv'
<1> USE DEF Inv, AllocReturn
<1>1. live' = live \cup Returned(c) /\ Returned(c)' = {}
  BY DEF Returned, TypeOK
<1>2. \A d \in Callers \ {c} : Returned(d)' = Returned(d)
  BY DEF Returned, TypeOK
<1>3. TypeOK'
  <2>1. \A a \in Returned(c) : a.addr \in Nat /\ a.bytes \in Requests
    BY DEF Returned, TypeOK, CallersOk
  <2>2. \A a \in live' : a.addr \in Nat /\ a.bytes \in Requests
    BY <1>1, <2>1 DEF TypeOK
  <2> QED
    BY <2>2, PageAssumption DEF TypeOK
<1>4. TreesOk'
  BY DEF TreesOk
<1>5. AllPlaced'
  <2>1. \A a : Placed(a)' = Placed(a)
    BY DEF Placed
  <2> QED
    BY <1>1, <1>2, <2>1 DEF AllPlaced
<1>6. PagesDisjoint'
  <2>1. ASSUME NEW a \in live', NEW b \in live', a # b PROVE Disjoint(a, b)
    <3>1. CASE a \in live /\ b \in live
      BY <2>1, <3>1 DEF PagesDisjoint
    <3>2. CASE a \in Returned(c) /\ b \in Returned(c)
      BY <2>1, <3>2 DEF Returned
    <3>3. CASE a \in Returned(c) /\ b \in live
      BY <3>3 DEF PagesDisjoint
    <3>4. CASE a \in live /\ b \in Returned(c)
      BY <3>4 DEF PagesDisjoint, Disjoint
    <3> QED
      BY <1>1, <3>1, <3>2, <3>3, <3>4
  <2>2. ASSUME NEW d \in Callers, NEW a \in Returned(d)'
        PROVE  /\ a.addr >= begin_alloc_addr
               /\ a.addr + a.bytes <= begin_alloc_addr + real_page_num * power_of_two[P_16M]
               /\ \A b \in live' : Disjoint(a, b)
               /\ \A e \in Callers \ {d} : \A b \in Returned(e)' : Disjoint(a, b)
    <3>1. d # c /\ a \in Returned(d)
      BY <1>1, <1>2, <2>2
    <3>2. \A b \in live' : Disjoint(a, b)
      BY <1>1, <3>1 DEF PagesDisjoint
    <3>3. \A e \in Callers \ {d} : \A b \in Returned(e)' : Disjoint(a, b)
      BY <1>1, <1>2, <3>1 DEF PagesDisjoint
    <3> QED
      BY <3>1, <3>2, <3>3 DEF PagesDisjoint
  <2> QED
    BY <2>1, <2>2 DEF PagesDisjoint
<1>7. CallersOk'
  BY DEF CallersOk, TypeOK
<1> QED
  BY <1>3, <1>4, <1>5, <1>6, <1>7

LEMMA ProbeInv ==
  ASSUME Inv, NEW c \in Callers, Probe(c)
  PROVE  Inv'
<1> USE DEF Inv
<1>1. PICK u : u = unit[c]
  OBVIOUS
<1>2. PICK tree : tree = page[u]
  OBVIOUS
<1>3. PICK req : req = trans_page_size(bytes[c])
  OBVIOUS
<1>4. u \in Units /\ TreeOk(tree) /\ u \in Nat /\ u + 1 \in 0..real_page_num
  BY <1>1, <1>2, PageAssumption DEF TypeOK, Probe, Units, TreesOk
<1>5. bytes[c] \in Requests /\ bytes[c] \in Nat /\ req \in PAGE_SIZE /\ bytes[c] <= Pow[req]
  BY <1>3, TransPageSize, PageAssumption DEF CallersOk, Probe
<1>6. ret[c] = Null /\ pc[c] = "probe" /\ Returned(c) = {}
  BY DEF CallersOk, Probe, Returned
<1>7. CASE tree[1] < req
  <2>1. /\ unit' = [unit EXCEPT ![c] = u + 1]
        /\ UNCHANGED <<page, ret, pc, live, bytes>>
    BY <1>1, <1>2, <1>3, <1>7 DEF Probe
  <2>2. TypeOK'
    BY <2>1, <1>4 DEF TypeOK
  <2>3. \A d \in Callers : Returned(d)' = Returned(d)
    BY <2>1 DEF Returned
  <2>4. TreesOk' /\ AllPlaced' /\ PagesDisjoint' /\ CallersOk'
    BY <2>1, <2>3 DEF TreesOk, AllPlaced, Placed, PagesDisjoint, CallersOk
  <2> QED
    BY <2>2, <2>4
<1>8. CASE ~(tree[1] < req)
  <2>1. tree[1] >= req
    BY <1>4, <1>5, <1>8, RootNode, Values DEF PAGE_SIZE
  <2>2. PICK t \in Nodes : t = Target(tree, req) /\ DepthOf(t) = P_16M - req /\ tree[t] = req
    BY <1>4, <1>5, <2>1, TargetWhole
  <2>3. /\ page' = [page EXCEPT ![u] = TreeAfter(tree, req)]
        /\ ret' = [ret EXCEPT ![c] = Addr(u, t)]
        /\ pc' = [pc EXCEPT ![c] = "done"]
        /\ UNCHANGED <<live, bytes, unit>>
    BY <1>1, <1>2, <1>3, <1>5, <1>8, <2>2, Converted DEF Probe
  <2>4. TreeOk(TreeAfter(tree, req))
    BY <1>4, <1>5, <2>1, AfterOk
  <2>5. page' \in [Units -> [Nodes -> PAGE_SIZE \cup {HAVE_BUBBLE, FULL_USED}]] /\ TreesOk'
    BY <1>4, <2>3, <2>4 DEF TreesOk, TreeOk, TypeOK
  <2>6. Addr(u, t) \in Nat /\ Addr(u, t) # Null
    BY <1>4, AddrRange, PageAssumption
  <2>7. TypeOK'
    BY <2>3, <2>5, <2>6 DEF TypeOK
  <2>8. PICK new : new = [addr |-> Addr(u, t), bytes |-> bytes[c]]
    OBVIOUS
  <2>9. Returned(c)' = {new}
    BY <2>3, <2>6, <2>8 DEF Returned, TypeOK
  <2>10. \A d \in Callers \ {c} : Returned(d)' = Returned(d)
    BY <2>3 DEF Returned, TypeOK
  <2>11. new.bytes \in Nat /\ new.addr = Addr(u, t) /\ new.bytes <= Size(t)
    BY <1>5, <2>2, <2>8, Converted
  <2>12. page'[u][t] = FULL_USED
    BY <1>4, <1>5, <2>1, <2>2, <2>3, AfterFull DEF TypeOK
  <2>13. ASSUME NEW v \in Units, NEW n \in Nodes, page[v][n] = FULL_USED
         PROVE  page'[v][n] = FULL_USED /\ (u # v \/ Apart(n, t))
    <3>1. CASE v = u
      <4>1. tree[n] = FULL_USED
        BY <1>2, <2>13, <3>1
      <4>2. TreeAfter(tree, req)[n] = FULL_USED
        BY <1>4, <1>5, <2>1, <4>1, AfterFull
      <4>3. Apart(n, t)
        BY <1>4, <1>5, <2>1, <2>2, <4>1, TargetApart, Zenon
      <4> QED
        BY <2>3, <3>1, <4>2, <4>3 DEF TypeOK
    <3>2. CASE v # u
      BY <2>3, <2>13, <3>2 DEF TypeOK
    <3> QED
      BY <3>1, <3>2
  <2>14. AllPlaced'
    <3>1. ASSUME NEW a, Placed(a) PROVE Placed(a)'
      <4>1. PICK v \in Units, n \in Nodes :
              a.addr = Addr(v, n) /\ a.bytes <= Size(n) /\ page[v][n] = FULL_USED
        BY <3>1 DEF Placed
      <4> QED
        BY <4>1, <2>13 DEF Placed
    <3>2. Placed(new)'
      BY <1>4, <2>11, <2>12 DEF Placed
    <3>3. \A a \in live' : Placed(a)'
      BY <2>3, <3>1 DEF AllPlaced
    <3>4. \A d \in Callers : \A a \in Returned(d)' : Placed(a)'
      BY <2>9, <2>10, <3>1, <3>2 DEF AllPlaced
    <3> QED
      BY <3>3, <3>4 DEF AllPlaced
  <2>15. ASSUME NEW a, Placed(a), a.bytes \in Nat PROVE Disjoint(a, new) /\ Disjoint(new, a)
    <3>1. PICK v \in Units, n \in Nodes :
            a.addr = Addr(v, n) /\ a.bytes <= Size(n) /\ page[v][n] = FULL_USED
      BY <2>15 DEF Placed
    <3>2. v # u \/ Apart(n, t)
      BY <2>13, <3>1
    <3> QED
      BY <1>4, <2>11, <2>15, <3>1, <3>2, PlacesApart
  <2>16. \A a \in live : Placed(a) /\ a.bytes \in Nat
    BY PageAssumption DEF AllPlaced, TypeOK
  <2>17. \A d \in Callers : \A a \in Returned(d) : Placed(a) /\ a.bytes \in Nat
    <3>1. \A d \in Callers : \A a \in Returned(d) : a.bytes \in Requests
      BY DEF Returned, CallersOk
    <3> QED
      BY <3>1, PageAssumption DEF AllPlaced
  <2>18. /\ new.addr >= begin_alloc_addr
         /\ new.addr + new.bytes <= begin_alloc_addr + real_page_num * power_of_two[P_16M]
    <3>1. PICK s \in Nat, x \in Nat, y \in Nat :
            s = Pow[P_16M] /\ x = u * s /\ y = real_page_num * s /\ x + s <= y
      <4>1. PICK s \in Nat : s = Pow[P_16M]
        BY PowPositive, Sizes
      <4>2. u < real_page_num
        BY <1>4, PageAssumption DEF Units
      <4>3. u * s + s <= real_page_num * s
        BY <1>4, <4>1, <4>2, AddrRange, PageAssumption
      <4>4. u * s \in Nat /\ real_page_num * s \in Nat
        BY <1>4, <4>1, PageAssumption
      <4> QED
        BY <4>1, <4>3, <4>4
    <3>2. begin_alloc_addr + x <= Addr(u, t) /\ Addr(u, t) + Size(t) <= begin_alloc_addr + (x + s)
      BY <1>4, <3>1, AddrRange
    <3>3. Size(t) \in Nat /\ begin_alloc_addr \in Nat
      BY NodeSpan, PageAssumption
    <3> QED
      BY <2>6, <2>11, <3>1, <3>2, <3>3 DEF Pow
  <2>19. PagesDisjoint'
    <3>1. \A a, b \in live' : a # b => Disjoint(a, b)
      BY <2>3 DEF PagesDisjoint
    <3>2. ASSUME NEW d \in Callers, NEW a \in Returned(d)'
          PROVE  /\ a.addr >= begin_alloc_addr
                 /\ a.addr + a.bytes <= begin_alloc_addr + real_page_num * power_of_two[P_16M]
                 /\ \A b \in live' : Disjoint(a, b)
                 /\ \A e \in Callers \ {d} : \A b \in Returned(e)' : Disjoint(a, b)
      <4>1. CASE d = c
        <5>1. a = new
          BY <2>9, <3>2, <4>1
        <5>2. \A b \in live' : Disjoint(a, b)
          BY <2>3, <2>15, <2>16, <5>1
        <5>3. \A e \in Callers \ {d} : \A b \in Returned(e)' : Disjoint(a, b)
          BY <2>10, <2>15, <2>17, <4>1, <5>1
        <5> QED
          BY <2>18, <5>1, <5>2, <5>3
      <4>2. CASE d # c
        <5>1. a \in Returned(d)
          BY <2>10, <3>2, <4>2
        <5>2. \A b \in live' : Disjoint(a, b)
          BY <2>3, <5>1 DEF PagesDisjoint
        <5>3. ASSUME NEW e \in Callers \ {d}, NEW b \in Returned(e)' PROVE Disjoint(a, b)
          <6>1. CASE e = c
            BY <2>9, <2>15, <2>17, <5>1, <5>3, <6>1
          <6>2. CASE e # c
            BY <2>10, <5>1, <5>3, <6>2 DEF PagesDisjoint
          <6> QED
            BY <6>1, <6>2
        <5> QED
          BY <5>1, <5>2, <5>3 DEF PagesDisjoint
      <4> QED
        BY <4>1, <4>2
    <3> QED
      BY <3>1, <3>2 DEF PagesDisjoint
  <2>20. CallersOk'
    BY <1>5, <2>3 DEF CallersOk, TypeOK
  <2> QED
    BY <2>5, <2>7, <2>14, <2>19, <2>20
<1> QED
  BY <1>7, <1>8

(* free_space_in_page turns away at the root of the page's unit. *)
LEMMA FreeKeeps ==
  ASSUME Inv, NEW c \in Callers, NEW b \in live, Free(c, b)
  PROVE  page' = page
<1> USE DEF Inv, Free
<1>1. PICK u \in Units, n \in Nodes : b.addr = Addr(u, n)
  BY DEF AllPlaced, Placed
<1>2. UnitOf(b.addr) = u
  BY <1>1, UnitOfAddr
<1>3. TreeFreed(u, b.addr) = page[u]
  <2>1. /\ Addr(u, n) \in Nat /\ Size(n) \in Nat /\ Size(n) > 0 /\ u \in Nat
        /\ begin_alloc_addr \in Nat /\ u * Pow[P_16M] \in Nat /\ Pow[P_16M] \in Nat
    BY AddrRange, NodeSpan, PageAssumption DEF Units
  <2>2. Addr(u, n) + Size(n) <= begin_alloc_addr + (u * Pow[P_16M] + Pow[P_16M])
    BY AddrRange
  <2>3. Addr(u, n) < begin_alloc_addr + u * Pow[P_16M] + Pow[P_16M]
    BY <2>1, <2>2
  <2> QED
    BY <1>1, <2>1, <2>3, FreedSame
<1> QED
  BY <1>2, <1>3 DEF TypeOK

LEMMA FreeInv ==
  ASSUME Inv, NEW c \in Callers, NEW b \in live, Free(c, b)
  PROVE  Inv'
<1> USE DEF Inv, Free
<1>1. page' = page
  BY FreeKeeps
<1>2. TypeOK'
  BY <1>1 DEF TypeOK
<1>3. \A d \in Callers : Returned(d)' = Returned(d)
  BY DEF Returned
<1>4. TreesOk' /\ AllPlaced' /\ PagesDisjoint' /\ CallersOk'
  BY <1>1, <1>3 DEF TreesOk, AllPlaced, Placed, PagesDisjoint, CallersOk
<1> QED
  BY <1>2, <1>4

LEMMA StepInv == Inv /\ [Next]_vars => Inv'
<1> SUFFICES ASSUME Inv, [Next]_vars PROVE Inv'
  OBVIOUS
<1>1. CASE UNCHANGED vars
  BY <1>1 DEF vars, Inv, TypeOK, TreesOk, AllPlaced, Placed, Returned, PagesDisjoint, CallersOk
<1>2. CASE Next
  BY <1>2, AllocCallInv, ProbeInv, NoUnitInv, AllocReturnInv, FreeInv DEF Next
<1> QED
  BY <1>1, <1>2

LEMMA Invariant == Spec => []Inv
BY InitInv, StepInv, PTL DEF Spec

(* Sizes, addresses and callers keep their types, whatever is allocated and    *)
(* freed, on any number of CPUs: a node holds a page size, HAVE_BUBBLE or      *)
(* FULL_USED, and page_alloc goes on to the unit after the last at most.       *)
THEOREM TypeCorrect == Spec => []TypeOK
<1>1. Inv => TypeOK
  BY DEF Inv
<1> QED
  BY <1>1, Invariant, PTL

(* No two pages in use or about to be returned overlap, and they lie in the    *)
(* units, for any sizes of pages, number of units, requests and callers.       *)
THEOREM PagesAreDisjoint == Spec => []PagesDisjoint
<1>1. Inv => PagesDisjoint
  BY DEF Inv
<1> QED
  BY <1>1, Invariant, PTL

(* The unit that page_alloc chooses by its root always has the page it needs.  *)
THEOREM RootsAreTruthful == Spec => []RootsTruthful
<1>1. ASSUME Inv, NEW u \in Units, NEW req \in PAGE_SIZE, page[u][1] >= req
      PROVE  page[u][Target(page[u], req)] = req
  BY <1>1, TargetWhole DEF Inv, TreesOk
<1>2. Inv => RootsTruthful
  BY <1>1 DEF RootsTruthful
<1> QED
  BY <1>2, Invariant, PTL

(* free_space_in_page returns at the root, so kfree gives no page back: what a *)
(* step does to a tree is to take pages, never to free one.                    *)
THEOREM NothingIsFreed ==
  Spec => [][\A u \in Units, n \in Nodes :
               page[u][n] = FULL_USED => page'[u][n] = FULL_USED]_vars
<1>1. ASSUME Inv, [Next]_vars, NEW u \in Units, NEW n \in Nodes, page[u][n] = FULL_USED
      PROVE  page'[u][n] = FULL_USED
  <2>1. CASE page' = page
    BY <1>1, <2>1
  <2>2. ASSUME NEW c \in Callers, Probe(c) PROVE page'[u][n] = FULL_USED
    <3>1. CASE page' = page
      BY <2>1, <3>1
    <3>2. CASE page' # page
      <4>1. PICK req : req = trans_page_size(bytes[c])
        OBVIOUS
      <4>2. page' = [page EXCEPT ![unit[c]] = TreeAfter(page[unit[c]], req)]
            /\ ~(page[unit[c]][1] < req)
        BY <2>2, <3>2, <4>1 DEF Probe
      <4>3. req \in PAGE_SIZE
        BY <1>1, <2>2, <4>1, TransPageSize, PageAssumption DEF Inv, CallersOk, Probe
      <4>4. CASE unit[c] = u
        <5>1. TreeOk(page[u])
          BY <1>1 DEF Inv, TreesOk
        <5>2. page[u][1] >= req
          BY <4>2, <4>3, <4>4, <5>1, RootNode, Values DEF PAGE_SIZE
        <5>3. TreeAfter(page[u], req)[n] = FULL_USED
          BY <1>1, <4>3, <5>1, <5>2, AfterFull
        <5> QED
          BY <1>1, <4>2, <4>4, <5>3 DEF Inv, TypeOK
      <4>5. CASE unit[c] # u
        BY <1>1, <4>2, <4>5 DEF Inv, TypeOK
      <4> QED
        BY <4>4, <4>5
    <3> QED
      BY <3>1, <3>2
  <2>3. CASE UNCHANGED vars
    BY <2>1, <2>3 DEF vars
  <2>4. ASSUME NEW c \in Callers,
               (\E size \in Requests : AllocCall(c, size)) \/ NoUnit(c) \/ AllocReturn(c)
        PROVE  page' = page
    BY <2>4 DEF AllocCall, NoUnit, AllocReturn
  <2>5. ASSUME NEW c \in Callers, NEW b \in live, Free(c, b) PROVE page' = page
    BY <1>1, <2>5, FreeKeeps
  <2> QED
    BY <1>1, <2>1, <2>2, <2>3, <2>4, <2>5 DEF Next
<1>2. Inv /\ [Next]_vars =>
        [\A u \in Units, n \in Nodes :
           page[u][n] = FULL_USED => page'[u][n] = FULL_USED]_vars
  BY <1>1
<1> QED
  BY <1>2, Invariant, PTL DEF Spec
=============================================================================
