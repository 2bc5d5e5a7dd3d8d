-------------------------- MODULE TimerListLemmas --------------------------
(***************************************************************************)
(* What the operators of TimerList compute: distances on the counter, and  *)
(* the times of the nodes of a list from which nodes were taken, or into   *)
(* which one was put.                                                      *)
(***************************************************************************)
EXTENDS TimerListInv, NaturalSets, FiniteSetTheorems, SequenceTheorems

NodeSeq == Seq([timer : Timers, wait : Nat])

-----------------------------------------------------------------------------
(* Distances on the counter. *)

(* The constants are what arithmetic needs them to be. *)
LEMMA ConstantsType ==
  /\ CounterSize \in Nat \ {0} /\ Half \in Nat /\ 2 * Half < CounterSize
  /\ Slack \in Nat /\ CompareOffset \in Nat
  /\ \A t \in Timers : Wait[t] \in Nat /\ Wait[t] <= Slack /\ MaxLate(t) \in Nat
  /\ OpQueueSize \in Nat /\ Cardinality(Timers) \in Nat /\ Offsets \in Nat
  /\ Behind \in Nat /\ Behind = Offsets + Slack
  /\ \A t \in Timers : Interval[t] \in Nat /\ Interval[t] >= 1
  /\ CompareOffset >= 2
<1>1. Cardinality(Timers) \in Nat
  BY TimingAssumption, FS_CardinalityType
<1>2. CounterSize \in Nat \ {0} /\ Half \in Nat /\ 2 * Half < CounterSize
  BY TimerListAssumption DEF Half
<1>3. CompareOffset - 1 \in Nat
  BY TimerListAssumption, TimingAssumption
<1>4. Offsets \in Nat
  <2> DEFINE n == Cardinality(Timers)
             s == CompareOffset - 1
  <2>1. n \in Nat /\ s \in Nat
    BY <1>1, <1>3
  <2> HIDE DEF n, s
  <2>2. n * s \in Nat
    BY <2>1
  <2> QED
    BY <2>2 DEF Offsets, n, s
<1>5. \A t \in Timers : Interval[t] \in Nat /\ Interval[t] >= 1
  BY TimerListAssumption
<1>6. Behind \in Nat /\ Behind = Offsets + Slack
  BY <1>4, TimerListAssumption DEF Behind
<1>7. ASSUME NEW t \in Timers
      PROVE  Wait[t] \in Nat /\ Wait[t] <= Slack /\ MaxLate(t) \in Nat
  <2>1. Wait[t] \in 0..Slack /\ Slack \in Nat
    BY TimerListAssumption
  <2> QED
    BY <1>4, <2>1 DEF MaxLate
<1> QED
  BY <1>1, <1>2, <1>4, <1>5, <1>6, <1>7, TimerListAssumption, TimingAssumption

(* The counter wraps around. *)
LEMMA WrapCases ==
  ASSUME NEW n \in Int
  PROVE  /\ n % CounterSize \in Counters
         /\ 0 <= n /\ n < CounterSize => n % CounterSize = n
         /\ CounterSize <= n /\ n < 2 * CounterSize => n % CounterSize = n - CounterSize
         /\ -CounterSize <= n /\ n < 0 => n % CounterSize = n + CounterSize
<1> DEFINE m == CounterSize
<1>1. m \in Nat \ {0}
  BY ConstantsType
<1> SUFFICES /\ n % m \in 0..(m - 1)
             /\ 0 <= n /\ n < m => n % m = n
             /\ m <= n /\ n < 2 * m => n % m = n - m
             /\ -m <= n /\ n < 0 => n % m = n + m
  BY DEF Counters
<1> HIDE DEF m
<1>2. n % m \in 0..(m - 1)
  BY <1>1
<1>3. 0 <= n /\ n < m => n % m = n
  BY <1>1
<1>4. m <= n /\ n < 2 * m => n % m = n - m
  BY <1>1
<1>5. -m <= n /\ n < 0 => n % m = n + m
  BY <1>1
<1> QED
  BY <1>2, <1>3, <1>4, <1>5

(* The distance of two values of the counter. *)
LEMMA DiffCases ==
  ASSUME NEW a \in Counters, NEW b \in Counters
  PROVE  /\ Diff(a, b) \in Counters
         /\ b <= a => Diff(a, b) = a - b
         /\ a < b => Diff(a, b) = (a - b) + CounterSize
<1>1. a \in Int /\ b \in Int /\ 0 <= a /\ 0 <= b /\ a < CounterSize /\ b < CounterSize
  BY ConstantsType DEF Counters
<1>2. a - b \in Int /\ a - b < CounterSize /\ -CounterSize <= a - b /\ CounterSize \in Int
  BY <1>1, ConstantsType
<1>3. Diff(a, b) = (a - b) % CounterSize
  BY DEF Diff
<1> HIDE DEF Diff
<1>4. Diff(a, b) \in Counters
  BY <1>2, <1>3, WrapCases
<1>5. b <= a => Diff(a, b) = a - b
  <2>1. b <= a => 0 <= a - b
    BY <1>1
  <2> QED
    BY <2>1, <1>2, <1>3, WrapCases
<1>6. a < b => Diff(a, b) = (a - b) + CounterSize
  <2>1. a < b => a - b < 0
    BY <1>1
  <2> QED
    BY <2>1, <1>2, <1>3, WrapCases
<1> QED
  BY <1>4, <1>5, <1>6

(* What the counter holds is a number. *)
LEMMA CountersInt == \A n \in Counters : n \in Int /\ 0 <= n /\ n < CounterSize
BY ConstantsType DEF Counters

(* The counter's value at a distance of base. *)
LEMMA DiffOfWrap ==
  ASSUME NEW base \in Counters, NEW x \in Int, -CounterSize < x, x < CounterSize
  PROVE  /\ (base + x) % CounterSize \in Counters
         /\ 0 <= x => Diff((base + x) % CounterSize, base) = x
         /\ x < 0 => Diff((base + x) % CounterSize, base) = x + CounterSize
<1> DEFINE a == (base + x) % CounterSize
<1>1. base \in Int /\ 0 <= base /\ base < CounterSize /\ CounterSize \in Int
  BY CountersInt, ConstantsType
<1>2. base + x \in Int /\ -CounterSize <= base + x /\ base + x < 2 * CounterSize
  BY <1>1
<1>3. /\ a \in Counters
      /\ 0 <= base + x /\ base + x < CounterSize => a = base + x
      /\ CounterSize <= base + x => a = (base + x) - CounterSize
      /\ base + x < 0 => a = (base + x) + CounterSize
  BY <1>2, WrapCases
<1> HIDE DEF a
<1>4. a \in Int /\ 0 <= a /\ a < CounterSize
  BY <1>3, CountersInt
<1>5. /\ base <= a => Diff(a, base) = a - base
      /\ a < base => Diff(a, base) = (a - base) + CounterSize
      /\ Diff(a, base) \in Int
  BY <1>3, DiffCases, CountersInt
<1>6. 0 <= x => Diff(a, base) = x
  BY <1>1, <1>3, <1>4, <1>5
<1>7. x < 0 => Diff(a, base) = x + CounterSize
  BY <1>1, <1>3, <1>4, <1>5
<1> QED
  BY <1>3, <1>6, <1>7 DEF a

(* A base that moves forward by e. *)
LEMMA DiffOfAdvanced ==
  ASSUME NEW a \in Counters, NEW base \in Counters, NEW e \in Int, 0 <= e, e < CounterSize
  PROVE  LET d == Diff(a, (base + e) % CounterSize)
         IN  /\ e <= Diff(a, base) => d = Diff(a, base) - e
             /\ Diff(a, base) < e => d = Diff(a, base) - e + CounterSize
<1> DEFINE b == (base + e) % CounterSize
           d == Diff(a, b)
           f == Diff(a, base)
<1>1. /\ base \in Int /\ 0 <= base /\ base < CounterSize /\ CounterSize \in Int
      /\ a \in Int /\ 0 <= a /\ a < CounterSize
  BY CountersInt, ConstantsType
<1>2. base + e \in Int /\ 0 <= base + e /\ base + e < 2 * CounterSize
  BY <1>1
<1>3. /\ b \in Counters
      /\ base + e < CounterSize => b = base + e
      /\ CounterSize <= base + e => b = (base + e) - CounterSize
  BY <1>2, WrapCases
<1> HIDE DEF b
<1>4. b \in Int /\ 0 <= b /\ b < CounterSize
  BY <1>3, CountersInt
<1>5. d \in Int /\ (b <= a => d = a - b) /\ (a < b => d = (a - b) + CounterSize)
  BY <1>3, DiffCases, CountersInt
<1>6. f \in Int /\ (base <= a => f = a - base) /\ (a < base => f = (a - base) + CounterSize)
  BY DiffCases, CountersInt
<1> HIDE DEF d, f
<1>7. e <= f => d = f - e
  BY <1>1, <1>3, <1>4, <1>5, <1>6
<1>8. f < e => d = f - e + CounterSize
  BY <1>1, <1>3, <1>4, <1>5, <1>6
<1> QED
  BY <1>7, <1>8 DEF d, f, b

-----------------------------------------------------------------------------
(* Functions defined by recursion on a bounded index. *)

Recursions(n, S, s, g) ==
  {f \in [0..n -> S] : f[0] = s /\ \A k \in 1..n : f[k] = g[<<k, f[k - 1]>>]}

(* A recursive function over 0..n exists. *)
LEMMA RecursionExists ==
  ASSUME NEW n \in Nat, NEW S, NEW s \in S, NEW g \in [(1..n) \X S -> S]
  PROVE  \E f : f \in Recursions(n, S, s, g)
<1> DEFINE Has(m, f) == f[0] = s /\ \A k \in 1..m : f[k] = g[<<k, f[k - 1]>>]
           T == {m \in 0..n : \E f \in [0..m -> S] : Has(m, f)}
<1>1. 0 \in T
  <2> DEFINE f == [k \in 0..0 |-> s]
  <2>1. f \in [0..0 -> S] /\ Has(0, f) /\ 0 \in 0..n
    OBVIOUS
  <2> HIDE DEF f, Has
  <2> QED
    BY <2>1
<1>2. ASSUME NEW m \in 0..(n - 1), m \in T
      PROVE  m + 1 \in T
  <2>1. PICK f \in [0..m -> S] : Has(m, f)
    BY <1>2
  <2>2. m + 1 \in 1..n /\ m \in Nat /\ f[m] \in S
    OBVIOUS
  <2>3. g[<<m + 1, f[m]>>] \in S
    BY <2>2
  <2> DEFINE v == g[<<m + 1, f[m]>>]
             h == [k \in 0..(m + 1) |-> IF k = m + 1 THEN v ELSE f[k]]
  <2> HIDE DEF v
  <2>4. v \in S
    BY <2>3 DEF v
  <2>5. h \in [0..(m + 1) -> S]
    BY <2>2, <2>4
  <2>6. ASSUME NEW k \in 1..(m + 1) PROVE h[k] = g[<<k, h[k - 1]>>]
    <3>1. CASE k = m + 1
      <4>1. h[k] = v /\ h[k - 1] = f[m]
        BY <2>2, <3>1
      <4> QED
        BY <4>1, <3>1 DEF v
    <3>2. CASE k # m + 1
      <4>1. k \in 1..m /\ h[k] = f[k] /\ h[k - 1] = f[k - 1]
        BY <2>2, <3>2
      <4> QED
        BY <4>1, <2>1
    <3> QED
      BY <3>1, <3>2
  <2>7. h[0] = s
    BY <2>1, <2>2
  <2> HIDE DEF h
  <2>8. Has(m + 1, h)
    BY <2>6, <2>7
  <2>9. m + 1 \in 0..n
    BY <2>2
  <2> HIDE DEF Has
  <2> QED
    BY <2>5, <2>8, <2>9
<1> HIDE DEF T
<1>3. 0..n \subseteq T
  BY <1>1, <1>2, UpToInduction
<1>4. n \in T
  BY <1>3
<1>5. \E f \in [0..n -> S] : Has(n, f)
  BY <1>4 DEF T
<1> QED
  BY <1>5 DEF Recursions

-----------------------------------------------------------------------------
(* The times of a list. *)

(* The nodes of a list. *)
LEMMA NodeSeqType ==
  ASSUME NEW l \in NodeSeq
  PROVE  /\ Len(l) \in Nat /\ DOMAIN l = 1..Len(l)
         /\ \A i \in 1..Len(l) : /\ l[i].timer \in Timers /\ l[i].wait \in Nat
                                 /\ l[i] = Node(l[i].timer, l[i].wait)
<1>1. Len(l) \in Nat /\ DOMAIN l = 1..Len(l)
  BY DEF NodeSeq
<1>2. ASSUME NEW i \in 1..Len(l)
      PROVE  /\ l[i].timer \in Timers /\ l[i].wait \in Nat
             /\ l[i] = Node(l[i].timer, l[i].wait)
  <2> DEFINE S == [timer : Timers, wait : Nat]
  <2> HIDE DEF S
  <2>0. l \in Seq(S)
    BY DEF NodeSeq, S
  <2>1. l[i] \in [timer : Timers, wait : Nat]
    BY <2>0, ElementOfSeq DEF S
  <2> QED
    BY <2>1 DEF Node
<1> QED
  BY <1>1, <1>2

(* Times adds up the ticks. *)
LEMMA TimesDef ==
  ASSUME NEW l \in NodeSeq
  PROVE  /\ Times(l) \in [0..Len(l) -> Nat]
         /\ Times(l)[0] = 0
         /\ \A i \in 1..Len(l) : Times(l)[i] = Times(l)[i - 1] + l[i].wait
<1> DEFINE n == Len(l)
           g == [p \in (1..n) \X Nat |-> p[2] + l[p[1]].wait]
           Def(u) == [i \in 0..n |-> IF i = 0 THEN 0 ELSE u[i - 1] + l[i].wait]
<1>1. n \in Nat /\ \A i \in 1..n : l[i].wait \in Nat
  BY NodeSeqType
<1> HIDE DEF n
<1>2. g \in [(1..n) \X Nat -> Nat]
  <2>1. ASSUME NEW p \in (1..n) \X Nat PROVE p[2] + l[p[1]].wait \in Nat
    <3>1. p[1] \in 1..n /\ p[2] \in Nat
      OBVIOUS
    <3>2. l[p[1]].wait \in Nat
      BY <1>1, <3>1
    <3> QED
      BY <3>1, <3>2
  <2> QED
    BY <2>1
<1>3. \A i \in 1..n, v \in Nat : g[<<i, v>>] = v + l[i].wait
  OBVIOUS
<1> HIDE DEF g
<1>a. PICK f : f \in Recursions(n, Nat, 0, g)
  <2>1. 0 \in Nat
    OBVIOUS
  <2> QED
    BY <1>1, <1>2, <2>1, RecursionExists
<1>4. f \in [0..n -> Nat] /\ f[0] = 0 /\ \A k \in 1..n : f[k] = g[<<k, f[k - 1]>>]
  BY <1>a DEF Recursions
<1>5. f = Def(f)
  <2>1. ASSUME NEW i \in 0..n PROVE f[i] = Def(f)[i]
    <3>1. CASE i = 0
      BY <3>1, <1>4
    <3>2. CASE i # 0
      <4>1. i \in 1..n /\ f[i - 1] \in Nat
        BY <1>1, <1>4, <3>2
      <4>2. f[i] = g[<<i, f[i - 1]>>]
        BY <1>4, <4>1
      <4>3. g[<<i, f[i - 1]>>] = f[i - 1] + l[i].wait
        BY <1>3, <4>1
      <4> QED
        BY <3>2, <4>2, <4>3
    <3> QED
      BY <3>1, <3>2
  <2> QED
    BY <1>4, <2>1
<1>6. Times(l) = CHOOSE u : u = Def(u)
  BY DEF Times, n
<1> DEFINE u == Times(l)
<1> HIDE DEF u
<1>7. u = Def(u)
  BY <1>5, <1>6 DEF u
<1>8. u[0] = 0 /\ \A i \in 1..n : u[i] = u[i - 1] + l[i].wait
  <2>1. Def(u)[0] = 0
    BY <1>1
  <2>2. \A i \in 1..n : i \in 0..n /\ i # 0
    BY <1>1
  <2>3. \A i \in 1..n : Def(u)[i] = u[i - 1] + l[i].wait
    BY <2>2
  <2> HIDE DEF Def
  <2> QED
    BY <1>7, <2>1, <2>3
<1> DEFINE T == {k \in 0..n : u[k] \in Nat}
<1>9. 0..n \subseteq T
  <2>1. 0 \in T
    BY <1>1, <1>8
  <2>2. ASSUME NEW k \in 0..(n - 1), k \in T PROVE k + 1 \in T
    <3>1. k + 1 \in 1..n /\ (k + 1) - 1 = k /\ l[k + 1].wait \in Nat /\ u[k] \in Nat
      BY <1>1, <2>2
    <3>2. u[k + 1] = u[k] + l[k + 1].wait
      BY <1>8, <3>1
    <3> QED
      BY <3>1, <3>2
  <2> HIDE DEF T
  <2> QED
    BY <1>1, <2>1, <2>2, UpToInduction
<1>10. u \in [0..n -> Nat]
  BY <1>7, <1>9
<1> QED
  BY <1>8, <1>10 DEF u, n

(* The same of Until. *)
LEMMA UntilDef ==
  ASSUME NEW l \in NodeSeq
  PROVE  /\ Until(l, 0) = 0
         /\ \A i \in 0..Len(l) : Until(l, i) \in Nat
         /\ \A i \in 1..Len(l) : Until(l, i) = Until(l, i - 1) + l[i].wait
BY TimesDef DEF Until

(* A function that adds up the ticks of a list is its times. *)
LEMMA UntilUnique ==
  ASSUME NEW l \in NodeSeq, NEW g, g[0] = 0,
         \A i \in 1..Len(l) : g[i] = g[i - 1] + l[i].wait
  PROVE  \A i \in 0..Len(l) : Until(l, i) = g[i]
<1> DEFINE n == Len(l)
           T == {i \in 0..n : Until(l, i) = g[i]}
<1>1. n \in Nat
  BY NodeSeqType
<1>2. 0 \in T
  BY <1>1, UntilDef
<1>3. ASSUME NEW k \in 0..(n - 1), k \in T PROVE k + 1 \in T
  <2>1. k + 1 \in 1..n /\ (k + 1) - 1 = k /\ Until(l, k) = g[k]
    BY <1>1, <1>3
  <2>2. Until(l, k + 1) = Until(l, k) + l[k + 1].wait
    BY <2>1, UntilDef
  <2>3. g[k + 1] = g[k] + l[k + 1].wait
    BY <2>1
  <2>4. k + 1 \in 0..n
    BY <2>1, <1>1
  <2> QED
    BY <2>1, <2>2, <2>3, <2>4
<1> HIDE DEF T
<1>4. 0..n \subseteq T
  BY <1>1, <1>2, <1>3, UpToInduction
<1> QED
  BY <1>4 DEF T

(* No node is due before the one in front of it. *)
LEMMA UntilGrows ==
  ASSUME NEW l \in NodeSeq, NEW i \in 0..Len(l), NEW j \in i..Len(l)
  PROVE  Until(l, i) <= Until(l, j)
<1> DEFINE n == Len(l)
           m == n - i
           T == {k \in 0..m : Until(l, i) <= Until(l, i + k)}
<1>1. n \in Nat /\ m \in Nat /\ i \in Nat
  BY NodeSeqType
<1>2. 0 \in T
  <2>1. i + 0 = i /\ 0 \in 0..m
    BY <1>1
  <2>2. Until(l, i) \in Nat
    BY UntilDef
  <2> QED
    BY <2>1, <2>2
<1>3. ASSUME NEW k \in 0..(m - 1), k \in T PROVE k + 1 \in T
  <2>1. /\ i + (k + 1) \in 1..n /\ (i + (k + 1)) - 1 = i + k /\ k + 1 \in 0..m
        /\ i + k \in 0..n /\ i \in 0..n
    BY <1>1
  <2>2. Until(l, i) \in Nat /\ Until(l, i + k) \in Nat /\ Until(l, i + (k + 1)) \in Nat
    <3>1. i + (k + 1) \in 0..n
      BY <1>1
    <3> QED
      BY <2>1, <3>1, UntilDef
  <2>3. Until(l, i + (k + 1)) = Until(l, i + k) + l[i + (k + 1)].wait
    BY <2>1, UntilDef
  <2>4. l[i + (k + 1)].wait \in Nat
    BY <2>1, NodeSeqType
  <2>5. Until(l, i) <= Until(l, i + k)
    BY <1>3
  <2>6. Until(l, i) <= Until(l, i + (k + 1))
    BY <2>2, <2>3, <2>4, <2>5
  <2> QED
    BY <2>1, <2>6
<1> HIDE DEF T
<1>4. 0..m \subseteq T
  BY <1>1, <1>2, <1>3, UpToInduction
<1>5. j - i \in 0..m /\ i + (j - i) = j
  BY <1>1
<1> QED
  BY <1>4, <1>5 DEF T

(* A set of indices that holds what is before any of its elements. *)
LEMMA FrontIndices ==
  ASSUME NEW n \in Nat, NEW S \in SUBSET (1..n),
         \A i \in S : \A j \in 1..i : j \in S
  PROVE  /\ Cardinality(S) \in 0..n
         /\ S = 1..Cardinality(S)
<1>1. \E k \in 0..n : S = 1..k
  <2>1. CASE S = {}
    BY <2>1
  <2>2. CASE S # {}
    <3>1. S \in SUBSET (0..((n + 1) - 1)) /\ n + 1 \in Nat
      OBVIOUS
    <3>2. PICK k \in S : \A y \in S : y <= k
      BY <2>2, <3>1, MaxExists
    <3>3. k \in 0..n /\ \A y \in S : y \in 1..k
      BY <3>2
    <3> QED
      BY <3>2, <3>3
  <2> QED
    BY <2>1, <2>2
<1>2. PICK k \in 0..n : S = 1..k
  BY <1>1
<1>3. 1 \in Int /\ k \in Int
  OBVIOUS
<1>4. Cardinality(1..k) = IF 1 > k THEN 0 ELSE k - 1 + 1
  BY <1>3, FS_Interval
<1>5. Cardinality(1..k) = k
  BY <1>4
<1> QED
  BY <1>2, <1>5

(* What n ticks cover is the front of the list. *)
LEMMA CoveredDef ==
  ASSUME NEW l \in NodeSeq, NEW n \in Int
  PROVE  /\ Covered(l, n) \in 0..Len(l)
         /\ \A i \in 1..Len(l) : i <= Covered(l, n) <=> Until(l, i) <= n
<1> DEFINE S == {i \in DOMAIN l : Until(l, i) <= n}
<1>1. Len(l) \in Nat /\ DOMAIN l = 1..Len(l)
  BY NodeSeqType
<1>2. \A i \in S : \A j \in 1..i : j \in S
  <2> SUFFICES ASSUME NEW i \in S, NEW j \in 1..i PROVE j \in S
    OBVIOUS
  <2>1. i \in 1..Len(l) /\ j \in 1..Len(l) /\ j \in 0..Len(l) /\ i \in j..Len(l) /\ i \in 0..Len(l)
    BY <1>1
  <2>2. Until(l, j) <= Until(l, i)
    BY <2>1, UntilGrows
  <2>3. Until(l, j) \in Nat /\ Until(l, i) \in Nat
    BY <2>1, UntilDef
  <2>4. Until(l, i) <= n
    OBVIOUS
  <2>5. Until(l, j) <= n
    BY <2>2, <2>3, <2>4
  <2> QED
    BY <2>1, <2>5, <1>1
<1>3. Cardinality(S) = Covered(l, n)
  BY DEF Covered
<1>4. S \in SUBSET (1..Len(l))
  BY <1>1
<1>5. Covered(l, n) \in 0..Len(l) /\ S = 1..Covered(l, n)
  <2> HIDE DEF S
  <2> QED
    BY <1>1, <1>2, <1>3, <1>4, FrontIndices
<1>6. \A i \in 1..Len(l) : i \in S <=> i <= Covered(l, n)
  <2> HIDE DEF S
  <2> QED
    BY <1>1, <1>5
<1> QED
  BY <1>1, <1>5, <1>6

-----------------------------------------------------------------------------
(* A node put into a list. *)

(* A node has its fields. *)
LEMMA NodeFields ==
  ASSUME NEW t \in Timers, NEW n \in Nat
  PROVE  /\ Node(t, n) \in [timer : Timers, wait : Nat]
         /\ Node(t, n).timer = t /\ Node(t, n).wait = n
BY DEF Node

(* A function over 1..n is a sequence. *)
LEMMA SeqIntro ==
  ASSUME NEW n \in Nat, NEW S, NEW f \in [1..n -> S]
  PROVE  f \in Seq(S) /\ Len(f) = n /\ DOMAIN f = 1..n
OBVIOUS

(* A function of nodes over 1..n is a list. *)
LEMMA NodeSeqIntro ==
  ASSUME NEW n \in Nat, NEW f, DOMAIN f = 1..n, f = [i \in DOMAIN f |-> f[i]],
         \A i \in 1..n : \E t \in Timers, w \in Nat : f[i] = Node(t, w)
  PROVE  f \in NodeSeq /\ Len(f) = n
<1> DEFINE S == [timer : Timers, wait : Nat]
<1>1. \A i \in 1..n : f[i] \in S
  BY NodeFields
<1> HIDE DEF S
<1>2. f \in [1..n -> S]
  BY <1>1
<1>3. f \in Seq(S) /\ Len(f) = n
  BY <1>2, SeqIntro
<1> QED
  BY <1>3 DEF NodeSeq, S

(* timer_list_insert: the nodes that are due earlier stay in front, the    *)
(* others come after the new one, and all keep their times.                *)
LEMMA InsertedDef ==
  ASSUME NEW l \in NodeSeq, NEW t \in Timers, NEW n \in Nat
  PROVE  LET m == Inserted(l, t, n)
         IN  /\ m \in NodeSeq /\ Len(m) = Len(l) + 1
             /\ \E b \in 0..Len(l) :
                  /\ \A i \in 1..Len(l) : i <= b <=> Until(l, i) < n
                  /\ m[b + 1].timer = t /\ Until(m, b + 1) = n
                  /\ \A i \in 1..Len(l) :
                       LET k == IF i <= b THEN i ELSE i + 1
                       IN  m[k].timer = l[i].timer /\ Until(m, k) = Until(l, i)
<1> DEFINE m == Inserted(l, t, n)
           z == Len(l)
           b == Covered(l, n - 1)
           rest == n - Until(l, b)
<1>1. z \in Nat /\ DOMAIN l = 1..z
  BY NodeSeqType
<1>2. \A i \in 0..z : Until(l, i) \in Nat
  BY UntilDef
<1>3. n - 1 \in Int /\ \A v \in Nat : v < n <=> v <= n - 1
  OBVIOUS
<1>4. b = Cardinality({i \in DOMAIN l : Until(l, i) < n})
  <2>1. \A i \in DOMAIN l : Until(l, i) < n <=> Until(l, i) <= n - 1
    BY <1>1, <1>2, <1>3
  <2>2. {i \in DOMAIN l : Until(l, i) < n} = {i \in DOMAIN l : Until(l, i) <= n - 1}
    BY <2>1
  <2> QED
    BY <2>2 DEF Covered
<1>5. b \in 0..z /\ \A i \in 1..z : i <= b <=> Until(l, i) < n
  <2>1. b \in 0..z /\ \A i \in 1..z : i <= b <=> Until(l, i) <= n - 1
    BY <1>3, CoveredDef
  <2> QED
    BY <1>1, <1>2, <1>3, <2>1
<1> DEFINE F(i) == IF i <= b          THEN l[i]
                   ELSE IF i = b + 1  THEN Node(t, rest)
                   ELSE IF i = b + 2  THEN Node(l[i - 1].timer, l[i - 1].wait - rest)
                   ELSE l[i - 1]
<1>6. m = [i \in 1..(z + 1) |-> F(i)]
  BY <1>4 DEF Inserted
<1> HIDE DEF m, z, b
<1>7. rest \in Nat
  <2>1. CASE b = 0
    BY <2>1, UntilDef
  <2>2. CASE b # 0
    <3>1. b \in 1..z /\ b <= b /\ b \in 0..z
      BY <1>1, <1>5, <2>2
    <3>2. Until(l, b) < n /\ Until(l, b) \in Nat
      BY <1>2, <1>5, <3>1
    <3> QED
      BY <3>2
  <2> QED
    BY <2>1, <2>2
<1>8. Until(l, b) + rest = n
  BY <1>2, <1>5
<1>9. b + 1 <= z => l[b + 1].wait - rest \in Nat
  <2>1. SUFFICES ASSUME b + 1 <= z PROVE l[b + 1].wait - rest \in Nat
    OBVIOUS
  <2>2. b + 1 \in 1..z /\ ~(b + 1 <= b) /\ (b + 1) - 1 = b /\ b + 1 \in 0..z
    BY <1>1, <1>5, <2>1
  <2>3. Until(l, b + 1) = Until(l, b) + l[b + 1].wait
    BY <2>2, UntilDef DEF z
  <2>4. ~(Until(l, b + 1) < n)
    BY <1>5, <2>2
  <2>5. Until(l, b + 1) \in Nat /\ Until(l, b) \in Nat /\ l[b + 1].wait \in Nat
    BY <1>2, <1>5, <2>2, NodeSeqType DEF z
  <2> QED
    BY <2>3, <2>4, <2>5, <1>7, <1>8
<1>10. \A i \in 1..z : l[i].timer \in Timers /\ l[i].wait \in Nat
                       /\ l[i] = Node(l[i].timer, l[i].wait)
  BY NodeSeqType DEF z
<1> HIDE DEF rest
<1>11. m \in NodeSeq /\ Len(m) = z + 1
  <2>1. DOMAIN m = 1..(z + 1) /\ m = [i \in DOMAIN m |-> m[i]]
    BY <1>6
  <2>2. ASSUME NEW i \in 1..(z + 1)
        PROVE  \E u \in Timers, w \in Nat : m[i] = Node(u, w)
    <3>0. i \in Nat /\ b \in Nat /\ b <= z /\ m[i] = F(i)
      BY <1>1, <1>5, <1>6
    <3>1. CASE i <= b
      <4>1. i \in 1..z /\ m[i] = l[i]
        BY <3>0, <3>1, <1>1
      <4> QED
        BY <4>1, <1>10
    <3>2. CASE i = b + 1
      <4>1. m[i] = Node(t, rest)
        BY <3>0, <3>2
      <4> QED
        BY <4>1, <1>7
    <3>3. CASE i = b + 2
      <4>1. m[i] = Node(l[i - 1].timer, l[i - 1].wait - rest)
        BY <3>0, <3>3
      <4>2. i - 1 = b + 1 /\ b + 1 <= z /\ b + 1 \in 1..z
        BY <3>0, <3>3, <1>1
      <4> QED
        BY <4>1, <4>2, <1>9, <1>10
    <3>4. CASE i > b + 2
      <4>1. m[i] = l[i - 1] /\ i - 1 \in 1..z
        BY <3>0, <3>4, <1>1
      <4> QED
        BY <4>1, <1>10
    <3> QED
      BY <3>0, <3>1, <3>2, <3>3, <3>4
  <2>3. z + 1 \in Nat
    BY <1>1
  <2> QED
    BY <2>1, <2>2, <2>3, NodeSeqIntro
<1> DEFINE g == [i \in 0..(z + 1) |->
                   IF i <= b THEN Until(l, i) ELSE IF i = b + 1 THEN n
                   ELSE Until(l, i - 1)]
<1>12. \A i \in 0..Len(m) : Until(m, i) = g[i]
  <2>1. g[0] = 0
    BY <1>1, <1>5, UntilDef
  <2>2. ASSUME NEW i \in 1..Len(m) PROVE g[i] = g[i - 1] + m[i].wait
    <3>0. /\ i \in Nat /\ i \in 1..(z + 1) /\ b \in Nat /\ b <= z /\ m[i] = F(i)
          /\ i \in 0..(z + 1) /\ i - 1 \in 0..(z + 1)
      BY <1>1, <1>5, <1>6, <1>11
    <3>1. CASE i <= b
      <4>1. i \in 1..z /\ m[i] = l[i] /\ g[i] = Until(l, i) /\ g[i - 1] = Until(l, i - 1)
        BY <3>0, <3>1, <1>1
      <4> QED
        BY <4>1, UntilDef DEF z
    <3>2. CASE i = b + 1
      <4>1. m[i].wait = rest /\ g[i] = n /\ g[i - 1] = Until(l, b)
        BY <3>0, <3>2, <1>7, NodeFields
      <4> QED
        BY <4>1, <1>8
    <3>3. CASE i = b + 2
      <4>1. i - 1 = b + 1 /\ b + 1 <= z /\ b + 1 \in 1..z /\ (b + 1) - 1 = b
        BY <3>0, <3>3, <1>1
      <4>2. m[i].wait = l[b + 1].wait - rest
        <5>1. m[i] = Node(l[i - 1].timer, l[i - 1].wait - rest)
          BY <3>0, <3>3
        <5> QED
          BY <4>1, <5>1, <1>9, <1>10, NodeFields
      <4>3. g[i] = Until(l, b + 1) /\ g[i - 1] = n
        BY <3>0, <3>3, <4>1
      <4>4. Until(l, b + 1) = Until(l, b) + l[b + 1].wait
        BY <4>1, UntilDef DEF z
      <4>5. Until(l, b) \in Nat /\ l[b + 1].wait \in Nat
        BY <1>2, <1>5, <1>10, <4>1
      <4> HIDE DEF g, F
      <4> QED
        BY <4>2, <4>3, <4>4, <4>5, <1>7, <1>8
    <3>4. CASE i > b + 2
      <4>1. /\ i - 1 \in 1..z /\ m[i] = l[i - 1]
            /\ g[i] = Until(l, i - 1) /\ g[i - 1] = Until(l, (i - 1) - 1)
        BY <3>0, <3>4, <1>1
      <4> QED
        BY <4>1, UntilDef DEF z
    <3> QED
      BY <3>0, <3>1, <3>2, <3>3, <3>4
  <2> HIDE DEF g
  <2> QED
    BY <1>11, <2>1, <2>2, UntilUnique
<1>13. m[b + 1].timer = t /\ Until(m, b + 1) = n
  <2>1. b + 1 \in 1..(z + 1) /\ b + 1 \in 0..(z + 1) /\ ~(b + 1 <= b) /\ b \in Nat
    BY <1>1, <1>5
  <2>2. m[b + 1] = Node(t, rest) /\ g[b + 1] = n
    BY <1>6, <2>1
  <2> QED
    BY <2>1, <2>2, <1>7, <1>11, <1>12, NodeFields
<1>14. ASSUME NEW i \in 1..z
       PROVE  LET k == IF i <= b THEN i ELSE i + 1
              IN  m[k].timer = l[i].timer /\ Until(m, k) = Until(l, i)
  <2>0. i \in Nat /\ b \in Nat /\ i \in 1..(z + 1) /\ i + 1 \in 1..(z + 1)
        /\ i \in 0..(z + 1) /\ i + 1 \in 0..(z + 1) /\ (i + 1) - 1 = i
    BY <1>1, <1>5
  <2>1. CASE i <= b
    <3>1. m[i] = l[i] /\ g[i] = Until(l, i)
      BY <1>6, <2>0, <2>1
    <3>2. Until(m, i) = Until(l, i)
      BY <3>1, <2>0, <1>11, <1>12
    <3> QED
      BY <2>1, <3>1, <3>2
  <2>2. CASE ~(i <= b)
    <3>0. ~(i + 1 <= b) /\ i + 1 # b + 1 /\ (i + 1 = b + 2 <=> i = b + 1)
      BY <2>0, <2>2
    <3>1. m[i + 1].timer = l[i].timer
      <4>1. CASE i = b + 1
        <5>1. m[i + 1] = Node(l[i].timer, l[i].wait - rest)
          BY <1>6, <2>0, <3>0, <4>1
        <5>2. l[i].wait - rest \in Nat
          BY <1>9, <4>1
        <5> QED
          BY <5>1, <5>2, <1>10, NodeFields
      <4>2. CASE i # b + 1
        <5>1. m[i + 1] = l[i]
          BY <1>6, <2>0, <3>0, <4>2
        <5> QED
          BY <5>1
      <4> QED
        BY <4>1, <4>2
    <3>2. g[i + 1] = Until(l, i)
      BY <2>0, <3>0
    <3>3. Until(m, i + 1) = Until(l, i)
      BY <3>2, <2>0, <1>11, <1>12
    <3> QED
      BY <2>2, <3>1, <3>3
  <2> QED
    BY <2>1, <2>2
<1> HIDE DEF F, g
<1> QED
  BY <1>5, <1>11, <1>13, <1>14 DEF m, z

-----------------------------------------------------------------------------
(* Nodes taken from a list: f gives the place of each node that is left.   *)

Embeds(m, l, f) ==
  /\ f \in [1..Len(m) -> 1..Len(l)]
  /\ \A i, j \in 1..Len(m) : i < j => f[i] < f[j]
  /\ \A i \in 1..Len(m) : m[i].timer = l[f[i]].timer /\ Until(m, i) = Until(l, f[i])

SubList(m, l) == \E f : Embeds(m, l, f)

Unique(l) == \A i, j \in DOMAIN l : l[i].timer = l[j].timer => i = j

(* A list is part of itself ... *)
LEMMA SubListItself ==
  ASSUME NEW l \in NodeSeq
  PROVE  SubList(l, l)
<1> DEFINE f == [i \in 1..Len(l) |-> i]
<1>1. Embeds(l, l, f)
  BY DEF Embeds
<1> QED
  BY <1>1 DEF SubList

(* ... and a part of a part is a part. *)
LEMMA SubListOfSubList ==
  ASSUME NEW l \in NodeSeq, NEW m \in NodeSeq, NEW k \in NodeSeq,
         SubList(k, m), SubList(m, l)
  PROVE  SubList(k, l)
<1>1. PICK f : Embeds(k, m, f)
  BY DEF SubList
<1>2. PICK g : Embeds(m, l, g)
  BY DEF SubList
<1> DEFINE h == [i \in 1..Len(k) |-> g[f[i]]]
<1>3. \A i \in 1..Len(k) : f[i] \in 1..Len(m) /\ g[f[i]] \in 1..Len(l)
  BY <1>1, <1>2 DEF Embeds
<1>4. h \in [1..Len(k) -> 1..Len(l)]
  BY <1>3
<1>5. \A i, j \in 1..Len(k) : i < j => h[i] < h[j]
  BY <1>1, <1>2, <1>3 DEF Embeds
<1>6. \A i \in 1..Len(k) : k[i].timer = l[h[i]].timer /\ Until(k, i) = Until(l, h[i])
  BY <1>1, <1>2, <1>3 DEF Embeds
<1> HIDE DEF h
<1>7. Embeds(k, l, h)
  BY <1>4, <1>5, <1>6 DEF Embeds
<1> QED
  BY <1>7 DEF SubList

(* A part of a list links no node twice if the list does not. *)
LEMMA SubListUnique ==
  ASSUME NEW l \in NodeSeq, NEW m \in NodeSeq, SubList(m, l), Unique(l)
  PROVE  Unique(m)
<1>1. PICK f : Embeds(m, l, f)
  BY DEF SubList
<1>2. Len(m) \in Nat /\ Len(l) \in Nat /\ DOMAIN m = 1..Len(m) /\ DOMAIN l = 1..Len(l)
  BY NodeSeqType
<1>3. SUFFICES ASSUME NEW i \in 1..Len(m), NEW j \in 1..Len(m), m[i].timer = m[j].timer, i # j
               PROVE  FALSE
  BY <1>2 DEF Unique
<1>4. f[i] \in 1..Len(l) /\ f[j] \in 1..Len(l)
  BY <1>1 DEF Embeds
<1>5. l[f[i]].timer = l[f[j]].timer
  BY <1>1, <1>3 DEF Embeds
<1>6. f[i] = f[j]
  BY <1>2, <1>4, <1>5 DEF Unique
<1>7. i < j \/ j < i
  BY <1>2, <1>3
<1>8. f[i] < f[j] \/ f[j] < f[i]
  BY <1>1, <1>7 DEF Embeds
<1>9. f[i] \in Int /\ f[j] \in Int
  BY <1>2, <1>4
<1> QED
  BY <1>6, <1>8, <1>9

(* What is left is no further back than it was. *)
LEMMA EmbedsGrows ==
  ASSUME NEW l \in NodeSeq, NEW m \in NodeSeq, NEW f, Embeds(m, l, f)
  PROVE  \A i \in 1..Len(m) : f[i] \in 1..Len(l) /\ (i - 1) + f[1] <= f[i] /\ i <= f[i]
<1> DEFINE n == Len(m)
           T == {k \in 0..n : k >= 1 => (k - 1) + f[1] <= f[k]}
<1>1. n \in Nat /\ Len(l) \in Nat /\ \A i \in 1..n : f[i] \in 1..Len(l) /\ f[i] \in Nat
  BY NodeSeqType DEF Embeds
<1>2. 0 \in T
  BY <1>1
<1>3. ASSUME NEW k \in 0..(n - 1), k \in T PROVE k + 1 \in T
  <2>1. k + 1 \in 1..n /\ k + 1 \in 0..n /\ (k + 1) - 1 = k /\ 1 \in 1..n
    BY <1>1
  <2>2. CASE k = 0
    <3>1. k + 0 = k /\ 0 + f[1] <= f[1]
      BY <1>1, <2>1
    <3> QED
      BY <2>1, <2>2, <3>1
  <2>3. CASE k # 0
    <3>1. k \in 1..n /\ k < k + 1 /\ k >= 1
      BY <1>1, <2>3
    <3>2. f[k] < f[k + 1]
      BY <2>1, <3>1 DEF Embeds
    <3>3. (k - 1) + f[1] <= f[k]
      BY <1>3, <3>1
    <3>4. f[k] \in Nat /\ f[k + 1] \in Nat /\ f[1] \in Nat /\ k \in Nat
      BY <1>1, <2>1, <3>1
    <3>5. k + f[1] <= f[k + 1]
      BY <3>2, <3>3, <3>4
    <3> QED
      BY <2>1, <3>5
  <2> QED
    BY <2>2, <2>3
<1> HIDE DEF T
<1>4. 0..n \subseteq T
  BY <1>1, <1>2, <1>3, UpToInduction
<1>5. ASSUME NEW i \in 1..n PROVE (i - 1) + f[1] <= f[i] /\ i <= f[i]
  <2>1. i \in 0..n /\ i >= 1 /\ 1 \in 1..n
    BY <1>1
  <2>2. (i - 1) + f[1] <= f[i]
    BY <1>4, <2>1 DEF T
  <2>3. f[1] \in 1..Len(l) /\ f[1] >= 1 /\ f[i] \in Nat /\ f[1] \in Nat
    BY <1>1, <2>1
  <2> QED
    BY <2>1, <2>2, <2>3
<1> QED
  BY <1>1, <1>5

(* timer_list_remove: the other nodes keep their times. *)
LEMMA RemovedDef ==
  ASSUME NEW l \in NodeSeq, NEW t
  PROVE  /\ Removed(l, t) \in NodeSeq
         /\ SubList(Removed(l, t), l)
         /\ Unique(l) => NodesOf(Removed(l, t)) = NodesOf(l) \ {t}
<1>1. CASE t \notin NodesOf(l)
  <2>1. Removed(l, t) = l
    BY <1>1 DEF Removed
  <2> QED
    BY <1>1, <2>1, SubListItself
<1>2. CASE t \in NodesOf(l)
  <2> DEFINE z == Len(l)
             m == Removed(l, t)
             k == CHOOSE i \in DOMAIN l : l[i].timer = t
             F(i) == IF i < k THEN l[i]
                     ELSE IF i = k THEN Node(l[i + 1].timer, l[i + 1].wait + l[k].wait)
                     ELSE l[i + 1]
  <2>1. z \in Nat /\ DOMAIN l = 1..z
    BY NodeSeqType
  <2>2. k \in 1..z /\ l[k].timer = t
    BY <1>2, <2>1 DEF NodesOf
  <2>3. m = [i \in 1..(z - 1) |-> F(i)]
    BY <1>2 DEF Removed
  <2> HIDE DEF m, z, k
  <2>4. \A i \in 1..z : l[i].timer \in Timers /\ l[i].wait \in Nat
                        /\ l[i] = Node(l[i].timer, l[i].wait)
    BY NodeSeqType DEF z
  <2>5. m \in NodeSeq /\ Len(m) = z - 1
    <3>1. DOMAIN m = 1..(z - 1) /\ m = [i \in DOMAIN m |-> m[i]]
      BY <2>3
    <3>2. ASSUME NEW i \in 1..(z - 1)
          PROVE  \E u \in Timers, w \in Nat : m[i] = Node(u, w)
      <4>0. i \in 1..z /\ i + 1 \in 1..z /\ m[i] = F(i)
        BY <2>1, <2>3
      <4>1. CASE i = k
        <5>1. m[i] = Node(l[i + 1].timer, l[i + 1].wait + l[k].wait)
          BY <2>1, <2>2, <4>0, <4>1
        <5>2. l[i + 1].wait + l[k].wait \in Nat
          BY <2>2, <2>4, <4>0
        <5> QED
          BY <5>1, <5>2, <2>4, <4>0
      <4>2. CASE i # k
        <5>1. m[i] = l[i] \/ m[i] = l[i + 1]
          BY <4>0, <4>2
        <5> QED
          BY <5>1, <2>4, <4>0
      <4> QED
        BY <4>1, <4>2
    <3>3. z - 1 \in Nat
      BY <2>1, <2>2
    <3> QED
      BY <3>1, <3>2, <3>3, NodeSeqIntro
  <2> DEFINE f == [i \in 1..(z - 1) |-> IF i < k THEN i ELSE i + 1]
             g == [i \in 0..(z - 1) |-> IF i < k THEN Until(l, i) ELSE Until(l, i + 1)]
  <2>6. \A i \in 0..z : Until(l, i) \in Nat
    BY UntilDef DEF z
  <2>7. \A i \in 0..Len(m) : Until(m, i) = g[i]
    <3>1. g[0] = 0
      <4>1. g[0] = Until(l, 0)
        BY <2>1, <2>2
      <4> QED
        BY <4>1, UntilDef
    <3>2. ASSUME NEW i \in 1..Len(m) PROVE g[i] = g[i - 1] + m[i].wait
      <4>0. /\ i \in 1..(z - 1) /\ i \in 1..z /\ i + 1 \in 1..z /\ m[i] = F(i)
            /\ i \in 0..(z - 1) /\ i - 1 \in 0..(z - 1) /\ (i + 1) - 1 = i /\ k \in Nat
            /\ i \in Nat /\ (i - 1) + 1 = i
        BY <2>1, <2>2, <2>3, <2>5
      <4>1. CASE i < k
        <5>1. m[i] = l[i] /\ g[i] = Until(l, i) /\ g[i - 1] = Until(l, i - 1)
          BY <4>0, <4>1
        <5> QED
          BY <4>0, <5>1, UntilDef DEF z
      <4>2. CASE i = k
        <5>1. m[i] = Node(l[i + 1].timer, l[i + 1].wait + l[k].wait)
          BY <2>1, <2>2, <4>0, <4>2
        <5>2. l[i + 1].wait \in Nat /\ l[k].wait \in Nat /\ l[i + 1].wait + l[k].wait \in Nat
          BY <2>2, <2>4, <4>0
        <5>3. m[i].wait = l[i + 1].wait + l[i].wait
          BY <5>1, <5>2, <2>4, <4>0, <4>2, NodeFields
        <5>4. g[i] = Until(l, i + 1) /\ g[i - 1] = Until(l, i - 1)
          BY <4>0, <4>2
        <5>5. Until(l, i + 1) = Until(l, i) + l[i + 1].wait
              /\ Until(l, i) = Until(l, i - 1) + l[i].wait
          BY <4>0, UntilDef DEF z
        <5>6. Until(l, i - 1) \in Nat /\ l[i].wait \in Nat
          <6>1. i - 1 \in 0..z
            BY <4>0, <2>1
          <6> QED
            BY <6>1, <2>4, <2>6, <4>0
        <5> HIDE DEF g, F
        <5> QED
          BY <5>2, <5>3, <5>4, <5>5, <5>6
      <4>3. CASE i > k
        <5>1. m[i] = l[i + 1] /\ g[i] = Until(l, i + 1) /\ g[i - 1] = Until(l, i)
          BY <4>0, <4>3
        <5> QED
          BY <4>0, <5>1, UntilDef DEF z
      <4> QED
        BY <4>0, <4>1, <4>2, <4>3
    <3> HIDE DEF g
    <3> QED
      BY <2>5, <3>1, <3>2, UntilUnique
  <2>8. Embeds(m, l, f)
    <3>1. f \in [1..Len(m) -> 1..z] /\ \A i, j \in 1..Len(m) : i < j => f[i] < f[j]
      BY <2>1, <2>2, <2>5
    <3>2. ASSUME NEW i \in 1..Len(m) PROVE m[i].timer = l[f[i]].timer
      <4>0. /\ i \in 1..(z - 1) /\ i \in 1..z /\ i + 1 \in 1..z /\ m[i] = F(i)
            /\ k \in Nat /\ i \in Nat
        BY <2>1, <2>2, <2>3, <2>5
      <4>1. CASE i = k
        <5>1. m[i] = Node(l[i + 1].timer, l[i + 1].wait + l[k].wait)
          BY <2>1, <2>2, <4>0, <4>1
        <5>2. l[i + 1].wait + l[k].wait \in Nat /\ f[i] = i + 1
          BY <2>2, <2>4, <4>0, <4>1
        <5> QED
          BY <5>1, <5>2, <2>4, <4>0, NodeFields
      <4>2. CASE i # k
        BY <4>0, <4>2
      <4> QED
        BY <4>1, <4>2
    <3>3. ASSUME NEW i \in 1..Len(m) PROVE Until(m, i) = Until(l, f[i])
      <4>1. i \in 1..(z - 1) /\ i \in 0..(z - 1) /\ i \in 0..Len(m)
        BY <2>1, <2>5
      <4>2. g[i] = Until(l, f[i])
        BY <4>1
      <4> HIDE DEF g, f
      <4> QED
        BY <2>7, <4>1, <4>2
    <3> HIDE DEF f
    <3> QED
      BY <3>1, <3>2, <3>3 DEF Embeds, z
  <2>9. ASSUME Unique(l) PROVE NodesOf(m) = NodesOf(l) \ {t}
    <3>0. DOMAIN m = 1..(z - 1)
      BY <2>3
    <3>1. ASSUME NEW u \in NodesOf(m) PROVE u \in NodesOf(l) \ {t}
      <4>1. PICK i \in 1..(z - 1) : m[i].timer = u
        BY <3>0 DEF NodesOf
      <4>2. f[i] \in 1..z /\ f[i] # k /\ u = l[f[i]].timer
        BY <2>1, <2>2, <2>5, <2>8, <4>1 DEF Embeds
      <4>3. u # t
        BY <4>2, <2>1, <2>2, <2>9 DEF Unique
      <4> QED
        BY <4>2, <4>3, <2>1 DEF NodesOf
    <3>2. ASSUME NEW u \in NodesOf(l) \ {t} PROVE u \in NodesOf(m)
      <4>1. PICK j \in 1..z : l[j].timer = u
        BY <2>1 DEF NodesOf
      <4>2. j # k
        BY <4>1, <2>2
      <4>3. \E i \in 1..(z - 1) : f[i] = j
        <5>1. CASE j < k
          <6>1. j \in 1..(z - 1) /\ f[j] = j
            BY <2>1, <2>2, <5>1
          <6> QED
            BY <6>1
        <5>2. CASE j > k
          <6>1. j - 1 \in 1..(z - 1) /\ ~(j - 1 < k) /\ (j - 1) + 1 = j
            BY <2>1, <2>2, <5>2
          <6>2. f[j - 1] = j
            BY <6>1
          <6> QED
            BY <6>1, <6>2
        <5> QED
          BY <4>2, <5>1, <5>2, <2>1, <2>2
      <4>4. PICK i \in 1..(z - 1) : f[i] = j
        BY <4>3
      <4> HIDE DEF f
      <4>5. m[i].timer = u
        BY <2>5, <2>8, <4>1, <4>4 DEF Embeds
      <4> QED
        BY <4>5, <3>0 DEF NodesOf
    <3> QED
      BY <3>1, <3>2
  <2> HIDE DEF f
  <2> QED
    BY <2>5, <2>8, <2>9 DEF SubList, m
<1> QED
  BY <1>1, <1>2

-----------------------------------------------------------------------------
(* list_deletions_handler: the stopped timers' nodes are gone, the others  *)
(* keep their times.                                                       *)

RingOps == [op : {"start"}, timer : Timers, at : Counters]
             \cup [op : {"stop"}, timer : Timers]

StoppedBy(k) == {ring[i].timer : i \in {j \in 1..k : ring[j].op = "stop"}}

(* list_deletions_handler takes one request after the other. *)
LEMMA DeletedRec ==
  ASSUME list \in NodeSeq, Len(ring) \in Nat
  PROVE  /\ Deleted[0] = list
         /\ \A k \in 1..Len(ring) :
              Deleted[k] = IF ring[k].op = "stop" THEN Removed(Deleted[k - 1], ring[k].timer)
                           ELSE Deleted[k - 1]
<1> DEFINE n == Len(ring)
           g == [p \in (1..n) \X NodeSeq |->
                   IF ring[p[1]].op = "stop" THEN Removed(p[2], ring[p[1]].timer) ELSE p[2]]
           Def(u) == [k \in 0..n |->
                        IF k = 0 THEN list
                        ELSE IF ring[k].op = "stop" THEN Removed(u[k - 1], ring[k].timer)
                        ELSE u[k - 1]]
<1>1. n \in Nat
  OBVIOUS
<1> HIDE DEF n
<1>2. g \in [(1..n) \X NodeSeq -> NodeSeq]
  <2>1. ASSUME NEW p \in (1..n) \X NodeSeq
        PROVE (IF ring[p[1]].op = "stop" THEN Removed(p[2], ring[p[1]].timer) ELSE p[2]) \in NodeSeq
    <3>1. p[2] \in NodeSeq
      OBVIOUS
    <3> QED
      BY <3>1, RemovedDef
  <2> QED
    BY <2>1
<1>3. \A k \in 1..n, l \in NodeSeq :
        g[<<k, l>>] = IF ring[k].op = "stop" THEN Removed(l, ring[k].timer) ELSE l
  OBVIOUS
<1> HIDE DEF g
<1>4. PICK f : f \in Recursions(n, NodeSeq, list, g)
  BY <1>1, <1>2, RecursionExists
<1>5. f \in [0..n -> NodeSeq] /\ f[0] = list /\ \A k \in 1..n : f[k] = g[<<k, f[k - 1]>>]
  BY <1>4 DEF Recursions
<1>6. f = Def(f)
  <2>1. ASSUME NEW k \in 0..n PROVE f[k] = Def(f)[k]
    <3>1. CASE k = 0
      BY <3>1, <1>5
    <3>2. CASE k # 0
      <4>1. k \in 1..n /\ f[k - 1] \in NodeSeq
        BY <1>1, <1>5, <3>2
      <4>2. f[k] = g[<<k, f[k - 1]>>]
        BY <1>5, <4>1
      <4>3. f[k] = IF ring[k].op = "stop" THEN Removed(f[k - 1], ring[k].timer) ELSE f[k - 1]
        BY <1>3, <4>1, <4>2
      <4> QED
        BY <3>2, <4>3
    <3> QED
      BY <3>1, <3>2
  <2> QED
    BY <1>5, <2>1
<1> DEFINE u == Deleted
<1>7. u = CHOOSE v : v = Def(v)
  BY DEF Deleted, n
<1> HIDE DEF u
<1>8. u = Def(u)
  BY <1>6, <1>7
<1>9. Def(u)[0] = list
  BY <1>1
<1>10. \A k \in 1..n : k \in 0..n /\ k # 0
  BY <1>1
<1>11. \A k \in 1..n :
         Def(u)[k] = IF ring[k].op = "stop" THEN Removed(u[k - 1], ring[k].timer) ELSE u[k - 1]
  BY <1>10
<1> HIDE DEF Def
<1> QED
  BY <1>8, <1>9, <1>11 DEF u, n

(* What list_deletions_handler leaves: the nodes no stop waits for, each   *)
(* at its time.                                                            *)
LEMMA KeptDef ==
  ASSUME list \in NodeSeq, Unique(list), ring \in Seq(RingOps)
  PROVE  /\ Kept \in NodeSeq /\ SubList(Kept, list)
         /\ NodesOf(Kept) = {t \in NodesOf(list) : ~StopWaits(t)}
<1> DEFINE n == Len(ring)
           T == {k \in 0..n : /\ Deleted[k] \in NodeSeq /\ SubList(Deleted[k], list)
                              /\ NodesOf(Deleted[k]) = NodesOf(list) \ StoppedBy(k)}
<1>1. n \in Nat /\ DOMAIN ring = 1..n
  OBVIOUS
<1>2. 0 \in T
  <2>1. StoppedBy(0) = {}
    BY DEF StoppedBy
  <2>2. Deleted[0] = list
    BY <1>1, DeletedRec
  <2>3. 0 \in 0..n
    BY <1>1
  <2> QED
    BY <2>1, <2>2, <2>3, SubListItself
<1>3. ASSUME NEW k \in 0..(n - 1), k \in T PROVE k + 1 \in T
  <2> DEFINE l == Deleted[k]
             m == Deleted[k + 1]
  <2>1. k + 1 \in 1..n /\ k + 1 \in 0..n /\ (k + 1) - 1 = k /\ k \in Nat
    BY <1>1
  <2>2. m = IF ring[k + 1].op = "stop" THEN Removed(l, ring[k + 1].timer) ELSE l
    BY <1>1, <2>1, DeletedRec
  <2>3. l \in NodeSeq /\ SubList(l, list) /\ NodesOf(l) = NodesOf(list) \ StoppedBy(k)
    BY <1>3
  <2>4. Unique(l)
    BY <2>3, SubListUnique
  <2> HIDE DEF l, m
  <2>5. CASE ring[k + 1].op = "stop"
    <3>1. m = Removed(l, ring[k + 1].timer)
      BY <2>2, <2>5
    <3>2. m \in NodeSeq /\ SubList(m, l) /\ NodesOf(m) = NodesOf(l) \ {ring[k + 1].timer}
      BY <2>3, <2>4, <3>1, RemovedDef
    <3>3. SubList(m, list)
      BY <2>3, <3>2, SubListOfSubList
    <3>4. StoppedBy(k + 1) = StoppedBy(k) \cup {ring[k + 1].timer}
      <4>1. {j \in 1..(k + 1) : ring[j].op = "stop"} = {j \in 1..k : ring[j].op = "stop"} \cup {k + 1}
        BY <2>1, <2>5
      <4> QED
        BY <4>1 DEF StoppedBy
    <3>5. NodesOf(m) = NodesOf(list) \ StoppedBy(k + 1)
      BY <2>3, <3>2, <3>4
    <3> QED
      BY <2>1, <3>2, <3>3, <3>5 DEF m
  <2>6. CASE ring[k + 1].op # "stop"
    <3>1. m = l
      BY <2>2, <2>6
    <3>2. StoppedBy(k + 1) = StoppedBy(k)
      <4>1. {j \in 1..(k + 1) : ring[j].op = "stop"} = {j \in 1..k : ring[j].op = "stop"}
        BY <2>1, <2>6
      <4> QED
        BY <4>1 DEF StoppedBy
    <3> QED
      BY <2>1, <2>3, <3>1, <3>2 DEF m
  <2> QED
    BY <2>5, <2>6
<1> HIDE DEF T
<1>4. 0..n \subseteq T
  BY <1>1, <1>2, <1>3, UpToInduction
<1>5. n \in T
  BY <1>1, <1>4
<1>6. \A t : t \in StoppedBy(n) <=> StopWaits(t)
  BY <1>1 DEF StoppedBy, StopWaits
<1>7. Kept = Deleted[n]
  BY DEF Kept
<1>8. Deleted[n] \in NodeSeq /\ SubList(Deleted[n], list)
      /\ NodesOf(Deleted[n]) = NodesOf(list) \ StoppedBy(n)
  BY <1>5 DEF T
<1> QED
  BY <1>6, <1>7, <1>8

-----------------------------------------------------------------------------
(* expired_timers_handler: the covered nodes leave the front of the list,  *)
(* and the times of the others are counted from later on.                  *)
LEMMA AdvancedDef ==
  ASSUME NEW l \in NodeSeq, NEW n \in Nat
  PROVE  LET m == Advanced(l, n)
             k == Covered(l, n)
         IN  /\ m \in NodeSeq /\ k \in 0..Len(l) /\ Len(m) = Len(l) - k
             /\ \A i \in 1..Len(m) : /\ m[i].timer = l[k + i].timer
                                     /\ Until(m, i) = Until(l, k + i) - n
<1> DEFINE m == Advanced(l, n)
           k == Covered(l, n)
           z == Len(l)
           F(i) == IF i = 1 THEN Node(l[k + 1].timer, Until(l, k + 1) - n) ELSE l[k + i]
<1>1. z \in Nat /\ \A i \in 1..z : l[i].timer \in Timers /\ l[i].wait \in Nat
                       /\ l[i] = Node(l[i].timer, l[i].wait)
  BY NodeSeqType
<1>2. k \in 0..z /\ \A i \in 1..z : i <= k <=> Until(l, i) <= n
  BY CoveredDef
<1>3. m = [i \in 1..(z - k) |-> F(i)]
  BY DEF Advanced
<1>4. \A i \in 0..z : Until(l, i) \in Nat
  BY UntilDef
<1> HIDE DEF m, k, z
<1>5. k + 1 <= z => Until(l, k + 1) - n \in Nat
  <2>1. k + 1 <= z => k + 1 \in 1..z /\ k + 1 \in 0..z /\ ~(k + 1 <= k)
    BY <1>1, <1>2
  <2> QED
    BY <2>1, <1>2, <1>4
<1>6. m \in NodeSeq /\ Len(m) = z - k
  <2>1. DOMAIN m = 1..(z - k) /\ m = [i \in DOMAIN m |-> m[i]]
    BY <1>3
  <2>2. ASSUME NEW i \in 1..(z - k)
        PROVE  \E u \in Timers, w \in Nat : m[i] = Node(u, w)
    <3>0. k + i \in 1..z /\ k + 1 <= z /\ k + 1 \in 1..z /\ m[i] = F(i)
      BY <1>1, <1>2, <1>3
    <3>1. CASE i = 1
      <4>1. m[i] = Node(l[k + 1].timer, Until(l, k + 1) - n)
        BY <3>0, <3>1
      <4> QED
        BY <4>1, <1>1, <1>5, <3>0
    <3>2. CASE i # 1
      <4>1. m[i] = l[k + i]
        BY <3>0, <3>2
      <4> QED
        BY <4>1, <1>1, <3>0
    <3> QED
      BY <3>1, <3>2
  <2>3. z - k \in Nat
    BY <1>1, <1>2
  <2> QED
    BY <2>1, <2>2, <2>3, NodeSeqIntro
<1> DEFINE g == [i \in 0..(z - k) |-> IF i = 0 THEN 0 ELSE Until(l, k + i) - n]
<1>7. \A i \in 0..Len(m) : Until(m, i) = g[i]
  <2>1. g[0] = 0
    BY <1>1, <1>2
  <2>2. ASSUME NEW i \in 1..Len(m) PROVE g[i] = g[i - 1] + m[i].wait
    <3>0. /\ i \in 1..(z - k) /\ k + i \in 1..z /\ k + 1 <= z /\ k + 1 \in 1..z /\ m[i] = F(i)
          /\ i \in 0..(z - k) /\ i - 1 \in 0..(z - k) /\ (k + i) - 1 = k + (i - 1) /\ i # 0
      BY <1>1, <1>2, <1>3, <1>6
    <3>1. CASE i = 1
      <4>1. m[i] = Node(l[k + 1].timer, Until(l, k + 1) - n)
        BY <3>0, <3>1
      <4>2. m[i].wait = Until(l, k + 1) - n /\ Until(l, k + 1) - n \in Nat
        BY <4>1, <1>1, <1>5, <3>0, NodeFields
      <4>3. g[i] = Until(l, k + 1) - n /\ g[i - 1] = 0
        BY <3>0, <3>1
      <4> HIDE DEF g, F
      <4> QED
        BY <4>2, <4>3
    <3>2. CASE i # 1
      <4>1. m[i] = l[k + i]
        BY <3>0, <3>2
      <4>2. g[i] = Until(l, k + i) - n /\ g[i - 1] = Until(l, (k + i) - 1) - n
        BY <3>0, <3>2
      <4>3. Until(l, k + i) = Until(l, (k + i) - 1) + l[k + i].wait
        BY <3>0, UntilDef DEF z
      <4>4. Until(l, (k + i) - 1) \in Nat /\ l[k + i].wait \in Nat
        <5>1. (k + i) - 1 \in 0..z
          BY <3>0, <1>1
        <5> QED
          BY <5>1, <1>1, <1>4, <3>0
      <4> HIDE DEF g, F
      <4> QED
        BY <4>1, <4>2, <4>3, <4>4
    <3> QED
      BY <3>1, <3>2
  <2> HIDE DEF g
  <2> QED
    BY <1>6, <2>1, <2>2, UntilUnique
<1>8. ASSUME NEW i \in 1..Len(m)
      PROVE  m[i].timer = l[k + i].timer /\ Until(m, i) = Until(l, k + i) - n
  <2>0. /\ i \in 1..(z - k) /\ k + i \in 1..z /\ k + 1 <= z /\ k + 1 \in 1..z /\ m[i] = F(i)
        /\ i \in 0..(z - k) /\ i # 0 /\ i \in 0..Len(m)
    BY <1>1, <1>2, <1>3, <1>6
  <2>1. g[i] = Until(l, k + i) - n
    BY <2>0
  <2>2. m[i].timer = l[k + i].timer
    <3>1. CASE i = 1
      <4>1. m[i] = Node(l[k + 1].timer, Until(l, k + 1) - n)
        BY <2>0, <3>1
      <4> QED
        BY <4>1, <1>1, <1>5, <2>0, <3>1, NodeFields
    <3>2. CASE i # 1
      BY <2>0, <3>2
    <3> QED
      BY <3>1, <3>2
  <2> HIDE DEF g, F
  <2> QED
    BY <1>7, <2>0, <2>1, <2>2
<1> HIDE DEF F, g
<1> QED
  BY <1>2, <1>6, <1>8 DEF m, k, z

-----------------------------------------------------------------------------
(* The repeating timers among the covered nodes, to be started again.      *)

Restarts == [timer : Repeating, at : Counters]

(* A sequence with an element before it. *)
LEMMA Prepended ==
  ASSUME NEW S, NEW x \in S, NEW r \in Seq(S)
  PROVE  LET q == <<x>> \o r
         IN  /\ q \in Seq(S) /\ DOMAIN q = 1..(Len(r) + 1) /\ q[1] = x
             /\ \A j \in 1..Len(r) : q[j + 1] = r[j]
<1>1. <<x>> \in Seq(S) /\ Len(<<x>>) = 1 /\ <<x>>[1] = x
  OBVIOUS
<1> QED
  BY <1>1

(* expired_timers_handler restarts each repeating node that has expired,   *)
(* at the time it expired.                                                 *)
LEMMA AgainDef ==
  ASSUME NEW l \in NodeSeq, Unique(l), NEW n \in Nat, latest \in Counters
  PROVE  LET r == Again(l, n)
         IN  /\ r \in Seq(Restarts)
             /\ \A j \in DOMAIN r : \E i \in 1..Covered(l, n) :
                  r[j].timer = l[i].timer /\ r[j].at = (latest + Until(l, i)) % CounterSize
             /\ \A i \in 1..Covered(l, n) : l[i].timer \in Repeating =>
                  \E j \in DOMAIN r : r[j].timer = l[i].timer
             /\ \A i, j \in DOMAIN r : r[i].timer = r[j].timer => i = j
<1> DEFINE z == Covered(l, n)
           At(i) == (latest + Until(l, i)) % CounterSize
           New(i) == [timer |-> l[i].timer, at |-> At(i)]
           g == [p \in (1..z) \X Seq(Restarts) |->
                   IF l[p[1]].timer \in Repeating THEN <<New(p[1])>> \o p[2] ELSE p[2]]
           Def(u) == [i \in 0..z |->
                        IF i = 0 THEN <<>>
                        ELSE IF l[i].timer \in Repeating THEN <<New(i)>> \o u[i - 1]
                        ELSE u[i - 1]]
<1>0. Len(l) \in Nat /\ DOMAIN l = 1..Len(l)
  BY NodeSeqType
<1>1. z \in Nat /\ z <= Len(l)
  BY <1>0, CoveredDef
<1>2. \A i \in 1..z : l[i].timer \in Repeating => New(i) \in Restarts
  <2>1. \A i \in 1..z : At(i) \in Counters
    <3> SUFFICES ASSUME NEW i \in 1..z PROVE At(i) \in Counters
      OBVIOUS
    <3>1. i \in 0..Len(l)
      BY <1>0, <1>1
    <3>2. Until(l, i) \in Nat /\ latest \in Int
      BY <3>1, UntilDef, CountersInt
    <3>3. latest + Until(l, i) \in Int
      BY <3>2
    <3> QED
      BY <3>3, WrapCases
  <2> HIDE DEF At
  <2> QED
    BY <2>1 DEF Restarts
<1> HIDE DEF New, z
<1>3. g \in [(1..z) \X Seq(Restarts) -> Seq(Restarts)]
  <2>1. ASSUME NEW p \in (1..z) \X Seq(Restarts)
        PROVE (IF l[p[1]].timer \in Repeating THEN <<New(p[1])>> \o p[2] ELSE p[2]) \in Seq(Restarts)
    <3>1. p[1] \in 1..z /\ p[2] \in Seq(Restarts)
      OBVIOUS
    <3>2. l[p[1]].timer \in Repeating => New(p[1]) \in Restarts
      BY <1>2, <3>1
    <3>3. l[p[1]].timer \in Repeating => <<New(p[1])>> \o p[2] \in Seq(Restarts)
      BY <3>1, <3>2, Prepended
    <3> QED
      BY <3>1, <3>3
  <2> QED
    BY <2>1
<1>4. \A i \in 1..z, r \in Seq(Restarts) :
        g[<<i, r>>] = IF l[i].timer \in Repeating THEN <<New(i)>> \o r ELSE r
  OBVIOUS
<1> HIDE DEF g
<1>5. PICK f : f \in Recursions(z, Seq(Restarts), <<>>, g)
  <2>1. <<>> \in Seq(Restarts)
    OBVIOUS
  <2> QED
    BY <1>1, <1>3, <2>1, RecursionExists
<1>6. f \in [0..z -> Seq(Restarts)] /\ f[0] = <<>> /\ \A k \in 1..z : f[k] = g[<<k, f[k - 1]>>]
  BY <1>5 DEF Recursions
<1>7. f = Def(f)
  <2>1. ASSUME NEW k \in 0..z PROVE f[k] = Def(f)[k]
    <3>1. CASE k = 0
      BY <3>1, <1>6
    <3>2. CASE k # 0
      <4>1. k \in 1..z /\ f[k - 1] \in Seq(Restarts)
        BY <1>1, <1>6, <3>2
      <4>2. f[k] = g[<<k, f[k - 1]>>]
        BY <1>6, <4>1
      <4>3. f[k] = IF l[k].timer \in Repeating THEN <<New(k)>> \o f[k - 1] ELSE f[k - 1]
        BY <1>4, <4>1, <4>2
      <4> QED
        BY <3>2, <4>3
    <3> QED
      BY <3>1, <3>2
  <2> QED
    BY <1>6, <2>1
<1> DEFINE u == CHOOSE v : v = Def(v)
<1>8. Again(l, n) = u[z]
  BY DEF Again, z, New
<1>9. u = Def(u)
  BY <1>7
<1> HIDE DEF u
<1>10. u[0] = <<>> /\ \A k \in 1..z :
         u[k] = IF l[k].timer \in Repeating THEN <<New(k)>> \o u[k - 1] ELSE u[k - 1]
  <2>1. Def(u)[0] = <<>>
    BY <1>1
  <2>2. \A k \in 1..z : k \in 0..z /\ k # 0
    BY <1>1
  <2>3. \A k \in 1..z :
          Def(u)[k] = IF l[k].timer \in Repeating THEN <<New(k)>> \o u[k - 1] ELSE u[k - 1]
    BY <2>2
  <2> HIDE DEF Def
  <2> QED
    BY <1>9, <2>1, <2>3
<1> HIDE DEF Def
<1> DEFINE Good(k, r) ==
             /\ r \in Seq(Restarts)
             /\ \A j \in DOMAIN r : \E i \in 1..k : r[j] = New(i)
             /\ \A i \in 1..k : l[i].timer \in Repeating =>
                  \E j \in DOMAIN r : r[j].timer = l[i].timer
             /\ \A i, j \in DOMAIN r : r[i].timer = r[j].timer => i = j
           T == {k \in 0..z : Good(k, u[k])}
<1>a. \A i : New(i).timer = l[i].timer /\ New(i).at = At(i)
  BY DEF New
<1>11. 0 \in T
  <2>1. <<>> \in Seq(Restarts) /\ DOMAIN <<>> = {} /\ 1..0 = {}
    OBVIOUS
  <2>2. Good(0, <<>>)
    BY <2>1
  <2> HIDE DEF Good
  <2> QED
    BY <1>1, <1>10, <2>2
<1>12. ASSUME NEW k \in 0..(z - 1), k \in T PROVE k + 1 \in T
  <2>1. /\ k + 1 \in 1..z /\ k + 1 \in 0..z /\ (k + 1) - 1 = k /\ k \in Nat
        /\ \A i \in 1..(k + 1) : i \in 1..k \/ i = k + 1
        /\ \A i \in 1..k : i \in 1..(k + 1) /\ i \in 1..Len(l) /\ i # k + 1
        /\ k + 1 \in 1..Len(l)
    BY <1>0, <1>1
  <2> DEFINE r == u[k]
             q == u[k + 1]
  <2>2. Good(k, r)
    BY <1>12
  <2>3. q = IF l[k + 1].timer \in Repeating THEN <<New(k + 1)>> \o r ELSE r
    BY <1>10, <2>1
  <2> HIDE DEF r, q, At
  <2>4. CASE l[k + 1].timer \notin Repeating
    <3>1. q = r
      BY <2>3, <2>4
    <3>2. \A j \in DOMAIN q : \E i \in 1..(k + 1) : q[j] = New(i)
      BY <2>1, <2>2, <3>1
    <3>3. \A i \in 1..(k + 1) : l[i].timer \in Repeating =>
            \E j \in DOMAIN q : q[j].timer = l[i].timer
      BY <2>1, <2>2, <2>4, <3>1
    <3>4. Good(k + 1, q)
      BY <2>2, <3>1, <3>2, <3>3
    <3> QED
      BY <2>1, <3>4 DEF q
  <2>5. CASE l[k + 1].timer \in Repeating
    <3> DEFINE x == New(k + 1)
    <3>0. q = <<x>> \o r /\ x \in Restarts /\ r \in Seq(Restarts) /\ x.timer = l[k + 1].timer
      BY <1>2, <1>a, <2>1, <2>2, <2>3, <2>5
    <3> HIDE DEF x
    <3>1. /\ q \in Seq(Restarts) /\ DOMAIN q = 1..(Len(r) + 1) /\ q[1] = x
          /\ \A j \in 1..Len(r) : q[j + 1] = r[j]
      BY <3>0, Prepended
    <3>2. Len(r) \in Nat /\ DOMAIN r = 1..Len(r)
      BY <3>0
    <3>3. \A j \in DOMAIN q : j = 1 \/ (j - 1 \in DOMAIN r /\ q[j] = r[j - 1])
      <4> SUFFICES ASSUME NEW j \in DOMAIN q, j # 1 PROVE j - 1 \in DOMAIN r /\ q[j] = r[j - 1]
        OBVIOUS
      <4>1. j - 1 \in 1..Len(r) /\ (j - 1) + 1 = j
        BY <3>1, <3>2
      <4> QED
        BY <3>1, <3>2, <4>1
    <3>4. \A j \in DOMAIN r : j + 1 \in DOMAIN q /\ q[j + 1] = r[j]
      BY <3>1, <3>2
    <3>5. \A j \in DOMAIN q : \E i \in 1..(k + 1) : q[j] = New(i)
      <4> SUFFICES ASSUME NEW j \in DOMAIN q PROVE \E i \in 1..(k + 1) : q[j] = New(i)
        OBVIOUS
      <4>1. CASE j = 1
        <5>1. q[j] = New(k + 1) /\ k + 1 \in 1..(k + 1)
          BY <2>1, <3>1, <4>1 DEF x
        <5> QED
          BY <5>1
      <4>2. CASE j - 1 \in DOMAIN r /\ q[j] = r[j - 1]
        <5>1. PICK i \in 1..k : r[j - 1] = New(i)
          BY <2>2, <4>2
        <5>2. i \in 1..(k + 1)
          BY <2>1
        <5> QED
          BY <4>2, <5>1, <5>2
      <4> QED
        BY <3>3, <4>1, <4>2
    <3>6. \A i \in 1..(k + 1) : l[i].timer \in Repeating =>
            \E j \in DOMAIN q : q[j].timer = l[i].timer
      <4> SUFFICES ASSUME NEW i \in 1..(k + 1), l[i].timer \in Repeating
                   PROVE  \E j \in DOMAIN q : q[j].timer = l[i].timer
        OBVIOUS
      <4>1. CASE i = k + 1
        <5>1. 1 \in DOMAIN q
          BY <3>1, <3>2
        <5> QED
          BY <3>0, <3>1, <4>1, <5>1
      <4>2. CASE i \in 1..k
        <5>1. PICK j \in DOMAIN r : r[j].timer = l[i].timer
          BY <2>2, <4>2
        <5> QED
          BY <3>4, <5>1
      <4> QED
        BY <2>1, <4>1, <4>2
    <3>7. \A j \in DOMAIN r : r[j].timer # x.timer
      <4> SUFFICES ASSUME NEW j \in DOMAIN r, r[j].timer = x.timer PROVE FALSE
        OBVIOUS
      <4>1. PICK i \in 1..k : r[j] = New(i)
        BY <2>2
      <4>2. l[i].timer = l[k + 1].timer
        BY <1>a, <3>0, <4>1
      <4> QED
        BY <1>0, <2>1, <4>2 DEF Unique
    <3>8. \A i, j \in DOMAIN q : q[i].timer = q[j].timer => i = j
      <4> SUFFICES ASSUME NEW i \in DOMAIN q, NEW j \in DOMAIN q, q[i].timer = q[j].timer
                   PROVE  i = j
        OBVIOUS
      <4>1. CASE i = 1 \/ j = 1
        BY <3>1, <3>3, <3>7, <4>1
      <4>2. CASE i # 1 /\ j # 1
        <5>1. i - 1 \in DOMAIN r /\ j - 1 \in DOMAIN r /\ r[i - 1].timer = r[j - 1].timer
          BY <3>3, <4>2
        <5>2. i - 1 = j - 1 /\ i \in Int /\ j \in Int
          BY <2>2, <3>1, <5>1
        <5> QED
          BY <5>2
      <4> QED
        BY <4>1, <4>2
    <3>9. Good(k + 1, q)
      BY <3>1, <3>5, <3>6, <3>8
    <3> QED
      BY <2>1, <3>9 DEF q
  <2> QED
    BY <2>4, <2>5
<1> HIDE DEF T
<1>13. 0..z \subseteq T
  BY <1>1, <1>11, <1>12, UpToInduction
<1>14. Good(z, u[z])
  BY <1>1, <1>13 DEF T
<1> DEFINE r == u[z]
<1> HIDE DEF r, At
<1>15. \A j \in DOMAIN r : \E i \in 1..z : r[j].timer = l[i].timer /\ r[j].at = At(i)
  BY <1>14, <1>a DEF r
<1> QED
  BY <1>8, <1>14, <1>15 DEF r, z, At

(* The list is no longer than there are timers. *)
LEMMA UniqueLength ==
  ASSUME NEW l \in NodeSeq, Unique(l)
  PROVE  Len(l) <= Cardinality(Timers)
<1> DEFINE n == Len(l)
           f == [i \in 1..n |-> l[i].timer]
<1>1. n \in Nat /\ DOMAIN l = 1..n /\ \A i \in 1..n : l[i].timer \in Timers
  BY NodeSeqType
<1>2. f \in Injection(1..n, Timers)
  BY <1>1 DEF Unique, Injection, IsInjective
<1>3. Cardinality(1..n) <= Cardinality(Timers)
  BY <1>2, TimingAssumption, FS_Injection
<1>4. 1 \in Int /\ n \in Int
  BY <1>1
<1>5. Cardinality(1..n) = IF 1 > n THEN 0 ELSE n - 1 + 1
  BY <1>4, FS_Interval
<1> QED
  BY <1>1, <1>3, <1>5

-----------------------------------------------------------------------------
(***************************************************************************)
(* Lists and sequences as the proofs about the steps need them.            *)
(***************************************************************************)
(* The distance of two values of the counter, from that of each to a       *)
(* third.                                                                  *)
LEMMA DiffShift ==
  ASSUME NEW a \in Counters, NEW b \in Counters, NEW base \in Counters
  PROVE  /\ Diff(b, base) <= Diff(a, base) => Diff(a, b) = Diff(a, base) - Diff(b, base)
         /\ Diff(a, base) < Diff(b, base) =>
              Diff(a, b) = Diff(a, base) - Diff(b, base) + CounterSize
         /\ Diff(a, base) = Diff(b, base) => a = b
<1> DEFINE x == Diff(a, base)
           y == Diff(b, base)
           z == Diff(a, b)
<1>1. /\ a \in Int /\ 0 <= a /\ a < CounterSize
      /\ b \in Int /\ 0 <= b /\ b < CounterSize
      /\ base \in Int /\ 0 <= base /\ base < CounterSize /\ CounterSize \in Int
  BY CountersInt, ConstantsType
<1>2. (base <= a => x = a - base) /\ (a < base => x = (a - base) + CounterSize)
  BY DiffCases
<1>3. (base <= b => y = b - base) /\ (b < base => y = (b - base) + CounterSize)
  BY DiffCases
<1>4. (b <= a => z = a - b) /\ (a < b => z = (a - b) + CounterSize)
  BY DiffCases
<1> HIDE DEF x, y, z
<1>5. /\ y <= x => z = x - y
      /\ x < y => z = x - y + CounterSize
      /\ x = y => a = b
  BY <1>1, <1>2, <1>3, <1>4
<1> QED
  BY <1>5 DEF x, y, z

(* m_ticks_latest moves on, and the distances from it with it.             *)
LEMMA SinceMoves ==
  ASSUME NEW at \in Counters, NEW base \in Counters, NEW e \in Nat, e < CounterSize,
         Diff(at, base) < e + Half, e - Diff(at, base) <= CounterSize - Half
  PROVE  LET b == (base + e) % CounterSize
             s == Diff(at, base) - e
         IN  /\ (IF Diff(at, b) < Half THEN Diff(at, b) ELSE Diff(at, b) - CounterSize) = s
             /\ \A n \in Nat : ToExpire(at, b, n) = IF s + n >= 0 THEN s + n ELSE 0
<1> DEFINE b == (base + e) % CounterSize
           y == Diff(at, base)
           d == Diff(at, b)
           f == Diff(b, at)
<1>1. b \in Counters /\ Diff(b, base) = e
  BY ConstantsType, DiffOfWrap
<1>2. CounterSize \in Int /\ Half \in Int
  BY ConstantsType
<1>3. y \in Int /\ d \in Int /\ f \in Int /\ 0 <= y /\ y < CounterSize
  <2>1. at \in Int /\ b \in Int /\ base \in Int
    BY <1>1, CountersInt
  <2>2. y \in Counters /\ d \in Counters /\ f \in Counters
    BY <2>1, WrapCases DEF Diff
  <2> HIDE DEF y, d, f
  <2> QED
    BY <2>2, CountersInt
<1>4. /\ e <= y => d = y - e
      /\ y < e => d = y - e + CounterSize
      /\ y <= e => f = e - y
  BY <1>1, DiffShift
<1>5. y < e + Half /\ e - y <= CounterSize - Half
  OBVIOUS
<1> HIDE DEF y, d, f
<1>6. (IF d < Half THEN d ELSE d - CounterSize) = y - e
  BY <1>2, <1>3, <1>4, <1>5
<1>7. ASSUME NEW n \in Nat
      PROVE  ToExpire(at, b, n) = IF (y - e) + n >= 0 THEN (y - e) + n ELSE 0
  <2>1. ToExpire(at, b, n) = IF d < Half THEN d + n ELSE IF n > f THEN n - f ELSE 0
    BY DEF ToExpire, d, f
  <2>2. (IF d < Half THEN d + n ELSE IF n > f THEN n - f ELSE 0)
          = IF (y - e) + n >= 0 THEN (y - e) + n ELSE 0
    BY <1>2, <1>3, <1>4, <1>5
  <2> QED
    BY <2>1, <2>2
<1> QED
  BY <1>6, <1>7 DEF y, d

(* The number of nodes that n ticks cover, from which are covered. *)
LEMMA CoveredUnique ==
  ASSUME NEW l \in NodeSeq, NEW n \in Int, NEW k \in 0..Len(l),
         \A i \in 1..Len(l) : i <= k <=> Until(l, i) <= n
  PROVE  Covered(l, n) = k
<1> DEFINE c == Covered(l, n)
<1>1. c \in 0..Len(l) /\ \A i \in 1..Len(l) : i <= c <=> i <= k
  BY CoveredDef
<1>2. Len(l) \in Nat
  BY NodeSeqType
<1> HIDE DEF c
<1>3. ~(c < k)
  BY <1>1, <1>2
<1>4. ~(k < c)
  BY <1>1, <1>2
<1> QED
  BY <1>1, <1>2, <1>3, <1>4 DEF c

(* A sequence without its head. *)
LEMMA TailFacts ==
  ASSUME NEW S, NEW s \in Seq(S), s # <<>>
  PROVE  /\ Tail(s) \in Seq(S) /\ Len(s) \in Nat /\ Len(s) >= 1 /\ Head(s) = s[1]
         /\ DOMAIN s = 1..Len(s) /\ 1 \in DOMAIN s /\ s[1] \in S
         /\ DOMAIN Tail(s) = 1..(Len(s) - 1) /\ Len(Tail(s)) = Len(s) - 1
         /\ \A i \in DOMAIN Tail(s) : i \in Nat /\ i + 1 \in DOMAIN s /\ Tail(s)[i] = s[i + 1]
         /\ \A i \in DOMAIN s : i # 1 => i - 1 \in DOMAIN Tail(s) /\ Tail(s)[i - 1] = s[i]
<1>1. Len(s) \in Nat /\ Len(s) >= 1 /\ DOMAIN s = 1..Len(s) /\ Head(s) = s[1]
  OBVIOUS
<1>2. Tail(s) \in Seq(S) /\ Len(Tail(s)) = Len(s) - 1
      /\ \A i \in 1..(Len(s) - 1) : Tail(s)[i] = s[i + 1]
  OBVIOUS
<1>3. DOMAIN Tail(s) = 1..(Len(s) - 1)
  BY <1>2
<1>4. s[1] \in S
  BY <1>1, ElementOfSeq
<1>5. ASSUME NEW i \in DOMAIN s, i # 1 PROVE i - 1 \in DOMAIN Tail(s) /\ Tail(s)[i - 1] = s[i]
  <2>1. i - 1 \in 1..(Len(s) - 1)
    BY <1>1, <1>5
  <2>2. Tail(s)[i - 1] = s[i - 1 + 1]
    BY <1>2, <2>1
  <2> QED
    BY <1>1, <1>3, <2>1, <2>2
<1> QED
  BY <1>1, <1>2, <1>3, <1>4, <1>5

(* The ticks of a node are not more than its time. *)
LEMMA WaitsBounded ==
  ASSUME NEW l \in NodeSeq, \A i \in 1..Len(l) : Until(l, i) <= 2 * CounterSize
  PROVE  l \in Seq([timer : Timers, wait : 0..(2 * CounterSize)])
<1> DEFINE S == [timer : Timers, wait : 0..(2 * CounterSize)]
<1>1. Len(l) \in Nat /\ DOMAIN l = 1..Len(l)
      /\ \A i \in 1..Len(l) : /\ l[i].timer \in Timers /\ l[i].wait \in Nat
                              /\ l[i] = Node(l[i].timer, l[i].wait)
  BY NodeSeqType
<1>2. ASSUME NEW i \in 1..Len(l) PROVE l[i] \in S
  <2>1. Until(l, i) = Until(l, i - 1) + l[i].wait
    BY UntilDef
  <2>2. i - 1 \in 0..Len(l) /\ i \in 0..Len(l)
    BY <1>1
  <2>3. Until(l, i - 1) \in Nat /\ Until(l, i) \in Nat
    BY <2>2, UntilDef
  <2>4. l[i].wait <= 2 * CounterSize
    BY <1>1, <2>1, <2>3, ConstantsType
  <2>5. l[i].wait \in 0..(2 * CounterSize)
    BY <1>1, <2>4, ConstantsType
  <2> QED
    BY <1>1, <2>5 DEF Node
<1>3. l \in [1..Len(l) -> S]
  <2>1. l \in Seq([timer : Timers, wait : Nat])
    BY DEF NodeSeq
  <2> HIDE DEF S
  <2> QED
    BY <1>1, <1>2, <2>1
<1> HIDE DEF S
<1>4. l \in Seq(S)
  BY <1>1, <1>3, SeqIntro
<1> QED
  BY <1>4 DEF S

(* A list has a head unless it is empty. *)
LEMMA ListHead ==
  ASSUME NEW l \in NodeSeq
  PROVE  /\ l # <<>> => 1 \in DOMAIN l /\ HeadOf(l) = {l[1].timer}
         /\ l # <<>> <=> HeadOf(l) # {}
<1>1. l \in Seq([timer : Timers, wait : Nat]) /\ Len(l) \in Nat /\ DOMAIN l = 1..Len(l)
  BY NodeSeqType DEF NodeSeq
<1>2. Len(l) = 0 => l = <<>>
  BY <1>1, EmptySeq
<1> QED
  BY <1>1, <1>2 DEF HeadOf

(* The image of a sequence, of its tail.                                   *)
LEMMA TailImage ==
  ASSUME NEW S, NEW s \in Seq(S), s # <<>>, Injective(s)
  PROVE  {Tail(s)[i] : i \in DOMAIN Tail(s)} = {s[i] : i \in DOMAIN s} \ {Head(s)}
         /\ Head(s) \in {s[i] : i \in DOMAIN s}
<1>1. /\ Len(s) \in Nat /\ Len(s) >= 1 /\ Head(s) = s[1] /\ DOMAIN s = 1..Len(s) /\ 1 \in DOMAIN s
      /\ DOMAIN Tail(s) = 1..(Len(s) - 1)
      /\ \A i \in DOMAIN Tail(s) : i \in Nat /\ i + 1 \in DOMAIN s /\ Tail(s)[i] = s[i + 1]
      /\ \A i \in DOMAIN s : i # 1 => i - 1 \in DOMAIN Tail(s) /\ Tail(s)[i - 1] = s[i]
  BY TailFacts
<1>2. \A i \in DOMAIN Tail(s) : i + 1 # 1
  BY <1>1
<1>3. \A i \in DOMAIN Tail(s) : s[i + 1] # s[1]
  BY <1>1, <1>2 DEF Injective
<1>4. ASSUME NEW x PROVE x \in {Tail(s)[i] : i \in DOMAIN Tail(s)}
                          <=> x \in {s[i] : i \in DOMAIN s} \ {Head(s)}
  <2>1. ASSUME NEW i \in DOMAIN Tail(s), x = Tail(s)[i]
        PROVE  x # s[1] /\ \E j \in DOMAIN s : x = s[j]
    BY <1>1, <1>3, <2>1
  <2>2. ASSUME NEW j \in DOMAIN s, x = s[j], x # s[1]
        PROVE  \E i \in DOMAIN Tail(s) : x = Tail(s)[i]
    BY <1>1, <2>2
  <2>3. Head(s) = s[1]
    BY <1>1
  <2> QED
    BY <2>1, <2>2, <2>3
<1>5. Head(s) \in {s[i] : i \in DOMAIN s}
  BY <1>1
<1> QED
  BY <1>4, <1>5

(* The same for the timers that start again. *)
LEMMA TailTimers ==
  ASSUME NEW s \in Seq(Restarts), s # <<>>,
         \A i, j \in DOMAIN s : s[i].timer = s[j].timer => i = j
  PROVE  {Tail(s)[i].timer : i \in DOMAIN Tail(s)}
           = {s[i].timer : i \in DOMAIN s} \ {Head(s).timer}
         /\ Head(s).timer \in {s[i].timer : i \in DOMAIN s}
<1>1. /\ Len(s) \in Nat /\ Len(s) >= 1 /\ Head(s) = s[1] /\ DOMAIN s = 1..Len(s) /\ 1 \in DOMAIN s
      /\ DOMAIN Tail(s) = 1..(Len(s) - 1)
      /\ \A i \in DOMAIN Tail(s) : i \in Nat /\ i + 1 \in DOMAIN s /\ Tail(s)[i] = s[i + 1]
      /\ \A i \in DOMAIN s : i # 1 => i - 1 \in DOMAIN Tail(s) /\ Tail(s)[i - 1] = s[i]
  BY TailFacts
<1>2. \A i \in DOMAIN Tail(s) : i + 1 # 1
  BY <1>1
<1>3. \A i \in DOMAIN Tail(s) : s[i + 1].timer # s[1].timer
  BY <1>1, <1>2
<1>4. ASSUME NEW x PROVE x \in {Tail(s)[i].timer : i \in DOMAIN Tail(s)}
                          <=> x \in {s[i].timer : i \in DOMAIN s} \ {Head(s).timer}
  <2>1. ASSUME NEW i \in DOMAIN Tail(s), x = Tail(s)[i].timer
        PROVE  x # s[1].timer /\ \E j \in DOMAIN s : x = s[j].timer
    BY <1>1, <1>3, <2>1
  <2>2. ASSUME NEW j \in DOMAIN s, x = s[j].timer, x # s[1].timer
        PROVE  \E i \in DOMAIN Tail(s) : x = Tail(s)[i].timer
    BY <1>1, <2>2
  <2>3. Head(s) = s[1]
    BY <1>1
  <2> QED
    BY <2>1, <2>2, <2>3
<1>5. Head(s).timer \in {s[i].timer : i \in DOMAIN s}
  BY <1>1
<1> QED
  BY <1>4, <1>5

-----------------------------------------------------------------------------
(***************************************************************************)
(* Requests without their ticks, as TimerQueue has them.                   *)
(***************************************************************************)
(* The list is that of TimerQueue, without the ticks.                      *)
Plain(r) == [op |-> r.op, timer |-> r.timer]

AskOf(q) == [i \in DOMAIN q |-> [op |-> q[i].op, timer |-> q[i].timer]]

PlainOps == [op : {"start", "stop"}, timer : Timers]

(* The requests without their ticks. *)
LEMMA AskOfType ==
  ASSUME NEW q \in Seq(RingOps)
  PROVE  /\ AskOf(q) \in Seq(PlainOps) /\ Len(AskOf(q)) = Len(q) /\ Len(q) \in Nat
         /\ DOMAIN AskOf(q) = 1..Len(q) /\ DOMAIN q = 1..Len(q)
         /\ \A i \in 1..Len(q) : AskOf(q)[i] = Plain(q[i])
<1>1. Len(q) \in Nat /\ DOMAIN q = 1..Len(q)
  OBVIOUS
<1>2. \A i \in 1..Len(q) : Plain(q[i]) \in PlainOps
  <2> SUFFICES ASSUME NEW i \in 1..Len(q) PROVE Plain(q[i]) \in PlainOps
    OBVIOUS
  <2>1. q[i] \in RingOps
    BY <1>1
  <2>2. q[i].op \in {"start", "stop"} /\ q[i].timer \in Timers
    BY <2>1 DEF RingOps
  <2> QED
    BY <2>2 DEF Plain, PlainOps
<1>3. AskOf(q) = [i \in 1..Len(q) |-> Plain(q[i])]
  BY <1>1 DEF AskOf, Plain
<1>4. AskOf(q) \in [1..Len(q) -> PlainOps]
  BY <1>2, <1>3
<1>5. AskOf(q) \in Seq(PlainOps)
  BY <1>1, <1>4, SeqIntro
<1>6. Len(AskOf(q)) = Len(q)
  BY <1>1, <1>4, <1>5
<1> QED
  BY <1>1, <1>3, <1>5, <1>6

(* They grow with the ring ... *)
LEMMA AskOfAppend ==
  ASSUME NEW q \in Seq(RingOps), NEW r \in RingOps
  PROVE  AskOf(Append(q, r)) = Append(AskOf(q), Plain(r))
<1>1. /\ Append(q, r) \in Seq(RingOps) /\ Len(Append(q, r)) = Len(q) + 1
      /\ \A i \in 1..Len(q) : Append(q, r)[i] = q[i]
      /\ Append(q, r)[Len(q) + 1] = r
  BY AppendProperties
<1>2. Plain(r) \in PlainOps
  <2>1. r.op \in {"start", "stop"} /\ r.timer \in Timers
    BY DEF RingOps
  <2> QED
    BY <2>1 DEF Plain, PlainOps
<1> DEFINE a == AskOf(Append(q, r))
           b == Append(AskOf(q), Plain(r))
<1>3. /\ a \in Seq(PlainOps) /\ Len(a) = Len(q) + 1 /\ Len(q) \in Nat
      /\ \A i \in 1..(Len(q) + 1) : a[i] = Plain(Append(q, r)[i])
  BY <1>1, AskOfType
<1>4. /\ b \in Seq(PlainOps) /\ Len(b) = Len(q) + 1
      /\ \A i \in 1..Len(q) : b[i] = AskOf(q)[i]
      /\ b[Len(q) + 1] = Plain(r)
  <2>1. AskOf(q) \in Seq(PlainOps) /\ Len(AskOf(q)) = Len(q)
    BY AskOfType
  <2> QED
    BY <1>2, <2>1, AppendProperties
<1>5. \A i \in 1..Len(q) : AskOf(q)[i] = Plain(q[i])
  BY AskOfType
<1> HIDE DEF a, b
<1>6. \A i \in 1..(Len(q) + 1) : a[i] = b[i]
  <2> SUFFICES ASSUME NEW i \in 1..(Len(q) + 1) PROVE a[i] = b[i]
    OBVIOUS
  <2>1. CASE i = Len(q) + 1
    BY <1>1, <1>3, <1>4, <2>1
  <2>2. CASE i # Len(q) + 1
    <3>1. i \in 1..Len(q)
      BY <1>3, <2>2
    <3> QED
      BY <1>1, <1>3, <1>4, <1>5, <3>1
  <2> QED
    BY <2>1, <2>2
<1>7. a = b
  BY <1>3, <1>4, <1>6, SeqEqual
<1> QED
  BY <1>7 DEF a, b

(* ... shrink with it ... *)
LEMMA AskOfTail ==
  ASSUME NEW q \in Seq(RingOps), q # <<>>
  PROVE  /\ AskOf(q) # <<>> /\ AskOf(Tail(q)) = Tail(AskOf(q))
         /\ Head(AskOf(q)) = Plain(Head(q)) /\ Head(q) \in RingOps
<1>1. /\ Tail(q) \in Seq(RingOps) /\ Len(q) \in Nat /\ Len(q) >= 1 /\ Head(q) = q[1]
      /\ Len(Tail(q)) = Len(q) - 1 /\ DOMAIN Tail(q) = 1..(Len(q) - 1) /\ q[1] \in RingOps
      /\ \A i \in DOMAIN Tail(q) : i \in Nat /\ i + 1 \in DOMAIN q /\ Tail(q)[i] = q[i + 1]
  BY TailFacts
<1>2. /\ AskOf(q) \in Seq(PlainOps) /\ Len(AskOf(q)) = Len(q) /\ DOMAIN q = 1..Len(q)
      /\ \A i \in 1..Len(q) : AskOf(q)[i] = Plain(q[i])
  BY AskOfType
<1>3. AskOf(q) # <<>>
  BY <1>1, <1>2
<1> DEFINE a == AskOf(Tail(q))
           b == Tail(AskOf(q))
<1>4. /\ a \in Seq(PlainOps) /\ Len(a) = Len(q) - 1
      /\ \A i \in 1..(Len(q) - 1) : a[i] = Plain(Tail(q)[i])
  BY <1>1, AskOfType
<1>5. /\ b \in Seq(PlainOps) /\ Len(b) = Len(q) - 1 /\ DOMAIN b = 1..(Len(q) - 1)
      /\ Head(AskOf(q)) = AskOf(q)[1]
      /\ \A i \in DOMAIN b : b[i] = AskOf(q)[i + 1]
  BY <1>2, <1>3, TailFacts
<1> HIDE DEF a, b
<1>6. \A i \in 1..(Len(q) - 1) : a[i] = b[i]
  BY <1>1, <1>2, <1>4, <1>5
<1>7. a = b
  BY <1>4, <1>5, <1>6, SeqEqual
<1>8. 1 \in 1..Len(q)
  BY <1>1
<1> QED
  BY <1>1, <1>2, <1>3, <1>5, <1>7, <1>8 DEF a, b

(* ... and are empty with it. *)
LEMMA AskOfEmpty == ASSUME NEW q \in Seq(RingOps) PROVE AskOf(q) = <<>> <=> q = <<>>
<1>1. AskOf(q) \in Seq(PlainOps) /\ Len(AskOf(q)) = Len(q)
  BY AskOfType
<1> QED
  BY <1>1, EmptySeq
=============================================================================
