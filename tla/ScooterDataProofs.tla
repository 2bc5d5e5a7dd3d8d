------------------------- MODULE ScooterDataProofs -------------------------
(***************************************************************************)
(* The frame codec and the data half of ninebot_module.c, for every        *)
(* register value, every place a frame is cut at or damaged, and any       *)
(* number of faults; and the battery bar drawn of the values.              *)
(***************************************************************************)
EXTENDS Screen, NaturalSets, SequenceTheorems

-----------------------------------------------------------------------------
(***************************************************************************)
(* The recursive function Sums: what a running sum is.                     *)
(***************************************************************************)
LEMMA SumsExist ==
  ASSUME NEW s \in Seq(Int)
  PROVE  \E f \in [0..Len(s) -> Int] :
           f[0] = 0 /\ \A k \in 1..Len(s) : f[k] = f[k - 1] + s[k]
<1> DEFINE Has(n, f) == f[0] = 0 /\ \A k \in 1..n : f[k] = f[k - 1] + s[k]
           T == {n \in 0..Len(s) : \E f \in [0..n -> Int] : Has(n, f)}
<1>0. Len(s) \in Nat /\ 0 \in 0..Len(s)
  OBVIOUS
<1>1. 0 \in T
  <2> DEFINE f == [k \in 0..0 |-> 0]
  <2>1. f \in [0..0 -> Int] /\ Has(0, f)
    OBVIOUS
  <2> QED
    BY <1>0, <2>1
<1>2. ASSUME NEW n \in 0..(Len(s) - 1), n \in T
      PROVE  n + 1 \in T
  <2>1. PICK f \in [0..n -> Int] : Has(n, f)
    BY <1>2
  <2> DEFINE g == [k \in 0..(n + 1) |-> IF k = n + 1 THEN f[n] + s[n + 1] ELSE f[k]]
  <2>2. n + 1 \in 1..Len(s) /\ s[n + 1] \in Int /\ f[n] \in Int /\ n \in Nat
    BY <1>0
  <2>3. g \in [0..(n + 1) -> Int]
    BY <2>2
  <2>4. ASSUME NEW k \in 1..(n + 1) PROVE g[k] = g[k - 1] + s[k]
    <3>1. CASE k = n + 1
      BY <2>2, <3>1
    <3>2. CASE k # n + 1
      BY <2>1, <2>2, <3>2
    <3> QED
      BY <3>1, <3>2
  <2>5. g[0] = 0
    BY <2>1, <2>2
  <2> HIDE DEF g
  <2>6. Has(n + 1, g)
    BY <2>4, <2>5
  <2>7. n + 1 \in 0..Len(s)
    BY <2>2
  <2> HIDE DEF Has
  <2> QED
    BY <2>3, <2>6, <2>7
<1> HIDE DEF T
<1>3. 0..Len(s) \subseteq T
  BY <1>0, <1>1, <1>2, UpToInduction
<1>4. Len(s) \in T
  BY <1>0, <1>3
<1> QED
  BY <1>4 DEF T

LEMMA SumsFacts ==
  ASSUME NEW s \in Seq(Int)
  PROVE  /\ Sums(s) \in [0..Len(s) -> Int] /\ Sums(s)[0] = 0
         /\ \A k \in 1..Len(s) : Sums(s)[k] = Sums(s)[k - 1] + s[k]
<1> DEFINE D(f) == [k \in 0..Len(s) |-> IF k = 0 THEN 0 ELSE f[k - 1] + s[k]]
           S == Sums(s)
<1>0. Len(s) \in Nat
  OBVIOUS
<1>1. PICK f \in [0..Len(s) -> Int] :
        f[0] = 0 /\ \A k \in 1..Len(s) : f[k] = f[k - 1] + s[k]
  BY SumsExist
<1>2. f = D(f)
  <2>1. ASSUME NEW k \in 0..Len(s) PROVE f[k] = D(f)[k]
    BY <1>0, <1>1
  <2> QED
    BY <2>1
<1>3. S = CHOOSE g : g = D(g)
  BY DEF Sums
<1> HIDE DEF S
<1>4. S = D(S)
  BY <1>2, <1>3
<1>5. S[0] = 0 /\ \A k \in 1..Len(s) : S[k] = S[k - 1] + s[k]
  <2>1. D(S)[0] = 0
    BY <1>0
  <2>2. \A k \in 1..Len(s) : k \in 0..Len(s) /\ k # 0
    BY <1>0
  <2>3. \A k \in 1..Len(s) : D(S)[k] = S[k - 1] + s[k]
    BY <2>2
  <2> HIDE DEF D
  <2> QED
    BY <1>4, <2>1, <2>3
<1> DEFINE T == {k \in 0..Len(s) : S[k] \in Int}
<1>6. 0..Len(s) \subseteq T
  <2>1. 0 \in T
    BY <1>0, <1>5
  <2>2. ASSUME NEW k \in 0..(Len(s) - 1), k \in T PROVE k + 1 \in T
    <3>1. k + 1 \in 1..Len(s) /\ (k + 1) - 1 = k /\ s[k + 1] \in Int /\ S[k] \in Int
      BY <1>0, <2>2
    <3>2. S[k + 1] = S[k] + s[k + 1]
      BY <1>5, <3>1
    <3> QED
      BY <3>1, <3>2
  <2> HIDE DEF T
  <2> QED
    BY <1>0, <2>1, <2>2, UpToInduction
<1>7. S \in [0..Len(s) -> Int]
  BY <1>4, <1>6
<1> QED
  BY <1>5, <1>7 DEF S

(* Where two sequences agree, their sums grow by the same amounts. *)
LEMMA SumsShift ==
  ASSUME NEW s \in Seq(Int), NEW t \in Seq(Int), NEW m \in Nat, NEW n \in Nat,
         m + n <= Len(s), n <= Len(t), \A i \in 1..n : s[m + i] = t[i]
  PROVE  Sums(s)[m + n] = Sums(s)[m] + Sums(t)[n]
<1> DEFINE T == {k \in 0..n : Sums(s)[m + k] = Sums(s)[m] + Sums(t)[k]}
<1>0. Len(s) \in Nat /\ Len(t) \in Nat
  OBVIOUS
<1>1. 0 \in T
  <2>1. m + 0 = m /\ m \in 0..Len(s)
    BY <1>0
  <2>2. Sums(s)[m] \in Int /\ Sums(t)[0] = 0
    BY <2>1, SumsFacts
  <2> QED
    BY <2>1, <2>2
<1>2. ASSUME NEW k \in 0..(n - 1), k \in T PROVE k + 1 \in T
  <2>1. /\ k + 1 \in 1..n /\ k + 1 \in 1..Len(t) /\ (k + 1) - 1 = k
        /\ m + (k + 1) \in 1..Len(s) /\ (m + (k + 1)) - 1 = m + k
        /\ m \in 0..Len(s) /\ k \in 0..Len(t)
    BY <1>0
  <2>2. Sums(s)[m + (k + 1)] = Sums(s)[m + k] + s[m + (k + 1)]
    BY <2>1, SumsFacts
  <2>3. Sums(t)[k + 1] = Sums(t)[k] + t[k + 1]
    BY <2>1, SumsFacts
  <2>4. Sums(s)[m] \in Int /\ Sums(t)[k] \in Int
    BY <2>1, SumsFacts
  <2>8. t[k + 1] \in Int
    BY <2>1, ElementOfSeq
  <2>5. Sums(s)[m + k] = Sums(s)[m] + Sums(t)[k] /\ s[m + (k + 1)] = t[k + 1]
    BY <1>2, <2>1
  <2> DEFINE a == Sums(s)[m]
             b == Sums(t)[k]
             x == t[k + 1]
  <2> HIDE DEF a, b, x
  <2>9. Sums(s)[m + (k + 1)] = (a + b) + x /\ Sums(t)[k + 1] = b + x
    BY <2>2, <2>3, <2>5 DEF a, b, x
  <2>10. a \in Int /\ b \in Int /\ x \in Int
    BY <2>4, <2>8 DEF a, b, x
  <2>11. (a + b) + x = a + (b + x)
    BY <2>10
  <2>6. Sums(s)[m + (k + 1)] = Sums(s)[m] + Sums(t)[k + 1]
    BY <2>9, <2>11 DEF a
  <2>7. k + 1 \in 0..n
    BY <2>1
  <2> QED
    BY <2>6, <2>7
<1> HIDE DEF T
<1>3. 0..n \subseteq T
  BY <1>1, <1>2, UpToInduction
<1>4. n \in T
  BY <1>3
<1> QED
  BY <1>4 DEF T

LEMMA SumsPrefix ==
  ASSUME NEW s \in Seq(Int), NEW t \in Seq(Int), NEW n \in Nat,
         n <= Len(s), n <= Len(t), \A i \in 1..n : s[i] = t[i]
  PROVE  Sums(s)[n] = Sums(t)[n]
<1>1. 0 + n = n /\ \A i \in 1..n : s[0 + i] = t[i]
  OBVIOUS
<1>2. Sums(s)[0 + n] = Sums(s)[0] + Sums(t)[n]
  BY <1>1, SumsShift
<1>3. n \in 0..Len(t)
  OBVIOUS
<1>4. Sums(s)[0] = 0 /\ Sums(t)[n] \in Int
  BY <1>3, SumsFacts
<1> QED
  BY <1>1, <1>2, <1>4

(* A changed element changes the sum. *)
LEMMA SumsDiffer ==
  ASSUME NEW s \in Seq(Int), NEW t \in Seq(Int), NEW n \in Nat, NEW i \in 1..n,
         n <= Len(s), n <= Len(t), \A j \in 1..n : j # i => s[j] = t[j]
  PROVE  Sums(s)[n] - Sums(t)[n] = s[i] - t[i]
<1>0. /\ Len(s) \in Nat /\ Len(t) \in Nat /\ i \in Nat /\ i - 1 \in Nat
      /\ i \in 1..Len(s) /\ i \in 1..Len(t) /\ n - i \in Nat
      /\ i + (n - i) = n
  OBVIOUS
<1>1. Sums(s)[i - 1] = Sums(t)[i - 1]
  <2>1. i - 1 <= Len(s) /\ i - 1 <= Len(t)
    BY <1>0
  <2>2. \A j \in 1..(i - 1) : j \in 1..n /\ j # i
    BY <1>0
  <2>3. \A j \in 1..(i - 1) : s[j] = t[j]
    BY <2>2
  <2> QED
    BY <1>0, <2>1, <2>3, SumsPrefix
<1>2. Sums(s)[i] = Sums(s)[i - 1] + s[i] /\ Sums(t)[i] = Sums(t)[i - 1] + t[i]
  BY <1>0, SumsFacts
<1> DEFINE u == SubSeq(t, i + 1, n)
<1>3. u \in Seq(Int) /\ Len(u) = n - i /\ \A j \in 1..(n - i) : u[j] = t[i + j]
  <2>1. \A j \in (i + 1)..n : t[j] \in Int
    BY <1>0
  <2>2. /\ u \in Seq(Int) /\ Len(u) = IF i + 1 <= n THEN n - (i + 1) + 1 ELSE 0
        /\ \A j \in 1..(n - (i + 1) + 1) : u[j] = t[(i + 1) + j - 1]
    BY <1>0, <2>1, SubSeqProperties
  <2>3. n - (i + 1) + 1 = n - i
    BY <1>0
  <2> HIDE DEF u
  <2>4. Len(u) = n - i
    BY <1>0, <2>2
  <2>5. \A j \in 1..(n - i) : (i + 1) + j - 1 = i + j
    BY <1>0
  <2> QED
    BY <2>2, <2>3, <2>4, <2>5
<1> HIDE DEF u
<1>8. n - i <= Len(s) /\ n - i <= Len(u) /\ i + (n - i) <= Len(s) /\ i + (n - i) <= Len(t)
  BY <1>0, <1>3
<1>4. \A j \in 1..(n - i) : s[i + j] = u[j]
  <2>1. \A j \in 1..(n - i) : i + j \in 1..n /\ i + j # i
    BY <1>0
  <2> QED
    BY <1>3, <2>1
<1>5. Sums(s)[i + (n - i)] = Sums(s)[i] + Sums(u)[n - i]
  <2>1. i \in Nat /\ n - i \in Nat /\ u \in Seq(Int)
    BY <1>0, <1>3
  <2> QED
    BY <1>4, <1>8, <2>1, SumsShift
<1>6. Sums(t)[i + (n - i)] = Sums(t)[i] + Sums(u)[n - i]
  <2>1. i \in Nat /\ n - i \in Nat /\ u \in Seq(Int)
    BY <1>0, <1>3
  <2>2. \A j \in 1..(n - i) : t[i + j] = u[j]
    BY <1>3
  <2> QED
    BY <1>8, <2>1, <2>2, SumsShift
<1>7. Sums(s)[i - 1] \in Int /\ Sums(u)[n - i] \in Int
  <2>1. i - 1 \in 0..Len(s)
    BY <1>0
  <2>2. n - i \in 0..Len(u)
    BY <1>0, <1>3
  <2> QED
    BY <1>3, <2>1, <2>2, SumsFacts
<1>9. s[i] \in Int /\ t[i] \in Int
  BY <1>0
<1> DEFINE a == Sums(s)[i - 1]
           b == Sums(u)[n - i]
           x == s[i]
           y == t[i]
<1> HIDE DEF a, b, x, y
<1>10. Sums(s)[n] = (a + x) + b /\ Sums(t)[n] = (a + y) + b
  BY <1>0, <1>1, <1>2, <1>5, <1>6 DEF a, b, x, y
<1>11. a \in Int /\ b \in Int /\ x \in Int /\ y \in Int
  BY <1>7, <1>9 DEF a, b, x, y
<1>12. ((a + x) + b) - ((a + y) + b) = x - y
  BY <1>11
<1> QED
  BY <1>10, <1>12 DEF x, y

LEMMA ByteFacts ==
  \A x : x \in Byte <=> x \in Int /\ 0 <= x /\ x <= 255
BY DEF Byte

LEMMA BytesAreInts ==
  ASSUME NEW s \in Seq(Byte)
  PROVE  s \in Seq(Int)
<1>1. Byte \subseteq Int
  BY DEF Byte
<1> QED
  BY <1>1, SeqMonotonic

LEMMA SumsBounds ==
  ASSUME NEW s \in Seq(Byte), NEW n \in 0..Len(s)
  PROVE  Sums(s)[n] \in Int /\ 0 <= Sums(s)[n] /\ Sums(s)[n] <= 255 * n
<1> DEFINE T == {k \in 0..Len(s) : Sums(s)[k] \in Int /\ 0 <= Sums(s)[k] /\ Sums(s)[k] <= 255 * k}
<1>0. Len(s) \in Nat /\ s \in Seq(Int)
  BY BytesAreInts
<1>1. 0 \in T
  BY <1>0, SumsFacts
<1>2. ASSUME NEW k \in 0..(Len(s) - 1), k \in T PROVE k + 1 \in T
  <2>1. k + 1 \in 1..Len(s) /\ (k + 1) - 1 = k /\ k + 1 \in 0..Len(s) /\ k \in Int
    BY <1>0
  <2>2. Sums(s)[k + 1] = Sums(s)[k] + s[k + 1]
    BY <1>0, <2>1, SumsFacts
  <2>3. s[k + 1] \in Byte
    BY <2>1
  <2>4. s[k + 1] \in Int /\ 0 <= s[k + 1] /\ s[k + 1] <= 255
    BY <2>3, ByteFacts
  <2>5. Sums(s)[k] \in Int /\ 0 <= Sums(s)[k] /\ Sums(s)[k] <= 255 * k
    BY <1>2
  <2>6. Sums(s)[k + 1] \in Int /\ 0 <= Sums(s)[k + 1] /\ Sums(s)[k + 1] <= 255 * (k + 1)
    BY <2>1, <2>2, <2>4, <2>5
  <2> QED
    BY <2>1, <2>6
<1> HIDE DEF T
<1>3. 0..Len(s) \subseteq T
  BY <1>0, <1>1, <1>2, UpToInduction
<1> QED
  BY <1>3 DEF T

(* Part of a sequence. *)
LEMMA PartProperties ==
  ASSUME NEW S, NEW s \in Seq(S), NEW a \in Nat, NEW b \in Nat, a <= b, b <= Len(s)
  PROVE  /\ SubSeq(s, a + 1, b) \in Seq(S)
         /\ Len(SubSeq(s, a + 1, b)) = b - a
         /\ \A i \in 1..(b - a) : SubSeq(s, a + 1, b)[i] = s[a + i]
<1> DEFINE u == SubSeq(s, a + 1, b)
<1>0. Len(s) \in Nat
  OBVIOUS
<1>1. \A i \in (a + 1)..b : s[i] \in S
  <2>1. \A i \in (a + 1)..b : i \in 1..Len(s)
    BY <1>0
  <2> QED
    BY <2>1, ElementOfSeq
<1>2. /\ u \in Seq(S) /\ Len(u) = IF a + 1 <= b THEN b - (a + 1) + 1 ELSE 0
      /\ \A i \in 1..(b - (a + 1) + 1) : u[i] = s[(a + 1) + i - 1]
  BY <1>1, SubSeqProperties
<1>3. b - (a + 1) + 1 = b - a
  OBVIOUS
<1> HIDE DEF u
<1>4. Len(u) = b - a
  BY <1>2
<1>5. \A i \in 1..(b - a) : (a + 1) + i - 1 = a + i
  OBVIOUS
<1>6. \A i \in 1..(b - a) : u[i] = s[a + i]
  BY <1>2, <1>3, <1>5
<1> QED
  BY <1>2, <1>4, <1>6 DEF u

(* The sum of a part is what the running sum gained on it. *)
LEMMA SumOfPart ==
  ASSUME NEW s \in Seq(Int), NEW a \in Nat, NEW b \in Nat, a <= b, b <= Len(s)
  PROVE  SumOf(SubSeq(s, a + 1, b)) = Sums(s)[b] - Sums(s)[a]
<1> DEFINE u == SubSeq(s, a + 1, b)
           n == b - a
<1>1. u \in Seq(Int) /\ Len(u) = b - a /\ \A i \in 1..(b - a) : u[i] = s[a + i]
  BY PartProperties
<1>0. n \in Nat /\ a + n = b /\ a \in 0..Len(s) /\ b \in 0..Len(s)
  OBVIOUS
<1> HIDE DEF u
<1>2. n <= Len(u) /\ n \in 0..Len(u) /\ \A i \in 1..n : s[a + i] = u[i]
  BY <1>0, <1>1
<1>3. Len(u) = n
  BY <1>1
<1> HIDE DEF n
<1>4. Sums(s)[a + n] = Sums(s)[a] + Sums(u)[n]
  BY <1>0, <1>1, <1>2, SumsShift
<1>5. Sums(s)[a] \in Int /\ Sums(u)[n] \in Int
  BY <1>0, <1>1, <1>2, SumsFacts
<1>6. SumOf(u) = Sums(u)[n]
  BY <1>3 DEF SumOf
<1> DEFINE x == Sums(s)[a]
           y == Sums(u)[n]
           z == Sums(s)[b]
<1>7. z = x + y
  BY <1>0, <1>4
<1>8. x \in Int /\ y \in Int
  BY <1>5
<1> HIDE DEF x, y, z
<1>9. y = z - x
  BY <1>7, <1>8
<1> QED
  BY <1>6, <1>9 DEF u, x, y, z

LEMMA LesserFacts ==
  ASSUME NEW a \in Int, NEW b \in Int
  PROVE  /\ Lesser(a, b) \in Int /\ Lesser(a, b) <= a /\ Lesser(a, b) <= b
         /\ Lesser(a, b) \in {a, b}
         /\ a <= b => Lesser(a, b) = a
         /\ b <= a => Lesser(a, b) = b
BY DEF Lesser

-----------------------------------------------------------------------------
(***************************************************************************)
(* What one call makes of the first notification of a frame.               *)
(***************************************************************************)
HasHeader(d) == Len(d) \in 9..20 /\ d[1] = 85 /\ d[2] = 170 /\ d[3] >= 3

Body(d) == Len(d) - 6                \* the bytes behind the header
Taken(d) == Lesser(Body(d), d[3] - 2) \* of those the payload's
Summed(d) == Sums(d)[6 + Taken(d)] - Sums(d)[2]

Begun(d) ==
  [len |-> d[3], direction |-> d[4], RW |-> d[5], command |-> d[6],
   data |-> SubSeq(d, 7, 6 + Taken(d)),
   ck |-> <<IF d[3] - 1 <= Body(d) THEN d[5 + d[3]] ELSE 0,
            IF d[3] <= Body(d) THEN d[6 + d[3]] ELSE 0>>]

LEMMA HeaderFacts ==
  ASSUME NEW d \in Seq(Byte), HasHeader(d)
  PROVE  /\ Len(d) \in Nat /\ d[3] \in Int /\ 3 <= d[3] /\ d[3] <= 255
         /\ Body(d) \in Int /\ 3 <= Body(d) /\ Body(d) <= 14 /\ Len(d) = Body(d) + 6
         /\ Taken(d) \in Int /\ 1 <= Taken(d) /\ Taken(d) <= Body(d) /\ Taken(d) <= d[3] - 2
         /\ 6 + Taken(d) \in Nat /\ 6 + Taken(d) <= Len(d)
<1>0. Len(d) \in 9..20 /\ d[3] >= 3
  BY DEF HasHeader
<1>1. Len(d) \in Nat /\ 9 <= Len(d) /\ Len(d) <= 20 /\ 3 \in 1..Len(d)
  <2> DEFINE k == Len(d)
  <2>1. k \in 9..20
    BY <1>0
  <2> HIDE DEF k
  <2>2. k \in Nat /\ 9 <= k /\ k <= 20 /\ 3 \in 1..k
    BY <2>1
  <2> QED
    BY <2>2 DEF k
<1>2. d[3] \in Byte
  BY <1>1, ElementOfSeq
<1>3. d[3] \in Int /\ 3 <= d[3] /\ d[3] <= 255
  BY <1>0, <1>2, ByteFacts
<1>4. Body(d) \in Int /\ 3 <= Body(d) /\ Body(d) <= 14 /\ Len(d) = Body(d) + 6
  BY <1>1 DEF Body
<1> DEFINE b == Body(d)
           l == d[3] - 2
<1>5. b \in Int /\ l \in Int /\ 1 <= l /\ 3 <= b
  BY <1>3, <1>4
<1> HIDE DEF b, l
<1>6. Lesser(b, l) \in Int /\ Lesser(b, l) <= b /\ Lesser(b, l) <= l /\ Lesser(b, l) \in {b, l}
  BY <1>5, LesserFacts
<1>7. Taken(d) = Lesser(b, l)
  BY DEF Taken, b, l
<1>8. Taken(d) \in Int /\ 1 <= Taken(d) /\ Taken(d) <= b /\ Taken(d) <= l
  BY <1>5, <1>6, <1>7
<1>9. Taken(d) <= Body(d) /\ Taken(d) <= d[3] - 2
  BY <1>8 DEF b, l
<1> HIDE DEF l
<1>10. 6 + Taken(d) \in Nat /\ 6 + Taken(d) <= Len(d)
  BY <1>1, <1>4, <1>8, <1>9
<1> QED
  BY <1>1, <1>3, <1>4, <1>8, <1>9, <1>10

(* Records updated in several fields, one field at a time. *)
Fields(a, b, c, e, t, k) ==
  [len |-> a, direction |-> b, RW |-> c, command |-> e, data |-> t, ck |-> k]

OpenedWith(a, b, c, e) ==
  [Blank EXCEPT !.len = a, !.direction = b, !.RW = c, !.command = e]

FilledWith(r, t, k) == [r EXCEPT !.data = t, !.ck = k]

LEMMA OpenedIs ==
  ASSUME NEW a, NEW b, NEW c, NEW e
  PROVE  OpenedWith(a, b, c, e) = Fields(a, b, c, e, <<>>, <<0, 0>>)
<1> DEFINE t == <<>>
           k == <<0, 0>>
           r0 == Blank
           r1 == [r0 EXCEPT !.len = a]
           r2 == [r1 EXCEPT !.direction = b]
           r3 == [r2 EXCEPT !.RW = c]
           r4 == [r3 EXCEPT !.command = e]
<1>0. r0 = [len |-> 0, direction |-> 0, RW |-> 0, command |-> 0, data |-> t, ck |-> k]
  BY DEF Blank
<1> HIDE DEF t, k, r0
<1>1. [r0 EXCEPT !.len = a, !.direction = b, !.RW = c, !.command = e] = r4
  OBVIOUS
<1>2. r1 = [len |-> a, direction |-> 0, RW |-> 0, command |-> 0, data |-> t, ck |-> k]
  BY <1>0
<1> HIDE DEF r1
<1>3. r2 = [len |-> a, direction |-> b, RW |-> 0, command |-> 0, data |-> t, ck |-> k]
  BY <1>2
<1> HIDE DEF r2
<1>4. r3 = [len |-> a, direction |-> b, RW |-> c, command |-> 0, data |-> t, ck |-> k]
  BY <1>3
<1> HIDE DEF r3
<1>5. r4 = [len |-> a, direction |-> b, RW |-> c, command |-> e, data |-> t, ck |-> k]
  BY <1>4
<1> HIDE DEF r4
<1> QED
  BY <1>1, <1>5, Zenon DEF t, k, r0, OpenedWith, Fields

LEMMA FilledIs ==
  ASSUME NEW a, NEW b, NEW c, NEW e, NEW u, NEW v, NEW t, NEW k
  PROVE  FilledWith(Fields(a, b, c, e, u, v), t, k) = Fields(a, b, c, e, t, k)
<1> DEFINE r == Fields(a, b, c, e, u, v)
           r1 == [r EXCEPT !.data = t]
           r2 == [r1 EXCEPT !.ck = k]
<1>1. [r EXCEPT !.data = t, !.ck = k] = r2
  OBVIOUS
<1>2. r1 = [len |-> a, direction |-> b, RW |-> c, command |-> e, data |-> t, ck |-> v]
  BY DEF Fields
<1> HIDE DEF r1
<1>3. r2 = [len |-> a, direction |-> b, RW |-> c, command |-> e, data |-> t, ck |-> k]
  BY <1>2
<1> HIDE DEF r2
<1> QED
  BY <1>1, <1>3, Zenon DEF Fields, FilledWith

(* The bytes behind the header, absorbed into the pack it opened. *)
LEMMA FirstAbsorbed ==
  ASSUME NEW d \in Seq(Byte), HasHeader(d)
  PROVE  Absorbed(SubSeq(d, 7, Len(d)), [idx |-> 0, sum |-> SumOf(SubSeq(d, 3, 6))],
                  Opened(d, Blank))
           = [idx |-> Lesser(Body(d), d[3]), sum |-> Summed(d), pack |-> Begun(d)]
<1> DEFINE b == SubSeq(d, 7, Len(d))
           p == [idx |-> 0, sum |-> SumOf(SubSeq(d, 3, 6))]
           o == Opened(d, Blank)
           l == d[3]
           n == Lesser(Len(b), o.len - p.idx)
           m == Lesser(n, o.len - 2 - p.idx)
           ck(k) == LET i == o.len - 2 + k - p.idx
                    IN  IF i \in 1..n THEN b[i] ELSE o.ck[k]
<1>0. /\ Len(d) \in Nat /\ l \in Int /\ 3 <= l /\ Body(d) \in Int /\ 3 <= Body(d)
      /\ Len(d) = Body(d) + 6
      /\ Taken(d) \in Int /\ 1 <= Taken(d) /\ Taken(d) <= Body(d)
      /\ 6 + Taken(d) \in Nat /\ 6 + Taken(d) <= Len(d)
  BY HeaderFacts
<1>1. o = [len |-> d[3], direction |-> d[4], RW |-> d[5], command |-> d[6],
           data |-> <<>>, ck |-> <<0, 0>>]
  <2>1. o = OpenedWith(d[3], d[4], d[5], d[6])
    BY Zenon DEF Opened, OpenedWith
  <2> HIDE DEF o
  <2> QED
    BY <2>1, OpenedIs, Zenon DEF Fields
<1>2. p.idx = 0 /\ p.sum = SumOf(SubSeq(d, 3, 6))
  OBVIOUS
<1>3. o.len = l /\ o.data = <<>> /\ o.ck[1] = 0 /\ o.ck[2] = 0
  BY <1>1
<1>4. b \in Seq(Byte) /\ Len(b) = Body(d) /\ \A i \in 1..Body(d) : b[i] = d[6 + i]
  <2>1. 6 \in Nat /\ Len(d) \in Nat /\ 6 <= Len(d) /\ Len(d) <= Len(d)
    BY <1>0
  <2> DEFINE e == Len(d)
  <2> HIDE DEF e
  <2>2. /\ SubSeq(d, 6 + 1, e) \in Seq(Byte)
        /\ Len(SubSeq(d, 6 + 1, e)) = e - 6
        /\ \A i \in 1..(e - 6) : SubSeq(d, 6 + 1, e)[i] = d[6 + i]
    <3>1. 6 \in Nat /\ e \in Nat /\ 6 <= e /\ e <= Len(d)
      BY <2>1 DEF e
    <3> QED
      BY <3>1, PartProperties
  <2> USE DEF e
  <2>3. 6 + 1 = 7 /\ Len(d) - 6 = Body(d)
    BY <1>0
  <2> QED
    BY <2>2, <2>3
<1>5. Absorbed(b, p, o) =
        [idx |-> p.idx + n, sum |-> p.sum + SumOf(SubSeq(b, 1, m)),
         pack |-> [o EXCEPT !.data = @ \o SubSeq(b, 1, m), !.ck = <<ck(1), ck(2)>>]]
  BY Zenon DEF Absorbed
<1> HIDE DEF o, p, b, l
<1>6. o.len - p.idx = l /\ o.len - 2 - p.idx = l - 2
  BY <1>0, <1>2, <1>3
<1>7. n = Lesser(Body(d), l)
  BY <1>4, <1>6
<1> HIDE DEF n
<1>8. n \in Int /\ n <= l /\ n <= Body(d) /\ (n = l \/ n = Body(d))
  BY <1>0, <1>7, LesserFacts
<1>9. m = Taken(d)
  <2>1. m = Lesser(n, l - 2)
    BY <1>6
  <2>2. Taken(d) = Lesser(Body(d), l - 2)
    BY DEF Taken, l
  <2>3. l - 2 \in Int /\ l - 2 < l
    BY <1>0
  <2> QED
    BY <1>0, <1>8, <2>1, <2>2, <2>3 DEF Lesser
<1> HIDE DEF m
<1>10. SubSeq(b, 1, m) = SubSeq(d, 7, 6 + Taken(d))
  <2>1. /\ 7 \in 1..Len(d) /\ Len(d) \in 1..Len(d) /\ Len(d) - 7 + 1 = Body(d)
        /\ 1 \in 1..Body(d) /\ m \in 1..Body(d) /\ 7 + 1 - 1 = 7 /\ 7 + m - 1 = 6 + Taken(d)
    BY <1>0, <1>9
  <2>2. SubSeq(SubSeq(d, 7, Len(d)), 1, m) = SubSeq(d, 7 + 1 - 1, 7 + m - 1)
    BY <2>1, SubSeqOfSubSeq
  <2> QED
    BY <2>1, <2>2 DEF b
<1>11. p.sum + SumOf(SubSeq(b, 1, m)) = Summed(d)
  <2>0. d \in Seq(Int)
    BY BytesAreInts
  <2>1. SumOf(SubSeq(d, 2 + 1, 6)) = Sums(d)[6] - Sums(d)[2]
    <3>1. 2 \in Nat /\ 6 \in Nat /\ 2 <= 6 /\ 6 <= Len(d)
      BY <1>0
    <3> QED
      BY <2>0, <3>1, SumOfPart
  <2>2. SumOf(SubSeq(d, 6 + 1, 6 + Taken(d))) = Sums(d)[6 + Taken(d)] - Sums(d)[6]
    <3>1. 6 \in Nat /\ 6 <= 6 + Taken(d)
      BY <1>0
    <3> QED
      BY <1>0, <2>0, <3>1, SumOfPart
  <2>3. 2 + 1 = 3 /\ 6 + 1 = 7
    OBVIOUS
  <2> DEFINE x == Sums(d)[2]
             y == Sums(d)[6]
             z == Sums(d)[6 + Taken(d)]
  <2>4. x \in Int /\ y \in Int /\ z \in Int
    <3>1. 2 \in 0..Len(d) /\ 6 \in 0..Len(d) /\ 6 + Taken(d) \in 0..Len(d)
      BY <1>0
    <3> QED
      BY <2>0, <3>1, SumsFacts
  <2>5. p.sum = y - x
    BY <1>2, <2>1, <2>3
  <2>6. SumOf(SubSeq(b, 1, m)) = z - y
    BY <1>10, <2>2, <2>3
  <2>7. Summed(d) = z - x
    BY DEF Summed
  <2> HIDE DEF x, y, z
  <2>8. (y - x) + (z - y) = z - x
    BY <2>4
  <2> QED
    BY <2>5, <2>6, <2>7, <2>8
<1>12. <<ck(1), ck(2)>> = Begun(d).ck
  <2>1. ck(1) = IF l - 1 <= Body(d) THEN d[5 + l] ELSE 0
    <3>1. o.len - 2 + 1 - p.idx = l - 1
      BY <1>0, <1>2, <1>3
    <3>2. ck(1) = IF l - 1 \in 1..n THEN b[l - 1] ELSE 0
      BY <1>3, <3>1
    <3>3. l - 1 \in 1..n <=> l - 1 <= Body(d)
      BY <1>0, <1>8
    <3>4. l - 1 <= Body(d) => b[l - 1] = d[5 + l]
      <4>1. l - 1 <= Body(d) => l - 1 \in 1..Body(d) /\ 6 + (l - 1) = 5 + l
        BY <1>0
      <4> QED
        BY <1>4, <4>1
    <3> QED
      BY <3>2, <3>3, <3>4
  <2>2. ck(2) = IF l <= Body(d) THEN d[6 + l] ELSE 0
    <3>1. o.len - 2 + 2 - p.idx = l
      BY <1>0, <1>2, <1>3
    <3>2. ck(2) = IF l \in 1..n THEN b[l] ELSE 0
      BY <1>3, <3>1
    <3>3. l \in 1..n <=> l <= Body(d)
      BY <1>0, <1>8
    <3>4. l <= Body(d) => b[l] = d[6 + l]
      <4>1. l <= Body(d) => l \in 1..Body(d)
        BY <1>0
      <4> QED
        BY <1>4, <4>1
    <3> QED
      BY <3>2, <3>3, <3>4
  <2> HIDE DEF ck
  <2> QED
    BY <2>1, <2>2 DEF Begun, l
<1> HIDE DEF ck
<1>13. [o EXCEPT !.data = @ \o SubSeq(b, 1, m), !.ck = <<ck(1), ck(2)>>] = Begun(d)
  <2> DEFINE c == <<ck(1), ck(2)>>
             t == SubSeq(b, 1, m)
  <2>1. o.data \o t = t
    <3>1. t \in Seq(Byte)
      <4>1. 0 \in Nat /\ m \in Nat /\ 0 <= m /\ m <= Len(b)
        BY <1>0, <1>4, <1>9
      <4>2. SubSeq(b, 0 + 1, m) \in Seq(Byte)
        BY <1>4, <4>1, PartProperties
      <4> QED
        BY <4>2
    <3> HIDE DEF t
    <3> QED
      BY <1>3, <3>1, ConcatEmptySeq
  <2>2. t = SubSeq(d, 7, 6 + Taken(d)) /\ c = Begun(d).ck
    BY <1>10, <1>12
  <2> HIDE DEF t, c
  <2>3. [o EXCEPT !.data = @ \o t, !.ck = c] = [o EXCEPT !.data = t, !.ck = c]
    BY <2>1
  <2>4. [o EXCEPT !.data = t, !.ck = c] =
          [len |-> d[3], direction |-> d[4], RW |-> d[5], command |-> d[6],
           data |-> t, ck |-> c]
    <3>1. o = Fields(d[3], d[4], d[5], d[6], <<>>, <<0, 0>>)
      BY <1>1, Zenon DEF Fields
    <3>2. FilledWith(o, t, c) = Fields(d[3], d[4], d[5], d[6], t, c)
      <4>1. FilledWith(Fields(d[3], d[4], d[5], d[6], <<>>, <<0, 0>>), t, c)
              = Fields(d[3], d[4], d[5], d[6], t, c)
        BY FilledIs
      <4> QED
        BY <3>1, <4>1, Zenon
    <3> QED
      BY <3>2, Zenon DEF FilledWith, Fields
  <2>5. c = <<IF d[3] - 1 <= Body(d) THEN d[5 + d[3]] ELSE 0,
              IF d[3] <= Body(d) THEN d[6 + d[3]] ELSE 0>>
    BY <2>2 DEF Begun
  <2>6. Begun(d) = [len |-> d[3], direction |-> d[4], RW |-> d[5], command |-> d[6],
                    data |-> t, ck |-> c]
    BY <2>2, <2>5, Zenon DEF Begun
  <2>7. [o EXCEPT !.data = @ \o t, !.ck = c] = Begun(d)
    BY <2>3, <2>4, <2>6, Zenon
  <2> QED
    BY <2>7 DEF t, c
<1>14. p.idx + n = Lesser(Body(d), d[3])
  BY <1>2, <1>7, <1>8 DEF l
<1>15. Absorbed(b, p, o) = [idx |-> Lesser(Body(d), d[3]), sum |-> Summed(d), pack |-> Begun(d)]
  BY <1>5, <1>11, <1>13, <1>14, Zenon
<1> QED
  BY <1>15 DEF b, p, o

LEMMA ParseFirst ==
  ASSUME NEW d \in Seq(Byte), HasHeader(d), NEW p, p.idx = 0
  PROVE  parse(d, p, Blank) =
           IF Body(d) < d[3]
           THEN [code |-> 1, parser |-> [idx |-> Body(d), sum |-> Summed(d)], pack |-> Begun(d)]
           ELSE Finished([idx |-> d[3], sum |-> Summed(d)], Begun(d))
<1> DEFINE b == SubSeq(d, 7, Lesser(Len(d), 20))
           q == [idx |-> 0, sum |-> SumOf(SubSeq(d, 3, 6))]
           o == Opened(d, Blank)
           l == d[3]
           a == Absorbed(b, q, o)
           n == Lesser(Body(d), l)
<1>0. /\ Len(d) \in Nat /\ l \in Int /\ 3 <= l /\ Body(d) \in Int /\ 3 <= Body(d)
      /\ Len(d) = Body(d) + 6 /\ Body(d) <= 14
  BY HeaderFacts
<1>1. Refusal(d) = 0
  <2>1. d[1] = 85 /\ d[2] = 170 /\ l >= 3
    BY DEF HasHeader
  <2>2. ~(Len(d) < 9) /\ ~(l < 3)
    BY <1>0
  <2> QED
    BY <2>1, <2>2, Zenon DEF Refusal
<1>2. parse(d, p, Blank) = Continued(b, q, o)
  BY <1>1, Zenon DEF parse
<1>3. b = SubSeq(d, 7, Len(d))
  <2>1. Lesser(Len(d), 20) = Len(d)
    BY <1>0, LesserFacts
  <2> QED
    BY <2>1
<1>4. a = [idx |-> n, sum |-> Summed(d), pack |-> Begun(d)]
  BY <1>3, FirstAbsorbed, Zenon
<1>5. q.idx = 0
  OBVIOUS
<1>6. o.len = l
  <2>1. o = OpenedWith(d[3], d[4], d[5], d[6])
    BY Zenon DEF Opened, OpenedWith
  <2>2. o = Fields(d[3], d[4], d[5], d[6], <<>>, <<0, 0>>)
    BY <2>1, OpenedIs, Zenon
  <2> HIDE DEF o
  <2> QED
    BY <2>2 DEF Fields
<1>7. n \in Int /\ (Body(d) < l => n = Body(d)) /\ (~(Body(d) < l) => n = l)
  <2> DEFINE x == Body(d)
  <2>1. x \in Int /\ l \in Int
    BY <1>0
  <2> HIDE DEF x, l
  <2>2. Lesser(x, l) \in Int /\ (x <= l => Lesser(x, l) = x) /\ (l <= x => Lesser(x, l) = l)
    BY <2>1, LesserFacts
  <2>3. (x < l => Lesser(x, l) = x) /\ (~(x < l) => Lesser(x, l) = l)
    BY <2>1, <2>2
  <2> QED
    BY <2>2, <2>3 DEF x
<1>8. Continued(b, q, o) =
        IF q.idx >= o.len THEN Finished(q, o)
        ELSE IF a.idx < o.len
             THEN [code |-> 1, parser |-> [idx |-> a.idx, sum |-> a.sum], pack |-> a.pack]
             ELSE Finished([idx |-> a.idx, sum |-> a.sum], a.pack)
  BY Zenon DEF Continued
<1> HIDE DEF b, q, o, l, a, n
<1>9. ~(q.idx >= o.len)
  BY <1>0, <1>5, <1>6
<1>10. a.idx = n /\ a.sum = Summed(d) /\ a.pack = Begun(d)
  BY <1>4
<1>11. Continued(b, q, o) =
         IF n < l
         THEN [code |-> 1, parser |-> [idx |-> n, sum |-> Summed(d)], pack |-> Begun(d)]
         ELSE Finished([idx |-> n, sum |-> Summed(d)], Begun(d))
  BY <1>6, <1>8, <1>9, <1>10, Zenon
<1>12. CASE Body(d) < l
  <2>1. n = Body(d) /\ n < l
    BY <1>7, <1>12
  <2> QED
    BY <1>2, <1>11, <1>12, <2>1, Zenon DEF l
<1>13. CASE ~(Body(d) < l)
  <2>1. n = l /\ ~(n < l)
    BY <1>0, <1>7, <1>13
  <2> QED
    BY <1>2, <1>11, <1>13, <2>1, Zenon DEF l
<1> QED
  BY <1>12, <1>13

LEMMA ParseRefused ==
  ASSUME NEW d, NEW p, NEW m, p.idx = 0, Refusal(d) # 0
  PROVE  parse(d, p, m) = [code |-> Refusal(d), parser |-> ParserIdle, pack |-> m]
BY Zenon DEF parse

(* What is left of the checksum, as two bytes, and back. *)
LEMMA CheckFacts ==
  ASSUME NEW x \in Int, 0 <= x, x <= 65535
  PROVE  /\ CheckOf(x)[1] \in Byte /\ CheckOf(x)[2] \in Byte
         /\ CheckOf(x) = <<CheckOf(x)[1], CheckOf(x)[2]>>
         /\ x = 65535 - CheckOf(x)[1] - 256 * CheckOf(x)[2]
<1> DEFINE c == 65535 - x
           a == c % 256
           b == c \div 256
<1>1. c \in Int /\ 0 <= c /\ c <= 65535
  OBVIOUS
<1>2. CheckOf(x) = <<a, b>>
  BY DEF CheckOf
<1>5. x = 65535 - c
  OBVIOUS
<1> HIDE DEF c
<1>3. a \in Int /\ b \in Int /\ 0 <= a /\ a <= 255 /\ 0 <= b /\ b <= 255
  BY <1>1
<1>4. c = a + 256 * b
  BY <1>1
<1> HIDE DEF a, b
<1>6. CheckOf(x)[1] = a /\ CheckOf(x)[2] = b
  BY <1>2
<1>7. x = 65535 - a - 256 * b
  BY <1>1, <1>3, <1>4, <1>5
<1>8. a \in Byte /\ b \in Byte
  BY <1>3, ByteFacts
<1> QED
  BY <1>2, <1>6, <1>7, <1>8

LEMMA CheckInjective ==
  ASSUME NEW x \in Int, 0 <= x, x <= 65535, NEW y \in Int, 0 <= y, y <= 65535,
         CheckOf(x) = CheckOf(y)
  PROVE  x = y
<1>1. x = 65535 - CheckOf(x)[1] - 256 * CheckOf(x)[2]
  BY CheckFacts
<1>2. y = 65535 - CheckOf(y)[1] - 256 * CheckOf(y)[2]
  BY CheckFacts
<1> QED
  BY <1>1, <1>2

LEMMA BlankChecksOnlyTheEnd ==
  ASSUME NEW x \in Int, 0 <= x, x < 65535
  PROVE  CheckOf(x) # Blank.ck
<1>1. Blank.ck = <<0, 0>>
  BY DEF Blank
<1>2. CheckOf(65535) = <<0, 0>>
  BY DEF CheckOf
<1>3. CheckOf(x) = CheckOf(65535) => x = 65535
  BY CheckInjective
<1> QED
  BY <1>1, <1>2, <1>3

(* The three ways through the parser, one lemma each. *)
LEMMA ParseGoesOn ==
  ASSUME NEW d, NEW p, NEW m, p.idx # 0
  PROVE  parse(d, p, m) = Continued(SubSeq(d, 1, Lesser(Len(d), 20)), p, m)
BY Zenon DEF parse

LEMMA ContinuedEnds ==
  ASSUME NEW b, NEW p, NEW m, p.idx >= m.len
  PROVE  Continued(b, p, m) = Finished(p, m)
BY Zenon DEF Continued

LEMMA FinishedBad ==
  ASSUME NEW p, NEW m, CheckOf(p.sum) # m.ck
  PROVE  Finished(p, m) = [code |-> 3, parser |-> [idx |-> 0, sum |-> 65535 - p.sum], pack |-> m]
BY DEF Finished

LEMMA FinishedGood ==
  ASSUME NEW p, NEW m, CheckOf(p.sum) = m.ck
  PROVE  Finished(p, m) = [code |-> 0, parser |-> [idx |-> 0, sum |-> 65535 - p.sum], pack |-> m]
BY DEF Finished

(* A notification that meets a parser with a frame begun is thrown away,  *)
(* because the fresh pack it is given has no length.                       *)
LEMMA ParseThrownAway ==
  ASSUME NEW d, NEW p, p.idx \in Nat, p.idx # 0, p.sum \in Int, 0 <= p.sum, p.sum < 65535
  PROVE  parse(d, p, Blank) = [code |-> 3, parser |-> [idx |-> 0, sum |-> 65535 - p.sum],
                               pack |-> Blank]
<1> DEFINE b == SubSeq(d, 1, Lesser(Len(d), 20))
<1>1. parse(d, p, Blank) = Continued(b, p, Blank)
  BY ParseGoesOn
<1> HIDE DEF b
<1>2. Blank.len = 0
  BY DEF Blank
<1>3. p.idx >= Blank.len
  BY <1>2
<1>4. Continued(b, p, Blank) = Finished(p, Blank)
  BY <1>3, ContinuedEnds
<1>5. CheckOf(p.sum) # Blank.ck
  BY BlankChecksOnlyTheEnd
<1>6. Finished(p, Blank) = [code |-> 3, parser |-> [idx |-> 0, sum |-> 65535 - p.sum],
                            pack |-> Blank]
  BY <1>5, FinishedBad
<1> QED
  BY <1>1, <1>4, <1>6

-----------------------------------------------------------------------------
(***************************************************************************)
(* Frames that fit one notification: what Pack builds of at most 12 bytes. *)
(***************************************************************************)
Genuine(m) ==
  /\ m = Fields(m.len, m.direction, m.RW, m.command, m.data, m.ck)
  /\ m.data \in Seq(Byte) /\ Len(m.data) \in 1..12 /\ m.len = Len(m.data) + 2
  /\ m.direction \in Byte /\ m.RW \in Byte /\ m.command \in Byte
  /\ m.ck = CheckOf(SumOf(<<m.len, m.direction, m.RW, m.command>> \o m.data))

LEMMA PackGenuine ==
  ASSUME NEW dir \in Byte, NEW rw \in Byte, NEW c \in Byte, NEW t \in Seq(Byte),
         NEW l, Len(t) \in 1..12, l = Len(t) + 2
  PROVE  Genuine(Pack(dir, rw, c, l, t))
<1> DEFINE k == CheckOf(SumOf(<<l, dir, rw, c>> \o t))
           m == Pack(dir, rw, c, l, t)
<1>1. m = [len |-> l, direction |-> dir, RW |-> rw, command |-> c, data |-> t, ck |-> k]
  BY Zenon DEF Pack
<1> HIDE DEF m
<1>2. /\ m.len = l /\ m.direction = dir /\ m.RW = rw /\ m.command = c
      /\ m.data = t /\ m.ck = k
  <2> HIDE DEF k
  <2> QED
    BY <1>1
<1>3. m = Fields(m.len, m.direction, m.RW, m.command, m.data, m.ck)
  BY <1>1, <1>2, Zenon DEF Fields
<1>4. m.ck = CheckOf(SumOf(<<m.len, m.direction, m.RW, m.command>> \o m.data))
  BY <1>2, Zenon
<1> QED
  BY <1>2, <1>3, <1>4, Zenon DEF Genuine, m

LEMMA GenuineFacts ==
  ASSUME NEW m, Genuine(m)
  PROVE  /\ m.data \in Seq(Byte) /\ Len(m.data) \in Nat
         /\ 1 <= Len(m.data) /\ Len(m.data) <= 12 /\ m.len = Len(m.data) + 2
         /\ m.len \in Byte /\ m.direction \in Byte /\ m.RW \in Byte /\ m.command \in Byte
         /\ <<m.len, m.direction, m.RW, m.command>> \o m.data \in Seq(Byte)
<1>1. /\ m.data \in Seq(Byte) /\ Len(m.data) \in 1..12 /\ m.len = Len(m.data) + 2
      /\ m.direction \in Byte /\ m.RW \in Byte /\ m.command \in Byte
  BY Zenon DEF Genuine
<1> DEFINE n == Len(m.data)
<1>2. n \in Nat /\ 1 <= n /\ n <= 12 /\ n + 2 \in Int /\ 0 <= n + 2 /\ n + 2 <= 255
  <2>1. n \in 1..12
    BY <1>1
  <2> HIDE DEF n
  <2> QED
    BY <2>1
<1>3. n + 2 \in Byte
  BY <1>2, ByteFacts
<1>4. <<m.len, m.direction, m.RW, m.command>> \in Seq(Byte)
  BY <1>1, <1>3
<1>5. <<m.len, m.direction, m.RW, m.command>> \o m.data \in Seq(Byte)
  BY <1>1, <1>4, ConcatProperties
<1> QED
  BY <1>1, <1>2, <1>3, <1>5

(* The sum the sender put under the frame. *)
LEMMA GenuineSum ==
  ASSUME NEW m, Genuine(m)
  PROVE  LET t == <<m.len, m.direction, m.RW, m.command>> \o m.data
         IN  /\ Len(t) = 4 + Len(m.data) /\ t \in Seq(Int)
             /\ t[1] = m.len /\ t[2] = m.direction /\ t[3] = m.RW /\ t[4] = m.command
             /\ \A i \in 1..Len(m.data) : t[4 + i] = m.data[i]
             /\ SumOf(t) = Sums(t)[4 + Len(m.data)]
             /\ SumOf(t) \in Int /\ 0 <= SumOf(t) /\ SumOf(t) < 65535
             /\ m.ck = CheckOf(SumOf(t))
<1> DEFINE h == <<m.len, m.direction, m.RW, m.command>>
           t == h \o m.data
           n == Len(m.data)
<1>0. /\ m.data \in Seq(Byte) /\ n \in Nat /\ 1 <= n /\ n <= 12
      /\ m.len \in Byte /\ m.direction \in Byte /\ m.RW \in Byte /\ m.command \in Byte
      /\ t \in Seq(Byte)
  BY GenuineFacts
<1>1. h \in Seq(Byte) /\ Len(h) = 4
      /\ h[1] = m.len /\ h[2] = m.direction /\ h[3] = m.RW /\ h[4] = m.command
  BY <1>0
<1>2. m.ck = CheckOf(SumOf(t))
  BY Zenon DEF Genuine
<1> HIDE DEF h
<1>3. /\ Len(t) = Len(h) + n
      /\ \A i \in 1..(Len(h) + n) : t[i] = IF i <= Len(h) THEN h[i] ELSE m.data[i - Len(h)]
  <2>1. h \in Seq(Byte) /\ m.data \in Seq(Byte)
    BY <1>0, <1>1
  <2> QED
    BY <2>1, ConcatProperties
<1> HIDE DEF t
<1>4. Len(t) = 4 + n
  <2>1. Len(h) = 4
    BY <1>1
  <2>2. Len(t) = Len(h) + n
    BY <1>3
  <2> QED
    BY <2>1, <2>2
<1>5. t[1] = h[1] /\ t[2] = h[2] /\ t[3] = h[3] /\ t[4] = h[4]
  <2>1. \A i \in 1..4 : i \in 1..(Len(h) + n) /\ i <= Len(h)
    BY <1>0, <1>1
  <2>2. \A i \in 1..4 : t[i] = h[i]
    BY <1>3, <2>1
  <2>3. 1 \in 1..4 /\ 2 \in 1..4 /\ 3 \in 1..4 /\ 4 \in 1..4
    OBVIOUS
  <2> QED
    BY <2>2, <2>3
<1>6. ASSUME NEW i \in 1..n PROVE t[4 + i] = m.data[i]
  <2>1. 4 + i \in 1..(Len(h) + n) /\ ~(4 + i <= Len(h)) /\ (4 + i) - Len(h) = i
    BY <1>0, <1>1
  <2> QED
    BY <1>3, <2>1
<1>7. t \in Seq(Int)
  BY <1>0, BytesAreInts
<1>8. SumOf(t) = Sums(t)[4 + n]
  BY <1>4 DEF SumOf
<1>9. SumOf(t) \in Int /\ 0 <= SumOf(t) /\ SumOf(t) < 65535
  <2>1. 4 + n \in 0..Len(t)
    BY <1>0, <1>4
  <2> DEFINE x == Sums(t)[4 + n]
  <2>2. x \in Int /\ 0 <= x /\ x <= 255 * (4 + n)
    BY <1>0, <2>1, SumsBounds
  <2> HIDE DEF x
  <2>3. x < 65535
    BY <1>0, <2>2
  <2> QED
    BY <1>8, <2>2, <2>3 DEF x
<1> QED
  BY <1>1, <1>2, <1>4, <1>5, <1>6, <1>7, <1>8, <1>9 DEF t, h

(* The bytes of a serialised frame, and what they sum to. *)
LEMMA FrameFacts ==
  ASSUME NEW m, Genuine(m)
  PROVE  LET s == serialyze(m)
             n == Len(m.data)
         IN  /\ s \in Seq(Byte) /\ Len(s) = n + 8
             /\ s[1] = 85 /\ s[2] = 170 /\ s[3] = m.len
             /\ s[4] = m.direction /\ s[5] = m.RW /\ s[6] = m.command
             /\ \A i \in 1..n : s[6 + i] = m.data[i]
             /\ s[7 + n] = m.ck[1] /\ s[8 + n] = m.ck[2] /\ m.ck = <<m.ck[1], m.ck[2]>>
<1> DEFINE h == <<85, 170, m.len, m.direction, m.RW, m.command>>
           p == [i \in 1..(m.len - 2) |-> Data(m, i - 1)]
           s == h \o p \o m.ck
           n == Len(m.data)
<1>0. /\ m.data \in Seq(Byte) /\ n \in Nat /\ 1 <= n /\ n <= 12 /\ m.len = n + 2
      /\ m.len \in Byte /\ m.direction \in Byte /\ m.RW \in Byte /\ m.command \in Byte
  BY GenuineFacts
<1>1. /\ h \in Seq(Byte) /\ Len(h) = 6 /\ h[1] = 85 /\ h[2] = 170 /\ h[3] = m.len
      /\ h[4] = m.direction /\ h[5] = m.RW /\ h[6] = m.command
  <2>1. 85 \in Byte /\ 170 \in Byte
    BY ByteFacts
  <2> QED
    BY <1>0, <2>1
<1>2. p = m.data
  <2>1. m.len - 2 = n
    BY <1>0
  <2>2. m.data = [i \in 1..n |-> m.data[i]]
    BY <1>0
  <2>3. ASSUME NEW i \in 1..n PROVE Data(m, i - 1) = m.data[i]
    <3>1. i - 1 < Len(m.data) /\ (i - 1) + 1 = i
      BY <1>0
    <3> QED
      BY <3>1 DEF Data
  <2>4. [i \in 1..n |-> Data(m, i - 1)] = [i \in 1..n |-> m.data[i]]
    BY <2>3
  <2> QED
    BY <2>1, <2>2, <2>4
<1>3. m.ck = <<m.ck[1], m.ck[2]>> /\ m.ck[1] \in Byte /\ m.ck[2] \in Byte
  <2> DEFINE x == SumOf(<<m.len, m.direction, m.RW, m.command>> \o m.data)
  <2>1. x \in Int /\ 0 <= x /\ x < 65535 /\ m.ck = CheckOf(x)
    BY GenuineSum
  <2> HIDE DEF x
  <2>2. x <= 65535
    BY <2>1
  <2> QED
    BY <2>1, <2>2, CheckFacts
<1> DEFINE c == m.ck
           t == h \o p
<1>4. c \in Seq(Byte) /\ Len(c) = 2
  <2> DEFINE c1 == c[1]
             c2 == c[2]
  <2>1. c = <<c1, c2>> /\ c1 \in Byte /\ c2 \in Byte
    BY <1>3
  <2> HIDE DEF c1, c2, c
  <2> QED
    BY <2>1
<1>5. p \in Seq(Byte) /\ Len(p) = n /\ \A i \in 1..n : p[i] = m.data[i]
  BY <1>0, <1>2
<1> HIDE DEF h, p, c
<1>6. /\ t \in Seq(Byte) /\ Len(t) = Len(h) + Len(p)
      /\ \A i \in 1..(Len(h) + Len(p)) : t[i] = IF i <= Len(h) THEN h[i] ELSE p[i - Len(h)]
  <2>1. h \in Seq(Byte) /\ p \in Seq(Byte)
    BY <1>1, <1>5
  <2> QED
    BY <2>1, ConcatProperties
<1> DEFINE u == t \o c
<1>7. s = u
  BY DEF c
<1> HIDE DEF t
<1>8. /\ u \in Seq(Byte) /\ Len(u) = Len(t) + Len(c)
      /\ \A i \in 1..(Len(t) + Len(c)) : u[i] = IF i <= Len(t) THEN t[i] ELSE c[i - Len(t)]
  <2>1. t \in Seq(Byte) /\ c \in Seq(Byte)
    BY <1>4, <1>6
  <2> QED
    BY <2>1, ConcatProperties
<1> HIDE DEF u
<1>9. Len(t) = 6 + n /\ Len(u) = n + 8
  BY <1>0, <1>1, <1>4, <1>5, <1>6, <1>8
<1>w. Len(h) = 6 /\ Len(p) = n /\ Len(t) = 6 + n /\ Len(c) = 2 /\ n \in Nat /\ 1 <= n
  BY <1>0, <1>1, <1>4, <1>5, <1>9
<1>10. ASSUME NEW i \in 1..6 PROVE u[i] = h[i]
  <2>1. /\ i \in 1..(Len(h) + Len(p)) /\ i \in 1..(Len(t) + Len(c))
        /\ i <= Len(h) /\ i <= Len(t)
    BY <1>w
  <2> QED
    BY <1>6, <1>8, <2>1
<1>11. ASSUME NEW i \in 1..n PROVE u[6 + i] = m.data[i]
  <2>1. /\ 6 + i \in 1..(Len(h) + Len(p)) /\ 6 + i \in 1..(Len(t) + Len(c))
        /\ ~(6 + i <= Len(h)) /\ 6 + i <= Len(t) /\ (6 + i) - Len(h) = i
    BY <1>w
  <2>2. u[6 + i] = t[6 + i]
    BY <1>8, <2>1
  <2>3. t[6 + i] = p[i]
    BY <1>6, <2>1
  <2> QED
    BY <1>5, <2>2, <2>3
<1>12. u[7 + n] = c[1] /\ u[8 + n] = c[2]
  <2>1. /\ 7 + n \in 1..(Len(t) + Len(c)) /\ ~(7 + n <= Len(t)) /\ (7 + n) - Len(t) = 1
        /\ 8 + n \in 1..(Len(t) + Len(c)) /\ ~(8 + n <= Len(t)) /\ (8 + n) - Len(t) = 2
    BY <1>w
  <2> QED
    BY <1>8, <2>1
<1>13. serialyze(m) = u
  BY <1>7, Zenon DEF serialyze, h, p, c
<1>14. u[1] = h[1] /\ u[2] = h[2] /\ u[3] = h[3] /\ u[4] = h[4] /\ u[5] = h[5] /\ u[6] = h[6]
  <2>1. 1 \in 1..6 /\ 2 \in 1..6 /\ 3 \in 1..6 /\ 4 \in 1..6 /\ 5 \in 1..6 /\ 6 \in 1..6
    OBVIOUS
  <2> QED
    BY <1>10, <2>1
<1>15. u[7 + n] = m.ck[1] /\ u[8 + n] = m.ck[2]
  BY <1>12 DEF c
<1> QED
  BY <1>1, <1>3, <1>8, <1>9, <1>11, <1>13, <1>14, <1>15

LEMMA FrameSum ==
  ASSUME NEW m, Genuine(m)
  PROVE  LET s == serialyze(m)
             x == Sums(s)[6 + Len(m.data)] - Sums(s)[2]
         IN  x \in Int /\ 0 <= x /\ x < 65535 /\ m.ck = CheckOf(x)
<1> DEFINE s == serialyze(m)
           n == Len(m.data)
           t == <<m.len, m.direction, m.RW, m.command>> \o m.data
<1>0. n \in Nat /\ 1 <= n /\ n <= 12
  BY GenuineFacts
<1>1. /\ s \in Seq(Byte) /\ Len(s) = n + 8 /\ s[3] = m.len
      /\ s[4] = m.direction /\ s[5] = m.RW /\ s[6] = m.command
      /\ \A i \in 1..n : s[6 + i] = m.data[i]
  BY FrameFacts
<1>2. /\ Len(t) = 4 + n /\ t \in Seq(Int)
      /\ t[1] = m.len /\ t[2] = m.direction /\ t[3] = m.RW /\ t[4] = m.command
      /\ \A i \in 1..n : t[4 + i] = m.data[i]
      /\ SumOf(t) = Sums(t)[4 + n]
      /\ SumOf(t) \in Int /\ 0 <= SumOf(t) /\ SumOf(t) < 65535
      /\ m.ck = CheckOf(SumOf(t))
  BY GenuineSum
<1>3. s \in Seq(Int)
  BY <1>1, BytesAreInts
<1> HIDE DEF s, t, n
<1>e. s[3] = t[1] /\ s[4] = t[2] /\ s[5] = t[3] /\ s[6] = t[4]
  BY <1>1, <1>2
<1>4. ASSUME NEW i \in 1..(4 + n) PROVE s[2 + i] = t[i]
  <2>1. CASE i \in 1..4
    <3>1. i = 1 \/ i = 2 \/ i = 3 \/ i = 4
      BY <2>1
    <3>2. 2 + 1 = 3 /\ 2 + 2 = 4 /\ 2 + 3 = 5 /\ 2 + 4 = 6
      OBVIOUS
    <3> QED
      BY <1>e, <3>1, <3>2
  <2>2. CASE ~(i \in 1..4)
    <3> DEFINE j == i - 4
    <3>1. j \in 1..n /\ 6 + j = 2 + i /\ 4 + j = i
      BY <1>0, <2>2
    <3> HIDE DEF j
    <3>2. s[6 + j] = m.data[j]
      BY <1>1, <3>1
    <3>3. t[4 + j] = m.data[j]
      BY <1>2, <3>1
    <3> QED
      BY <3>1, <3>2, <3>3
  <2> QED
    BY <2>1, <2>2
<1>5. Sums(s)[2 + (4 + n)] = Sums(s)[2] + Sums(t)[4 + n]
  <2>1. /\ 2 \in Nat /\ 4 + n \in Nat /\ 2 + (4 + n) <= Len(s) /\ 4 + n <= Len(t)
    BY <1>0, <1>1, <1>2
  <2> DEFINE k == 4 + n
  <2>2. s \in Seq(Int) /\ t \in Seq(Int)
    BY <1>2, <1>3
  <2>3. \A i \in 1..k : s[2 + i] = t[i]
    BY <1>4
  <2>4. k \in Nat /\ 2 + k <= Len(s) /\ k <= Len(t)
    BY <2>1
  <2> HIDE DEF k
  <2>5. Sums(s)[2 + k] = Sums(s)[2] + Sums(t)[k]
    BY <2>2, <2>3, <2>4, SumsShift
  <2> QED
    BY <2>5 DEF k
<1>6. 2 + (4 + n) = 6 + n
  BY <1>0
<1> DEFINE a == Sums(s)[2]
           b == Sums(s)[6 + n]
<1>7. a \in Int /\ b \in Int
  <2>1. 2 \in 0..Len(s) /\ 6 + n \in 0..Len(s)
    BY <1>0, <1>1
  <2> QED
    BY <1>3, <2>1, SumsFacts
<1>8. b = a + SumOf(t)
  BY <1>2, <1>5, <1>6
<1> HIDE DEF a, b
<1>9. b - a = SumOf(t)
  BY <1>2, <1>7, <1>8
<1>10. Sums(s)[6 + n] - Sums(s)[2] = SumOf(t)
  BY <1>9 DEF a, b
<1> QED
  BY <1>2, <1>10 DEF s, n

(* What the parser holds after the first k bytes of a frame. *)
Half(m, k) ==
  LET s == serialyze(m)
      n == Len(m.data)
  IN  Fields(m.len, m.direction, m.RW, m.command, SubSeq(s, 7, 6 + Lesser(k - 6, n)),
             <<IF n + 1 <= k - 6 THEN m.ck[1] ELSE 0, IF n + 2 <= k - 6 THEN m.ck[2] ELSE 0>>)

HalfSum(m, k) ==
  LET s == serialyze(m) IN Sums(s)[6 + Lesser(k - 6, Len(m.data))] - Sums(s)[2]

LEMMA HalfBegun ==
  ASSUME NEW m, Genuine(m), NEW k \in Nat, 9 <= k, k <= Len(m.data) + 8
  PROVE  LET d == SubSeq(serialyze(m), 1, k)
         IN  /\ d \in Seq(Byte) /\ HasHeader(d) /\ Body(d) = k - 6 /\ d[3] = m.len
             /\ Begun(d) = Half(m, k) /\ Summed(d) = HalfSum(m, k)
<1> DEFINE s == serialyze(m)
           n == Len(m.data)
           d == SubSeq(s, 1, k)
           T == Lesser(k - 6, n)
<1>0. n \in Nat /\ 1 <= n /\ n <= 12 /\ m.len = n + 2
  BY GenuineFacts
<1>1. /\ s \in Seq(Byte) /\ Len(s) = n + 8
      /\ s[1] = 85 /\ s[2] = 170 /\ s[3] = m.len
      /\ s[4] = m.direction /\ s[5] = m.RW /\ s[6] = m.command
      /\ s[7 + n] = m.ck[1] /\ s[8 + n] = m.ck[2]
  BY FrameFacts
<1>k. k \in Nat /\ 9 <= k /\ k <= n + 8
  OBVIOUS
<1>h. HalfSum(m, k) = Sums(s)[6 + T] - Sums(s)[2]
  BY DEF HalfSum
<1>p. Half(m, k) = Fields(m.len, m.direction, m.RW, m.command, SubSeq(s, 7, 6 + T),
             <<IF n + 1 <= k - 6 THEN m.ck[1] ELSE 0, IF n + 2 <= k - 6 THEN m.ck[2] ELSE 0>>)
  BY DEF Half
<1> HIDE DEF s, n
<1>2. d \in Seq(Byte) /\ Len(d) = k /\ \A i \in 1..k : d[i] = s[i]
  <2>1. 0 \in Nat /\ 0 <= k /\ k <= Len(s)
    BY <1>1, <1>k
  <2>2. /\ SubSeq(s, 0 + 1, k) \in Seq(Byte) /\ Len(SubSeq(s, 0 + 1, k)) = k - 0
        /\ \A i \in 1..(k - 0) : SubSeq(s, 0 + 1, k)[i] = s[0 + i]
    BY <1>1, <1>k, <2>1, PartProperties
  <2>3. 0 + 1 = 1 /\ k - 0 = k /\ \A i \in 1..k : 0 + i = i
    OBVIOUS
  <2> QED
    BY <2>2, <2>3
<1> HIDE DEF d
<1>3. /\ d[1] = 85 /\ d[2] = 170 /\ d[3] = m.len
      /\ d[4] = m.direction /\ d[5] = m.RW /\ d[6] = m.command
  <2>1. 1 \in 1..k /\ 2 \in 1..k /\ 3 \in 1..k /\ 4 \in 1..k /\ 5 \in 1..k /\ 6 \in 1..k
    BY <1>k
  <2> QED
    BY <1>1, <1>2, <2>1
<1>4. HasHeader(d)
  <2>1. k \in 9..20 /\ m.len >= 3
    BY <1>0, <1>k
  <2> QED
    BY <1>2, <1>3, <2>1 DEF HasHeader
<1>5. Body(d) = k - 6
  BY <1>2 DEF Body
<1>6. Taken(d) = T
  <2>1. d[3] - 2 = n
    BY <1>0, <1>3
  <2> QED
    BY <1>5, <2>1 DEF Taken
<1>7. T \in Int /\ 1 <= T /\ T <= k - 6 /\ T <= n
  <2> DEFINE x == k - 6
  <2>0. n \in Int
    BY <1>0
  <2>1. x \in Int /\ 1 <= x
    BY <1>k
  <2> HIDE DEF x
  <2>2. Lesser(x, n) \in Int /\ Lesser(x, n) <= x /\ Lesser(x, n) <= n /\ Lesser(x, n) \in {x, n}
    BY <2>0, <2>1, LesserFacts
  <2>3. 1 <= Lesser(x, n)
    BY <1>0, <2>1, <2>2
  <2> QED
    BY <2>2, <2>3 DEF x
<1> HIDE DEF T
<1>8. Summed(d) = HalfSum(m, k)
  <2>0. s \in Seq(Int) /\ d \in Seq(Int)
    BY <1>1, <1>2, BytesAreInts
  <2> DEFINE a == 6 + T
  <2>1. a \in Nat /\ a <= Len(s) /\ a <= Len(d) /\ 2 \in Nat /\ 2 <= Len(s) /\ 2 <= Len(d)
        /\ a <= k /\ 2 <= k
    BY <1>0, <1>1, <1>2, <1>7, <1>k
  <2> HIDE DEF a
  <2>2. (\A i \in 1..a : d[i] = s[i]) /\ \A i \in 1..2 : d[i] = s[i]
    <3>1. (\A i \in 1..a : i \in 1..k) /\ \A i \in 1..2 : i \in 1..k
      BY <1>k, <2>1
    <3> QED
      BY <1>2, <3>1
  <2>3. Sums(d)[a] = Sums(s)[a]
    BY <2>0, <2>1, <2>2, SumsPrefix
  <2>4. Sums(d)[2] = Sums(s)[2]
    BY <2>0, <2>1, <2>2, SumsPrefix
  <2>5. Summed(d) = Sums(d)[a] - Sums(d)[2]
    BY <1>6 DEF Summed, a
  <2>6. HalfSum(m, k) = Sums(s)[a] - Sums(s)[2]
    BY <1>h DEF a
  <2> QED
    BY <2>3, <2>4, <2>5, <2>6
<1>9. SubSeq(d, 7, 6 + Taken(d)) = SubSeq(s, 7, 6 + T)
  <2>1. /\ 1 \in 1..Len(s) /\ k \in 1..Len(s) /\ 7 \in 1..(k - 1 + 1) /\ 6 + T \in 1..(k - 1 + 1)
        /\ 1 + 7 - 1 = 7 /\ 1 + (6 + T) - 1 = 6 + T
    BY <1>0, <1>1, <1>7, <1>k
  <2> DEFINE b == 6 + T
  <2>3. s \in Seq(Byte) /\ b \in 1..(k - 1 + 1)
    BY <1>1, <2>1
  <2> HIDE DEF b
  <2>2. SubSeq(SubSeq(s, 1, k), 7, b) = SubSeq(s, 1 + 7 - 1, 1 + b - 1)
    BY <2>1, <2>3, SubSeqOfSubSeq
  <2>4. 1 + b - 1 = b
    BY <2>3
  <2>5. SubSeq(SubSeq(s, 1, k), 7, b) = SubSeq(s, 7, b)
    BY <2>1, <2>2, <2>4
  <2> QED
    BY <1>6, <2>5 DEF d, b
<1>10. d[3] - 1 <= Body(d) <=> n + 1 <= k - 6
  BY <1>0, <1>3, <1>5
<1>11. d[3] <= Body(d) <=> n + 2 <= k - 6
  BY <1>0, <1>3, <1>5
<1>12. n + 1 <= k - 6 => d[5 + d[3]] = m.ck[1]
  <2>1. 5 + d[3] = 7 + n
    BY <1>0, <1>3
  <2>2. n + 1 <= k - 6 => 7 + n \in 1..k
    BY <1>0, <1>k
  <2> QED
    BY <1>1, <1>2, <2>1, <2>2
<1>13. n + 2 <= k - 6 => d[6 + d[3]] = m.ck[2]
  <2>1. 6 + d[3] = 8 + n
    BY <1>0, <1>3
  <2>2. n + 2 <= k - 6 => 8 + n \in 1..k
    BY <1>0, <1>k
  <2> QED
    BY <1>1, <1>2, <2>1, <2>2
<1>14. Begun(d) = Half(m, k)
  <2>1. (IF d[3] - 1 <= Body(d) THEN d[5 + d[3]] ELSE 0)
          = IF n + 1 <= k - 6 THEN m.ck[1] ELSE 0
    BY <1>10, <1>12
  <2>2. (IF d[3] <= Body(d) THEN d[6 + d[3]] ELSE 0)
          = IF n + 2 <= k - 6 THEN m.ck[2] ELSE 0
    BY <1>11, <1>13
  <2>3. Begun(d) = Fields(d[3], d[4], d[5], d[6], SubSeq(d, 7, 6 + Taken(d)),
                          <<IF d[3] - 1 <= Body(d) THEN d[5 + d[3]] ELSE 0,
                            IF d[3] <= Body(d) THEN d[6 + d[3]] ELSE 0>>)
    BY Zenon DEF Begun, Fields
  <2> DEFINE c1 == IF d[3] - 1 <= Body(d) THEN d[5 + d[3]] ELSE 0
             c2 == IF d[3] <= Body(d) THEN d[6 + d[3]] ELSE 0
             t == SubSeq(d, 7, 6 + Taken(d))
  <2>4. Half(m, k) = Fields(m.len, m.direction, m.RW, m.command, t, <<c1, c2>>)
    BY <1>9, <1>p, <2>1, <2>2
  <2>5. Begun(d) = Fields(d[3], d[4], d[5], d[6], t, <<c1, c2>>)
    BY <2>3, Zenon
  <2> HIDE DEF c1, c2, t
  <2> QED
    BY <1>3, <2>4, <2>5, Zenon
<1> QED
  BY <1>2, <1>3, <1>4, <1>5, <1>8, <1>14 DEF d, s

(* A whole frame, met by an idle parser, is given back as it was sent. *)
LEMMA WholeParsed ==
  ASSUME NEW m, Genuine(m), NEW p, p.idx = 0
  PROVE  LET x == HalfSum(m, Len(m.data) + 8)
         IN  /\ x \in Int /\ 0 <= x /\ x < 65535
             /\ parse(serialyze(m), p, Blank)
                  = [code |-> 0, parser |-> [idx |-> 0, sum |-> 65535 - x], pack |-> m]
<1> DEFINE s == serialyze(m)
           n == Len(m.data)
           k == n + 8
           d == SubSeq(s, 1, k)
           x == HalfSum(m, k)
<1>0. n \in Nat /\ 1 <= n /\ n <= 12 /\ m.len = n + 2 /\ m.data \in Seq(Byte)
  BY GenuineFacts
<1>1. /\ s \in Seq(Byte) /\ Len(s) = n + 8 /\ m.ck = <<m.ck[1], m.ck[2]>>
      /\ \A i \in 1..n : s[6 + i] = m.data[i]
  BY FrameFacts
<1>2. k \in Nat /\ 9 <= k /\ k <= n + 8 /\ k - 6 = n + 2
  BY <1>0
<1>3. d = s
  <2> HIDE DEF s
  <2>1. SubSeq(s, 1, Len(s)) = s
    BY <1>1, SubSeqFull
  <2> QED
    BY <1>1, <2>1
<1>4. /\ d \in Seq(Byte) /\ HasHeader(d) /\ Body(d) = k - 6 /\ d[3] = m.len
      /\ Begun(d) = Half(m, k) /\ Summed(d) = HalfSum(m, k)
  <2> HIDE DEF k
  <2> QED
    BY <1>2, HalfBegun
<1>5. Lesser(k - 6, n) = n
  <2>1. n <= n + 2 /\ n + 2 \in Int
    BY <1>0
  <2> QED
    BY <1>0, <1>2, <2>1, LesserFacts
<1>6. x \in Int /\ 0 <= x /\ x < 65535 /\ m.ck = CheckOf(x)
  <2>1. x = Sums(s)[6 + n] - Sums(s)[2]
    BY <1>5 DEF HalfSum
  <2> DEFINE y == Sums(s)[6 + n] - Sums(s)[2]
  <2>2. y \in Int /\ 0 <= y /\ y < 65535 /\ m.ck = CheckOf(y)
    BY FrameSum
  <2> HIDE DEF y, x
  <2> QED
    BY <2>1, <2>2 DEF y
<1>7. SubSeq(s, 7, 6 + n) = m.data
  <2> HIDE DEF s
  <2> DEFINE u == SubSeq(s, 6 + 1, 6 + n)
  <2>1. 6 \in Nat /\ 6 + n \in Nat /\ 6 <= 6 + n /\ 6 + n <= Len(s) /\ (6 + n) - 6 = n
    BY <1>0, <1>1
  <2>2. /\ u \in Seq(Byte) /\ Len(u) = (6 + n) - 6
        /\ \A i \in 1..((6 + n) - 6) : u[i] = s[6 + i]
    BY <1>1, <2>1, PartProperties
  <2> HIDE DEF u
  <2>3. \A i \in 1..Len(u) : u[i] = m.data[i]
    BY <1>1, <2>1, <2>2
  <2>4. u = m.data
    BY <1>0, <2>1, <2>2, <2>3, SeqEqual
  <2>5. 6 + 1 = 7
    OBVIOUS
  <2> QED
    BY <2>4, <2>5 DEF u
<1>8. Half(m, k) = m
  <2>1. Half(m, k) = Fields(m.len, m.direction, m.RW, m.command, SubSeq(s, 7, 6 + Lesser(k - 6, n)),
               <<IF n + 1 <= k - 6 THEN m.ck[1] ELSE 0, IF n + 2 <= k - 6 THEN m.ck[2] ELSE 0>>)
    BY Zenon DEF Half
  <2>2. n + 1 <= k - 6 /\ n + 2 <= k - 6
    BY <1>0
  <2>3. Half(m, k) = Fields(m.len, m.direction, m.RW, m.command, m.data, m.ck)
    BY <1>1, <1>5, <1>7, <2>1, <2>2, Zenon
  <2> QED
    BY <2>3, Zenon DEF Genuine
<1>9. ~(Body(d) < d[3])
  BY <1>0, <1>2, <1>4
<1>10. parse(d, p, Blank) = Finished([idx |-> d[3], sum |-> Summed(d)], Begun(d))
  <2> HIDE DEF d
  <2> QED
    BY <1>4, <1>9, ParseFirst
<1> DEFINE q == [idx |-> d[3], sum |-> x]
<1>11. parse(d, p, Blank) = Finished(q, m)
  BY <1>4, <1>8, <1>10, Zenon
<1>12. q.sum = x
  <2> HIDE DEF x
  <2> QED OBVIOUS
<1> HIDE DEF q, x, d, s
<1>13. Finished(q, m) = [code |-> 0, parser |-> [idx |-> 0, sum |-> 65535 - q.sum], pack |-> m]
  BY <1>6, <1>12, FinishedGood
<1>14. parse(s, p, Blank) = [code |-> 0, parser |-> [idx |-> 0, sum |-> 65535 - x], pack |-> m]
  BY <1>3, <1>11, <1>12, <1>13
<1> QED
  BY <1>6, <1>14 DEF x, s

(* A frame that breaks off behind its header is begun, ... *)
LEMMA HalfParsed ==
  ASSUME NEW m, Genuine(m), NEW k \in Nat, 9 <= k, k < Len(m.data) + 8, NEW p, p.idx = 0
  PROVE  parse(SubSeq(serialyze(m), 1, k), p, Blank)
           = [code |-> 1, parser |-> [idx |-> k - 6, sum |-> HalfSum(m, k)], pack |-> Half(m, k)]
<1> DEFINE d == SubSeq(serialyze(m), 1, k)
<1>0. Len(m.data) \in Nat /\ m.len = Len(m.data) + 2
  BY GenuineFacts
<1>1. k <= Len(m.data) + 8
  BY <1>0
<1>2. /\ d \in Seq(Byte) /\ HasHeader(d) /\ Body(d) = k - 6 /\ d[3] = m.len
      /\ Begun(d) = Half(m, k) /\ Summed(d) = HalfSum(m, k)
  BY <1>1, HalfBegun
<1> HIDE DEF d
<1>3. Body(d) < d[3]
  BY <1>0, <1>2
<1>4. parse(d, p, Blank)
        = [code |-> 1, parser |-> [idx |-> Body(d), sum |-> Summed(d)], pack |-> Begun(d)]
  BY <1>2, <1>3, ParseFirst
<1>5. parse(d, p, Blank)
        = [code |-> 1, parser |-> [idx |-> k - 6, sum |-> HalfSum(m, k)], pack |-> Half(m, k)]
  BY <1>2, <1>4
<1> QED
  BY <1>5 DEF d

LEMMA FieldsAre ==
  ASSUME NEW a, NEW b, NEW c, NEW e, NEW t, NEW k
  PROVE  /\ Fields(a, b, c, e, t, k).len = a
         /\ Fields(a, b, c, e, t, k).direction = b
         /\ Fields(a, b, c, e, t, k).RW = c
         /\ Fields(a, b, c, e, t, k).command = e
         /\ Fields(a, b, c, e, t, k).data = t
         /\ Fields(a, b, c, e, t, k).ck = k
BY DEF Fields

(* ... and the rest of it, absorbed into the same pack, completes it. *)
LEMMA RestAbsorbed ==
  ASSUME NEW m, Genuine(m), NEW k \in Nat, 9 <= k, k < Len(m.data) + 8
  PROVE  LET s == serialyze(m)
         IN  Absorbed(SubSeq(s, k + 1, Len(s)), [idx |-> k - 6, sum |-> HalfSum(m, k)], Half(m, k))
               = [idx |-> m.len, sum |-> HalfSum(m, Len(m.data) + 8), pack |-> m]
<1> DEFINE s == serialyze(m)
           n == Len(m.data)
           b == SubSeq(s, k + 1, Len(s))
           p == [idx |-> k - 6, sum |-> HalfSum(m, k)]
           o == Half(m, k)
           T == Lesser(k - 6, n)
           N == Lesser(Len(b), o.len - p.idx)
           M == Lesser(N, o.len - 2 - p.idx)
           ck(j) == LET i == o.len - 2 + j - p.idx
                    IN  IF i \in 1..N THEN b[i] ELSE o.ck[j]
           t1 == SubSeq(s, 7, 6 + T)
           c1 == IF n + 1 <= k - 6 THEN m.ck[1] ELSE 0
           c2 == IF n + 2 <= k - 6 THEN m.ck[2] ELSE 0
<1>0. n \in Nat /\ 1 <= n /\ n <= 12 /\ m.len = n + 2 /\ m.data \in Seq(Byte)
  BY GenuineFacts
<1>1. /\ s \in Seq(Byte) /\ Len(s) = n + 8 /\ m.ck = <<m.ck[1], m.ck[2]>>
      /\ \A i \in 1..n : s[6 + i] = m.data[i]
      /\ s[7 + n] = m.ck[1] /\ s[8 + n] = m.ck[2]
  BY FrameFacts
<1>k. k \in Nat /\ 9 <= k /\ k < n + 8
  OBVIOUS
<1>g. m = Fields(m.len, m.direction, m.RW, m.command, m.data, m.ck)
  BY Zenon DEF Genuine
<1>2. o = Fields(m.len, m.direction, m.RW, m.command, t1, <<c1, c2>>)
  BY Zenon DEF Half
<1>3. p.idx = k - 6 /\ p.sum = HalfSum(m, k)
  OBVIOUS
<1>4. HalfSum(m, k) = Sums(s)[6 + T] - Sums(s)[2]
  BY DEF HalfSum
<1>5. HalfSum(m, n + 8) = Sums(s)[6 + n] - Sums(s)[2]
  <2>1. n <= n + 2 /\ n + 2 \in Int /\ n \in Int
    BY <1>0
  <2>2. Lesser(n + 2, n) = n
    BY <2>1, LesserFacts
  <2>3. (n + 8) - 6 = n + 2
    BY <1>0
  <2> QED
    BY <2>2, <2>3 DEF HalfSum
<1>6. Absorbed(b, p, o) =
        [idx |-> p.idx + N, sum |-> p.sum + SumOf(SubSeq(b, 1, M)),
         pack |-> [o EXCEPT !.data = @ \o SubSeq(b, 1, M), !.ck = <<ck(1), ck(2)>>]]
  BY Zenon DEF Absorbed
<1> HIDE DEF s, p, o, t1, c1, c2, n
<1>7. o.len = m.len /\ o.data = t1 /\ o.ck[1] = c1 /\ o.ck[2] = c2
  <2>1. o.len = m.len /\ o.data = t1 /\ o.ck = <<c1, c2>>
    BY <1>2, FieldsAre
  <2> QED
    BY <2>1
<1>8. /\ b \in Seq(Byte) /\ Len(b) = n + 8 - k
      /\ \A i \in 1..(n + 8 - k) : b[i] = s[k + i]
  <2>1. k <= Len(s) /\ Len(s) \in Nat /\ Len(s) <= Len(s) /\ Len(s) - k = n + 8 - k
    BY <1>0, <1>1, <1>k
  <2>2. /\ b \in Seq(Byte) /\ Len(b) = Len(s) - k
        /\ \A i \in 1..(Len(s) - k) : b[i] = s[k + i]
    BY <1>1, <1>k, <2>1, PartProperties
  <2> HIDE DEF b
  <2> QED
    BY <2>1, <2>2
<1> HIDE DEF b
<1>9. o.len - p.idx = n + 8 - k /\ o.len - 2 - p.idx = n + 6 - k
  BY <1>0, <1>3, <1>7, <1>k
<1>10. N = n + 8 - k
  <2>1. N = Lesser(n + 8 - k, n + 8 - k)
    BY <1>8, <1>9
  <2>2. n + 8 - k \in Int
    BY <1>0, <1>k
  <2> QED
    BY <2>1, <2>2, LesserFacts
<1> HIDE DEF N
<1>11. M = n + 6 - k
  <2> DEFINE x == n + 8 - k
             y == n + 6 - k
  <2>1. M = Lesser(x, y)
    BY <1>9, <1>10
  <2>2. x \in Int /\ y \in Int /\ y <= x
    BY <1>0, <1>k
  <2> HIDE DEF x, y
  <2>3. Lesser(x, y) = y
    BY <2>2, LesserFacts
  <2> QED
    BY <2>1, <2>3 DEF y
<1> HIDE DEF M
<1>12. T \in Int /\ 1 <= T /\ T <= n /\ (k - 6 <= n => T = k - 6) /\ (~(k - 6 <= n) => T = n)
  BY <1>0, <1>k DEF Lesser
<1> HIDE DEF T
<1>13. SubSeq(b, 1, M) = SubSeq(s, 6 + T + 1, 6 + n)
  <2>1. CASE k - 6 < n
    <3>1. T = k - 6 /\ 6 + T + 1 = k + 1
      BY <1>0, <1>12, <1>k, <2>1
    <3>2. /\ k + 1 \in 1..Len(s) /\ Len(s) \in 1..Len(s) /\ 1 \in 1..(Len(s) - (k + 1) + 1)
          /\ M \in 1..(Len(s) - (k + 1) + 1) /\ k + 1 + 1 - 1 = k + 1 /\ k + 1 + M - 1 = 6 + n
      BY <1>0, <1>1, <1>11, <1>k, <2>1
    <3> DEFINE a == k + 1
               z == Len(s)
    <3>4. s \in Seq(Byte) /\ a \in 1..Len(s) /\ z \in 1..Len(s) /\ 1 \in 1..(z - a + 1)
          /\ M \in 1..(z - a + 1) /\ a + 1 - 1 = a /\ a + M - 1 = 6 + n
      BY <1>1, <3>2
    <3> HIDE DEF a, z
    <3>5. SubSeq(SubSeq(s, a, z), 1, M) = SubSeq(s, a + 1 - 1, a + M - 1)
      BY <3>4, SubSeqOfSubSeq
    <3>6. SubSeq(SubSeq(s, a, z), 1, M) = SubSeq(s, a, 6 + n)
      BY <3>4, <3>5
    <3> QED
      BY <3>1, <3>6 DEF a, z, b
  <2>2. CASE ~(k - 6 < n)
    <3>1. T = n
      BY <1>0, <1>12, <1>k, <2>2
    <3>2. M \in Int /\ M < 1 /\ 6 + T + 1 \in Int /\ 6 + n \in Int /\ 6 + n < 6 + T + 1
      BY <1>0, <1>11, <1>k, <2>2, <3>1
    <3>3. SubSeq(b, 1, M) = <<>>
      BY <3>2, SubSeqEmpty
    <3>4. SubSeq(s, 6 + T + 1, 6 + n) = <<>>
      <4> DEFINE a == 6 + T + 1
                 z == 6 + n
      <4>1. a \in Int /\ z \in Int /\ z < a
        BY <3>2
      <4> HIDE DEF a, z
      <4>2. SubSeq(s, a, z) = <<>>
        BY <4>1, SubSeqEmpty
      <4> QED
        BY <4>2 DEF a, z
    <3> QED
      BY <3>3, <3>4
  <2> QED
    BY <2>1, <2>2
<1>14. p.sum + SumOf(SubSeq(b, 1, M)) = HalfSum(m, n + 8)
  <2> DEFINE a == 6 + T
             z == 6 + n
  <2>1. a \in Nat /\ z \in Nat /\ a <= z /\ z <= Len(s) /\ 2 \in 0..Len(s)
        /\ a \in 0..Len(s) /\ z \in 0..Len(s)
    BY <1>0, <1>1, <1>12
  <2>2. SubSeq(b, 1, M) = SubSeq(s, a + 1, z)
    BY <1>13
  <2>3. HalfSum(m, k) = Sums(s)[a] - Sums(s)[2] /\ HalfSum(m, n + 8) = Sums(s)[z] - Sums(s)[2]
    BY <1>4, <1>5
  <2> HIDE DEF a, z
  <2>4. s \in Seq(Int)
    BY <1>1, BytesAreInts
  <2>5. SumOf(SubSeq(s, a + 1, z)) = Sums(s)[z] - Sums(s)[a]
    BY <2>1, <2>4, SumOfPart
  <2> DEFINE x == Sums(s)[2]
             y == Sums(s)[a]
             w == Sums(s)[z]
  <2>6. x \in Int /\ y \in Int /\ w \in Int
    BY <2>1, <2>4, SumsFacts
  <2>7. p.sum = y - x /\ HalfSum(m, n + 8) = w - x /\ SumOf(SubSeq(b, 1, M)) = w - y
    BY <1>3, <2>2, <2>3, <2>5
  <2> HIDE DEF x, y, w
  <2>8. (y - x) + (w - y) = w - x
    BY <2>6
  <2> QED
    BY <2>7, <2>8
<1>15. o.data \o SubSeq(b, 1, M) = m.data
  <2> DEFINE a == 6 + T
             z == 6 + n
             u == SubSeq(s, 6 + 1, z)
  <2>0. /\ a \in Nat /\ z \in Nat /\ 6 <= a /\ a <= z /\ 6 <= z /\ z <= Len(s)
        /\ Len(s) \in Nat /\ 6 \in Nat
    BY <1>0, <1>1, <1>12
  <2>1. /\ 7 \in 1..(Len(s) + 1) /\ a \in (7 - 1)..Len(s) /\ z \in a..Len(s)
        /\ 6 \in Nat /\ z \in Nat /\ 6 <= z /\ z <= Len(s) /\ z - 6 = n
    <3>1. z - 6 = n
      BY <1>0, <1>1
    <3> DEFINE l == Len(s)
    <3>2. l \in Nat /\ 6 <= a /\ a <= z /\ z <= l
      BY <2>0
    <3> HIDE DEF a, z, l
    <3>3. 7 \in 1..(l + 1) /\ a \in (7 - 1)..l /\ z \in a..l
      BY <2>0, <3>2
    <3> QED
      BY <2>0, <3>1, <3>3 DEF l
  <2>2. SubSeq(b, 1, M) = SubSeq(s, a + 1, z) /\ o.data = SubSeq(s, 7, a)
    BY <1>7, <1>13 DEF t1
  <2> HIDE DEF a, z
  <2>3. SubSeq(s, 7, a) \o SubSeq(s, a + 1, z) = SubSeq(s, 7, z)
    BY <1>1, <2>1, ConcatAdjacentSubSeq
  <2>4. u \in Seq(Byte) /\ Len(u) = z - 6 /\ \A i \in 1..(z - 6) : u[i] = s[6 + i]
    BY <1>1, <2>1, PartProperties
  <2>5. 6 + 1 = 7
    OBVIOUS
  <2> HIDE DEF u
  <2>6. Len(u) = Len(m.data) /\ \A i \in 1..Len(u) : u[i] = m.data[i]
    BY <1>1, <2>1, <2>4 DEF n
  <2>7. u = m.data
    BY <1>0, <2>4, <2>6, SeqEqual
  <2> QED
    BY <2>2, <2>3, <2>5, <2>7 DEF u
<1>16. ck(1) = m.ck[1]
  <2> DEFINE i == n + 7 - k
  <2>1. o.len - 2 + 1 - p.idx = i
    BY <1>0, <1>3, <1>7, <1>k
  <2>2. ck(1) = IF i \in 1..N THEN b[i] ELSE o.ck[1]
    BY <2>1
  <2>3. CASE i \in 1..N
    <3>1. i \in 1..(n + 8 - k) /\ k + i = 7 + n
      BY <1>0, <1>10, <1>k, <2>3
    <3> HIDE DEF i
    <3>2. b[i] = s[k + i]
      BY <1>8, <3>1
    <3> HIDE DEF ck
    <3> QED
      BY <1>1, <2>2, <2>3, <3>1, <3>2
  <2>4. CASE ~(i \in 1..N)
    <3>1. n + 1 <= k - 6
      BY <1>0, <1>10, <1>k, <2>4
    <3>2. c1 = m.ck[1]
      BY <3>1 DEF c1
    <3> HIDE DEF ck, i
    <3> QED
      BY <1>7, <2>2, <2>4, <3>2
  <2> HIDE DEF ck
  <2> QED
    BY <2>3, <2>4
<1>17. ck(2) = m.ck[2]
  <2> DEFINE i == n + 8 - k
  <2>1. o.len - 2 + 2 - p.idx = i
    BY <1>0, <1>3, <1>7, <1>k
  <2>2. ck(2) = IF i \in 1..N THEN b[i] ELSE o.ck[2]
    BY <2>1
  <2>3. i \in 1..N /\ i \in 1..(n + 8 - k) /\ k + i = 8 + n
    BY <1>0, <1>10, <1>k
  <2> HIDE DEF i, ck
  <2>4. b[i] = s[k + i]
    BY <1>8, <2>3
  <2> QED
    BY <1>1, <2>2, <2>3, <2>4
<1>18. [o EXCEPT !.data = @ \o SubSeq(b, 1, M), !.ck = <<ck(1), ck(2)>>] = m
  <2> DEFINE c == <<ck(1), ck(2)>>
             t == SubSeq(b, 1, M)
  <2>1. c = m.ck
    <3> HIDE DEF ck
    <3> QED
      BY <1>1, <1>16, <1>17
  <2>2. o.data \o t = m.data
    BY <1>15
  <2> HIDE DEF c, t
  <2>3. [o EXCEPT !.data = @ \o t, !.ck = c] = [o EXCEPT !.data = m.data, !.ck = m.ck]
    BY <2>1, <2>2
  <2>4. FilledWith(Fields(m.len, m.direction, m.RW, m.command, t1, <<c1, c2>>), m.data, m.ck)
          = Fields(m.len, m.direction, m.RW, m.command, m.data, m.ck)
    BY FilledIs
  <2>5. FilledWith(o, m.data, m.ck) = m
    BY <1>2, <1>g, <2>4, Zenon
  <2>6. [o EXCEPT !.data = m.data, !.ck = m.ck] = m
    BY <2>5, Zenon DEF FilledWith
  <2>7. [o EXCEPT !.data = @ \o t, !.ck = c] = m
    BY <2>3, <2>6, Zenon
  <2> QED
    BY <2>7 DEF c, t
<1>19. p.idx + N = m.len
  BY <1>0, <1>3, <1>10, <1>k
<1> HIDE DEF ck
<1>20. Absorbed(b, p, o) = [idx |-> m.len, sum |-> HalfSum(m, n + 8), pack |-> m]
  BY <1>6, <1>14, <1>18, <1>19, Zenon
<1> QED
  BY <1>20 DEF b, p, o, s, n

LEMMA Rejoined ==
  ASSUME NEW m, Genuine(m), NEW k \in Nat, 9 <= k, k < Len(m.data) + 8
  PROVE  LET s == serialyze(m)
             r == parse(SubSeq(s, k + 1, Len(s)), [idx |-> k - 6, sum |-> HalfSum(m, k)],
                        Half(m, k))
         IN  r.code = 0 /\ r.pack = m /\ r.parser.idx = 0
<1> DEFINE s == serialyze(m)
           n == Len(m.data)
           b == SubSeq(s, k + 1, Len(s))
           p == [idx |-> k - 6, sum |-> HalfSum(m, k)]
           o == Half(m, k)
           x == HalfSum(m, n + 8)
           q == [idx |-> m.len, sum |-> x]
           a == Absorbed(b, p, o)
<1>0. n \in Nat /\ 1 <= n /\ n <= 12 /\ m.len = n + 2
  BY GenuineFacts
<1>1. s \in Seq(Byte) /\ Len(s) = n + 8
  BY FrameFacts
<1>k. k \in Nat /\ 9 <= k /\ k < n + 8
  OBVIOUS
<1>2. p.idx = k - 6
  OBVIOUS
<1>3. o.len = m.len
  <2> DEFINE t1 == SubSeq(s, 7, 6 + Lesser(k - 6, n))
             c1 == <<IF n + 1 <= k - 6 THEN m.ck[1] ELSE 0,
                     IF n + 2 <= k - 6 THEN m.ck[2] ELSE 0>>
  <2>1. o = Fields(m.len, m.direction, m.RW, m.command, t1, c1)
    BY Zenon DEF Half
  <2> HIDE DEF o, t1, c1
  <2> QED
    BY <2>1, FieldsAre
<1>4. a = [idx |-> m.len, sum |-> x, pack |-> m]
  BY RestAbsorbed
<1>5. x \in Int /\ 0 <= x /\ x < 65535 /\ m.ck = CheckOf(x)
  <2>1. Lesser((n + 8) - 6, n) = n
    <3>1. n <= n + 2 /\ n + 2 \in Int /\ n \in Int /\ (n + 8) - 6 = n + 2
      BY <1>0
    <3> QED
      BY <3>1, LesserFacts
  <2> DEFINE y == Sums(s)[6 + n] - Sums(s)[2]
  <2>2. x = y
    BY <2>1 DEF HalfSum
  <2>3. y \in Int /\ 0 <= y /\ y < 65535 /\ m.ck = CheckOf(y)
    BY FrameSum
  <2> HIDE DEF y, x
  <2> QED
    BY <2>2, <2>3
<1>6. Continued(b, p, o) =
        IF p.idx >= o.len THEN Finished(p, o)
        ELSE IF a.idx < o.len
             THEN [code |-> 1, parser |-> [idx |-> a.idx, sum |-> a.sum], pack |-> a.pack]
             ELSE Finished([idx |-> a.idx, sum |-> a.sum], a.pack)
  BY Zenon DEF Continued
<1>7. q.sum = x
  <2> HIDE DEF x
  <2> QED OBVIOUS
<1> HIDE DEF s, n, b, p, o, x, a
<1>8. SubSeq(b, 1, Lesser(Len(b), 20)) = b
  <2>1. b \in Seq(Byte) /\ Len(b) = n + 8 - k
    <3> DEFINE z == Len(s)
    <3>1. z \in Nat /\ k <= z /\ z <= Len(s) /\ z - k = n + 8 - k
      BY <1>0, <1>1, <1>k
    <3> HIDE DEF z
    <3>2. SubSeq(s, k + 1, z) \in Seq(Byte) /\ Len(SubSeq(s, k + 1, z)) = z - k
      BY <1>1, <1>k, <3>1, PartProperties
    <3> QED
      BY <3>1, <3>2 DEF b, z
  <2>2. Len(b) \in Int /\ Len(b) <= 20
    BY <1>0, <1>k, <2>1
  <2>3. Lesser(Len(b), 20) = Len(b)
    <3> DEFINE z == Len(b)
    <3>1. z \in Int /\ z <= 20
      BY <2>2
    <3> HIDE DEF z
    <3>2. Lesser(z, 20) = z
      BY <3>1, LesserFacts
    <3> QED
      BY <3>2 DEF z
  <2>4. SubSeq(b, 1, Len(b)) = b
    BY <2>1, SubSeqFull
  <2> QED
    BY <2>3, <2>4
<1>9. parse(b, p, o) = Continued(b, p, o)
  <2>1. p.idx # 0
    BY <1>2, <1>k
  <2>2. parse(b, p, o) = Continued(SubSeq(b, 1, Lesser(Len(b), 20)), p, o)
    BY <2>1, ParseGoesOn
  <2> QED
    BY <1>8, <2>2
<1>10. ~(p.idx >= o.len)
  BY <1>0, <1>2, <1>3, <1>k
<1>11. a.idx = m.len /\ a.sum = x /\ a.pack = m
  BY <1>4
<1>12. ~(m.len < m.len)
  BY <1>0
<1>13. parse(b, p, o) = Finished(q, m)
  BY <1>3, <1>6, <1>9, <1>10, <1>11, <1>12, Zenon
<1> HIDE DEF q
<1>14. Finished(q, m) = [code |-> 0, parser |-> [idx |-> 0, sum |-> 65535 - q.sum], pack |-> m]
  BY <1>5, <1>7, FinishedGood
<1>15. parse(b, p, o).code = 0 /\ parse(b, p, o).pack = m /\ parse(b, p, o).parser.idx = 0
  BY <1>13, <1>14
<1> QED
  BY <1>15 DEF b, p, o, s

(* Any frame of at most 12 bytes of payload comes out of an idle parser as *)
(* it went into serialyze: whole, or cut anywhere from its ninth byte on   *)
(* and given to the parser in two calls with the same pack (ninebot.c:56   *)
(* "mensaje incompleto, espera nuevo").                                    *)
THEOREM FramesComeBack ==
  ASSUME NEW m, Genuine(m), NEW p, p.idx = 0
  PROVE  /\ parse(serialyze(m), p, Blank).code = 0
         /\ parse(serialyze(m), p, Blank).pack = m
         /\ \A k \in 9..(Len(m.data) + 7) :
              LET s == serialyze(m)
                  first == parse(SubSeq(s, 1, k), p, Blank)
                  second == parse(SubSeq(s, k + 1, Len(s)), first.parser, first.pack)
              IN  first.code = 1 /\ second.code = 0 /\ second.pack = m
<1>0. Len(m.data) \in Nat
  BY GenuineFacts
<1>1. parse(serialyze(m), p, Blank).code = 0 /\ parse(serialyze(m), p, Blank).pack = m
  <2> DEFINE y == 65535 - HalfSum(m, Len(m.data) + 8)
             r == parse(serialyze(m), p, Blank)
  <2>1. r = [code |-> 0, parser |-> [idx |-> 0, sum |-> y], pack |-> m]
    BY WholeParsed
  <2> HIDE DEF y, r
  <2>2. r.code = 0 /\ r.pack = m
    BY <2>1
  <2> QED
    BY <2>2 DEF r
<1>2. ASSUME NEW k \in 9..(Len(m.data) + 7)
      PROVE  LET s == serialyze(m)
                 first == parse(SubSeq(s, 1, k), p, Blank)
                 second == parse(SubSeq(s, k + 1, Len(s)), first.parser, first.pack)
             IN  first.code = 1 /\ second.code = 0 /\ second.pack = m
  <2> DEFINE s == serialyze(m)
             d == SubSeq(s, 1, k)
             b == SubSeq(s, k + 1, Len(s))
             f == parse(d, p, Blank)
             q == [idx |-> k - 6, sum |-> HalfSum(m, k)]
             r == parse(b, q, Half(m, k))
  <2>1. k \in Nat /\ 9 <= k /\ k < Len(m.data) + 8
    BY <1>0
  <2>2. f = [code |-> 1, parser |-> q, pack |-> Half(m, k)]
    BY <2>1, HalfParsed
  <2>3. r.code = 0 /\ r.pack = m
    BY <2>1, Rejoined
  <2> HIDE DEF f, q, b
  <2>4. f.code = 1 /\ f.parser = q /\ f.pack = Half(m, k)
    BY <2>2
  <2>5. f.code = 1 /\ parse(b, f.parser, f.pack).code = 0 /\ parse(b, f.parser, f.pack).pack = m
    BY <2>3, <2>4
  <2> QED
    BY <2>5 DEF f, b
<1> QED
  BY <1>1, <1>2

-----------------------------------------------------------------------------
(***************************************************************************)
(* The requests of the display and the answers of the scooter.             *)
(***************************************************************************)
LEMMA RequestFacts ==
  ASSUME NEW c \in Byte
  PROVE  Genuine(Request(c)) /\ Request(c).data = <<4>> /\ Request(c).command = c
<1> DEFINE t == <<4>>
           m == Pack(32, 1, c, 3, t)
<1>1. 32 \in Byte /\ 1 \in Byte /\ 4 \in Byte
  BY ByteFacts
<1>2. t \in Seq(Byte) /\ Len(t) = 1
  BY <1>1
<1>3. Request(c) = m
  <2>1. RegisterLEN + 2 = 4 /\ 4 \in 2..NinebotMaxPayload
    BY DEF RegisterLEN, NinebotMaxPayload
  <2> DEFINE r == create_request(MastertoM365, Ninebotread, c, 4)
  <2>2. r = [code |-> 0, pack |-> Pack(MastertoM365, Ninebotread, c, 3, <<4>>)]
    BY <2>1, Zenon DEF create_request
  <2>3. MastertoM365 = 32 /\ Ninebotread = 1
    BY DEF MastertoM365, Ninebotread
  <2>4. Request(c) = r.pack
    BY <2>1, Zenon DEF Request
  <2> HIDE DEF r
  <2>5. r.pack = Pack(MastertoM365, Ninebotread, c, 3, <<4>>)
    BY <2>2
  <2> QED
    BY <2>3, <2>4, <2>5, Zenon
<1>4. Genuine(m)
  <2> HIDE DEF t
  <2>1. Len(t) \in 1..12 /\ 3 = Len(t) + 2
    BY <1>2
  <2> QED
    BY <1>1, <1>2, <2>1, PackGenuine
<1>5. m.data = t /\ m.command = c
  <2> DEFINE k == CheckOf(SumOf(<<3, 32, 1, c>> \o t))
  <2>1. m = [len |-> 3, direction |-> 32, RW |-> 1, command |-> c, data |-> t, ck |-> k]
    BY Zenon DEF Pack
  <2> HIDE DEF k, m, t
  <2> QED
    BY <2>1
<1> HIDE DEF m
<1> QED
  BY <1>3, <1>4, <1>5

Commands == {M365battREG, M365speedREG, M365kmremainREG}

LEMMA CommandFacts ==
  ASSUME NEW c \in Commands
  PROVE  c \in Byte
<1>1. c = 180 \/ c = 181 \/ c = 37
  BY DEF Commands, M365battREG, M365speedREG, M365kmremainREG
<1> QED
  BY <1>1, ByteFacts

(* A register value is a number of 16 bits. *)
LEMMA WordBounds ==
  ASSUME NEW n \in Word
  PROVE  n \in Int /\ 0 <= n /\ n <= 65535
<1>1. MaxWord = 65535
  BY DEF MaxWord
<1>2. n \in Int /\ 0 <= n /\ n <= MaxWord
  <2>1. MaxWord \in Int
    BY <1>1
  <2> HIDE DEF MaxWord
  <2> QED BY <2>1 DEF Word
<1> QED
  BY <1>1, <1>2

LEMMA WordBytes ==
  ASSUME NEW v \in Word
  PROVE  v % 256 \in Byte /\ v \div 256 \in Byte /\ v = (v % 256) + 256 * (v \div 256)
<1>1. v \in Int /\ 0 <= v /\ v <= 65535
  BY WordBounds
<1>2. v % 256 \in Int /\ 0 <= v % 256 /\ v % 256 <= 255
  BY <1>1
<1>3. v \div 256 \in Int /\ 0 <= v \div 256 /\ v \div 256 <= 255
  BY <1>1
<1>4. v = (v % 256) + 256 * (v \div 256)
  BY <1>1
<1> QED
  BY <1>2, <1>3, <1>4, ByteFacts

LEMMA AnswerFacts ==
  ASSUME NEW c \in Commands, NEW g, NEW v \in Word, NEW w \in Word, g = <<v, w>>
  PROVE  LET m == Answer(c, g)
         IN  /\ Genuine(m) /\ Len(m.data) = 4
             /\ m.direction = 35 /\ m.RW = 1 /\ m.command = c
             /\ m.data[1] = v % 256 /\ m.data[2] = v \div 256
<1> DEFINE q == parse(serialyze(Request(c)), ParserIdle, Blank).pack
           n == Data(q, 0) \div 2
           t == [i \in 1..(2 * n) |-> IF i % 2 = 1 THEN g[(i + 1) \div 2] % 256
                                      ELSE g[i \div 2] \div 256]
           m == Pack(M365toMaster, Ninebotread, q.command, Data(q, 0) + 2, t)
<1>0. c \in Byte
  BY CommandFacts
<1>1. q = Request(c)
  <2> DEFINE s == serialyze(Request(c))
             x == HalfSum(Request(c), Len(Request(c).data) + 8)
             r == parse(s, ParserIdle, Blank)
  <2>1. ParserIdle.idx = 0
    BY DEF ParserIdle
  <2>2. r = [code |-> 0, parser |-> [idx |-> 0, sum |-> 65535 - x], pack |-> Request(c)]
    <3> DEFINE m0 == Request(c)
    <3>1. Genuine(m0)
      BY <1>0, RequestFacts
    <3> HIDE DEF m0
    <3>2. parse(serialyze(m0), ParserIdle, Blank)
            = [code |-> 0, parser |-> [idx |-> 0, sum |-> 65535 - HalfSum(m0, Len(m0.data) + 8)],
               pack |-> m0]
      BY <2>1, <3>1, WholeParsed
    <3> QED
      BY <3>2 DEF m0
  <2> DEFINE y == 65535 - x
  <2> HIDE DEF r, y
  <2>3. r = [code |-> 0, parser |-> [idx |-> 0, sum |-> y], pack |-> Request(c)]
    BY <2>2 DEF y
  <2>4. r.pack = Request(c)
    BY <2>3
  <2> QED
    BY <2>4 DEF r
<1>a. Answer(c, g) = slave_answer(q, g)
  BY Zenon DEF Answer
<1> HIDE DEF q
<1>2. slave_answer(q, g) = m
  BY DEF slave_answer
<1>g. g[1] = v /\ g[2] = w
  OBVIOUS
<1>3. q.command = c /\ Data(q, 0) = 4
  <2>1. Request(c).command = c /\ Request(c).data = <<4>>
    BY <1>0, RequestFacts
  <2>2. q.command = c /\ q.data = <<4>>
    BY <1>1, <2>1
  <2>3. Len(q.data) = 1 /\ q.data[0 + 1] = 4
    BY <2>2
  <2>4. Data(q, 0) = 4
    BY <2>3 DEF Data
  <2> QED
    BY <2>2, <2>4
<1>4. n = 2
  BY <1>3
<1>5. /\ v % 256 \in Byte /\ v \div 256 \in Byte
      /\ w % 256 \in Byte /\ w \div 256 \in Byte
  BY WordBytes
<1> DEFINE lo == v % 256
           hi == v \div 256
           lo2 == w % 256
           hi2 == w \div 256
           u == <<lo, hi, lo2, hi2>>
<1>6. t = u
  <2>0. t = [i \in 1..4 |-> IF i % 2 = 1 THEN g[(i + 1) \div 2] % 256 ELSE g[i \div 2] \div 256]
    BY <1>4
  <2> HIDE DEF n
  <2>1. t[1] = lo
    <3>1. 1 \in 1..4 /\ 1 % 2 = 1 /\ (1 + 1) \div 2 = 1
      OBVIOUS
    <3> QED
      BY <1>g, <2>0, <3>1
  <2>2. t[2] = hi
    <3>1. 2 \in 1..4 /\ 2 % 2 # 1 /\ 2 \div 2 = 1
      OBVIOUS
    <3> QED
      BY <1>g, <2>0, <3>1
  <2>3. t[3] = lo2
    <3>1. 3 \in 1..4 /\ 3 % 2 = 1 /\ (3 + 1) \div 2 = 2
      OBVIOUS
    <3> QED
      BY <1>g, <2>0, <3>1
  <2>4. t[4] = hi2
    <3>1. 4 \in 1..4 /\ 4 % 2 # 1 /\ 4 \div 2 = 2
      OBVIOUS
    <3> QED
      BY <1>g, <2>0, <3>1
  <2>5. t = [i \in 1..4 |-> t[i]]
    BY <2>0
  <2> HIDE DEF t, lo, hi, lo2, hi2
  <2>6. [i \in 1..4 |-> t[i]] = u
    <3>1. ASSUME NEW i \in 1..4 PROVE t[i] = u[i]
      <4>1. i = 1 \/ i = 2 \/ i = 3 \/ i = 4
        OBVIOUS
      <4> QED
        BY <2>1, <2>2, <2>3, <2>4, <4>1
    <3>2. u = [i \in 1..4 |-> u[i]]
      OBVIOUS
    <3> HIDE DEF u
    <3> QED
      BY <3>1, <3>2
  <2> HIDE DEF u
  <2> QED
    BY <2>5, <2>6
<1> HIDE DEF t
<1>7. u \in Seq(Byte) /\ Len(u) = 4 /\ u[1] = lo /\ u[2] = hi
  <2>2. lo \in Byte /\ hi \in Byte /\ lo2 \in Byte /\ hi2 \in Byte
    BY <1>5
  <2> HIDE DEF lo, hi, lo2, hi2
  <2> QED
    BY <2>2
<1> HIDE DEF u
<1>8. M365toMaster = 35 /\ Ninebotread = 1 /\ 35 \in Byte /\ 1 \in Byte
  BY ByteFacts DEF M365toMaster, Ninebotread
<1>9. m = Pack(35, 1, c, 6, u)
  <2>1. Data(q, 0) + 2 = 6
    BY <1>3
  <2> QED
    BY <1>3, <1>6, <1>8, <2>1
<1> DEFINE k == Pack(35, 1, c, 6, u)
<1>10. Genuine(k)
  <2>1. Len(u) \in 1..12 /\ 6 = Len(u) + 2
    BY <1>7
  <2>2. 35 \in Byte /\ 1 \in Byte /\ c \in Byte /\ u \in Seq(Byte)
    BY <1>0, <1>7, <1>8
  <2> QED
    BY <2>1, <2>2, PackGenuine
<1>11. k.direction = 35 /\ k.RW = 1 /\ k.command = c /\ k.data = u
  <2> DEFINE h == CheckOf(SumOf(<<6, 35, 1, c>> \o u))
  <2>1. k = [len |-> 6, direction |-> 35, RW |-> 1, command |-> c, data |-> u, ck |-> h]
    BY Zenon DEF Pack
  <2> HIDE DEF h, k
  <2> QED
    BY <2>1
<1> HIDE DEF k, m
<1>12. Answer(c, g) = k
  BY <1>a, <1>2, <1>9 DEF k
<1> QED
  BY <1>7, <1>10, <1>11, <1>12

LEMMA RegistersAreWords ==
  ASSUME NEW r \in Registers
  PROVE  r = <<r[1], r[2]>> /\ r[1] \in Word /\ r[2] \in Word
<1>1. r \in Word \X Word
  BY DataAssumption
<1> QED
  BY <1>1

LEMMA PackFacts ==
  ASSUME NEW m \in Packs
  PROVE  LET s == serialyze(m)
         IN  /\ Genuine(m) /\ Len(m.data) = 4 /\ m.ck = <<s[11], s[12]>>
             /\ s \in Seq(Byte) /\ Len(s) = 12
             /\ s[1] = 85 /\ s[2] = 170 /\ s[3] = 6 /\ s[4] = 35
<1> DEFINE s == serialyze(m)
<1>1. PICK c \in Commands, r \in Registers : m = Answer(c, r)
  BY DEF Packs, Commands
<1> DEFINE v == r[1]
           w == r[2]
<1>2. r = <<v, w>> /\ v \in Word /\ w \in Word
  BY RegistersAreWords
<1> HIDE DEF v, w
<1>3. Genuine(m) /\ Len(m.data) = 4 /\ m.direction = 35
  BY <1>1, <1>2, AnswerFacts
<1>4. m.len = 6
  <2>1. Genuine(m)
    BY <1>3
  <2>2. m.len = Len(m.data) + 2
    BY <2>1, GenuineFacts
  <2> QED
    BY <1>3, <2>2
<1> DEFINE n == Len(m.data)
<1>5. /\ s \in Seq(Byte) /\ Len(s) = n + 8
      /\ s[1] = 85 /\ s[2] = 170 /\ s[3] = m.len /\ s[4] = m.direction
      /\ s[7 + n] = m.ck[1] /\ s[8 + n] = m.ck[2] /\ m.ck = <<m.ck[1], m.ck[2]>>
  <2>1. Genuine(m)
    BY <1>3
  <2> QED
    BY <2>1, FrameFacts
<1>6. n = 4
  BY <1>3
<1> HIDE DEF n, s
<1>7. n + 8 = 12 /\ 7 + n = 11 /\ 8 + n = 12
  BY <1>6
<1>8. m.ck = <<s[11], s[12]>>
  BY <1>5, <1>7
<1> QED
  BY <1>3, <1>4, <1>5, <1>7, <1>8 DEF s

LEMMA SummedBounds ==
  ASSUME NEW d \in Seq(Byte), HasHeader(d)
  PROVE  Summed(d) \in Int /\ 0 <= Summed(d) /\ Summed(d) < 65535
<1> DEFINE b == 6 + Taken(d)
           u == SubSeq(d, 2 + 1, b)
<1>1. b \in Nat /\ b <= Len(d) /\ 2 <= b /\ b <= 20 /\ 2 \in Nat
  BY HeaderFacts
<1>2. Summed(d) = Sums(d)[b] - Sums(d)[2]
  BY DEF Summed
<1> HIDE DEF b
<1>3. d \in Seq(Int)
  BY BytesAreInts
<1>4. SumOf(u) = Sums(d)[b] - Sums(d)[2]
  BY <1>1, <1>3, SumOfPart
<1>5. u \in Seq(Byte) /\ Len(u) = b - 2
  BY <1>1, PartProperties
<1> HIDE DEF u
<1> DEFINE n == b - 2
           x == Sums(u)[n]
<1>6. n \in 0..Len(u) /\ n \in Int /\ n <= 18
  BY <1>1, <1>5
<1>7. SumOf(u) = x
  BY <1>5 DEF SumOf
<1> HIDE DEF n
<1>8. x \in Int /\ 0 <= x /\ x <= 255 * n
  BY <1>5, <1>6, SumsBounds
<1> HIDE DEF x
<1>9. x < 65535
  BY <1>6, <1>8
<1> QED
  BY <1>2, <1>4, <1>7, <1>8, <1>9

DamagedAt(m, i, e) == [serialyze(m) EXCEPT ![i] = e]

(* The value two packs carry. *)
SameValue(r, m) == r.command = m.command /\ Unsigned(r) = Unsigned(m)

(* Whichever byte is changed and whatever it becomes: an answer that is    *)
(* accepted all the same came with a smaller length, and unless it was 3   *)
(* its value is the one that was sent.                                     *)
LEMMA DamagedParsed ==
  ASSUME NEW m \in Packs, NEW i \in 1..12, NEW e \in Byte, e # serialyze(m)[i],
         NEW p, p.idx = 0
  PROVE  LET r == parse(DamagedAt(m, i, e), p, Blank)
         IN  r.code = 0 => /\ i = 3 /\ e \in 3..5
                           /\ e >= 4 => SameValue(r.pack, m)
<1> DEFINE s == serialyze(m)
           d == [s EXCEPT ![i] = e]
           r == parse(d, p, Blank)
           x == Sums(s)[10] - Sums(s)[2]
<1>1. /\ Genuine(m) /\ Len(m.data) = 4 /\ m.ck = <<s[11], s[12]>>
      /\ s \in Seq(Byte) /\ Len(s) = 12
      /\ s[1] = 85 /\ s[2] = 170 /\ s[3] = 6 /\ s[4] = 35
  BY PackFacts
<1>2. x \in Int /\ 0 <= x /\ x < 65535 /\ m.ck = CheckOf(x)
  <2> DEFINE y == Sums(s)[6 + Len(m.data)] - Sums(s)[2]
  <2>1. y \in Int /\ 0 <= y /\ y < 65535 /\ m.ck = CheckOf(y)
    <3>1. Genuine(m)
      BY <1>1
    <3> HIDE DEF s
    <3> QED
      BY <3>1, FrameSum DEF s
  <2>2. 6 + Len(m.data) = 10
    BY <1>1
  <2>3. y = x
    BY <2>2
  <2> HIDE DEF x, y
  <2> QED
    BY <2>1, <2>3
<1>p. s[6] = m.command /\ s[7] = m.data[1] /\ s[8] = m.data[2]
  <2>1. s[6] = m.command /\ \A j \in 1..Len(m.data) : s[6 + j] = m.data[j]
    <3>1. Genuine(m)
      BY <1>1
    <3> QED
      BY <3>1, FrameFacts
  <2>2. 1 \in 1..4 /\ 2 \in 1..4 /\ 6 + 1 = 7 /\ 6 + 2 = 8
    OBVIOUS
  <2> HIDE DEF s
  <2> QED
    BY <1>1, <2>1, <2>2
<1> HIDE DEF s
<1>3. e # s[i] /\ e \in Int /\ 0 <= e /\ e <= 255
  BY ByteFacts DEF s
<1>4. /\ d \in Seq(Byte) /\ Len(d) = 12
      /\ d[i] = e /\ \A j \in 1..12 : j # i => d[j] = s[j]
  <2>0. 12 \in Nat /\ i \in 1..Len(s)
    BY <1>1
  <2>1. /\ d \in Seq(Byte) /\ Len(d) = Len(s)
        /\ \A j \in 1..Len(s) : d[j] = IF j = i THEN e ELSE s[j]
    <3>1. s \in Seq(Byte) /\ i \in 1..Len(s) /\ e \in Byte
      BY <1>1, <1>3, <2>0
    <3> QED
      BY <3>1, ExceptSeq
  <2> HIDE DEF d
  <2> QED
    BY <1>1, <2>1
<1> HIDE DEF d
<1>5. ASSUME i \in {1, 2} PROVE r.code # 0
  <2>1. d[1] # 85 \/ d[2] # 170
    BY <1>1, <1>3, <1>4, <1>5
  <2>2. ~(Len(d) < 9)
    BY <1>4
  <2>3. Refusal(d) = 2
    BY <2>1, <2>2 DEF Refusal
  <2>4. r = [code |-> 2, parser |-> ParserIdle, pack |-> Blank]
    BY <2>3, ParseRefused
  <2> HIDE DEF r
  <2> QED
    BY <2>4
<1>6. ASSUME i \notin {1, 2} PROVE d[1] = 85 /\ d[2] = 170
  <2>1. 1 \in 1..12 /\ 2 \in 1..12 /\ 1 # i /\ 2 # i
    BY <1>6
  <2> QED
    BY <1>1, <1>4, <2>1
<1>b. Body(d) = 6
  BY <1>4 DEF Body
<1>7. ASSUME i = 3, r.code = 0
      PROVE  e \in 3..5 /\ (e >= 4 => SameValue(r.pack, m))
  <2>1. d[3] = e /\ e # 6
    BY <1>1, <1>3, <1>4, <1>7
  <2>2. e >= 3
    <3> SUFFICES ASSUME e < 3 PROVE FALSE
      BY <1>3
    <3>1. ~(Len(d) < 9) /\ d[3] < 3 /\ d[1] = 85 /\ d[2] = 170
      BY <1>4, <1>6, <1>7, <2>1
    <3>2. Refusal(d) = 2
      BY <3>1 DEF Refusal
    <3>3. r = [code |-> 2, parser |-> ParserIdle, pack |-> Blank]
      BY <3>2, ParseRefused
    <3> HIDE DEF r
    <3> QED
      BY <1>7, <3>3
  <2>3. HasHeader(d)
    <3>1. d[1] = 85 /\ d[2] = 170 /\ d[3] >= 3
      BY <1>6, <1>7, <2>1, <2>2
    <3>2. Len(d) \in 9..20
      BY <1>4
    <3> QED
      BY <3>1, <3>2 DEF HasHeader
  <2>4. ~(Body(d) < d[3])
    <3> SUFFICES ASSUME Body(d) < d[3] PROVE FALSE
      OBVIOUS
    <3> DEFINE q == [idx |-> Body(d), sum |-> Summed(d)]
    <3>1. r = [code |-> 1, parser |-> q, pack |-> Begun(d)]
      BY <1>4, <2>3, ParseFirst
    <3> HIDE DEF q, r
    <3> QED
      BY <1>7, <3>1
  <2>5. e \in 3..5
    BY <1>3, <1>b, <2>1, <2>2, <2>4
  <2> DEFINE q == [idx |-> d[3], sum |-> Summed(d)]
             b == Begun(d)
  <2>6. r = Finished(q, b)
    BY <1>4, <2>3, <2>4, ParseFirst
  <2>7. r.pack = b
    <3> DEFINE y == [idx |-> 0, sum |-> 65535 - q.sum]
    <3> HIDE DEF q, r, b
    <3>1. PICK c \in {0, 3} : Finished(q, b) = [code |-> c, parser |-> y, pack |-> b]
      BY FinishedBad, FinishedGood
    <3> HIDE DEF y
    <3> QED
      BY <2>6, <3>1
  <2>8. ASSUME e >= 4 PROVE SameValue(b, m)
    <3> DEFINE t == SubSeq(d, 6 + 1, 6 + Taken(d))
               n == 6 + Taken(d)
               k == <<IF d[3] - 1 <= Body(d) THEN d[5 + d[3]] ELSE 0,
                      IF d[3] <= Body(d) THEN d[6 + d[3]] ELSE 0>>
    <3>1. b = Fields(d[3], d[4], d[5], d[6], t, k)
      <4>1. 6 + 1 = 7
        OBVIOUS
      <4> QED
        BY <4>1, Zenon DEF Begun, Fields
    <3>2. Taken(d) = e - 2
      BY <1>b, <2>1, <2>5 DEF Taken, Lesser
    <3>3. n \in Nat /\ 8 <= n /\ 6 <= n /\ n <= Len(d) /\ 6 \in Nat
      BY <1>4, <2>5, <2>8, <3>2
    <3>4. Len(t) = n - 6 /\ \A j \in 1..(n - 6) : t[j] = d[6 + j]
      <4> HIDE DEF n
      <4>0. d \in Seq(Byte)
        BY <1>4
      <4>1. /\ Len(SubSeq(d, 6 + 1, n)) = n - 6
            /\ \A j \in 1..(n - 6) : SubSeq(d, 6 + 1, n)[j] = d[6 + j]
        BY <3>3, <4>0, PartProperties
      <4> QED
        BY <4>1 DEF n
    <3> HIDE DEF t, n, k
    <3>5. 1 \in 1..(n - 6) /\ 2 \in 1..(n - 6) /\ 0 < n - 6 /\ 1 < n - 6
      BY <3>3
    <3>6. t[1] = d[7] /\ t[2] = d[8] /\ 0 < Len(t) /\ 1 < Len(t)
      <4>1. 6 + 1 = 7 /\ 6 + 2 = 8
        OBVIOUS
      <4>2. t[1] = d[6 + 1] /\ t[2] = d[6 + 2]
        BY <3>4, <3>5
      <4> QED
        BY <3>4, <3>5, <4>1, <4>2
    <3>7. d[6] = s[6] /\ d[7] = s[7] /\ d[8] = s[8]
      <4>1. 6 \in 1..12 /\ 7 \in 1..12 /\ 8 \in 1..12 /\ 6 # i /\ 7 # i /\ 8 # i
        BY <1>7
      <4> QED
        BY <1>4, <4>1
    <3>8. b.command = d[6] /\ b.data = t
      BY <3>1, FieldsAre
    <3> HIDE DEF b
    <3>9. b.command = m.command
      BY <1>p, <3>7, <3>8
    <3>10. 0 + 1 = 1 /\ 1 + 1 = 2 /\ 0 < 4 /\ 1 < 4
      OBVIOUS
    <3>11. Data(b, 0) = s[7] /\ Data(b, 1) = s[8]
      BY <3>6, <3>7, <3>8, <3>10 DEF Data
    <3>12. Data(m, 0) = s[7] /\ Data(m, 1) = s[8]
      BY <1>1, <1>p, <3>10 DEF Data
    <3>13. Unsigned(b) = Unsigned(m)
      BY <3>11, <3>12 DEF Unsigned
    <3> QED
      BY <3>9, <3>13 DEF SameValue
  <2> HIDE DEF r, b
  <2> QED
    BY <2>5, <2>7, <2>8
<1>8. ASSUME i \notin {1, 2, 3} PROVE r.code # 0
  <2>i. i \in 4..12
    BY <1>8
  <2>1. d[3] = 6
    <3>1. 3 \in 1..12 /\ 3 # i
      BY <2>i
    <3> QED
      BY <1>1, <1>4, <3>1
  <2>2. HasHeader(d)
    BY <1>4, <1>6, <1>8, <2>1 DEF HasHeader
  <2>3. ~(Body(d) < d[3])
    BY <1>b, <2>1
  <2> DEFINE q == [idx |-> d[3], sum |-> Summed(d)]
  <2>4. r = Finished(q, Begun(d))
    BY <1>4, <2>2, <2>3, ParseFirst
  <2>5. q.sum = Summed(d)
    OBVIOUS
  <2> HIDE DEF q
  <2>6. Taken(d) = 4
    BY <1>b, <2>1 DEF Taken, Lesser
  <2>7. Summed(d) = Sums(d)[10] - Sums(d)[2]
    BY <2>6 DEF Summed
  <2>8. Begun(d).ck = <<d[11], d[12]>>
    <3> DEFINE c1 == IF d[3] - 1 <= Body(d) THEN d[5 + d[3]] ELSE 0
               c2 == IF d[3] <= Body(d) THEN d[6 + d[3]] ELSE 0
               t == SubSeq(d, 7, 6 + Taken(d))
    <3>1. Begun(d) = Fields(d[3], d[4], d[5], d[6], t, <<c1, c2>>)
      BY Zenon DEF Begun, Fields
    <3>2. c1 = d[11] /\ c2 = d[12]
      BY <1>b, <2>1
    <3> HIDE DEF c1, c2, t
    <3>3. Begun(d).ck = <<c1, c2>>
      BY <3>1, FieldsAre
    <3> QED
      BY <3>2, <3>3
  <2>9. Summed(d) \in Int /\ 0 <= Summed(d) /\ Summed(d) < 65535
    BY <1>4, <2>2, SummedBounds
  <2>10. s \in Seq(Int) /\ d \in Seq(Int)
    BY <1>1, <1>4, BytesAreInts
  <2>11. Sums(d)[2] = Sums(s)[2]
    <3>1. 2 \in Nat /\ 2 <= Len(s) /\ 2 <= Len(d)
      BY <1>1, <1>4
    <3>2. \A j \in 1..2 : j \in 1..12 /\ j # i
      BY <2>i
    <3>3. \A j \in 1..2 : d[j] = s[j]
      BY <1>4, <3>2
    <3> QED
      BY <2>10, <3>1, <3>3, SumsPrefix
  <2>12. /\ Sums(s)[2] \in Int /\ Sums(s)[10] \in Int /\ Sums(d)[10] \in Int
    <3>1. 2 \in 0..Len(s) /\ 10 \in 0..Len(s) /\ 10 \in 0..Len(d)
      BY <1>1, <1>4
    <3> QED
      BY <2>10, <3>1, SumsFacts
  <2>13. CheckOf(q.sum) # Begun(d).ck
    <3>1. CASE i \in 4..10
      <4>1. 10 \in Nat /\ i \in 1..10 /\ 10 <= Len(d) /\ 10 <= Len(s)
        BY <1>1, <1>4, <3>1
      <4>2. \A j \in 1..10 : j # i => d[j] = s[j]
        <5>1. \A j \in 1..10 : j \in 1..12
          OBVIOUS
        <5> QED
          BY <1>4, <5>1
      <4>3. Sums(d)[10] - Sums(s)[10] = d[i] - s[i]
        BY <2>10, <4>1, <4>2, SumsDiffer
      <4>4. d[i] # s[i] /\ d[i] \in Int /\ s[i] \in Int
        <5>1. i \in 1..Len(s) /\ i \in 1..Len(d)
          BY <1>1, <1>4
        <5>2. d[i] \in Int /\ s[i] \in Int
          BY <2>10, <5>1, ElementOfSeq
        <5>3. d[i] = e /\ e # s[i]
          BY <1>3, <1>4
        <5> QED
          BY <5>2, <5>3
      <4>5. Sums(d)[10] # Sums(s)[10]
        BY <2>12, <4>3, <4>4
      <4>6. Summed(d) # x
        BY <2>7, <2>11, <2>12, <4>5
      <4>7. Begun(d).ck = m.ck
        <5>1. 11 \in 1..12 /\ 12 \in 1..12 /\ 11 # i /\ 12 # i
          BY <3>1
        <5> QED
          BY <1>1, <1>4, <2>8, <5>1
      <4> HIDE DEF x
      <4>8. x <= 65535 /\ Summed(d) <= 65535
        BY <1>2, <2>9
      <4> QED
        BY <1>2, <2>5, <2>9, <4>6, <4>7, <4>8, CheckInjective
    <3>2. CASE i \in {11, 12}
      <4>1. 10 \in Nat /\ 10 <= Len(d) /\ 10 <= Len(s)
        BY <1>1, <1>4
      <4>2. \A j \in 1..10 : d[j] = s[j]
        <5>1. \A j \in 1..10 : j \in 1..12 /\ j # i
          BY <3>2
        <5> QED
          BY <1>4, <5>1
      <4>3. Sums(d)[10] = Sums(s)[10]
        BY <2>10, <4>1, <4>2, SumsPrefix
      <4>4. Summed(d) = x
        BY <2>7, <2>11, <4>3
      <4>5. d[11] # s[11] \/ d[12] # s[12]
        BY <1>3, <1>4, <3>2
      <4>6. Begun(d).ck # m.ck
        BY <1>1, <2>8, <4>5
      <4> HIDE DEF x
      <4> QED
        BY <1>2, <2>5, <4>4, <4>6
    <3> QED
      BY <2>i, <3>1, <3>2
  <2>14. Finished(q, Begun(d))
           = [code |-> 3, parser |-> [idx |-> 0, sum |-> 65535 - q.sum], pack |-> Begun(d)]
    BY <2>13, FinishedBad
  <2> DEFINE y == [idx |-> 0, sum |-> 65535 - q.sum]
  <2>15. r = [code |-> 3, parser |-> y, pack |-> Begun(d)]
    BY <2>4, <2>14
  <2> HIDE DEF y, r
  <2> QED
    BY <2>15
<1>9. r.code = 0 => i = 3 /\ e \in 3..5 /\ (e >= 4 => SameValue(r.pack, m))
  <2> HIDE DEF r
  <2> QED
    BY <1>5, <1>7, <1>8
<1> QED
  BY <1>9, Zenon DEF r, d, s, DamagedAt

(* The second half of an answer is never taken for the start of a frame. *)
LEMMA RestRefused ==
  ASSUME NEW m \in Packs, NEW k \in 1..11
  PROVE  LET b == SubSeq(serialyze(m), k + 1, Len(serialyze(m)))
         IN  b \in Seq(Byte) /\ Len(b) <= 20 /\ b # <<>> /\ Refusal(b) # 0
<1> DEFINE s == serialyze(m)
           z == Len(s)
           b == SubSeq(s, k + 1, z)
<1>1. s \in Seq(Byte) /\ Len(s) = 12 /\ s[2] = 170 /\ s[3] = 6 /\ s[4] = 35
  BY PackFacts
<1> HIDE DEF s
<1>2. z = 12 /\ k \in Nat /\ z \in Nat /\ k <= z /\ z <= Len(s)
  BY <1>1
<1> HIDE DEF z
<1>3. b \in Seq(Byte) /\ Len(b) = z - k /\ \A i \in 1..(z - k) : b[i] = s[k + i]
  <2>1. s \in Seq(Byte)
    BY <1>1
  <2> QED
    BY <1>2, <2>1, PartProperties
<1>e. <<>> \in Seq(Byte) /\ Len(<<>>) = 0
  OBVIOUS
<1> HIDE DEF b
<1>4. Len(b) = 12 - k /\ b[1] = s[k + 1]
  <2>1. 1 \in 1..(z - k)
    BY <1>2
  <2> QED
    BY <1>2, <1>3, <2>1
<1>5. k <= 3 => b[1] # 85
  <2>1. k <= 3 => k = 1 \/ k = 2 \/ k = 3
    OBVIOUS
  <2> QED
    BY <1>1, <1>4, <2>1
<1>6. k >= 4 => Len(b) < 9
  BY <1>4
<1>7. Refusal(b) # 0
  BY <1>5, <1>6 DEF Refusal
<1>8. b # <<>>
  BY <1>4, <1>e
<1>9. Len(b) <= 20
  BY <1>4
<1> QED
  BY <1>3, <1>7, <1>8, <1>9 DEF b, s, z

(* What every call of the parser keeps true of its state. *)
ParserOK(p) == p \in [idx : 0..255, sum : Word] /\ (p.idx # 0 => p.sum < MaxWord)

LEMMA ParserFacts ==
  ASSUME NEW p, ParserOK(p)
  PROVE  /\ p.idx \in Nat /\ p.sum \in Int /\ 0 <= p.sum /\ p.sum <= 65535
         /\ p.idx # 0 => p.sum < 65535
<1>1. p.idx \in 0..255 /\ p.sum \in Word /\ (p.idx # 0 => p.sum < MaxWord)
  BY Zenon DEF ParserOK
<1>2. p.sum \in Int /\ 0 <= p.sum /\ p.sum <= 65535
  BY <1>1, WordBounds
<1>3. p.idx \in Nat
  BY <1>1
<1>4. MaxWord = 65535
  BY DEF MaxWord
<1> QED
  BY <1>1, <1>2, <1>3, <1>4

LEMMA ParserMade ==
  ASSUME NEW i \in Int, 0 <= i, i <= 255, NEW x \in Int, 0 <= x, x <= 65535,
         i # 0 => x < 65535
  PROVE  ParserOK([idx |-> i, sum |-> x])
<1> DEFINE p == [idx |-> i, sum |-> x]
<1>1. MaxWord = 65535
  BY DEF MaxWord
<1>2. i \in 0..255
  OBVIOUS
<1>3. x \in Word
  <2>1. MaxWord \in Int /\ x <= MaxWord
    BY <1>1
  <2> HIDE DEF MaxWord
  <2> QED
    BY <2>1 DEF Word
<1>4. i # 0 => x < MaxWord
  BY <1>1
<1>5. p \in [idx : 0..255, sum : Word]
  BY <1>2, <1>3
<1>6. p.idx = i /\ p.sum = x
  OBVIOUS
<1> HIDE DEF p
<1> QED
  <2>1. ParserOK(p)
    BY <1>4, <1>5, <1>6 DEF ParserOK
  <2> QED
    BY <2>1 DEF p

LEMMA ParseTyped ==
  ASSUME NEW d \in Seq(Byte), Len(d) <= 20, NEW p, ParserOK(p)
  PROVE  LET r == parse(d, p, Blank)
         IN  r.code \in 0..3 /\ ParserOK(r.parser) /\ r.pack.data \in Seq(Byte)
<1> DEFINE r == parse(d, p, Blank)
           Good(w) == w.code \in 0..3 /\ ParserOK(w.parser) /\ w.pack.data \in Seq(Byte)
<1>0. /\ p.idx \in Nat /\ p.sum \in Int /\ 0 <= p.sum /\ p.sum <= 65535
      /\ p.idx # 0 => p.sum < 65535
  BY ParserFacts
<1>b. Blank.data \in Seq(Byte)
  BY DEF Blank
<1>g. ASSUME NEW c \in 0..3, NEW q, ParserOK(q), NEW m, m.data \in Seq(Byte)
      PROVE  Good([code |-> c, parser |-> q, pack |-> m])
  BY <1>g
<1>1. CASE p.idx # 0
  <2> DEFINE q == [idx |-> 0, sum |-> 65535 - p.sum]
  <2>1. r = [code |-> 3, parser |-> q, pack |-> Blank]
    BY <1>0, <1>1, ParseThrownAway
  <2>2. ParserOK(q)
    <3> DEFINE x == 65535 - p.sum
    <3>1. x \in Int /\ 0 <= x /\ x <= 65535
      BY <1>0
    <3> HIDE DEF x
    <3>2. ParserOK([idx |-> 0, sum |-> x])
      BY <3>1, ParserMade
    <3> QED
      BY <3>2 DEF x
  <2> HIDE DEF q, r, Good
  <2> QED
    BY <1>b, <1>g, <2>1, <2>2 DEF r, Good
<1>2. CASE p.idx = 0 /\ Refusal(d) # 0
  <2>1. r = [code |-> Refusal(d), parser |-> ParserIdle, pack |-> Blank]
    BY <1>2, ParseRefused
  <2>2. ParserOK(ParserIdle)
    BY ParserMade DEF ParserIdle
  <2>3. Refusal(d) \in 0..3
    BY DEF Refusal
  <2> HIDE DEF r, Good
  <2> QED
    BY <1>b, <1>g, <2>1, <2>2, <2>3 DEF r, Good
<1>3. CASE p.idx = 0 /\ Refusal(d) = 0
  <2>1. HasHeader(d)
    <3>1. Len(d) \in Nat
      OBVIOUS
    <3>2. ~(Len(d) < 9) /\ d[1] = 85 /\ d[2] = 170 /\ ~(d[3] < 3)
      BY <1>3 DEF Refusal
    <3>3. d[3] \in Byte
      <4>1. 3 \in 1..Len(d)
        BY <3>1, <3>2
      <4> QED
        BY <4>1, ElementOfSeq
    <3>4. d[3] >= 3
      BY <3>2, <3>3, ByteFacts
    <3> DEFINE n == Len(d)
    <3>5. n \in Nat /\ ~(n < 9) /\ n <= 20
      BY <3>1, <3>2
    <3> HIDE DEF n
    <3>6. n \in 9..20
      BY <3>5
    <3> QED
      BY <3>2, <3>4, <3>6 DEF HasHeader, n
  <2>2. /\ d[3] \in Int /\ 3 <= d[3] /\ d[3] <= 255
        /\ Body(d) \in Int /\ 3 <= Body(d) /\ Body(d) <= 14
        /\ 6 + Taken(d) \in Nat /\ 6 + Taken(d) <= Len(d) /\ 6 <= 6 + Taken(d)
    BY <2>1, HeaderFacts
  <2>3. Summed(d) \in Int /\ 0 <= Summed(d) /\ Summed(d) < 65535
    BY <2>1, SummedBounds
  <2>4. Begun(d).data \in Seq(Byte)
    <3> DEFINE t == SubSeq(d, 6 + 1, 6 + Taken(d))
               z == 6 + Taken(d)
               c1 == <<IF d[3] - 1 <= Body(d) THEN d[5 + d[3]] ELSE 0,
                       IF d[3] <= Body(d) THEN d[6 + d[3]] ELSE 0>>
    <3>1. 6 + 1 = 7 /\ 6 \in Nat
      OBVIOUS
    <3>2. Begun(d) = Fields(d[3], d[4], d[5], d[6], t, c1)
      BY <3>1, Zenon DEF Begun, Fields
    <3>3. t \in Seq(Byte)
      <4>1. z \in Nat /\ 6 <= z /\ z <= Len(d)
        BY <2>2
      <4> HIDE DEF z
      <4>2. SubSeq(d, 6 + 1, z) \in Seq(Byte)
        BY <3>1, <4>1, PartProperties
      <4> QED
        BY <4>2 DEF z
    <3> HIDE DEF t, c1
    <3>4. Begun(d).data = t
      BY <3>2, FieldsAre
    <3> QED
      BY <3>3, <3>4
  <2>5. CASE Body(d) < d[3]
    <3> DEFINE q == [idx |-> Body(d), sum |-> Summed(d)]
    <3>1. r = [code |-> 1, parser |-> q, pack |-> Begun(d)]
      BY <1>3, <2>1, <2>5, ParseFirst
    <3>2. ParserOK(q)
      <4> DEFINE i == Body(d)
                 x == Summed(d)
      <4>1. i \in Int /\ 0 <= i /\ i <= 255 /\ x \in Int /\ 0 <= x /\ x <= 65535 /\ x < 65535
        BY <2>2, <2>3
      <4> HIDE DEF i, x
      <4>2. ParserOK([idx |-> i, sum |-> x])
        BY <4>1, ParserMade
      <4> QED
        BY <4>2 DEF i, x
    <3> HIDE DEF q, r, Good
    <3> QED
      BY <1>g, <2>4, <3>1, <3>2 DEF r, Good
  <2>6. CASE ~(Body(d) < d[3])
    <3> DEFINE q == [idx |-> d[3], sum |-> Summed(d)]
               w == [idx |-> 0, sum |-> 65535 - q.sum]
    <3>1. r = Finished(q, Begun(d))
      BY <1>3, <2>1, <2>6, ParseFirst
    <3>2. q.sum = Summed(d)
      OBVIOUS
    <3> HIDE DEF q
    <3>3. ParserOK(w)
      <4> DEFINE x == 65535 - q.sum
      <4>1. x \in Int /\ 0 <= x /\ x <= 65535
        BY <2>3, <3>2
      <4> HIDE DEF x
      <4>2. ParserOK([idx |-> 0, sum |-> x])
        BY <4>1, ParserMade
      <4> QED
        BY <4>2 DEF x
    <3>4. PICK c \in {0, 3} : Finished(q, Begun(d)) = [code |-> c, parser |-> w, pack |-> Begun(d)]
      BY FinishedBad, FinishedGood
    <3>5. c \in 0..3
      OBVIOUS
    <3> HIDE DEF w, r, Good
    <3> QED
      BY <1>g, <2>4, <3>1, <3>3, <3>4, <3>5 DEF r, Good
  <2> QED
    BY <2>5, <2>6
<1> QED
  BY <1>1, <1>2, <1>3

-----------------------------------------------------------------------------
(***************************************************************************)
(* The inductive invariant.  While the rest of a frame is on its way, the  *)
(* last code was not 0, and if the parser has begun a frame it is that one *)
(* it holds, up to where it was cut: without this nothing could be said of *)
(* what the rest would complete.                                           *)
(***************************************************************************)
HalfDelivered ==
  rest # <<>> =>
    /\ code # 0
    /\ \E m \in Packs, k \in 1..11 :
         /\ rest = SubSeq(serialyze(m), k + 1, Len(serialyze(m)))
         /\ half.pack = m
         /\ parser.idx # 0 =>
              /\ k >= 9
              /\ parser = [idx |-> k - 6, sum |-> HalfSum(m, k)]
              /\ half.begun = Half(m, k)

DataInv == DataTypeOK /\ ParserOK(parser) /\ HalfDelivered /\ OneLossPerFault

ShownTypes == [batt : Word, speed : Short, dist : Word]

(* The conversion to int16_t gives an int16_t. *)
LEMMA SignedIsShort ==
  ASSUME NEW u \in Int, 0 <= u, u <= 65535
  PROVE  Signed(u) \in Short
<1> DEFINE w == IF u < 32768 THEN u ELSE u - 65536
           low == -32768
           high == 32767
<1>1. w \in Int /\ -32768 <= w /\ w <= 32767
  OBVIOUS
<1>2. low \in Int /\ high \in Int /\ low <= w /\ w <= high
  BY <1>1
<1>3. Signed(u) = w
  BY DEF Signed
<1> HIDE DEF w
<1>4. Short = low..high
  BY DEF Short
<1> HIDE DEF low, high
<1>5. w \in low..high
  BY <1>1, <1>2
<1> QED
  BY <1>3, <1>4, <1>5

LEMMA ValueTyped ==
  ASSUME NEW m, m.data \in Seq(Byte)
  PROVE  Unsigned(m) \in Word /\ Signed(Unsigned(m)) \in Short
<1> DEFINE a == Data(m, 0)
           b == Data(m, 1)
<1>1. a \in Byte /\ b \in Byte
  <2>0. 0 \in Byte /\ Len(m.data) \in Nat
    BY ByteFacts
  <2>1. a \in Byte
    <3>1. CASE 0 < Len(m.data)
      <4>1. 1 \in 1..Len(m.data) /\ 0 + 1 = 1
        BY <2>0, <3>1
      <4>2. m.data[1] \in Byte
        BY <4>1, ElementOfSeq
      <4> QED
        BY <3>1, <4>1, <4>2 DEF Data
    <3>2. CASE ~(0 < Len(m.data))
      BY <2>0, <3>2 DEF Data
    <3> QED
      BY <3>1, <3>2
  <2>2. b \in Byte
    <3>1. CASE 1 < Len(m.data)
      <4>1. 2 \in 1..Len(m.data) /\ 1 + 1 = 2
        BY <2>0, <3>1
      <4>2. m.data[2] \in Byte
        BY <4>1, ElementOfSeq
      <4> QED
        BY <3>1, <4>1, <4>2 DEF Data
    <3>2. CASE ~(1 < Len(m.data))
      BY <2>0, <3>2 DEF Data
    <3> QED
      BY <3>1, <3>2
  <2> QED
    BY <2>1, <2>2
<1>2. a \in Int /\ 0 <= a /\ a <= 255 /\ b \in Int /\ 0 <= b /\ b <= 255
  BY <1>1, ByteFacts
<1> DEFINE u == a + 256 * b
<1>3. Unsigned(m) = u
  BY DEF Unsigned
<1> HIDE DEF a, b
<1>4. u \in Int /\ 0 <= u /\ u <= 65535
  BY <1>2
<1> HIDE DEF u
<1>5. MaxWord = 65535
  BY DEF MaxWord
<1>6. u \in Word
  <2>1. MaxWord \in Int /\ u <= MaxWord
    BY <1>4, <1>5
  <2> HIDE DEF MaxWord
  <2> QED
    BY <1>4, <2>1 DEF Word
<1>7. Signed(u) \in Short
  BY <1>4, SignedIsShort
<1> QED
  BY <1>3, <1>6, <1>7

LEMMA HandledTyped ==
  ASSUME NEW m, m.data \in Seq(Byte), NEW old \in ShownTypes
  PROVE  Handled(m, old) \in ShownTypes
<1> DEFINE u == Unsigned(m)
           w == Signed(u)
<1>1. u \in Word /\ w \in Short
  BY ValueTyped
<1>2. Handled(m, old) =
        IF m.command = M365battREG THEN [old EXCEPT !.batt = u]
        ELSE IF m.command = M365speedREG THEN [old EXCEPT !.speed = w]
        ELSE IF m.command = M365kmremainREG THEN [old EXCEPT !.dist = u]
        ELSE old
  BY Zenon DEF Handled
<1> HIDE DEF u, w
<1>3. [old EXCEPT !.batt = u] \in ShownTypes
  BY <1>1 DEF ShownTypes
<1>4. [old EXCEPT !.speed = w] \in ShownTypes
  BY <1>1 DEF ShownTypes
<1>5. [old EXCEPT !.dist = u] \in ShownTypes
  BY <1>1 DEF ShownTypes
<1> QED
  BY <1>2, <1>3, <1>4, <1>5, Zenon

LEMMA ReceiveTyped ==
  ASSUME ParserOK(parser), ShownTypeOK, NEW d \in Seq(Byte), Len(d) <= 20, Receive(d)
  PROVE  ParserOK(parser') /\ code' \in 0..3 /\ ShownTypeOK'
<1> DEFINE r == parse(d, parser, Blank)
<1>1. r.code \in 0..3 /\ ParserOK(r.parser) /\ r.pack.data \in Seq(Byte)
  BY ParseTyped
<1>2. parser' = r.parser /\ code' = r.code /\ shown' = Handled(r.pack, shown)
  BY Zenon DEF Receive, Parsed
<1> HIDE DEF r
<1>3. shown \in ShownTypes
  BY DEF ShownTypeOK, ShownTypes
<1>4. shown' \in ShownTypes
  BY <1>1, <1>2, <1>3, HandledTyped
<1> QED
  BY <1>1, <1>2, <1>4 DEF ShownTypeOK, ShownTypes

(* What an answer, whole or not, does to the parser. *)
LEMMA WholeReceived ==
  ASSUME ParserOK(parser), NEW m \in Packs, Receive(serialyze(m))
  PROVE  /\ parser'.idx = 0
         /\ parser.idx = 0 <=> code' = 0
         /\ Parsed(serialyze(m)).code = code'
         /\ parser.idx = 0 => shown' = Handled(m, shown)
<1> DEFINE s == serialyze(m)
           r == parse(s, parser, Blank)
           x == HalfSum(m, Len(m.data) + 8)
<1>1. parser' = r.parser /\ code' = r.code /\ shown' = Handled(r.pack, shown) /\ Parsed(s) = r
  BY Zenon DEF Receive, Parsed
<1>2. /\ parser.idx \in Nat /\ parser.sum \in Int /\ 0 <= parser.sum
      /\ parser.idx # 0 => parser.sum < 65535
  BY ParserFacts
<1>3. CASE parser.idx = 0
  <2> DEFINE q == [idx |-> 0, sum |-> 65535 - x]
  <2>1. Genuine(m)
    BY PackFacts
  <2>2. r = [code |-> 0, parser |-> q, pack |-> m]
    BY <1>3, <2>1, WholeParsed
  <2>3. q.idx = 0
    OBVIOUS
  <2> HIDE DEF q, r, s
  <2> QED
    BY <1>1, <1>3, <2>2, <2>3 DEF s
<1>4. CASE parser.idx # 0
  <2> DEFINE q == [idx |-> 0, sum |-> 65535 - parser.sum]
  <2>1. r = [code |-> 3, parser |-> q, pack |-> Blank]
    BY <1>2, <1>4, ParseThrownAway
  <2>2. q.idx = 0
    OBVIOUS
  <2> HIDE DEF q, r, s
  <2> QED
    BY <1>1, <1>4, <2>1, <2>2 DEF s
<1> QED
  BY <1>3, <1>4

LEMMA FirstReceived ==
  ASSUME ParserOK(parser), NEW m \in Packs, NEW k \in 1..11,
         Receive(SubSeq(serialyze(m), 1, k))
  PROVE  /\ code' # 0
         /\ parser'.idx # 0 =>
              /\ k >= 9
              /\ parser' = [idx |-> k - 6, sum |-> HalfSum(m, k)]
              /\ Parsed(SubSeq(serialyze(m), 1, k)).pack = Half(m, k)
<1> DEFINE s == serialyze(m)
           d == SubSeq(s, 1, k)
           r == parse(d, parser, Blank)
<1>1. parser' = r.parser /\ code' = r.code /\ Parsed(d) = r
  BY Zenon DEF Receive, Parsed
<1>2. /\ parser.idx \in Nat /\ parser.sum \in Int /\ 0 <= parser.sum
      /\ parser.idx # 0 => parser.sum < 65535
  BY ParserFacts
<1>3. CASE parser.idx # 0
  <2> DEFINE q == [idx |-> 0, sum |-> 65535 - parser.sum]
  <2>1. r = [code |-> 3, parser |-> q, pack |-> Blank]
    BY <1>2, <1>3, ParseThrownAway
  <2>2. q.idx = 0
    OBVIOUS
  <2> HIDE DEF q, r
  <2> QED
    BY <1>1, <2>1, <2>2
<1>4. CASE parser.idx = 0 /\ k < 9
  <2>1. s \in Seq(Byte) /\ Len(s) = 12
    BY PackFacts
  <2> HIDE DEF s
  <2>2. Len(d) = k
    <3>1. 0 \in Nat /\ k \in Nat /\ 0 <= k /\ k <= Len(s) /\ 0 + 1 = 1 /\ k - 0 = k
      BY <2>1
    <3>2. Len(SubSeq(s, 0 + 1, k)) = k - 0
      BY <2>1, <3>1, PartProperties
    <3> QED
      BY <3>1, <3>2
  <2>3. Refusal(d) = 3
    BY <1>4, <2>2 DEF Refusal
  <2>4. r = [code |-> 3, parser |-> ParserIdle, pack |-> Blank]
    BY <1>4, <2>3, ParseRefused
  <2>5. ParserIdle.idx = 0
    BY DEF ParserIdle
  <2> HIDE DEF r
  <2> QED
    BY <1>1, <2>4, <2>5
<1>5. CASE parser.idx = 0 /\ k >= 9
  <2> DEFINE q == [idx |-> k - 6, sum |-> HalfSum(m, k)]
  <2>1. Genuine(m) /\ Len(m.data) = 4
    BY PackFacts
  <2>2. k \in Nat /\ 9 <= k /\ k < Len(m.data) + 8
    BY <1>5, <2>1
  <2>3. r = [code |-> 1, parser |-> q, pack |-> Half(m, k)]
    BY <1>5, <2>1, <2>2, HalfParsed
  <2> HIDE DEF q, r
  <2>4. parser' = q /\ code' = 1 /\ Parsed(d).pack = Half(m, k)
    BY <1>1, <2>3
  <2> QED
    BY <1>5, <2>4 DEF q
<1> QED
  BY <1>3, <1>4, <1>5

LEMMA RestReceived ==
  ASSUME ParserOK(parser), NEW m \in Packs, NEW k \in 1..11,
         Receive(SubSeq(serialyze(m), k + 1, Len(serialyze(m))))
  PROVE  code' # 0 /\ parser'.idx = 0
<1> DEFINE b == SubSeq(serialyze(m), k + 1, Len(serialyze(m)))
           r == parse(b, parser, Blank)
<1>1. parser' = r.parser /\ code' = r.code
  BY Zenon DEF Receive, Parsed
<1>2. /\ parser.idx \in Nat /\ parser.sum \in Int /\ 0 <= parser.sum
      /\ parser.idx # 0 => parser.sum < 65535
  BY ParserFacts
<1>3. CASE parser.idx # 0
  <2> DEFINE q == [idx |-> 0, sum |-> 65535 - parser.sum]
  <2>1. r = [code |-> 3, parser |-> q, pack |-> Blank]
    BY <1>2, <1>3, ParseThrownAway
  <2>2. q.idx = 0
    OBVIOUS
  <2> HIDE DEF q, r
  <2> QED
    BY <1>1, <2>1, <2>2
<1>4. CASE parser.idx = 0
  <2>1. Refusal(b) # 0
    BY RestRefused
  <2>2. r = [code |-> Refusal(b), parser |-> ParserIdle, pack |-> Blank]
    BY <1>4, <2>1, ParseRefused
  <2>3. ParserIdle.idx = 0
    BY DEF ParserIdle
  <2> HIDE DEF r, b
  <2> QED
    BY <1>1, <2>1, <2>2, <2>3
<1> QED
  BY <1>3, <1>4

LEMMA DamagedReceived ==
  ASSUME ParserOK(parser), NEW m \in Packs, NEW i \in 1..12,
         NEW e \in Byte, e # serialyze(m)[i], Receive(DamagedAt(m, i, e)), code' = 0
  PROVE  /\ i = 3 /\ e \in 3..5
         /\ e >= 4 => shown' = Handled(m, shown)
<1> DEFINE d == DamagedAt(m, i, e)
           r == parse(d, parser, Blank)
<1>1. code' = r.code /\ shown' = Handled(r.pack, shown)
  BY Zenon DEF Receive, Parsed
<1>2. /\ parser.idx \in Nat /\ parser.sum \in Int /\ 0 <= parser.sum
      /\ parser.idx # 0 => parser.sum < 65535
  BY ParserFacts
<1>3. CASE parser.idx # 0
  <2> DEFINE q == [idx |-> 0, sum |-> 65535 - parser.sum]
  <2>1. r = [code |-> 3, parser |-> q, pack |-> Blank]
    BY <1>2, <1>3, ParseThrownAway
  <2> HIDE DEF q, r
  <2> QED
    BY <1>1, <2>1
<1>4. CASE parser.idx = 0
  <2>1. r.code = 0 => i = 3 /\ e \in 3..5 /\ (e >= 4 => SameValue(r.pack, m))
    BY <1>4, DamagedParsed
  <2>2. SameValue(r.pack, m) => Handled(r.pack, shown) = Handled(m, shown)
    <3> HIDE DEF r
    <3> QED
      BY DEF SameValue, Handled
  <2> HIDE DEF r
  <2> QED
    BY <1>1, <2>1, <2>2
<1> QED
  BY <1>3, <1>4

LEMMA DamagedTyped ==
  ASSUME NEW m \in Packs, NEW i \in 1..12, NEW e \in Byte
  PROVE  DamagedAt(m, i, e) \in Seq(Byte) /\ Len(DamagedAt(m, i, e)) <= 20
<1> DEFINE s == serialyze(m)
           d == [s EXCEPT ![i] = e]
<1>1. s \in Seq(Byte) /\ Len(s) = 12
  BY PackFacts
<1> HIDE DEF s
<1>2. i \in 1..Len(s)
  BY <1>1
<1>3. d \in Seq(Byte) /\ Len(d) = Len(s)
  <2>1. s \in Seq(Byte)
    BY <1>1
  <2> QED
    BY <1>2, <2>1, ExceptSeq
<1> HIDE DEF d
<1>4. d \in Seq(Byte) /\ Len(d) <= 20
  BY <1>1, <1>3
<1> QED
  BY <1>4, Zenon DEF d, s, DamagedAt

-----------------------------------------------------------------------------
(***************************************************************************)
(* DataInv holds at the start and every step keeps it.                     *)
(***************************************************************************)
Counts == faults \in 0..MaxFaults /\ lost \in Nat

(* DataTypeOK in the parts the steps are proved in. *)
LEMMA TypeParts ==
  /\ DataTypeOK => ShownTypeOK /\ code \in 0..3 /\ rest \in Seq(Byte) /\ Counts
  /\ ParserOK(parser) /\ ShownTypeOK /\ code \in 0..3 /\ rest \in Seq(Byte) /\ Counts
       => DataTypeOK
BY Zenon DEF DataTypeOK, ParserOK, Counts

LEMMA TypePartsNext ==
  ParserOK(parser)' /\ ShownTypeOK' /\ (code \in 0..3)' /\ (rest \in Seq(Byte))' /\ Counts'
    => DataTypeOK'
BY Zenon DEF DataTypeOK, ParserOK, Counts

LEMMA InitInv ==
  DataInit => DataInv
<1> SUFFICES ASSUME DataInit PROVE DataInv
  OBVIOUS
<1>1. parser = ParserIdle /\ code = 3 /\ rest = <<>> /\ faults = 0 /\ lost = 0
      /\ shown = [batt |-> 100, speed |-> 0, dist |-> 0]
  BY DEF DataInit
<1>2. ParserOK(parser) /\ parser.idx = 0
  <2>1. ParserOK(ParserIdle) /\ ParserIdle.idx = 0
    BY ParserMade DEF ParserIdle
  <2> QED
    BY <1>1, <2>1
<1>3. ShownTypeOK
  <2>1. 100 \in Word /\ 0 \in Word /\ 0 \in Short
    BY DEF Word, MaxWord, Short
  <2> QED
    BY <1>1, <2>1 DEF ShownTypeOK
<1>4. Counts
  BY <1>1, DataAssumption DEF Counts
<1>5. DataTypeOK
  <2>1. code \in 0..3 /\ rest \in Seq(Byte)
    BY <1>1
  <2> QED
    BY <1>2, <1>3, <1>4, <2>1, TypeParts
<1>6. HalfDelivered
  BY <1>1 DEF HalfDelivered
<1>7. OneLossPerFault
  BY <1>1, <1>2 DEF OneLossPerFault
<1> QED
  BY <1>2, <1>5, <1>6, <1>7 DEF DataInv

LEMMA WholeKeeps ==
  ASSUME DataInv, NEW m \in Packs, Whole(m)
  PROVE  DataInv'
<1>1. DataTypeOK /\ ParserOK(parser) /\ OneLossPerFault
  BY DEF DataInv
<1>2. ShownTypeOK /\ rest \in Seq(Byte) /\ Counts
  BY <1>1, TypeParts
<1>3. /\ rest = <<>> /\ Receive(serialyze(m))
      /\ lost' = IF Parsed(serialyze(m)).code = 0 THEN lost ELSE lost + 1
      /\ rest' = rest /\ half' = half /\ faults' = faults
  BY Zenon DEF Whole
<1> DEFINE s == serialyze(m)
<1>4. s \in Seq(Byte) /\ Len(s) = 12
  BY PackFacts
<1>5. Len(s) <= 20
  BY <1>4
<1>6. ParserOK(parser)' /\ code' \in 0..3 /\ ShownTypeOK'
  <2> HIDE DEF s
  <2>1. Receive(s)
    BY <1>3 DEF s
  <2> QED
    BY <1>1, <1>2, <1>4, <1>5, <2>1, ReceiveTyped
<1>7. /\ parser'.idx = 0 /\ (parser.idx = 0 <=> code' = 0)
      /\ Parsed(serialyze(m)).code = code'
  BY <1>1, <1>3, WholeReceived
<1>8. lost' = IF parser.idx = 0 THEN lost ELSE lost + 1
  BY <1>3, <1>7
<1>9. lost \in Nat /\ faults \in Nat
  BY <1>2, DataAssumption DEF Counts
<1>10. OneLossPerFault'
  BY <1>1, <1>3, <1>7, <1>8, <1>9 DEF OneLossPerFault
<1>11. Counts'
  BY <1>2, <1>3, <1>8, <1>9 DEF Counts
<1>12. HalfDelivered'
  BY <1>3 DEF HalfDelivered
<1>13. DataTypeOK'
  BY <1>2, <1>3, <1>6, <1>11, TypePartsNext
<1> QED
  BY <1>6, <1>10, <1>12, <1>13 DEF DataInv

LEMMA FirstHalfKeeps ==
  ASSUME DataInv, NEW m \in Packs, NEW k \in CutAt, FirstHalf(m, k)
  PROVE  DataInv'
<1>1. DataTypeOK /\ ParserOK(parser) /\ OneLossPerFault
  BY DEF DataInv
<1>2. ShownTypeOK /\ rest \in Seq(Byte) /\ Counts
  BY <1>1, TypeParts
<1> DEFINE s == serialyze(m)
           d == SubSeq(s, 1, k)
           b == SubSeq(s, k + 1, Len(s))
<1>3. /\ faults < MaxFaults /\ k < Len(s) /\ Receive(d) /\ rest' = b
      /\ half' = [pack |-> m, begun |-> Parsed(d).pack]
      /\ faults' = faults + 1 /\ lost' = lost
  BY Zenon DEF FirstHalf
<1>4. s \in Seq(Byte) /\ Len(s) = 12
  BY PackFacts
<1>5. k \in 1..11 /\ k \in Nat
  <2>1. k \in 1..20
    BY DataAssumption
  <2> HIDE DEF s
  <2> QED
    BY <1>3, <1>4, <2>1
<1>6. d \in Seq(Byte) /\ Len(d) <= 20
  <2> HIDE DEF s
  <2>1. 0 \in Nat /\ 0 <= k /\ k <= Len(s) /\ 0 + 1 = 1 /\ k - 0 = k
    BY <1>4, <1>5
  <2>2. SubSeq(s, 0 + 1, k) \in Seq(Byte) /\ Len(SubSeq(s, 0 + 1, k)) = k - 0
    BY <1>4, <1>5, <2>1, PartProperties
  <2>3. d \in Seq(Byte) /\ Len(d) = k
    BY <2>1, <2>2
  <2> HIDE DEF d
  <2> QED
    BY <1>5, <2>3
<1>7. b \in Seq(Byte)
  BY <1>5, RestRefused
<1>8. ParserOK(parser)' /\ code' \in 0..3 /\ ShownTypeOK'
  <2>1. Receive(d)
    BY <1>3
  <2> HIDE DEF d
  <2> QED
    BY <1>1, <1>2, <1>6, <2>1, ReceiveTyped
<1>9. /\ code' # 0
      /\ parser'.idx # 0 =>
           /\ k >= 9
           /\ parser' = [idx |-> k - 6, sum |-> HalfSum(m, k)]
           /\ Parsed(d).pack = Half(m, k)
  BY <1>1, <1>3, <1>5, FirstReceived
<1>10. lost \in Nat /\ faults \in Nat
  BY <1>2, DataAssumption DEF Counts
<1>11. OneLossPerFault'
  <2>1. lost <= faults
    BY <1>1, <1>10 DEF OneLossPerFault
  <2> QED
    BY <1>3, <1>10, <2>1 DEF OneLossPerFault
<1>12. Counts'
  BY <1>2, <1>3, <1>10, DataAssumption DEF Counts
<1>13. HalfDelivered'
  <2>1. half'.pack = m /\ half'.begun = Parsed(d).pack
    BY <1>3
  <2>2. rest' = SubSeq(serialyze(m), k + 1, Len(serialyze(m)))
    BY <1>3
  <2>3. parser'.idx # 0 =>
           /\ k >= 9
           /\ parser' = [idx |-> k - 6, sum |-> HalfSum(m, k)]
           /\ half'.begun = Half(m, k)
    BY <1>9, <2>1
  <2> HIDE DEF s, d, b
  <2> QED
    BY <1>5, <1>9, <2>1, <2>2, <2>3, Zenon DEF HalfDelivered
<1>14. DataTypeOK'
  <2>1. rest' \in Seq(Byte)
    BY <1>3, <1>7
  <2> HIDE DEF s, d, b
  <2> QED
    BY <1>8, <1>12, <2>1, TypePartsNext
<1> QED
  BY <1>8, <1>11, <1>13, <1>14 DEF DataInv

LEMMA SecondHalfKeeps ==
  ASSUME DataInv, SecondHalf
  PROVE  DataInv' /\ code' # 0
<1>1. DataTypeOK /\ ParserOK(parser) /\ OneLossPerFault /\ HalfDelivered
  BY DEF DataInv
<1>2. ShownTypeOK /\ rest \in Seq(Byte) /\ Counts
  BY <1>1, TypeParts
<1>3. rest # <<>> /\ Receive(rest) /\ rest' = <<>> /\ faults' = faults /\ lost' = lost
  BY Zenon DEF SecondHalf
<1>4. PICK m \in Packs, k \in 1..11 :
        rest = SubSeq(serialyze(m), k + 1, Len(serialyze(m)))
  BY <1>1, <1>3, Zenon DEF HalfDelivered
<1>5. Len(rest) <= 20
  BY <1>4, RestRefused
<1>6. ParserOK(parser)' /\ code' \in 0..3 /\ ShownTypeOK'
  BY <1>1, <1>2, <1>3, <1>5, ReceiveTyped
<1>7. code' # 0 /\ parser'.idx = 0
  <2>1. Receive(SubSeq(serialyze(m), k + 1, Len(serialyze(m))))
    BY <1>3, <1>4
  <2> QED
    BY <1>1, <2>1, RestReceived
<1>8. lost \in Nat /\ faults \in Nat
  BY <1>2, DataAssumption DEF Counts
<1>9. OneLossPerFault'
  <2>1. lost <= faults
    BY <1>1, <1>8 DEF OneLossPerFault
  <2> QED
    BY <1>3, <1>7, <1>8, <2>1 DEF OneLossPerFault
<1>10. Counts'
  BY <1>2, <1>3 DEF Counts
<1>11. HalfDelivered'
  BY <1>3 DEF HalfDelivered
<1>12. DataTypeOK'
  <2>1. rest' \in Seq(Byte)
    BY <1>3
  <2> QED
    BY <1>6, <1>10, <2>1, TypePartsNext
<1> QED
  BY <1>6, <1>7, <1>9, <1>11, <1>12 DEF DataInv

LEMMA LinkLostKeeps ==
  ASSUME DataInv, LinkLost
  PROVE  DataInv' /\ code' # 0
<1>1. DataTypeOK /\ ParserOK(parser) /\ OneLossPerFault /\ HalfDelivered
  BY DEF DataInv
<1>2. ShownTypeOK /\ code \in 0..3 /\ Counts
  BY <1>1, TypeParts
<1>3. /\ rest # <<>> /\ rest' = <<>> /\ parser' = parser /\ shown' = shown
      /\ code' = code /\ faults' = faults /\ lost' = lost
  BY Zenon DEF LinkLost
<1>4. code # 0
  BY <1>1, <1>3, Zenon DEF HalfDelivered
<1>5. ParserOK(parser)' /\ OneLossPerFault' /\ ShownTypeOK' /\ Counts' /\ code' \in 0..3
  BY <1>1, <1>2, <1>3 DEF OneLossPerFault, ShownTypeOK, Counts
<1>6. HalfDelivered'
  BY <1>3 DEF HalfDelivered
<1>7. DataTypeOK'
  <2>1. rest' \in Seq(Byte)
    BY <1>3
  <2> QED
    BY <1>5, <2>1, TypePartsNext
<1> QED
  BY <1>3, <1>4, <1>5, <1>6, <1>7 DEF DataInv

LEMMA DamagedKeeps ==
  ASSUME DataInv, NEW m \in Packs, NEW i \in DamageAt, NEW e \in DamagedTo,
         Damaged(m, i, e)
  PROVE  /\ DataInv'
         /\ code' = 0 => /\ i = 3 /\ e \in 3..5
                         /\ e >= 4 => shown' = Handled(m, shown)
<1>1. DataTypeOK /\ ParserOK(parser) /\ OneLossPerFault
  BY DEF DataInv
<1>2. ShownTypeOK /\ rest \in Seq(Byte) /\ Counts
  BY <1>1, TypeParts
<1> DEFINE d == DamagedAt(m, i, e)
<1>3. /\ rest = <<>> /\ faults < MaxFaults /\ i <= Len(serialyze(m))
      /\ e # serialyze(m)[i] /\ Receive(d)
      /\ faults' = faults + 1 /\ rest' = rest /\ lost' = lost
  BY Zenon DEF Damaged, DamagedAt
<1>4. i \in 1..12
  <2>1. i \in 1..20
    BY DataAssumption
  <2> DEFINE n == Len(serialyze(m))
  <2>2. n = 12 /\ i <= n
    BY <1>3, PackFacts
  <2> HIDE DEF n
  <2> QED
    BY <2>1, <2>2
<1>e. e \in Byte
  BY DataAssumption
<1>5. d \in Seq(Byte) /\ Len(d) <= 20
  BY <1>4, <1>e, DamagedTyped
<1>6. code' = 0 => i = 3 /\ e \in 3..5 /\ (e >= 4 => shown' = Handled(m, shown))
  BY <1>1, <1>3, <1>4, <1>e, DamagedReceived
<1> HIDE DEF d
<1>7. ParserOK(parser)' /\ code' \in 0..3 /\ ShownTypeOK'
  BY <1>1, <1>2, <1>3, <1>5, ReceiveTyped
<1>8. lost \in Nat /\ faults \in Nat
  BY <1>2, DataAssumption DEF Counts
<1>9. OneLossPerFault'
  <2>1. lost <= faults
    BY <1>1, <1>8 DEF OneLossPerFault
  <2> QED
    BY <1>3, <1>8, <2>1 DEF OneLossPerFault
<1>10. Counts'
  BY <1>2, <1>3, <1>8, DataAssumption DEF Counts
<1>11. HalfDelivered'
  BY <1>3 DEF HalfDelivered
<1>12. DataTypeOK'
  BY <1>2, <1>3, <1>7, <1>10, TypePartsNext
<1> QED
  BY <1>6, <1>7, <1>9, <1>11, <1>12 DEF DataInv

LEMMA NextInv ==
  DataInv /\ [DataNext]_dataVars => DataInv'
<1> SUFFICES ASSUME DataInv, [DataNext]_dataVars PROVE DataInv'
  OBVIOUS
<1>1. ASSUME NEW m \in Packs, Whole(m) PROVE DataInv'
  BY <1>1, WholeKeeps
<1>2. ASSUME NEW m \in Packs, NEW k \in CutAt, FirstHalf(m, k) PROVE DataInv'
  BY <1>2, FirstHalfKeeps
<1>3. CASE SecondHalf
  BY <1>3, SecondHalfKeeps
<1>4. CASE LinkLost
  BY <1>4, LinkLostKeeps
<1>5. ASSUME NEW m \in Packs, NEW i \in DamageAt, NEW e \in DamagedTo, Damaged(m, i, e)
      PROVE  DataInv'
  BY <1>5, DamagedKeeps
<1>6. CASE UNCHANGED dataVars
  <2>1. /\ parser' = parser /\ shown' = shown /\ code' = code /\ rest' = rest
        /\ half' = half /\ faults' = faults /\ lost' = lost
    BY <1>6 DEF dataVars
  <2>2. DataTypeOK /\ ParserOK(parser) /\ HalfDelivered /\ OneLossPerFault
    BY DEF DataInv
  <2>3. ShownTypeOK /\ code \in 0..3 /\ rest \in Seq(Byte) /\ Counts
    BY <2>2, TypeParts
  <2>4. ShownTypeOK' /\ (code \in 0..3)' /\ (rest \in Seq(Byte))' /\ Counts' /\ ParserOK(parser)'
    BY <2>1, <2>2, <2>3 DEF ShownTypeOK, Counts
  <2>5. DataTypeOK'
    BY <2>4, TypePartsNext
  <2>6. HalfDelivered'
    BY <2>1, <2>2, Zenon DEF HalfDelivered
  <2>7. OneLossPerFault'
    BY <2>1, <2>2 DEF OneLossPerFault
  <2> QED
    BY <2>4, <2>5, <2>6, <2>7 DEF DataInv
<1> QED
  BY <1>1, <1>2, <1>3, <1>4, <1>5, <1>6, Zenon DEF DataNext

(* Invariance for any register values, any cuts, any damaged bytes and     *)
(* any bound on the faults.                                                *)
THEOREM DataInvariant ==
  DataSpec => []DataInv
<1>1. DataInit => DataInv
  BY InitInv
<1>2. DataInv /\ [DataNext]_dataVars => DataInv'
  BY NextInv
<1> QED
  BY <1>1, <1>2, PTL DEF DataSpec

(* The parser's index and sum, the values shown and the code returned keep *)
(* their widths: ninebot.c never overflows its checksum.                   *)
THEOREM DataTypes ==
  DataSpec => []DataTypeOK
<1>1. DataInv => DataTypeOK
  BY DEF DataInv
<1> QED
  BY <1>1, DataInvariant, PTL

(* However often frames are cut, damaged or lost with the link, each fault *)
(* costs at most one whole frame that arrives undamaged.                   *)
THEOREM FaultCostsOneFrame ==
  DataSpec => []OneLossPerFault
<1>1. DataInv => OneLossPerFault
  BY DEF DataInv
<1> QED
  BY <1>1, DataInvariant, PTL

(* Whenever a frame was begun and its rest is on its way, the parser given *)
(* the same pack would complete it.                                        *)
THEOREM HalvesJoin ==
  DataSpec => []HalvesWouldJoin
<1>1. DataInv => HalvesWouldJoin
  <2> SUFFICES ASSUME DataInv, rest # <<>>, parser.idx # 0
               PROVE  /\ parse(rest, parser, half.begun).code = 0
                      /\ parse(rest, parser, half.begun).pack = half.pack
    BY DEF HalvesWouldJoin
  <2>1. PICK m \in Packs, k \in 1..11 :
          /\ rest = SubSeq(serialyze(m), k + 1, Len(serialyze(m)))
          /\ half.pack = m /\ k >= 9
          /\ parser = [idx |-> k - 6, sum |-> HalfSum(m, k)]
          /\ half.begun = Half(m, k)
    BY Zenon DEF DataInv, HalfDelivered
  <2>2. Genuine(m) /\ Len(m.data) = 4
    BY PackFacts
  <2>3. k \in Nat /\ 9 <= k /\ k < Len(m.data) + 8
    BY <2>1, <2>2
  <2> DEFINE r == parse(SubSeq(serialyze(m), k + 1, Len(serialyze(m))),
                        [idx |-> k - 6, sum |-> HalfSum(m, k)], Half(m, k))
  <2>4. r.code = 0 /\ r.pack = m
    BY <2>2, <2>3, Rejoined
  <2>5. parse(rest, parser, half.begun) = r
    BY <2>1
  <2> HIDE DEF r
  <2> QED
    BY <2>1, <2>4, <2>5
<1> QED
  BY <1>1, DataInvariant, PTL

(* No half and no rest of a frame is ever accepted, and no frame with a    *)
(* changed byte but the length, made smaller; unless it was made 3, the    *)
(* value shown of such a frame is the one that was sent.                   *)
THEOREM AcceptedGenuine ==
  DataSpec => AcceptedIsGenuine
<1> DEFINE Shortened(m, b) ==
             Damaged(m, 3, b) /\ (b >= 4 => shown' = Handled(m, shown))
           Accepted ==
             \E pack \in Packs : Whole(pack) \/ \E b \in 3..5 : Shortened(pack, b)
<1>1. DataInv /\ [DataNext]_dataVars
        => [code' = 0 =>
              \E pack \in Packs :
                \/ Whole(pack)
                \/ \E b \in 3..5 :
                     /\ Damaged(pack, 3, b)
                     /\ b >= 4 => shown' = Handled(pack, shown)]_dataVars
  <2> SUFFICES ASSUME DataInv, DataNext, code' = 0 PROVE Accepted
    OBVIOUS
  <2>1. ASSUME NEW m \in Packs, NEW k \in CutAt, FirstHalf(m, k) PROVE FALSE
    <3>1. ParserOK(parser)
      BY DEF DataInv
    <3> DEFINE n == Len(serialyze(m))
    <3>2. k < n /\ Receive(SubSeq(serialyze(m), 1, k))
      BY <2>1, Zenon DEF FirstHalf
    <3>3. n = 12 /\ k \in 1..20
      BY PackFacts, DataAssumption
    <3> HIDE DEF n
    <3>4. k \in 1..11
      BY <3>2, <3>3
    <3> QED
      BY <3>1, <3>2, <3>4, FirstReceived
  <2>2. CASE SecondHalf
    BY <2>2, SecondHalfKeeps
  <2>3. CASE LinkLost
    BY <2>3, LinkLostKeeps
  <2>4. ASSUME NEW m \in Packs, NEW i \in DamageAt, NEW e \in DamagedTo, Damaged(m, i, e)
        PROVE  Accepted
    <3>1. i = 3 /\ e \in 3..5 /\ (e >= 4 => shown' = Handled(m, shown))
      BY <2>4, DamagedKeeps
    <3>2. Shortened(m, e)
      BY <2>4, <3>1
    <3> HIDE DEF Shortened
    <3> QED
      BY <3>1, <3>2
  <2>5. ASSUME NEW m \in Packs, Whole(m) PROVE Accepted
    BY <2>5
  <2> HIDE DEF Accepted
  <2> QED
    BY <2>1, <2>2, <2>3, <2>4, <2>5, Zenon DEF DataNext
<1> QED
  BY <1>1, DataInvariant, PTL DEF DataSpec, AcceptedIsGenuine

(* What the frame of an answer says is the value it was made of. *)
LEMMA AnswerSays ==
  ASSUME NEW c \in Commands, NEW r \in Registers
  PROVE  Answer(c, r).command = c /\ Unsigned(Answer(c, r)) = r[1]
<1> DEFINE v == r[1]
           w == r[2]
<1>0. r = <<v, w>> /\ v \in Word /\ w \in Word
  BY RegistersAreWords
<1> HIDE DEF v, w
<1> DEFINE m == Answer(c, r)
           lo == v % 256
           hi == v \div 256
<1>1. /\ Len(m.data) = 4 /\ m.command = c /\ m.data[1] = lo /\ m.data[2] = hi
  BY <1>0, AnswerFacts
<1>2. v = lo + 256 * hi
  BY <1>0, WordBytes
<1> HIDE DEF m, lo, hi
<1>3. Data(m, 0) = lo /\ Data(m, 1) = hi
  <2>1. 0 < 4 /\ 1 < 4 /\ 0 + 1 = 1 /\ 1 + 1 = 2
    OBVIOUS
  <2> QED
    BY <1>1, <2>1 DEF Data
<1>4. Unsigned(m) = v
  BY <1>2, <1>3 DEF Unsigned
<1> QED
  BY <1>1, <1>4 DEF m, v

(* The scooter's answers to the three requests are what it sends. *)
LEMMA AnswerInPacks ==
  ASSUME NEW c \in Commands, NEW r \in Registers
  PROVE  Answer(c, r) \in Packs
BY DEF Packs, Commands

(* The conversion to int16_t keeps the 16 bits. *)
SameWord(n, v) == (n - v) % 65536 = 0

LEMMA SignedSays ==
  ASSUME NEW v \in Word
  PROVE  SameWord(Signed(v), v) /\ Signed(v) \in Short
<1> DEFINE w == Signed(v)
           d == w - v
<1>1. v \in Int /\ 0 <= v /\ v <= 65535
  BY WordBounds
<1>2. w = v \/ w = v - 65536
  BY DEF Signed
<1>3. w \in Int
  BY <1>1, <1>2
<1>5. d = 0 \/ d = -65536
  <2> HIDE DEF w
  <2> QED
    BY <1>1, <1>2, <1>3
<1> HIDE DEF d
<1>6. d % 65536 = 0
  BY <1>5
<1>7. w \in Short
  BY <1>1, SignedIsShort
<1> HIDE DEF w
<1>8. SameWord(w, v)
  BY <1>6 DEF SameWord, d
<1> QED
  BY <1>7, <1>8 DEF w

(* A whole answer that meets an idle parser is accepted, and the number    *)
(* shown is the register's, as 16 bits with a sign for the speed.          *)
THEOREM WholeShown ==
  DataSpec => WholeIsShown
<1> DEFINE SpeedShown(r) ==
             parser.idx = 0 /\ Whole(Answer(M365speedREG, r)) =>
               /\ code' = 0
               /\ SameWord(shown'.speed, r[1])
               /\ shown'.speed \in Short
           BattShown(r) ==
             parser.idx = 0 /\ Whole(Answer(M365battREG, r)) =>
               code' = 0 /\ shown'.batt = r[1]
           Shows ==
             \A r \in Registers :
               /\ SpeedShown(r)
               /\ BattShown(r)
<1>1. ASSUME DataInv, NEW r \in Registers, NEW c \in Commands,
             parser.idx = 0, Whole(Answer(c, r))
      PROVE  code' = 0 /\ shown' = Handled(Answer(c, r), shown)
  <2> DEFINE m == Answer(c, r)
  <2>1. ParserOK(parser)
    BY <1>1 DEF DataInv
  <2>2. m \in Packs
    BY AnswerInPacks
  <2> HIDE DEF m
  <2>3. Receive(serialyze(m))
    BY <1>1, Zenon DEF Whole, m
  <2>4. code' = 0 /\ shown' = Handled(m, shown)
    BY <1>1, <2>1, <2>2, <2>3, WholeReceived
  <2> QED
    BY <2>4 DEF m
<1>c. M365speedREG \in Commands /\ M365battREG \in Commands /\ M365speedREG # M365battREG
  BY DEF Commands, M365speedREG, M365battREG
<1>2. ASSUME DataInv, NEW r \in Registers PROVE SpeedShown(r)
  <2> DEFINE m == Answer(M365speedREG, r)
  <2> SUFFICES ASSUME parser.idx = 0, Whole(m)
               PROVE  /\ code' = 0
                      /\ SameWord(shown'.speed, r[1])
                      /\ shown'.speed \in Short
    OBVIOUS
  <2> DEFINE v == r[1]
  <2>0. v \in Word
    BY RegistersAreWords
  <2>1. ShownTypeOK
    BY <1>2, TypeParts DEF DataInv
  <2>2. code' = 0 /\ shown' = Handled(m, shown)
    BY <1>1, <1>2, <1>c
  <2>3. m.command = M365speedREG /\ Unsigned(m) = v
    BY <1>c, AnswerSays
  <2> HIDE DEF m, v
  <2>4. shown' = [shown EXCEPT !.speed = Signed(v)]
    BY <1>c, <2>2, <2>3, Zenon DEF Handled
  <2>5. shown'.speed = Signed(v)
    BY <2>1, <2>4 DEF ShownTypeOK
  <2>6. SameWord(Signed(v), v) /\ Signed(v) \in Short
    BY <2>0, SignedSays
  <2> QED
    BY <2>2, <2>5, <2>6 DEF v
<1>3. ASSUME DataInv, NEW r \in Registers PROVE BattShown(r)
  <2> DEFINE m == Answer(M365battREG, r)
  <2> SUFFICES ASSUME parser.idx = 0, Whole(m)
               PROVE  code' = 0 /\ shown'.batt = r[1]
    OBVIOUS
  <2> DEFINE v == r[1]
  <2>0. v \in Word
    BY RegistersAreWords
  <2>1. ShownTypeOK
    BY <1>3, TypeParts DEF DataInv
  <2>2. code' = 0 /\ shown' = Handled(m, shown)
    BY <1>1, <1>3, <1>c
  <2>3. m.command = M365battREG /\ Unsigned(m) = v
    BY <1>c, AnswerSays
  <2> HIDE DEF m, v
  <2>4. shown' = [shown EXCEPT !.batt = v]
    BY <2>2, <2>3, Zenon DEF Handled
  <2>5. shown'.batt = v
    BY <2>1, <2>4 DEF ShownTypeOK
  <2> QED
    BY <2>2, <2>5 DEF v
<1>4. DataInv => Shows
  <2> HIDE DEF SpeedShown, BattShown
  <2> QED
    BY <1>2, <1>3
<1>5. DataInv /\ [DataNext]_dataVars => [Shows]_dataVars
  <2> HIDE DEF Shows
  <2> QED
    BY <1>4
<1> QED
  BY <1>5, DataInvariant, PTL DEF DataSpec, WholeIsShown, SameWord, Short

-----------------------------------------------------------------------------
(***************************************************************************)
(* The battery bar.                                                        *)
(***************************************************************************)
(* What the conversion to int16_t makes of a number of 16 bits. *)
LEMMA SignedBounds ==
  ASSUME NEW n \in Int, 0 <= n, n < 65536, n # MaxShort
  PROVE  Signed(n) \in Int /\ Signed(n) < MaxShort
BY DEF Signed, MaxShort

(* The end of the bar for each value of a register.  It grows with the     *)
(* value and wraps once: 25599 gives 32766 and 25600 gives -32768, so that *)
(* the largest int16_t is stepped over.                                    *)
LEMMA EndIsShort ==
  ASSUME NEW batt \in Int, 0 <= batt, batt <= 65535
  PROVE  BarEnd(batt) \in Int /\ BarEnd(batt) < MaxShort
<1> DEFINE share == (128 * batt) \div 100
           n == share % 65536
<1>1. share \in Int
  OBVIOUS
<1>2. share >= 0
  OBVIOUS
<1>3. share <= 83884
  OBVIOUS
<1>4. share # 32767
  <2>1. batt <= 25599 => share <= 32766
    OBVIOUS
  <2>2. batt >= 25600 => share >= 32768
    OBVIOUS
  <2> HIDE DEF share
  <2> QED BY <2>1, <2>2, <1>1
<1>5. BarEnd(batt) = Signed(n)
  BY WidthAssumption DEF BarEnd
<1> HIDE DEF share
<1>6. n \in Int /\ 0 <= n /\ n < 65536
  BY <1>1
<1>7. n # 32767
  <2>1. CASE share < 65536
    <3>1. n = share
      BY <2>1, <1>1, <1>2
    <3> QED BY <3>1, <1>4
  <2>2. CASE share >= 65536
    <3>1. n = share - 65536
      BY <2>2, <1>1, <1>2, <1>3
    <3> QED BY <3>1, <1>1, <1>3
  <2> QED BY <2>1, <2>2, <1>1
<1> HIDE DEF n
<1> QED
  BY <1>5, <1>6, <1>7, SignedBounds DEF MaxShort

(* In every state of the right types, whatever frame it was that changed   *)
(* the value, the bar that is drawn of it ends.                            *)
THEOREM AnyValueIsDrawn == DataTypeOK => DrawingEnds
<1>0. SUFFICES ASSUME ShownTypeOK PROVE DrawingEnds
  BY Zenon DEF DataTypeOK
<1> DEFINE batt == shown.batt
<1>1. batt \in Word
  BY <1>0 DEF ShownTypeOK
<1> HIDE DEF batt
<1>2. batt \in Int /\ 0 <= batt /\ batt <= 65535
  BY <1>1, WordBounds
<1>3. BarEnd(batt) \in Int /\ BarEnd(batt) < MaxShort
  BY <1>2, EndIsShort
<1> DEFINE end == BarEnd(batt)
<1>4. LineEnds(end)
  <2> HIDE DEF end
  <2>1. end \in Int /\ end < MaxShort
    BY <1>3 DEF end
  <2> QED BY <2>1 DEF LineEnds, LineRight, MaxShort
<1> QED
  BY <1>4 DEF DrawingEnds, batt

(* ... so the bar of every state of the system ends. *)
THEOREM BarAlwaysEnds ==
  DataSpec => []DrawingEnds
BY DataTypes, AnyValueIsDrawn, PTL
=============================================================================
