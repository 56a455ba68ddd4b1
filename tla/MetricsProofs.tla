--------------------------- MODULE MetricsProofs ---------------------------
(***************************************************************************)
(* Every window resolve makes can be drawn, unless 64 bits are too few: a  *)
(* span that is left by clamping is at most MaxPoints of the step that     *)
(* is wanted (CeilCovers), rounding up to whole samples only widens it     *)
(* unless it overflows (AlignedOverflows), and buckets lie a multiple of   *)
(* the step apart (BucketsApart).                                          *)
(* And the sampler reports no traffic that was not moved: a total is a     *)
(* sum over a deployment's containers (SumPart), each part of which covers *)
(* what is not yet counted of that container (Credited, Counted), and sums *)
(* compare as their parts do (SumBounded).                                 *)
(***************************************************************************)
EXTENDS Metrics, FiniteSetTheorems, WellFoundedInduction, TLAPS

\* A ceiling times its divisor covers the value, by less than one divisor, and is
\* a positive i64, if the sum in it fits.
LEMMA CeilCovers ==
    ASSUME NEW v \in Nat \ {0}, NEW n \in {MaxPoints, SampleInterval}, v + n - 1 <= MaxInt
    PROVE  /\ ceil_div(v, n) \in Nat \ {0}
           /\ ceil_div(v, n) * n >= v /\ ceil_div(v, n) * n <= v + n - 1
<1>1. /\ Wrap(v + n - 1) = v + n - 1 /\ v + n - 1 >= 0
      /\ n \in Nat
  BY RetentionFits DEF Wrap, MinInt, MaxPoints, SampleInterval
<1>2. ceil_div(v, n) = (v + n - 1) \div n
  BY <1>1 DEF ceil_div, Divided
<1> QED BY <1>2 DEF MaxPoints, SampleInterval

\* The step that is wanted for a span that fits the retention: one interval at
\* least, what was asked for, and the span in MaxPoints.
LEMMA WantedCovers ==
    ASSUME NEW span \in Nat \ {0}, span <= MetricsRetention,
           NEW step \in Nat \union {Unset}, step # Unset => step <= MaxInt
    PROVE  LET s == Wanted(span, step)
           IN  /\ s \in Nat /\ s >= SampleInterval /\ s <= MaxInt
               /\ step # Unset => s >= step
               /\ (step = Unset \/ step <= MaxInt - (SampleInterval - 1))
                      => s <= MaxInt - (SampleInterval - 1)
               /\ span <= MaxPoints * s
<1> DEFINE c == ceil_div(span, MaxPoints)
           asked == IF step = Unset THEN SampleInterval ELSE step
<1>1. /\ c \in Nat /\ span <= MaxPoints * c
      /\ c * MaxPoints <= span + MaxPoints - 1
  <2>1. span + MaxPoints - 1 <= MaxInt
    BY RetentionFits DEF MaxPoints, MetricsRetention, SampleInterval, DefaultRange
  <2> QED BY <2>1, CeilCovers DEF MaxPoints
<1>2. c <= MetricsRetention
  BY <1>1 DEF MaxPoints, MetricsRetention
<1>3. asked \in Nat /\ (step # Unset => asked = step) /\ (step = Unset => asked = SampleInterval)
  BY DEF SampleInterval
<1> HIDE DEF c, asked
<1>4. Wanted(span, step) = Greater(Greater(asked, c), SampleInterval)
  BY DEF Wanted, c, asked
<1> QED BY <1>1, <1>2, <1>3, <1>4, RetentionFits
        DEF Greater, MaxPoints, SampleInterval, MetricsRetention

\* Whole samples, and no less than what is wanted, if that can be rounded up.
LEMMA AlignedCovers ==
    ASSUME NEW w \in Nat \ {0}, w <= MaxInt - (SampleInterval - 1)
    PROVE  Aligned(w) \in Nat \ {0} /\ Aligned(w) % SampleInterval = 0 /\ Aligned(w) >= w
<1>1. /\ ceil_div(w, SampleInterval) \in Nat \ {0}
      /\ ceil_div(w, SampleInterval) * SampleInterval >= w
  BY CeilCovers, RetentionFits DEF SampleInterval
<1>2. \A q \in Int : (q * SampleInterval) % SampleInterval = 0
  BY DEF SampleInterval
<1> QED BY <1>1, <1>2 DEF Aligned, SampleInterval

\* What cannot be rounded up comes out negative, or zero.
LEMMA AlignedOverflows ==
    ASSUME NEW w \in Nat, w <= MaxInt, w > MaxInt - (SampleInterval - 1)
    PROVE  Aligned(w) \in Int /\ Aligned(w) <= 0
<1> DEFINE x == Wrap(w + SampleInterval - 1)
<1>0. MaxInt \in Nat /\ MaxInt > SampleInterval
  BY RetentionFits DEF SampleInterval, MetricsRetention, MaxPoints
<1>1. x \in Int /\ x < 0
  <2>1. w + SampleInterval - 1 > MaxInt
    BY <1>0 DEF SampleInterval
  <2>2. x = w + SampleInterval - 1 - 2 * (MaxInt + 1)
    BY <1>0, <2>1 DEF Wrap, MinInt, SampleInterval
  <2> QED BY <1>0, <2>2 DEF SampleInterval
<1>2. (-x) \div SampleInterval \in Nat
  BY <1>1 DEF SampleInterval
<1>3. Aligned(w) = (-((-x) \div SampleInterval)) * SampleInterval
  BY <1>1 DEF Aligned, ceil_div, Divided
<1> HIDE DEF x
<1> QED BY <1>2, <1>3 DEF SampleInterval

\* The quotient of a division by a positive step, towards zero.
LEMMA Quotient ==
    ASSUME NEW t \in Int, NEW s \in Nat \ {0}
    PROVE  /\ Divided(t, s) \in Int
           /\ t >= 0 => Divided(t, s) * s <= t /\ t < Divided(t, s) * s + s
           /\ t < 0 => Divided(t, s) * s >= t /\ t > Divided(t, s) * s - s
           /\ t >= 0 => Divided(t, s) * s >= 0
           /\ t < 0 => Divided(t, s) * s <= 0
<1>1. \A u \in Nat : /\ u \div s \in Nat /\ (u \div s) * s >= 0
                     /\ (u \div s) * s <= u /\ u < (u \div s) * s + s
  OBVIOUS
<1>2. CASE t >= 0
  BY <1>1, <1>2 DEF Divided
<1>3. CASE t < 0
  <2> DEFINE q == (-t) \div s
  <2>1. q \in Nat /\ q * s >= 0 /\ q * s <= -t /\ -t < q * s + s
    BY <1>1, <1>3
  <2>2. Divided(t, s) = -q
    BY <1>3 DEF Divided
  <2> HIDE DEF q
  <2>3. (-q) * s = -(q * s)
    BY <2>1
  <2> QED BY <1>3, <2>1, <2>2, <2>3
<1> QED BY <1>2, <1>3

\* A span of at most n steps touches no more than n + 1 buckets.
LEMMA BucketsApart ==
    ASSUME NEW a \in Int, NEW b \in Int, NEW s \in Nat \ {0}, NEW n \in Nat, b - a <= n * s, a < b
    PROVE  Bucket(b, s) - Bucket(a, s) <= n * s
<1> DEFINE p == Divided(a, s)
           q == Divided(b, s)
<1>0. /\ p \in Int /\ q \in Int
      /\ a >= 0 => p * s <= a /\ a < p * s + s
      /\ a < 0 => p * s >= a /\ a > p * s - s /\ p * s <= 0
      /\ b >= 0 => q * s <= b /\ b < q * s + s /\ q * s >= 0
      /\ b < 0 => q * s >= b /\ b > q * s - s
  BY Quotient
<1> HIDE DEF p, q
<1>1. /\ p \in Int /\ q \in Int
      /\ q * s - p * s < b - a + s
  <2> DEFINE x == p * s
             y == q * s
  <2>1. x \in Int /\ y \in Int
    BY <1>0
  <2> HIDE DEF x, y
  <2>2. /\ a >= 0 => x <= a /\ a < x + s
        /\ a < 0 => x >= a /\ a > x - s /\ x <= 0
        /\ b >= 0 => y <= b /\ b < y + s /\ y >= 0
        /\ b < 0 => y >= b /\ b > y - s
    BY <1>0 DEF x, y
  <2>3. y - x < b - a + s
    BY <2>1, <2>2
  <2> QED BY <1>0, <2>3 DEF x, y
<1>2. q * s - p * s = (q - p) * s
  BY <1>1
<1>3. (n + 1) * s = n * s + s
  OBVIOUS
<1>4. (q - p) * s < (n + 1) * s
  BY <1>1, <1>2, <1>3
<1>5. q - p < n + 1
  <2> SUFFICES ASSUME q - p >= n + 1 PROVE FALSE
    BY <1>1
  <2>1. \A x, y \in Int : x >= y => x * s >= y * s
    OBVIOUS
  <2> QED BY <1>1, <1>4, <2>1
<1>6. (q - p) * s <= n * s
  BY <1>1, <1>5
<1> QED BY <1>2, <1>6 DEF Bucket, p, q

\* The window of every request that is answered (resolve, and the group by of
\* the series) can be drawn if nothing overflows, and only then.
LEMMA WindowsAreGraphable == WindowsGraphable
<1> SUFFICES ASSUME NEW from \in Second \union {Unset}, NEW to \in Second,
                    NEW step \in Second \union {Unset}, Accepted(from, to, step)
             PROVE  Graphable(resolve(from, to, step), step) <=> Fits(to, step)
  BY DEF WindowsGraphable
<1> DEFINE first == From(from, to)
           start == Clamped(from, to)
           span == Wrap(to - start)
           wanted == Wanted(span, step)
           s == Aligned(wanted)
<1>0. MaxInt \in Nat /\ MinInt = -MaxInt - 1 /\ MaxInt > MetricsRetention /\ MetricsRetention \in Nat
  BY RetentionFits DEF MinInt, MetricsRetention, MaxPoints
<1>1. /\ to \in Int /\ MinInt <= to /\ to <= MaxInt
      /\ step \in Nat \union {Unset} /\ (step # Unset => step <= MaxInt)
  BY <1>0, SecondsAreIntegers DEF Accepted
<1>2. first \in Int /\ MinInt <= first /\ first < to
  <2>1. \A x \in Int : x <= MaxInt /\ x >= MinInt - DefaultRange => Wrap(x) \in Int /\ Wrap(x) >= MinInt
    BY <1>0 DEF Wrap, DefaultRange, MetricsRetention
  <2>2. from = Unset \/ from \in MinInt .. MaxInt
    BY SecondsAreIntegers
  <2>3. from = Unset => to - DefaultRange \in Int /\ to - DefaultRange <= MaxInt
                        /\ to - DefaultRange >= MinInt - DefaultRange
    BY <1>0, <1>1 DEF DefaultRange
  <2> QED BY <1>0, <2>1, <2>2, <2>3 DEF Accepted, From
<1>3. resolve(from, to, step) = [from |-> start, to |-> to, step |-> s]
  BY DEF resolve
<1>4. ASSUME to - MetricsRetention < MinInt
      PROVE  ~Graphable(resolve(from, to, step), step) /\ ~Fits(to, step)
  <2>1. Wrap(to - MetricsRetention) = to - MetricsRetention + 2 * (MaxInt + 1)
    BY <1>0, <1>1, <1>4 DEF Wrap
  <2>2. start \in Int /\ start > to
    BY <1>0, <1>1, <1>2, <2>1 DEF Clamped, Greater
  <2>3. ~Fits(to, step)
    BY <1>0, <1>1, <1>4 DEF Fits
  <2>4. resolve(from, to, step).from = start /\ resolve(from, to, step).to = to
    BY <1>3
  <2> HIDE DEF start
  <2>5. ~(start < to)
    BY <1>1, <2>2
  <2> QED BY <2>3, <2>4, <2>5 DEF Graphable
<1>5. ASSUME to - MetricsRetention >= MinInt
      PROVE  Graphable(resolve(from, to, step), step) <=> Fits(to, step)
  <2>1. Wrap(to - MetricsRetention) = to - MetricsRetention
    BY <1>0, <1>1, <1>5 DEF Wrap
  <2>2. start \in Int /\ start < to /\ to - start <= MetricsRetention
    BY <1>0, <1>1, <1>2, <2>1 DEF Clamped, Greater, MetricsRetention
  <2>3. span = to - start
    BY <1>0, <2>2, <1>1 DEF Wrap
  <2>4. span \in Nat \ {0} /\ span <= MetricsRetention
    BY <1>1, <2>2, <2>3
  <2> HIDE DEF first, start, span
  <2>5. /\ wanted \in Nat /\ wanted >= SampleInterval /\ wanted <= MaxInt
        /\ step # Unset => wanted >= step
        /\ (step = Unset \/ step <= MaxInt - (SampleInterval - 1))
               => wanted <= MaxInt - (SampleInterval - 1)
        /\ span <= MaxPoints * wanted
    BY <1>1, <2>4, WantedCovers
  <2>6. CASE Fits(to, step)
    <3>1. wanted <= MaxInt - (SampleInterval - 1) /\ wanted \in Nat \ {0}
      BY <2>5, <2>6 DEF Fits, SampleInterval
    <3> HIDE DEF wanted
    <3>2. s \in Nat \ {0} /\ s % SampleInterval = 0 /\ s >= wanted
      BY <3>1, AlignedCovers
    <3> HIDE DEF s
    <3>3. to - start <= MaxPoints * s
      BY <2>3, <2>4, <2>5, <3>1, <3>2 DEF MaxPoints
    <3>4. step # Unset => s >= step
      BY <1>1, <2>5, <3>2
    <3>5. Bucket(to, s) - Bucket(start, s) <= MaxPoints * s
      BY <1>1, <2>2, <3>2, <3>3, BucketsApart DEF MaxPoints
    <3> QED BY <1>3, <2>2, <2>6, <3>2, <3>3, <3>4, <3>5 DEF Graphable
  <2>7. CASE ~Fits(to, step)
    <3>1. step # Unset /\ step > MaxInt - (SampleInterval - 1)
      BY <1>0, <1>1, <1>5, <2>7 DEF Fits, SampleInterval
    <3>2. wanted > MaxInt - (SampleInterval - 1)
      BY <1>0, <1>1, <2>5, <3>1 DEF SampleInterval
    <3> HIDE DEF wanted
    <3>3. s \in Int /\ s <= 0
      BY <2>5, <3>2, AlignedOverflows
    <3> HIDE DEF s
    <3> QED BY <1>3, <2>7, <3>3 DEF Graphable
  <2> QED BY <2>6, <2>7
<1> QED BY <1>0, <1>1, <1>4, <1>5 DEF MetricsRetention

\* At every moment of the sampler, whatever has been recorded and pruned, every
\* history that is asked for gets a window that can be drawn if its times and its
\* step overflow nothing, and none otherwise (resolve).
THEOREM HistoriesAreGraphable == Spec => []HistoryGraphable
<1>1. HistoryGraphable
  BY WindowsAreGraphable DEF HistoryGraphable
<1> QED BY <1>1, PTL

-----------------------------------------------------------------------------
(* Sums over finite sets.  The induction is on the subsets, by the         *)
(* smallest that is not as claimed.                                        *)

\* A set of numbers has a least one.
LEMMA NatLeast ==
  ASSUME NEW T, T \subseteq Nat, T # {}
  PROVE  \E n \in T : \A m \in T : n <= m
  <1> DEFINE R == OpToRel(<, Nat)
  <1>1. IsWellFoundedOn(R, Nat)
    BY NatLessThanWellFounded
  <1>2. \A m, n \in Nat : m < n => <<m, n>> \in R
    BY DEF OpToRel
  <1> HIDE DEF R
  <1>3. PICK n \in T : \A m \in T : ~ (<<m, n>> \in R)
    BY <1>1, WFMin
  <1>4. \A m \in T : m \in Nat /\ n \in Nat /\ ~ (m < n)
    BY <1>2, <1>3
  <1>5. \A m \in T : n <= m
    BY <1>4
  <1> QED BY <1>5

\* The element of s that a sum takes first.
First(s) == CHOOSE x \in s : TRUE

\* g holds the sums of f over all the subsets of S: what the fold of the
\* community module computes.
IsSum(g, f, S) ==
    g = [s \in SUBSET S |-> IF s = {} THEN 0 ELSE f[First(s)] + g[s \ {First(s)}]]

\* The sum is defined by the choice of such a g.
LEMMA SumDef ==
  ASSUME NEW f, NEW S
  PROVE  SumFunctionOnSet(f, S) = (CHOOSE g : IsSum(g, f, S))[S]
  BY DEF SumFunctionOnSet, FoldFunctionOnSet, MapThenFoldSet, IsSum, First

\* One exists: on the sets of ever larger size.
LEMMA SumExists ==
  ASSUME NEW S, IsFiniteSet(S), NEW f, \A x \in S : f[x] \in Nat
  PROVE  \E g : IsSum(g, f, S) /\ g \in [SUBSET S -> Nat]
  <1> DEFINE Value(g, s) == IF s = {} THEN 0 ELSE f[First(s)] + g[s \ {First(s)}]
             UpTo(n) == {g \in [SUBSET S -> Nat] :
                           \A s \in SUBSET S : Cardinality(s) <= n => g[s] = Value(g, s)}
             Bad == {n \in Nat : UpTo(n) = {}}
  <1>1. \A s \in SUBSET S : /\ IsFiniteSet(s) /\ Cardinality(s) \in Nat
                            /\ Cardinality(s) <= Cardinality(S)
                            /\ Cardinality(s) = 0 <=> s = {}
    BY FS_Subset, FS_CardinalityType, FS_EmptySet
  <1>2. \A s \in SUBSET S : s # {} => /\ First(s) \in s /\ f[First(s)] \in Nat
                                      /\ s \ {First(s)} \in SUBSET S
                                      /\ Cardinality(s \ {First(s)}) = Cardinality(s) - 1
    <2> SUFFICES ASSUME NEW s \in SUBSET S, s # {}
                 PROVE  /\ First(s) \in s /\ f[First(s)] \in Nat
                        /\ s \ {First(s)} \in SUBSET S
                        /\ Cardinality(s \ {First(s)}) = Cardinality(s) - 1
      OBVIOUS
    <2>1. First(s) \in s
      BY DEF First
    <2> QED BY <1>1, <2>1, FS_RemoveElement
  <1>3. UpTo(0) # {}
    <2> DEFINE g == [s \in SUBSET S |-> 0]
    <2>1. g \in UpTo(0)
      BY <1>1
    <2> QED BY <2>1
  <1>4. ASSUME NEW n \in Nat, UpTo(n) # {} PROVE UpTo(n + 1) # {}
    <2>1. PICK g \in UpTo(n) : TRUE
      BY <1>4
    <2>2. /\ g \in [SUBSET S -> Nat]
          /\ \A s \in SUBSET S : Cardinality(s) <= n => g[s] = Value(g, s)
      BY <2>1
    <2> DEFINE h == [s \in SUBSET S |-> IF Cardinality(s) <= n THEN g[s] ELSE Value(g, s)]
    <2>3. h \in [SUBSET S -> Nat]
      BY <1>2, <2>2
    <2>4. ASSUME NEW s \in SUBSET S, Cardinality(s) <= n + 1 PROVE h[s] = Value(h, s)
      <3>1. CASE s = {}
        BY <1>1, <2>2, <3>1
      <3>2. CASE s # {}
        <4> DEFINE r == s \ {First(s)}
        <4>1. r \in SUBSET S /\ Cardinality(r) = Cardinality(s) - 1
          BY <1>2, <3>2
        <4>2. h[r] = g[r]
          BY <1>1, <2>4, <4>1
        <4>3. h[s] = Value(g, s)
          BY <2>2
        <4> QED BY <3>2, <4>2, <4>3
      <3> QED BY <3>1, <3>2
    <2> HIDE DEF h
    <2>5. h \in UpTo(n + 1)
      BY <2>3, <2>4
    <2> QED BY <2>5
  <1>5. Bad = {}
    <2> SUFFICES ASSUME Bad # {} PROVE FALSE
      OBVIOUS
    <2> HIDE DEF UpTo
    <2>1. PICK n \in Bad : \A m \in Bad : n <= m
      BY NatLeast
    <2>2. n # 0 /\ n \in Nat /\ UpTo(n) = {}
      BY <1>3, <2>1
    <2>3. n - 1 \in Nat /\ n - 1 \notin Bad
      BY <2>1, <2>2
    <2>4. UpTo((n - 1) + 1) # {}
      BY <1>4, <2>3
    <2> QED BY <2>2, <2>4
  <1>6. PICK g \in UpTo(Cardinality(S)) : TRUE
    BY <1>1, <1>5
  <1>7. g \in [SUBSET S -> Nat] /\ \A s \in SUBSET S : g[s] = Value(g, s)
    BY <1>1, <1>6
  <1>8. IsSum(g, f, S)
    <2> HIDE DEF Value
    <2>1. g = [s \in SUBSET S |-> Value(g, s)]
      BY <1>7
    <2> QED BY <2>1 DEF IsSum, Value
  <1> QED BY <1>7, <1>8

\* Induction on the subsets of a finite set, the good ones given as a set.
LEMMA SubsetInduction ==
  ASSUME NEW S, IsFiniteSet(S), NEW Good,
         \A T \in SUBSET S : (\A x \in T : T \ {x} \in Good) => T \in Good
  PROVE  \A T \in SUBSET S : T \in Good
  <1> DEFINE Bad == {n \in Nat : \E T \in SUBSET S : Cardinality(T) = n /\ T \notin Good}
  <1>1. \A T \in SUBSET S : IsFiniteSet(T) /\ Cardinality(T) \in Nat
    BY FS_Subset, FS_CardinalityType
  <1>2. Bad = {}
    <2> SUFFICES ASSUME Bad # {} PROVE FALSE
      OBVIOUS
    <2>1. PICK n \in Bad : \A m \in Bad : n <= m
      BY NatLeast
    <2>2. PICK T \in SUBSET S : Cardinality(T) = n /\ T \notin Good
      BY <2>1
    <2>3. PICK x \in T : T \ {x} \notin Good
      BY <2>2
    <2>4. T \ {x} \in SUBSET S /\ Cardinality(T \ {x}) = n - 1 /\ n - 1 \in Nat
      <3>1. IsFiniteSet(T) /\ Cardinality(T) = n /\ n \in Nat
        BY <1>1, <2>2
      <3>2. Cardinality(T \ {x}) = Cardinality(T) - 1
        BY <3>1, FS_RemoveElement
      <3>3. T \ {x} \in SUBSET S
        OBVIOUS
      <3>4. Cardinality(T \ {x}) \in Nat
        BY <1>1, <3>3
      <3> QED BY <3>1, <3>2, <3>3, <3>4
    <2>5. n - 1 \in Bad
      BY <2>3, <2>4
    <2> QED BY <2>1, <2>5
  <1> QED BY <1>1, <1>2

\* There is one, and the sums over a part are the same.
LEMMA SumUnique ==
  ASSUME NEW S, IsFiniteSet(S), NEW f, NEW U \in SUBSET S, NEW g, NEW h,
         IsSum(g, f, S), IsSum(h, f, U)
  PROVE  \A s \in SUBSET U : g[s] = h[s]
  <1> DEFINE Good == {s \in SUBSET U : g[s] = h[s]}
  <1>1. IsFiniteSet(U)
    BY FS_Subset
  <1>2. ASSUME NEW s \in SUBSET U, \A x \in s : s \ {x} \in Good PROVE s \in Good
    <2>1. /\ g[s] = IF s = {} THEN 0 ELSE f[First(s)] + g[s \ {First(s)}]
          /\ h[s] = IF s = {} THEN 0 ELSE f[First(s)] + h[s \ {First(s)}]
      BY DEF IsSum
    <2>2. s # {} => First(s) \in s
      BY DEF First
    <2> QED BY <1>2, <2>1, <2>2
  <1> HIDE DEF Good
  <1>3. \A s \in SUBSET U : s \in Good
    BY <1>1, <1>2, SubsetInduction
  <1> QED BY <1>3 DEF Good

Sum(f, S) == SumFunctionOnSet(f, S)

\* A sum is what the fold says, and a natural number.
LEMMA SumValue ==
  ASSUME NEW S, IsFiniteSet(S), NEW f, \A x \in S : f[x] \in Nat
  PROVE  /\ \A s \in SUBSET S : Sum(f, s) \in Nat
         /\ Sum(f, {}) = 0
         /\ \A s \in SUBSET S : s # {} => Sum(f, s) = f[First(s)] + Sum(f, s \ {First(s)})
  <1>1. PICK g : IsSum(g, f, S) /\ g \in [SUBSET S -> Nat]
    BY SumExists
  <1>2. ASSUME NEW U \in SUBSET S PROVE Sum(f, U) = g[U]
    <2>1. IsFiniteSet(U) /\ \A x \in U : f[x] \in Nat
      BY FS_Subset
    <2>2. \E h : IsSum(h, f, U)
      BY <2>1, SumExists
    <2> DEFINE k == CHOOSE h : IsSum(h, f, U)
    <2>3. IsSum(k, f, U)
      BY <2>2
    <2>4. Sum(f, U) = k[U]
      BY SumDef DEF Sum
    <2> HIDE DEF k
    <2>5. U \in SUBSET U
      OBVIOUS
    <2> QED BY <1>1, <2>3, <2>4, <2>5, SumUnique
  <1>3. \A s \in SUBSET S : g[s] = IF s = {} THEN 0 ELSE f[First(s)] + g[s \ {First(s)}]
    BY <1>1 DEF IsSum
  <1>4. \A s \in SUBSET S : Sum(f, s) \in Nat
    BY <1>1, <1>2
  <1>5. Sum(f, {}) = 0
    <2>1. {} \in SUBSET S
      OBVIOUS
    <2> QED BY <1>2, <1>3, <2>1
  <1>6. ASSUME NEW s \in SUBSET S, s # {} PROVE Sum(f, s) = f[First(s)] + Sum(f, s \ {First(s)})
    <2> DEFINE r == s \ {First(s)}
    <2>1. r \in SUBSET S
      OBVIOUS
    <2>2. g[s] = f[First(s)] + g[r]
      BY <1>3, <1>6
    <2> HIDE DEF r
    <2>3. Sum(f, s) = g[s] /\ Sum(f, r) = g[r]
      BY <1>2, <2>1
    <2>4. Sum(f, s) = f[First(s)] + Sum(f, r)
      BY <2>2, <2>3
    <2> QED BY <2>4 DEF r
  <1> QED BY <1>4, <1>5, <1>6

\* A sum does not depend on the order it is made in.
LEMMA SumRemove ==
  ASSUME NEW S, IsFiniteSet(S), NEW f, \A x \in S : f[x] \in Nat
  PROVE  \A s \in SUBSET S : \A y \in s : Sum(f, s) = f[y] + Sum(f, s \ {y})
  <1> DEFINE Good == {s \in SUBSET S : \A y \in s : Sum(f, s) = f[y] + Sum(f, s \ {y})}
  <1>0. \A s \in SUBSET S : Sum(f, s) \in Nat
    BY SumValue
  <1>1. ASSUME NEW s \in SUBSET S, \A x \in s : s \ {x} \in Good PROVE s \in Good
    <2> SUFFICES ASSUME NEW y \in s, y # First(s) PROVE Sum(f, s) = f[y] + Sum(f, s \ {y})
      BY SumValue
    <2> DEFINE x == First(s)
    <2>1. x \in s /\ x # y
      BY DEF First
    <2>2. Sum(f, s) = f[x] + Sum(f, s \ {x})
      BY SumValue
    <2> HIDE DEF x
    <2>3. y \in s \ {x} /\ x \in s \ {y}
      BY <2>1
    <2>4. Sum(f, s \ {x}) = f[y] + Sum(f, (s \ {x}) \ {y})
      BY <1>1, <2>1, <2>3
    <2>5. Sum(f, s \ {y}) = f[x] + Sum(f, (s \ {y}) \ {x})
      BY <1>1, <2>1, <2>3
    <2>6. (s \ {x}) \ {y} = (s \ {y}) \ {x}
      OBVIOUS
    <2>7. f[x] \in Nat /\ f[y] \in Nat /\ Sum(f, (s \ {x}) \ {y}) \in Nat
      BY <1>0, <2>1
    <2> QED BY <2>2, <2>4, <2>5, <2>6, <2>7
  <1> HIDE DEF Good
  <1>2. \A s \in SUBSET S : s \in Good
    BY <1>1, SubsetInduction
  <1> QED BY <1>2 DEF Good

\* A sum is at most two others whose parts add up to as much or more.
LEMMA SumBounded ==
  ASSUME NEW S, IsFiniteSet(S), NEW f, NEW g, NEW h,
         \A x \in S : f[x] \in Nat /\ g[x] \in Nat /\ h[x] \in Nat /\ f[x] <= g[x] + h[x]
  PROVE  Sum(f, S) <= Sum(g, S) + Sum(h, S)
  <1> DEFINE Good == {s \in SUBSET S : Sum(f, s) <= Sum(g, s) + Sum(h, s)}
  <1>1. ASSUME NEW s \in SUBSET S, \A x \in s : s \ {x} \in Good PROVE s \in Good
    <2>1. CASE s = {}
      <3>1. Sum(f, {}) = 0 /\ Sum(g, {}) = 0 /\ Sum(h, {}) = 0
        BY SumValue
      <3> QED BY <2>1, <3>1
    <2>2. CASE s # {}
      <3> DEFINE x == First(s)
                 r == s \ {x}
      <3>1. x \in s
        BY <2>2 DEF First
      <3>2. /\ Sum(f, s) = f[x] + Sum(f, r)
            /\ Sum(g, s) = g[x] + Sum(g, r)
            /\ Sum(h, s) = h[x] + Sum(h, r)
        BY <2>2, SumValue
      <3>3. Sum(f, r) \in Nat /\ Sum(g, r) \in Nat /\ Sum(h, r) \in Nat
        BY SumValue
      <3>4. Sum(f, r) <= Sum(g, r) + Sum(h, r)
        BY <1>1, <3>1
      <3>5. f[x] \in Nat /\ g[x] \in Nat /\ h[x] \in Nat /\ f[x] <= g[x] + h[x]
        BY <3>1
      <3> HIDE DEF x, r
      <3>6. Sum(f, s) <= Sum(g, s) + Sum(h, s)
        BY <3>2, <3>3, <3>4, <3>5
      <3> QED BY <3>6
    <2> QED BY <2>1, <2>2
  <1> HIDE DEF Good
  <1>2. \A s \in SUBSET S : s \in Good
    BY <1>1, SubsetInduction
  <1> QED BY <1>2 DEF Good

\* What is not of a part adds nothing if it is counted as zero.
LEMMA SumPart ==
  ASSUME NEW S, IsFiniteSet(S), NEW U \in SUBSET S, NEW f, NEW e,
         \A x \in U : f[x] \in Nat,
         \A x \in S : e[x] = IF x \in U THEN f[x] ELSE 0
  PROVE  Sum(f, U) = Sum(e, S)
  <1> DEFINE Good == {s \in SUBSET S : Sum(f, U \intersect s) = Sum(e, s)}
  <1>0. IsFiniteSet(U) /\ \A x \in S : e[x] \in Nat
    BY FS_Subset
  <1>1. ASSUME NEW s \in SUBSET S, \A x \in s : s \ {x} \in Good PROVE s \in Good
    <2>1. CASE s = {}
      <3>1. Sum(f, {}) = 0 /\ Sum(e, {}) = 0
        BY <1>0, SumValue
      <3>2. U \intersect s = {}
        BY <2>1
      <3> QED BY <2>1, <3>1, <3>2
    <2>2. ASSUME NEW x \in s PROVE Sum(f, U \intersect s) = Sum(e, s)
      <3>1. Sum(e, s) = e[x] + Sum(e, s \ {x})
        BY <1>0, SumRemove
      <3>2. Sum(f, U \intersect (s \ {x})) = Sum(e, s \ {x})
        BY <1>1
      <3>3. CASE x \in U
        <4>1. x \in U \intersect s /\ U \intersect s \in SUBSET U
          BY <3>3
        <4>2. Sum(f, U \intersect s) = f[x] + Sum(f, (U \intersect s) \ {x})
          BY <1>0, <4>1, SumRemove
        <4>3. (U \intersect s) \ {x} = U \intersect (s \ {x}) /\ e[x] = f[x]
          BY <3>3
        <4> QED BY <3>1, <3>2, <4>2, <4>3
      <3>4. CASE x \notin U
        <4>1. U \intersect s = U \intersect (s \ {x}) /\ e[x] = 0
          BY <3>4
        <4>2. Sum(e, s \ {x}) \in Nat
          BY <1>0, SumValue
        <4>3. Sum(e, s) = Sum(e, s \ {x})
          BY <3>1, <4>1, <4>2
        <4>4. Sum(f, U \intersect s) = Sum(f, U \intersect (s \ {x}))
          BY <4>1
        <4> QED BY <3>2, <4>3, <4>4
      <3> QED BY <3>3, <3>4
    <2> QED BY <2>1, <2>2
  <1> HIDE DEF Good
  <1>2. S \in Good
    BY <1>1, SubsetInduction
  <1>3. U \intersect S = U
    OBVIOUS
  <1> QED BY <1>2, <1>3 DEF Good

-----------------------------------------------------------------------------
(* The sampler's state                                                     *)

\* What a run has at hand where, all of it of deployments it knows.
Phases ==
    /\ at # "read" => waiting = {} /\ DOMAIN stats = {}
    /\ at # "record" => DOMAIN batch = {}
    /\ \A c \in waiting \union DOMAIN stats : Owner[c] \in known

\* What has been read of a container is no more than it had moved, and what it
\* moved before is as counted.
Credited ==
    \A c \in DOMAIN stats :
        /\ stats[c].credit \in Nat /\ stats[c].credit <= unread[c]
        /\ counter[c] - unread[c] <= stats[c].total - stats[c].credit

\* A total is the sum of what was counted of each container, which is all of its
\* counter that does not count as moved since.
CountedAs(d, t) ==
    /\ t \in [Container -> Nat]
    /\ totals[d] = Sum(t, Of(d, Container))
    /\ \A c \in Of(d, Container) :
          /\ counter[c] - unread[c] <= t[c]
          /\ c \in DOMAIN stats => stats[c].total - stats[c].credit <= t[c]
Counted == \A d \in DOMAIN totals \ missed : \E t : CountedAs(d, t)

MetricsInv == TypeOK /\ Phases /\ Credited /\ Counted

\* The types, part by part.
WorldOK ==
    /\ deployments \subseteq Deployment
    /\ counter \in [Container -> Nat \union {Off}]
    /\ unread \in [Container -> Nat] /\ missed \subseteq Deployment
SamplesOK ==
    /\ samples \in [Series -> SUBSET Age]
    /\ \A d \in Deployment : samples[d] # {} => d \in deployments
RunOK ==
    /\ at \in Steps /\ known \subseteq Deployment /\ waiting \subseteq Container
    /\ DOMAIN totals \subseteq Deployment /\ \A d \in DOMAIN totals : totals[d] \in Nat
    /\ DOMAIN stats \subseteq Container \ waiting /\ \A c \in DOMAIN stats : stats[c].total \in Nat
    /\ DOMAIN batch \subseteq known /\ \A d \in DOMAIN batch : batch[d] \in Nat
CountsOK == edits \in 0 .. MaxEdits /\ faults \in 0 .. MaxFaults

\* Their conjunction is the type invariant.
LEMMA TypeParts == TypeOK <=> WorldOK /\ SamplesOK /\ RunOK /\ CountsOK
  BY DEF TypeOK, WorldOK, SamplesOK, RunOK, CountsOK

\* None holds of nothing.
LEMMA NoneIsEmpty == DOMAIN None = {}
  BY DEF None

\* A container's stats are added to those read before.
LEMMA UsageEffect ==
  ASSUME WorldOK, RunOK, NEW c \in Container, usage(c)
  PROVE  /\ at = "read" /\ c \in waiting /\ waiting' = waiting \ {c}
         /\ \/ stats' = stats
            \/ /\ DOMAIN stats' = DOMAIN stats \union {c}
               /\ \A b \in DOMAIN stats : stats'[b] = stats[b]
               /\ stats'[c].credit = unread[c]
               /\ stats'[c].total \in Nat /\ counter[c] <= stats'[c].total
               /\ stats'[c].total = 0 \/ stats'[c].total = counter[c]
  <1>1. c \notin DOMAIN stats /\ counter[c] \in Nat \union {Off} /\ unread[c] \in Nat
    BY DEF usage, RunOK, WorldOK
  <1>2. at = "read" /\ c \in waiting /\ waiting' = waiting \ {c}
    BY DEF usage
  <1>3. ASSUME NEW bytes \in Nat, stats' = Counting(c, bytes)
        PROVE  /\ DOMAIN stats' = DOMAIN stats \union {c}
               /\ \A b \in DOMAIN stats : stats'[b] = stats[b]
               /\ stats'[c].credit = unread[c] /\ stats'[c].total = bytes
    BY <1>1, <1>3 DEF Counting
  <1>4. \/ stats' = stats
        \/ counter[c] # Off /\ stats' = Counting(c, counter[c])
        \/ counter[c] = Off /\ stats' = Counting(c, 0)
    BY DEF usage, Running
  <1>5. CASE counter[c] # Off /\ stats' = Counting(c, counter[c])
    <2>1. counter[c] \in Nat
      BY <1>1, <1>5
    <2> QED BY <1>2, <1>3, <1>5, <2>1
  <1>6. CASE counter[c] = Off /\ stats' = Counting(c, 0)
    <2>1. counter[c] <= 0
      BY <1>6 DEF Off
    <2> QED BY <1>2, <1>3, <1>6, <2>1
  <1> QED BY <1>2, <1>4, <1>5, <1>6

\* The counts are bounded.
LEMMA CountsNext ==
  ASSUME TypeOK, [Next]_vars
  PROVE  CountsOK'
  <1>1. UNCHANGED vars \/ Keep \/ Edit \/ UNCHANGED edits
    BY DEF Next, Sampler, World, record_host, record_filesystems, known_deployment_ids,
           running_by_label, usage, StatsTimeout, collect, record_deployments, prune, create_deployment,
           delete_deployment, Switch, Move, Restart, vars
  <1>2. edits' \in 0 .. MaxEdits
    BY <1>1, MetricsBounds DEF TypeOK, Keep, Edit, vars
  <1>3. UNCHANGED faults \/ Fault
    BY DEF Next, Sampler, World, record_host, record_filesystems, known_deployment_ids,
           running_by_label, usage, StatsTimeout, collect, record_deployments, prune, create_deployment,
           delete_deployment, Switch, Move, Restart, vars
  <1>4. faults' \in 0 .. MaxFaults
    BY <1>3, MetricsBounds DEF TypeOK, Fault
  <1> QED BY <1>2, <1>4 DEF CountsOK

\* A sample ages no further than the first age that has expired.
LEMMA OlderTyped ==
  ASSUME SamplesOK
  PROVE  /\ Older \in [Series -> SUBSET Age]
         /\ \A s \in Series : Older[s] # {} => samples[s] # {}
  <1>1. ASSUME NEW s \in Series, NEW a \in samples[s]
        PROVE  (IF Expired(a) THEN a ELSE a + 1) \in Age
    <2>1. a \in Age
      BY DEF SamplesOK
    <2> QED BY <2>1, MetricsBounds DEF Age, Expired
  <1> QED BY <1>1 DEF Older

\* Samples are of deployments that have their row.
LEMMA SamplesNext ==
  ASSUME TypeOK, Phases, [Next]_vars
  PROVE  SamplesOK'
  <1> USE TypeParts
  <1>0. /\ 0 \in Age /\ Host \in Series /\ Filesystems \in Series
        /\ \A d \in Deployment : d \in Series /\ d # Host /\ d # Filesystems
    BY MetricsBounds, HostIsNoDeployment DEF Age, Series
  <1>1. CASE UNCHANGED <<samples, deployments>>
    BY <1>1 DEF SamplesOK
  <1>2. CASE record_host
    <2>1. samples' = Older \/ samples' = [Older EXCEPT ![Host] = @ \union {0}]
      BY <1>2 DEF record_host
    <2>2. deployments' = deployments
      BY <1>2 DEF record_host, Keep
    <2> QED BY <2>1, <2>2, <1>0, OlderTyped DEF SamplesOK
  <1>3. CASE record_filesystems
    <2>1. samples' = samples \/ samples' = [samples EXCEPT ![Filesystems] = @ \union {0}]
      BY <1>3 DEF record_filesystems
    <2>2. deployments' = deployments
      BY <1>3 DEF record_filesystems, Keep
    <2> QED BY <2>1, <2>2, <1>0 DEF SamplesOK
  <1>4. CASE record_deployments
    <2>1. CASE UNCHANGED samples
      BY <1>4, <2>1 DEF record_deployments, Keep, SamplesOK
    <2>2. CASE /\ DOMAIN batch \subseteq deployments
               /\ samples' = [s \in Series |->
                            IF s \in DOMAIN batch THEN samples[s] \union {0} ELSE samples[s]]
      <3>1. deployments' = deployments
        BY <1>4 DEF record_deployments, Keep
      <3>2. samples' \in [Series -> SUBSET Age]
        BY <1>0, <2>2 DEF SamplesOK
      <3>3. ASSUME NEW d \in Deployment, samples'[d] # {} PROVE d \in deployments
        BY <1>0, <2>2, <3>3 DEF SamplesOK
      <3> QED BY <3>1, <3>2, <3>3 DEF SamplesOK
    <2> QED BY <1>4, <2>1, <2>2 DEF record_deployments
  <1>5. CASE prune
    <2>1. PICK pruned : samples' = [s \in Series |-> IF s \in pruned THEN {a \in samples[s] : ~ Prunable(a)}
                                                   ELSE samples[s]]
      BY <1>5 DEF prune
    <2>2. deployments' = deployments
      BY <1>5 DEF prune, Keep
    <2>3. samples' \in [Series -> SUBSET Age] /\ \A s \in Series : samples'[s] \subseteq samples[s]
      BY <2>1 DEF SamplesOK
    <2>4. \A d \in Deployment : d \in Series
      BY DEF Series
    <2> QED BY <2>2, <2>3, <2>4 DEF SamplesOK
  <1>6. ASSUME NEW d \in Deployment, create_deployment(d) PROVE SamplesOK'
    BY <1>6 DEF create_deployment, SamplesOK
  <1>7. ASSUME NEW d \in Deployment, delete_deployment(d) PROVE SamplesOK'
    BY <1>7 DEF delete_deployment, SamplesOK, Series
  <1>8. ASSUME NEW c \in Container, usage(c) PROVE SamplesOK'
    BY <1>1, <1>8 DEF usage, Keep
  <1>9. ASSUME NEW c \in Container, Switch(c) \/ Move(c) PROVE SamplesOK'
    BY <1>1, <1>9 DEF Switch, Move
  <1>10. CASE known_deployment_ids \/ running_by_label \/ StatsTimeout \/ collect \/ Restart
    BY <1>1, <1>10 DEF known_deployment_ids, running_by_label, StatsTimeout, collect, Restart, Keep, world
  <1> QED BY <1>1, <1>2, <1>3, <1>4, <1>5, <1>6, <1>7, <1>8, <1>9, <1>10 DEF Next, Sampler, World, vars

\* Containers count and are counted in natural numbers: what is taken off what
\* they have moved was part of it.
LEMMA WorldNext ==
  ASSUME TypeOK, Credited, [Next]_vars
  PROVE  WorldOK'
  <1> USE TypeParts
  <1>1. CASE UNCHANGED <<deployments, counter, unread, missed>>
    BY <1>1 DEF WorldOK
  <1>2. CASE collect
    <2>1. ASSUME NEW c \in Container
          PROVE  (IF c \in DOMAIN stats THEN unread[c] - stats[c].credit ELSE unread[c]) \in Nat
      BY DEF Credited, WorldOK
    <2>2. unread' \in [Container -> Nat]
      BY <1>2, <2>1 DEF collect
    <2>3. missed' \subseteq Deployment
      BY <1>2, OwnerOfAll DEF collect, Running
    <2> QED BY <1>2, <2>2, <2>3 DEF collect, WorldOK
  <1>3. ASSUME NEW d \in Deployment, create_deployment(d) \/ delete_deployment(d) PROVE WorldOK'
    BY <1>3 DEF create_deployment, delete_deployment, WorldOK
  <1>4. ASSUME NEW c \in Container, Switch(c) PROVE WorldOK'
    BY <1>4 DEF Switch, WorldOK
  <1>5. ASSUME NEW c \in Container, Move(c) PROVE WorldOK'
    BY <1>5 DEF Move, Running, Off, WorldOK
  <1>6. ASSUME NEW c \in Container, usage(c) PROVE WorldOK'
    BY <1>1, <1>6 DEF usage, Keep
  <1>7. CASE \/ record_host \/ record_filesystems \/ known_deployment_ids \/ running_by_label
             \/ StatsTimeout \/ record_deployments \/ prune \/ Restart
    BY <1>1, <1>7 DEF record_host, record_filesystems, known_deployment_ids, running_by_label,
                      StatsTimeout, record_deployments, prune, Restart, Keep, world
  <1> QED BY <1>1, <1>2, <1>3, <1>4, <1>5, <1>6, <1>7 DEF Next, Sampler, World, vars

\* The totals of a tick are natural numbers, of deployments that are known.
LEMMA TotalsTyped ==
  ASSUME WorldOK, RunOK, Phases, Credited, NEW d \in Deployment
  PROVE  /\ Merged \subseteq known
         /\ Total(d) \in Nat /\ Traffic(d) \in Nat
  <1>1. Merged \subseteq known
    BY DEF Merged, Phases
  <1> DEFINE f == [c \in DOMAIN stats |-> stats[c].total]
             U == Of(d, DOMAIN stats)
  <1>2. IsFiniteSet(U) /\ U \subseteq DOMAIN stats
    BY FiniteContainers, FS_Subset DEF RunOK, Of
  <1>3. \A c \in U : f[c] \in Nat
    BY <1>2 DEF RunOK
  <1>4. Total(d) = Sum(f, U)
    BY DEF Total, Sum
  <1> HIDE DEF f, U
  <1>5. Total(d) \in Nat
    <2>1. U \in SUBSET U
      OBVIOUS
    <2> QED BY <1>2, <1>3, <1>4, <2>1, SumValue
  <1>6. Traffic(d) \in Nat
    BY <1>5 DEF Traffic, Sub, RunOK
  <1> QED BY <1>1, <1>5, <1>6

\* The types of a run's state.
LEMMA RunNext ==
  ASSUME TypeOK, Phases, Credited, [Next]_vars
  PROVE  RunOK'
  <1> USE TypeParts
  <1>0. DOMAIN None = {} /\ {} \subseteq Container
    BY NoneIsEmpty
  <1>1. CASE UNCHANGED sampler
    BY <1>1 DEF sampler, RunOK
  <1>2. CASE Done /\ (UNCHANGED totals \/ totals' = None)
    BY <1>0, <1>2 DEF Done, RunOK, Steps
  <1>3. CASE record_host
    BY <1>2, <1>3 DEF record_host, RunOK, Steps
  <1>4. CASE record_filesystems
    BY <1>2, <1>4 DEF record_filesystems, RunOK, Steps
  <1>5. CASE known_deployment_ids
    <2>1. CASE Done
      BY <1>2, <1>5, <2>1 DEF known_deployment_ids
    <2>2. CASE known' = deployments /\ at' = "list" /\ UNCHANGED <<waiting, stats, batch, faults>>
      <3>1. DOMAIN batch = {}
        BY <1>5 DEF known_deployment_ids, Phases
      <3> QED BY <1>5, <2>2, <3>1 DEF known_deployment_ids, RunOK, WorldOK, Steps
    <2> QED BY <1>5, <2>1, <2>2 DEF known_deployment_ids
  <1>6. CASE running_by_label
    <2>1. DOMAIN stats = {} /\ at' \in Steps
      BY <1>6 DEF running_by_label, Phases, Steps
    <2>2. waiting' \subseteq Container
      BY <1>6 DEF running_by_label, Running, RunOK
    <2> QED BY <1>6, <2>1, <2>2 DEF running_by_label, RunOK
  <1>7. ASSUME NEW c \in Container, usage(c) PROVE RunOK'
    <2>1. UNCHANGED <<at, known, batch, totals>>
      BY <1>7 DEF usage
    <2> QED BY <1>7, <2>1, UsageEffect DEF RunOK
  <1>8. CASE StatsTimeout
    BY <1>0, <1>8 DEF StatsTimeout, RunOK, Steps
  <1>9. CASE collect
    <2>1. Merged \subseteq known /\ known \subseteq Deployment
      BY TotalsTyped, OwnerOfAll DEF RunOK, Merged, Phases
    <2>2. \A d \in Merged : Total(d) \in Nat /\ Traffic(d) \in Nat
      BY <2>1, TotalsTyped
    <2>3. /\ DOMAIN batch' = Merged /\ \A d \in Merged : batch'[d] = Traffic(d)
          /\ DOMAIN totals' = Merged /\ \A d \in Merged : totals'[d] = Total(d)
      BY <1>9 DEF collect
    <2>4. DOMAIN stats' = {} /\ at' \in Steps /\ UNCHANGED <<known, waiting>>
      BY <1>0, <1>9 DEF collect, Steps
    <2> QED BY <2>1, <2>2, <2>3, <2>4 DEF RunOK
  <1>10. CASE record_deployments
    BY <1>0, <1>2, <1>10 DEF record_deployments, RunOK, Steps
  <1>11. CASE prune
    BY <1>2, <1>11 DEF prune
  <1>12. CASE Restart
    BY <1>2, <1>12 DEF Restart
  <1>13. CASE World
    BY <1>1, <1>13 DEF World, create_deployment, delete_deployment, Switch, Move
  <1> QED BY <1>1, <1>3, <1>4, <1>5, <1>6, <1>7, <1>8, <1>9, <1>10, <1>11, <1>12, <1>13
          DEF Next, Sampler, vars, sampler

\* What a run has at hand is of the step it is at.
LEMMA PhasesNext ==
  ASSUME TypeOK, Phases, [Next]_vars
  PROVE  Phases'
  <1> USE TypeParts
  <1>0. DOMAIN None = {}
    BY NoneIsEmpty
  <1>1. CASE UNCHANGED sampler
    BY <1>1 DEF sampler, Phases
  <1>2. CASE Done
    BY <1>0, <1>2 DEF Done, Phases
  <1>3. CASE record_host \/ record_filesystems \/ known_deployment_ids
    <2>1. CASE UNCHANGED <<waiting, stats, batch>> /\ at' \in {"filesystems", "known", "list"}
      <3>1. waiting = {} /\ DOMAIN stats = {} /\ DOMAIN batch = {}
        BY <1>3 DEF record_host, record_filesystems, known_deployment_ids, Phases
      <3> QED BY <2>1, <3>1 DEF Phases
    <2> QED BY <1>2, <1>3, <2>1 DEF record_host, record_filesystems, known_deployment_ids
  <1>4. CASE running_by_label
    <2>1. waiting = {} /\ DOMAIN stats = {} /\ DOMAIN batch = {}
      BY <1>4 DEF running_by_label, Phases
    <2>2. UNCHANGED <<known, stats, batch>>
      BY <1>4 DEF running_by_label
    <2>3. \/ waiting' = {c \in Running : Owner[c] \in known} /\ at' = "read"
          \/ waiting' = waiting /\ at' = "prune"
      BY <1>4 DEF running_by_label
    <2> QED BY <2>1, <2>2, <2>3 DEF Phases
  <1>5. ASSUME NEW c \in Container, usage(c) PROVE Phases'
    <2>1. UNCHANGED <<at, known, batch>>
      BY <1>5 DEF usage
    <2>2. at = "read" /\ c \in waiting /\ waiting' = waiting \ {c}
      BY <1>5, UsageEffect
    <2>3. DOMAIN stats' \subseteq DOMAIN stats \union {c}
      BY <1>5, UsageEffect
    <2> QED BY <2>1, <2>2, <2>3 DEF Phases
  <1>6. CASE StatsTimeout
    BY <1>0, <1>6 DEF StatsTimeout, Phases
  <1>7. CASE collect
    BY <1>0, <1>7 DEF collect, Phases
  <1>8. CASE record_deployments
    <2>1. CASE Done
      BY <1>2, <2>1
    <2>2. CASE at' = "prune" /\ batch' = None /\ UNCHANGED <<known, waiting, stats>>
      BY <1>0, <1>8, <2>2 DEF record_deployments, Phases
    <2> QED BY <1>8, <2>1, <2>2 DEF record_deployments
  <1>9. CASE prune \/ Restart
    BY <1>2, <1>9 DEF prune, Restart
  <1>10. CASE World
    BY <1>1, <1>10 DEF World, create_deployment, delete_deployment, Switch, Move
  <1> QED BY <1>1, <1>3, <1>4, <1>5, <1>6, <1>7, <1>8, <1>9, <1>10 DEF Next, Sampler, vars, sampler

\* What a container has moved in all and not been counted for only grows by
\* what it moves: a start and a stop take its counter back.
LEMMA UncountedNext ==
  ASSUME WorldOK, World, NEW b \in Container
  PROVE  /\ unread[b] <= unread'[b]
         /\ \A n \in Int : n >= -unread[b] /\ counter[b] - unread[b] <= n
                              => counter'[b] - unread'[b] <= n
  <1>0. counter[b] \in Nat \union {Off} /\ unread[b] \in Nat
    BY DEF WorldOK
  <1>1. ASSUME NEW d \in Deployment, create_deployment(d) \/ delete_deployment(d)
        PROVE  UNCHANGED <<counter, unread>>
    BY <1>1 DEF create_deployment, delete_deployment
  <1>2. ASSUME NEW c \in Container, Switch(c)
        PROVE  unread' = unread /\ (counter'[b] = counter[b] \/ counter'[b] = 0 \/ counter'[b] = Off)
    BY <1>2 DEF Switch, WorldOK
  <1>3. ASSUME NEW c \in Container, Move(c)
        PROVE  \/ unread'[b] = unread[b] /\ counter'[b] = counter[b]
               \/ unread'[b] = unread[b] + 1 /\ counter'[b] = counter[b] + 1
    BY <1>3 DEF Move, WorldOK
  <1>4. \/ unread'[b] = unread[b] /\ (counter'[b] = counter[b] \/ counter'[b] = 0 \/ counter'[b] = Off)
        \/ unread'[b] = unread[b] + 1 /\ counter'[b] = counter[b] + 1
    BY <1>1, <1>2, <1>3 DEF World
  <1> QED BY <1>0, <1>4 DEF Off

\* What was read stays covered by what has been moved since.
LEMMA CreditedNext ==
  ASSUME TypeOK, Credited, [Next]_vars
  PROVE  Credited'
  <1> USE TypeParts
  <1>0. DOMAIN None = {}
    BY NoneIsEmpty
  <1>1. CASE UNCHANGED <<counter, unread, stats>>
    BY <1>1 DEF Credited
  <1>2. CASE stats' = None
    BY <1>0, <1>2 DEF Credited
  <1>3. ASSUME NEW c \in Container, usage(c) PROVE Credited'
    <2>1. UNCHANGED <<counter, unread>>
      BY <1>3 DEF usage, Keep
    <2>2. CASE stats' = stats
      BY <1>1, <2>1, <2>2
    <2>3. CASE stats' # stats
      <3>1. /\ DOMAIN stats' = DOMAIN stats \union {c}
            /\ \A b \in DOMAIN stats : stats'[b] = stats[b]
            /\ stats'[c].credit = unread[c]
            /\ stats'[c].total \in Nat /\ counter[c] <= stats'[c].total
        BY <1>3, <2>3, UsageEffect
      <3>2. unread[c] \in Nat /\ counter[c] \in Int /\ c \notin DOMAIN stats
        BY <1>3 DEF WorldOK, RunOK, Off, usage
      <3>3. counter[c] - unread[c] <= stats'[c].total - stats'[c].credit
        BY <3>1, <3>2
      <3> QED BY <2>1, <3>1, <3>2, <3>3 DEF Credited
    <2> QED BY <2>2, <2>3
  <1>4. CASE World
    <2>1. stats' = stats
      BY <1>4 DEF World, create_deployment, delete_deployment, Switch, Move, sampler
    <2>2. ASSUME NEW b \in DOMAIN stats
          PROVE  /\ stats[b].credit <= unread'[b]
                 /\ counter'[b] - unread'[b] <= stats[b].total - stats[b].credit
      <3> DEFINE n == stats[b].total - stats[b].credit
      <3>1. /\ b \in Container /\ unread[b] \in Nat
            /\ stats[b].total \in Nat /\ stats[b].credit \in Nat /\ stats[b].credit <= unread[b]
            /\ counter[b] - unread[b] <= n
        BY DEF Credited, RunOK, WorldOK
      <3>2. n \in Int /\ n >= -unread[b]
        BY <3>1
      <3> HIDE DEF n
      <3>3. unread[b] <= unread'[b] /\ counter'[b] - unread'[b] <= n
        BY <1>4, <3>1, <3>2, UncountedNext
      <3>4. unread'[b] \in Nat
        BY <3>1, WorldNext DEF WorldOK
      <3> QED BY <3>1, <3>3, <3>4 DEF n
    <2> QED BY <2>1, <2>2 DEF Credited
  <1>5. CASE record_host \/ record_filesystems \/ known_deployment_ids \/ record_deployments \/ prune
    BY <1>1, <1>2, <1>5 DEF record_host, record_filesystems, known_deployment_ids, record_deployments,
                            prune, Done, Keep
  <1>6. CASE running_by_label \/ StatsTimeout \/ collect \/ Restart
    BY <1>1, <1>2, <1>6 DEF running_by_label, StatsTimeout, collect, Restart, Done, Keep
  <1> QED BY <1>1, <1>3, <1>4, <1>5, <1>6 DEF Next, Sampler, vars

\* The total a tick leaves is as counted, for every deployment none of whose
\* containers was missed.
LEMMA CollectCounts ==
  ASSUME TypeOK, Credited, collect
  PROVE  Counted'
  <1> USE TypeParts
  <1> SUFFICES ASSUME NEW d \in DOMAIN totals' \ missed'
               PROVE  \E t : CountedAs(d, t)'
    BY DEF Counted
  <1> DEFINE t == [c \in Container |-> IF c \in DOMAIN stats THEN stats[c].total ELSE 0]
             f == [c \in DOMAIN stats |-> stats[c].total]
             U == Of(d, DOMAIN stats)
             S == Of(d, Container)
  <1>1. t \in [Container -> Nat]
    BY DEF RunOK
  <1>2. totals'[d] = Sum(t, S)
    <2>1. d \in Merged /\ totals'[d] = Total(d)
      BY DEF collect
    <2>2. Total(d) = Sum(f, U)
      BY DEF Total, Sum
    <2>3. IsFiniteSet(S) /\ U \in SUBSET S
      BY FiniteContainers, FS_Subset DEF RunOK, Of
    <2>4. \A x \in U : f[x] \in Nat
      BY DEF RunOK, Of
    <2>5. \A x \in S : t[x] = IF x \in U THEN f[x] ELSE 0
      BY DEF Of
    <2> HIDE DEF t, f, U, S
    <2>6. Sum(f, U) = Sum(t, S)
      BY <2>3, <2>4, <2>5, SumPart
    <2> QED BY <2>1, <2>2, <2>6
  <1>3. ASSUME NEW c \in S PROVE counter'[c] - unread'[c] <= t[c]
    <2>1. c \in Container /\ Owner[c] = d /\ counter[c] \in Nat \union {Off} /\ unread[c] \in Nat
      BY DEF Of, WorldOK
    <2>2. counter'[c] = counter[c]
      BY DEF collect
    <2>3. CASE c \in DOMAIN stats
      <3>1. unread'[c] = unread[c] - stats[c].credit /\ t[c] = stats[c].total
        BY <2>1, <2>3 DEF collect
      <3>2. /\ stats[c].credit \in Nat /\ stats[c].total \in Nat
            /\ counter[c] - unread[c] <= stats[c].total - stats[c].credit
        BY <2>3 DEF Credited, RunOK
      <3> HIDE DEF t
      <3> QED BY <2>1, <2>2, <3>1, <3>2 DEF Off
    <2>4. CASE c \notin DOMAIN stats
      <3>1. unread'[c] = unread[c] /\ t[c] = 0
        BY <2>1, <2>4 DEF collect
      <3>2. counter[c] = Off
        <4>1. d \notin {Owner[b] : b \in Running \ DOMAIN stats}
          BY DEF collect
        <4> QED BY <2>1, <2>4, <4>1 DEF Running
      <3> HIDE DEF t
      <3> QED BY <2>1, <2>2, <3>1, <3>2 DEF Off
    <2> QED BY <2>3, <2>4
  <1>4. DOMAIN stats' = {}
    BY NoneIsEmpty DEF collect
  <1> HIDE DEF t
  <1>5. /\ t \in [Container -> Nat] /\ totals'[d] = Sum(t, S)
        /\ \A c \in S : /\ counter'[c] - unread'[c] <= t[c]
                        /\ c \in DOMAIN stats' => stats'[c].total - stats'[c].credit <= t[c]
    BY <1>1, <1>2, <1>3, <1>4
  <1> QED BY <1>5 DEF CountedAs

\* Until the next tick's totals, what a deployment was counted as stays so.
LEMMA CountedNext ==
  ASSUME TypeOK, Credited, Counted, [Next]_vars
  PROVE  Counted'
  <1> USE TypeParts
  <1>0. DOMAIN None = {}
    BY NoneIsEmpty
  <1>1. CASE collect
    BY <1>1, CollectCounts
  <1>2. CASE totals' = None
    BY <1>0, <1>2 DEF Counted
  <1>3. CASE UNCHANGED <<totals, missed, counter, unread, stats>>
    BY <1>3 DEF Counted, CountedAs
  <1>4. CASE UNCHANGED <<totals, missed, counter, unread>> /\ stats' = None
    BY <1>0, <1>4 DEF Counted, CountedAs
  <1>5. ASSUME NEW c \in Container, usage(c) PROVE Counted'
    <2>1. UNCHANGED <<totals, missed, counter, unread>>
      BY <1>5 DEF usage, Keep
    <2>2. CASE stats' = stats
      BY <1>3, <2>1, <2>2
    <2>3. CASE stats' # stats
      <3> SUFFICES ASSUME NEW d \in DOMAIN totals \ missed, NEW t, CountedAs(d, t)
                   PROVE  CountedAs(d, t)'
        BY <2>1 DEF Counted
      <3>1. /\ DOMAIN stats' = DOMAIN stats \union {c}
            /\ \A b \in DOMAIN stats : stats'[b] = stats[b]
            /\ stats'[c].credit = unread[c]
            /\ stats'[c].total = 0 \/ stats'[c].total = counter[c]
        BY <1>5, <2>3, UsageEffect
      <3>2. ASSUME NEW b \in Of(d, Container), b \in DOMAIN stats'
            PROVE  stats'[b].total - stats'[b].credit <= t[b]
        <4>1. CASE b \in DOMAIN stats
          BY <3>1, <4>1 DEF CountedAs
        <4>2. CASE b = c
          <5>1. unread[c] \in Nat /\ t[c] \in Nat /\ counter[c] - unread[c] <= t[c]
            BY <4>2 DEF WorldOK, CountedAs
          <5> QED BY <3>1, <4>2, <5>1
        <4> QED BY <3>1, <3>2, <4>1, <4>2
      <3> QED BY <2>1, <3>2 DEF CountedAs
    <2> QED BY <2>2, <2>3
  <1>6. CASE World
    <2>1. UNCHANGED <<totals, missed, stats>>
      BY <1>6 DEF World, create_deployment, delete_deployment, Switch, Move, sampler
    <2> SUFFICES ASSUME NEW d \in DOMAIN totals \ missed, NEW t, CountedAs(d, t)
                 PROVE  CountedAs(d, t)'
      BY <2>1 DEF Counted
    <2>2. ASSUME NEW b \in Of(d, Container) PROVE counter'[b] - unread'[b] <= t[b]
      <3>1. b \in Container /\ t[b] \in Nat /\ unread[b] \in Nat /\ counter[b] - unread[b] <= t[b]
        BY DEF CountedAs, Of, WorldOK
      <3>2. t[b] \in Int /\ t[b] >= -unread[b]
        BY <3>1
      <3> QED BY <1>6, <3>1, <3>2, UncountedNext
    <2> QED BY <2>1, <2>2 DEF CountedAs
  <1>7. CASE record_host \/ record_filesystems \/ known_deployment_ids \/ record_deployments \/ prune
    BY <1>3, <1>4, <1>7 DEF record_host, record_filesystems, known_deployment_ids, record_deployments,
                            prune, Done, Keep
  <1>8. CASE running_by_label \/ StatsTimeout \/ Restart
    BY <1>2, <1>3, <1>4, <1>8 DEF running_by_label, StatsTimeout, Restart, Keep
  <1> QED BY <1>1, <1>3, <1>5, <1>6, <1>7, <1>8 DEF Next, Sampler, vars

\* The four together are inductive.
LEMMA MetricsInvariant == Spec => []MetricsInv
  <1>1. Init => MetricsInv
    <2> SUFFICES ASSUME Init PROVE MetricsInv
      OBVIOUS
    <2>1. DOMAIN None = {} /\ DOMAIN totals = {} /\ DOMAIN stats = {} /\ DOMAIN batch = {}
      BY NoneIsEmpty DEF Init
    <2>2. WorldOK /\ CountsOK
      BY MetricsBounds DEF Init, WorldOK, CountsOK
    <2>3. SamplesOK /\ RunOK
      BY <2>1 DEF Init, SamplesOK, RunOK, Steps, Series
    <2>4. Phases /\ Credited /\ Counted
      BY <2>1 DEF Init, Phases, Credited, Counted
    <2> QED BY <2>2, <2>3, <2>4, TypeParts DEF MetricsInv
  <1>2. MetricsInv /\ [Next]_vars => MetricsInv'
    <2> SUFFICES ASSUME MetricsInv, [Next]_vars PROVE MetricsInv'
      OBVIOUS
    <2>1. TypeOK /\ Phases /\ Credited /\ Counted
      BY DEF MetricsInv
    <2>2. WorldOK' /\ SamplesOK' /\ RunOK' /\ CountsOK'
      BY <2>1, WorldNext, SamplesNext, RunNext, CountsNext
    <2>3. TypeOK'
      BY <2>2 DEF TypeOK, WorldOK, SamplesOK, RunOK, CountsOK
    <2>4. Phases' /\ Credited' /\ Counted'
      BY <2>1, PhasesNext, CreditedNext, CountedNext
    <2> QED BY <2>3, <2>4 DEF MetricsInv
  <1> QED BY <1>1, <1>2, PTL DEF Spec

\* Whatever is created, deleted, started and moved between its awaits, and
\* wherever it fails or is restarted, the sampler's state is of its types, and
\* every row of samples is of a deployment that has its row (the series'
\* foreign keys, record_deployments and delete_deployment).
THEOREM MetricsTypeCorrect == Spec => []TypeOK
  BY MetricsInvariant, PTL DEF MetricsInv

\* No more traffic is reported of a deployment in a tick than its containers
\* have moved since they were counted last, whatever is restarted, replaced or
\* run side by side (Collector::deployments), if the tick before missed none.
THEOREM TrafficIsMoved == Spec => TrafficMoved
  <1>1. ASSUME MetricsInv, collect, NEW d \in DOMAIN batch', d \notin missed
        PROVE  batch'[d] <= Credit(d)
    <2> USE TypeParts
    <2>1. TypeOK /\ Phases /\ Credited /\ Counted
      BY <1>1 DEF MetricsInv
    <2>2. d \in Merged /\ batch'[d] = Traffic(d)
      BY <1>1 DEF collect
    <2>3. d \in Deployment
      BY <2>1, <2>2, OwnerOfAll DEF Merged, RunOK
    <2>4. Total(d) \in Nat
      BY <2>1, <2>3, TotalsTyped
    <2> DEFINE U == Of(d, DOMAIN stats)
               S == Of(d, Container)
               f == [c \in DOMAIN stats |-> stats[c].total]
               g == [c \in DOMAIN stats |-> stats[c].credit]
               e == [c \in Container |-> IF c \in DOMAIN stats THEN stats[c].total ELSE 0]
               h == [c \in Container |-> IF c \in DOMAIN stats THEN stats[c].credit ELSE 0]
    <2>5. IsFiniteSet(S) /\ U \in SUBSET S
      BY <2>1, FiniteContainers, FS_Subset DEF RunOK, Of
    <2>6. ASSUME NEW c \in U
          PROVE  /\ c \in DOMAIN stats /\ stats[c].total \in Nat /\ stats[c].credit \in Nat
      BY <2>1 DEF Of, RunOK, Credited
    <2>7. \A c \in S : /\ e[c] = IF c \in U THEN f[c] ELSE 0
                       /\ h[c] = IF c \in U THEN g[c] ELSE 0
      BY DEF Of
    <2>8. /\ \A c \in U : f[c] \in Nat /\ g[c] \in Nat
          /\ \A c \in S : e[c] \in Nat /\ h[c] \in Nat
      BY <2>6 DEF Of
    <2>9. Total(d) = Sum(f, U) /\ Credit(d) = Sum(g, U)
      BY DEF Total, Credit, Sum
    <2> HIDE DEF f, g, U
    <2>10. Sum(f, U) = Sum(e, S) /\ Sum(g, U) = Sum(h, S)
      <3> HIDE DEF e, h, S
      <3> QED BY <2>5, <2>7, <2>8, SumPart
    <2>11. Credit(d) \in Nat
      <3> HIDE DEF e, h, S
      <3>1. S \in SUBSET S
        OBVIOUS
      <3> QED BY <2>5, <2>8, <2>9, <2>10, <3>1, SumValue
    <2>12. CASE d \in DOMAIN totals
      <3>1. PICK t : CountedAs(d, t)
        BY <1>1, <2>1, <2>12 DEF Counted
      <3>2. ASSUME NEW c \in S PROVE t[c] \in Nat /\ e[c] <= h[c] + t[c]
        <4>1. c \in Container /\ t[c] \in Nat
          BY <3>1 DEF CountedAs, Of
        <4>2. CASE c \in DOMAIN stats
          <5>1. stats[c].total - stats[c].credit <= t[c]
            BY <3>1, <4>2 DEF CountedAs
          <5>2. stats[c].total \in Nat /\ stats[c].credit \in Nat
            BY <2>1, <4>2 DEF RunOK, Credited
          <5> QED BY <4>1, <4>2, <5>1, <5>2
        <4>3. CASE c \notin DOMAIN stats
          BY <4>1, <4>3
        <4> QED BY <4>1, <4>2, <4>3
      <3>3. totals[d] = Sum(t, S) /\ totals[d] \in Nat
        BY <2>1, <2>12, <3>1 DEF CountedAs, RunOK
      <3> HIDE DEF e, h, S
      <3>4. Sum(e, S) <= Sum(h, S) + Sum(t, S)
        BY <2>5, <2>8, <3>2, SumBounded
      <3>5. Total(d) <= Credit(d) + totals[d]
        BY <2>9, <2>10, <3>3, <3>4
      <3>6. Traffic(d) = Sub(Total(d), totals[d])
        BY <2>12 DEF Traffic
      <3> QED BY <2>2, <2>4, <2>11, <3>3, <3>5, <3>6 DEF Sub
    <2>13. CASE d \notin DOMAIN totals
      <3>1. Traffic(d) = Sub(Total(d), Total(d))
        BY <2>13 DEF Traffic
      <3> QED BY <2>2, <2>4, <2>11, <3>1 DEF Sub
    <2> QED BY <2>12, <2>13
  <1>2. MetricsInv /\ [Next]_vars
          => [collect => \A d \in DOMAIN batch' : batch'[d] <= Credit(d) \/ d \in missed]_vars
    BY <1>1
  <1> QED BY <1>2, MetricsInvariant, PTL DEF Spec, TrafficMoved
=============================================================================
