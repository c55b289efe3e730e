------------------------ MODULE MonitorIntervalProofs ------------------------
(***************************************************************************)
(* IntervalBounded and HeavierLoadSleepsLess for all limits of the         *)
(* interval, every threshold, and any number of tasks and workers.         *)
(***************************************************************************)
EXTENDS MonitorInterval, DivisionLemmas, TLAPS

-----------------------------------------------------------------------------
(* Truncation of an exact quotient, and toward zero of any other: between  *)
(* two multiples of b.                                                     *)
LEMMA TruncateBounds ==
  ASSUME NEW a \in Int, NEW b \in Nat \ {0}, NEW lo \in Int, NEW hi \in Int,
         b * lo <= a, a <= b * hi
  PROVE  /\ Truncate(a, b) \in Int
         /\ lo <= Truncate(a, b)
         /\ Truncate(a, b) <= hi \/ Truncate(a, b) <= 0
<1>1. CASE a >= 0
  <2>0. a \in Nat
    BY <1>1
  <2>1. /\ a \div b \in Nat /\ a % b \in 0 .. b - 1
        /\ a = b * (a \div b) + (a % b)
    BY <2>0, DivFacts, Zenon
  <2>2. PICK q \in Nat : q = a \div b
    BY <2>1
  <2>3. PICK m \in 0 .. b - 1 : m = a % b
    BY <2>1
  <2>4. a = b * q + m
    BY <2>1, <2>2, <2>3
  <2>5. b * q \in Int /\ b * lo \in Int /\ b * hi \in Int
    BY Distributes
  <2>6. b * q <= b * hi /\ b * lo < b * q + b
    BY <2>4, <2>5
  <2>7. q <= hi /\ lo <= q
    BY <2>6, AtMost, AtLeast
  <2> QED BY <1>1, <2>2, <2>7 DEF Truncate
<1>2. CASE a < 0
  <2> DEFINE e == -a
  <2>0. e \in Nat
    BY <1>2
  <2>1. /\ e \div b \in Nat /\ e % b \in 0 .. b - 1
        /\ e = b * (e \div b) + (e % b)
    BY <2>0, DivFacts, Zenon
  <2>2. PICK q \in Nat : q = e \div b
    BY <2>1
  <2>3. PICK m \in 0 .. b - 1 : m = e % b
    BY <2>1
  <2>4. e = b * q + m
    BY <2>1, <2>2, <2>3
  <2>5. b * q \in Int /\ b * lo \in Int /\ b * (-lo) = -(b * lo)
    BY Distributes
  <2>6. b * q <= b * (-lo)
    BY <2>4, <2>5
  <2>7. q <= -lo
    BY <2>6, AtMost
  <2>8. Truncate(a, b) = -q
    BY <1>2, <2>2 DEF Truncate
  <2> QED BY <2>7, <2>8
<1> QED BY <1>1, <1>2

LEMMA DivFactsInt ==
  ASSUME NEW a \in Int, NEW b \in Nat \ {0}
  PROVE  /\ a \div b \in Int /\ a % b \in 0 .. b - 1
         /\ a = b * (a \div b) + (a % b)
OBVIOUS

LEMMA TruncateExact ==
  ASSUME NEW a \in Int, NEW b \in Nat \ {0}, a % b = 0
  PROVE  Truncate(a, b) \in Int /\ b * Truncate(a, b) = a
<1>1. PICK k \in Int : k = a \div b
  BY DivFactsInt, Zenon
<1>2. a = b * k
  <2>1. a = b * (a \div b) + (a % b)
    BY DivFactsInt, Zenon
  <2>2. b * k \in Int
    BY Distributes
  <2> QED BY <1>1, <2>1, <2>2
<1>3. CASE a >= 0
  BY <1>1, <1>2, <1>3 DEF Truncate
<1>4. CASE a < 0
  <2> DEFINE e == -a
  <2>0. e \in Nat
    BY <1>4
  <2>1. /\ e \div b \in Nat /\ e % b \in 0 .. b - 1
        /\ e = b * (e \div b) + (e % b)
    BY <2>0, DivFacts, Zenon
  <2>2. PICK q \in Nat : q = e \div b
    BY <2>1
  <2>3. PICK m \in 0 .. b - 1 : m = e % b
    BY <2>1
  <2>4. e = b * q + m
    BY <2>1, <2>2, <2>3
  <2>5. b * q \in Int /\ b * (-k) = -(b * k) /\ b * k \in Int
    BY Distributes
  <2>6. b * q <= b * (-k) /\ b * (-k) < b * q + b
    BY <1>2, <2>4, <2>5
  <2>7. q = -k
    BY <2>6, AtMost, AtLeast
  <2> QED BY <1>2, <1>4, <2>2, <2>7 DEF Truncate
<1> QED BY <1>3, <1>4

LEMMA NoMultiple ==
  ASSUME NEW a \in Nat, NEW b \in Nat \ {0}, NEW k \in Nat, a % b # 0
  PROVE  a # b * k
<1> SUFFICES ASSUME a = b * k PROVE FALSE
  OBVIOUS
<1>1. /\ a \div b \in Nat /\ a % b \in 0 .. b - 1
      /\ a = b * (a \div b) + (a % b)
  BY DivFacts, Zenon
<1>2. PICK q \in Nat : q = a \div b
  BY <1>1
<1>3. PICK m \in 0 .. b - 1 : m = a % b
  BY <1>1
<1>4. a = b * q + m /\ m > 0
  BY <1>1, <1>2, <1>3
<1>5. b * q \in Int /\ b * k \in Int
  BY Distributes
<1>6. b * q <= b * k /\ b * k < b * q + b
  BY <1>4, <1>5
<1>7. q = k
  BY <1>6, AtMost, AtLeast
<1> QED BY <1>4, <1>5, <1>7

-----------------------------------------------------------------------------
(* What AdjustCheckInterval may come to for tc tasks and th workers. *)

Bounded(n, tc, th) ==
  /\ n <= MaxInterval
  /\ n < MinInterval => th < tc /\ tc <= ExpandThreshold * th
  /\ n >= MinInterval - (ExpandThreshold - 1) * (MaxInterval - MinInterval)

Lower == MinInterval - (ExpandThreshold - 1) * (MaxInterval - MinInterval)

LEMMA Limits ==
  /\ Lower \in Int /\ Lower <= MinInterval
  /\ MinInterval \in Nat /\ MaxInterval \in Nat /\ MinInterval < MaxInterval
  /\ ExpandThreshold \in Nat \ {0}
<1>1. ExpandThreshold - 1 \in Nat /\ MaxInterval - MinInterval \in Nat
  BY IntervalAssumption
<1>2. \A x, y \in Nat : x * y \in Nat
  OBVIOUS
<1>3. (ExpandThreshold - 1) * (MaxInterval - MinInterval) \in Nat
  BY <1>1, <1>2
<1> HIDE <1>2
<1> QED BY <1>3, IntervalAssumption DEF Lower

(* The numerator lies between th times the lower limit and th times the    *)
(* upper limit; with more tasks than workers nothing better is known.      *)
LEMMA NumeratorBounds ==
  ASSUME NEW tc \in Nat \ {0}, NEW th \in Nat \ {0}, tc <= ExpandThreshold * th
  PROVE  /\ Numerator(tc, th) \in Int
         /\ th * Lower <= Numerator(tc, th)
         /\ Numerator(tc, th) < th * MaxInterval
         /\ tc < ExpandThreshold * th => th * Lower < Numerator(tc, th)
         /\ tc <= th => th * MinInterval <= Numerator(tc, th)
         /\ tc < th => th * MinInterval < Numerator(tc, th)
<1> DEFINE D == MaxInterval - MinInterval
           E == ExpandThreshold
<1>1. /\ D \in Nat \ {0} /\ E \in Nat \ {0} /\ MinInterval \in Nat
      /\ MaxInterval = MinInterval + D
  BY IntervalAssumption
<1>2. Numerator(tc, th) = MinInterval * th + D * (th - tc)
  BY DEF Numerator
<1>3. Lower = MinInterval - (E - 1) * D
  BY DEF Lower
<1> HIDE DEF D, E
<1>4. /\ D * (th - tc) = D * th - D * tc
      /\ (E - 1) * D = E * D - D
      /\ MinInterval * th \in Int /\ D * th \in Int /\ D * tc \in Int /\ E * D \in Int
  BY <1>1
<1>5. /\ th * Lower = MinInterval * th - (th * (E * D) - D * th)
      /\ th * MaxInterval = MinInterval * th + D * th
      /\ th * MinInterval = MinInterval * th
  BY <1>1, <1>3, <1>4
<1>6. th * (E * D) = D * (E * th) /\ E * th \in Int /\ D * (E * th) \in Int
  BY <1>1
<1>7. D * tc > 0
  BY <1>1
<1>8. tc <= E * th
  BY DEF E
<1>9. D * tc <= D * (E * th) /\ (tc < E * th => D * tc < D * (E * th))
  BY <1>1, <1>6, <1>8
<1>10. (tc <= th => D * tc <= D * th) /\ (tc < th => D * tc < D * th)
  BY <1>1
<1>11. tc < ExpandThreshold * th => D * tc < D * (E * th)
  BY <1>9 DEF E
<1> QED BY <1>2, <1>4, <1>5, <1>6, <1>7, <1>9, <1>10, <1>11

LEMMA InterpolatedBounded ==
  ASSUME NEW tc \in Nat \ {0}, NEW th \in Nat \ {0}, tc <= ExpandThreshold * th,
         NEW n \in Interpolated(tc, th)
  PROVE  n \in Int /\ Bounded(n, tc, th)
<1>1. PICK a \in Int : a = Numerator(tc, th)
  BY NumeratorBounds, Zenon
<1>2. PICK t : t = Truncate(a, th)
  OBVIOUS
<1>3. /\ th * Lower <= a /\ a < th * MaxInterval
      /\ tc < ExpandThreshold * th => th * Lower < a
      /\ tc <= th => th * MinInterval <= a
      /\ tc < th => th * MinInterval < a
  BY <1>1, NumeratorBounds, Zenon
<1>4. th * Lower \in Int /\ th * MaxInterval \in Int /\ th * MinInterval \in Int
  BY Limits, Distributes, IntervalAssumption
<1>5. t \in Int /\ Lower <= t /\ t <= MaxInterval
  <2>1. a <= th * MaxInterval
    BY <1>3, <1>4
  <2>2. Lower \in Int /\ MaxInterval \in Int /\ th * Lower <= a
    BY <1>3, Limits
  <2>3. /\ Truncate(a, th) \in Int /\ Lower <= Truncate(a, th)
        /\ Truncate(a, th) <= MaxInterval \/ Truncate(a, th) <= 0
    BY <2>1, <2>2, TruncateBounds, Zenon
  <2> QED BY <1>2, <2>3, Limits
<1>6. ASSUME tc <= th PROVE MinInterval <= t
  <2>1. /\ MinInterval \in Int /\ MaxInterval \in Int
        /\ th * MinInterval <= a /\ a <= th * MaxInterval
    BY <1>3, <1>4, <1>6, Limits
  <2>2. MinInterval <= Truncate(a, th)
    BY <2>1, TruncateBounds, Zenon
  <2> QED BY <1>2, <2>2
<1>7. CASE n = t
  BY <1>5, <1>6, <1>7, Limits DEF Bounded, Lower
<1>8. CASE n # t
  <2>1. tc % th # 0 /\ a % th = 0 /\ n = NearerToZero(t)
    BY <1>1, <1>2, <1>8 DEF Interpolated
  <2>2. th * t = a
    BY <1>2, <2>1, TruncateExact
  <2>3. tc # th * ExpandThreshold /\ tc # th * 1
    BY <2>1, NoMultiple, Limits
  <2>4. tc < ExpandThreshold * th /\ tc # th
    BY <2>3, Limits, Distributes
  <2>5. Lower + 1 <= t
    <3>1. th * Lower < th * t
      BY <1>3, <2>2, <2>4
    <3>2. th * (Lower + 1) < th * t + th
      BY <1>4, <1>5, <3>1, Limits, Distributes
    <3> QED BY <1>5, <3>2, Limits, AtLeast
  <2>6. tc < th => MinInterval + 1 <= t
    <3> SUFFICES ASSUME tc < th PROVE MinInterval + 1 <= t
      OBVIOUS
    <3>1. th * MinInterval < th * t
      BY <1>3, <2>2
    <3>2. th * (MinInterval + 1) < th * t + th
      BY <1>4, <1>5, <3>1, Limits, Distributes
    <3> QED BY <1>5, <3>2, Limits, AtLeast
  <2> QED BY <1>5, <2>1, <2>4, <2>5, <2>6, Limits DEF Bounded, Lower, NearerToZero
<1> QED BY <1>7, <1>8

LEMMA IntervalsBounded ==
  ASSUME NEW tc \in Nat, NEW th \in Nat, NEW n \in Intervals(tc, th)
  PROVE  n \in Int /\ Bounded(n, tc, th)
<1>1. th * ExpandThreshold = ExpandThreshold * th /\ ExpandThreshold * th \in Int
  BY Limits, Distributes
<1>2. CASE tc = 0
  <2>1. \A x, y \in Nat : x * y \in Nat
    OBVIOUS
  <2>2. ~(tc > th * ExpandThreshold)
    <3>1. th * ExpandThreshold \in Nat
      BY <2>1, Limits, Zenon
    <3> QED BY <1>2, <3>1
  <2>3. n = MaxInterval
    BY <1>2, <2>2 DEF Intervals
  <2> QED BY <2>3, Limits DEF Bounded, Lower
<1>3. CASE tc # 0 /\ tc > th * ExpandThreshold
  <2>1. n = MinInterval
    BY <1>3 DEF Intervals
  <2> QED BY <2>1, Limits DEF Bounded, Lower
<1>4. CASE tc # 0 /\ ~(tc > th * ExpandThreshold)
  <2>1. tc <= ExpandThreshold * th
    BY <1>1, <1>4
  <2>2. th # 0
    BY <1>4, Limits
  <2>3. n \in Interpolated(tc, th)
    BY <1>4 DEF Intervals
  <2> QED BY <1>4, <2>1, <2>2, <2>3, InterpolatedBounded
<1> QED BY <1>2, <1>3, <1>4

-----------------------------------------------------------------------------
Counts ==
  /\ taskCount \in Nat /\ threadCount \in Nat
  /\ readTasks \in Nat /\ readThreads \in Nat /\ usedTasks \in Nat

Inv == Counts /\ Bounded(interval, usedTasks, readThreads)

LEMMA InvInit == Init => Inv
<1>1. Init => Counts
  BY IntervalAssumption DEF Init, Counts
<1>2. Init => Bounded(interval, usedTasks, readThreads)
  BY Limits DEF Init, Bounded, Lower
<1> QED BY <1>1, <1>2 DEF Inv

LEMMA InvStep == Inv /\ [Next]_vars => Inv'
<1> SUFFICES ASSUME Inv, [Next]_vars PROVE Inv'
  OBVIOUS
<1>1. ASSUME TasksChange \/ WorkersChange PROVE Inv'
  <2>1. Counts'
    BY <1>1, IntervalAssumption DEF Inv, Counts, TasksChange, WorkersChange
  <2> QED BY <1>1, <2>1 DEF Inv, Bounded, TasksChange, WorkersChange
<1>2. ASSUME ReadTaskCount PROVE Inv'
  BY <1>2 DEF Inv, Counts, Bounded, ReadTaskCount
<1>3. ASSUME AdjustCheckInterval PROVE Inv'
  <2>1. Counts'
    BY <1>3 DEF Inv, Counts, AdjustCheckInterval
  <2>2. /\ interval' \in Intervals(readTasks, threadCount)
        /\ usedTasks' = readTasks /\ readThreads' = threadCount
    BY <1>3 DEF AdjustCheckInterval
  <2>3. Bounded(interval', readTasks, threadCount)
    BY <2>2, IntervalsBounded DEF Inv, Counts
  <2>4. Bounded(interval, usedTasks, readThreads)'
    BY <2>2, <2>3 DEF Bounded
  <2> QED BY <2>1, <2>4 DEF Inv
<1>4. CASE UNCHANGED vars
  BY <1>4 DEF Inv, Counts, Bounded, vars
<1> QED BY <1>1, <1>2, <1>3, <1>4 DEF Next

(* However the counts change between the two reads of AdjustCheckInterval, *)
(* the interval stays below max_check_interval_, leaves the range from     *)
(* below only for one to expand_threshold_ tasks per worker, and then by   *)
(* no more than the last conjunct says: static_cast<int> never overflows.  *)
THEOREM IntervalStaysBounded == Spec => []IntervalBounded
<1>1. Inv => IntervalBounded
  BY DEF Inv, Bounded, IntervalBounded
<1> QED BY InvInit, InvStep, <1>1, PTL DEF Spec

-----------------------------------------------------------------------------
(* The numerator over th, for no more tasks than workers: the interval is  *)
(* its integer part, or the number before it.                              *)
LEMMA WithinOne ==
  ASSUME NEW tc \in Nat, NEW th \in Nat \ {0}, tc <= th, NEW n \in Intervals(tc, th)
  PROVE  /\ n \in Int /\ Numerator(tc, th) \in Int
         /\ th * n <= Numerator(tc, th) /\ Numerator(tc, th) <= th * n + th
<1> DEFINE D == MaxInterval - MinInterval
<1>1. D \in Nat /\ MinInterval \in Nat /\ MaxInterval \in Nat /\ th - tc \in Nat
  BY IntervalAssumption
<1>2. PICK k \in Nat : k = th - tc
  BY <1>1
<1>3. PICK a \in Nat : a = Numerator(tc, th)
  <2>1. \A x, y \in Nat : x * y \in Nat
    OBVIOUS
  <2>2. MinInterval * th \in Nat /\ D * k \in Nat
    BY <1>1, <1>2, <2>1, Zenon
  <2>3. Numerator(tc, th) = MinInterval * th + D * k
    BY <1>2 DEF Numerator
  <2> QED BY <2>2, <2>3
<1> HIDE DEF D
<1>4. CASE tc = 0
  <2>1. ~(tc > th * ExpandThreshold)
    <3>1. \A x, y \in Nat : x * y \in Nat
      OBVIOUS
    <3>2. th * ExpandThreshold \in Nat
      BY <3>1, Limits, Zenon
    <3> QED BY <1>4, <3>2
  <2>2. n = MaxInterval
    BY <1>4, <2>1 DEF Intervals
  <2>3. k = th /\ MaxInterval = MinInterval + D
    BY <1>1, <1>2, <1>4 DEF D
  <2>4. a = MinInterval * th + D * th
    BY <1>2, <1>3, <2>3 DEF Numerator, D
  <2>5. a = th * MaxInterval /\ th * MaxInterval \in Int
    BY <1>1, <2>3, <2>4, Distributes
  <2> QED BY <1>1, <1>3, <2>2, <2>5
<1>5. CASE tc # 0
  <2>1. ~(tc > th * ExpandThreshold)
    <3>1. PICK e \in Nat \ {0} : e = ExpandThreshold
      BY Limits
    <3>2. th * 1 <= th * e
      BY <3>1
    <3>3. th * e \in Int /\ th * 1 = th
      BY <3>1, Distributes
    <3> QED BY <3>1, <3>2, <3>3
  <2>2. n \in Interpolated(tc, th)
    BY <1>5, <2>1 DEF Intervals
  <2>3. PICK q \in Nat, r \in 0 .. th - 1 : q = a \div th /\ r = a % th /\ a = th * q + r
    <3>1. /\ a \div th \in Nat /\ a % th \in 0 .. th - 1
          /\ a = th * (a \div th) + (a % th)
      BY DivFacts, Zenon
    <3> QED BY <3>1
  <2>4. Truncate(a, th) = q
    BY <2>3 DEF Truncate
  <2>5. n = q \/ (r = 0 /\ n = NearerToZero(q))
    BY <1>3, <2>2, <2>3, <2>4 DEF Interpolated
  <2>6. n = q \/ (r = 0 /\ n = q - 1)
    BY <2>5 DEF NearerToZero
  <2>7. /\ th * q \in Int /\ th * (q - 1) = th * q - th
        /\ n \in Int /\ th * n \in Int
    BY <2>3, <2>6, Distributes
  <2>8. PICK y, z \in Int : y = th * q /\ z = th * n
    BY <2>7
  <2>9. z = y \/ (r = 0 /\ z = y - th)
    BY <2>6, <2>7, <2>8
  <2>10. a = y + r
    BY <2>3, <2>8
  <2>11. z <= a /\ a <= z + th
    BY <2>3, <2>8, <2>9, <2>10
  <2> QED BY <1>3, <2>7, <2>8, <2>11
<1> QED BY <1>4, <1>5

LEMMA FewerTasksLongerSleep ==
  ASSUME NEW th \in Nat, NEW tc \in Nat, NEW tc2 \in Nat, tc < tc2, tc2 <= th,
         NEW m \in Intervals(tc, th), NEW n \in Intervals(tc2, th)
  PROVE  /\ n <= m
         /\ (MaxInterval - MinInterval) * (tc2 - tc) > th => n < m
<1> DEFINE D == MaxInterval - MinInterval
<1>1. D \in Nat \ {0} /\ th \in Nat \ {0} /\ tc <= th /\ tc2 - tc \in Nat \ {0}
  BY IntervalAssumption
<1>2. PICK a, b \in Int : a = Numerator(tc, th) /\ b = Numerator(tc2, th)
  BY <1>1, WithinOne
<1>3. /\ m \in Int /\ n \in Int
      /\ a <= th * m + th /\ th * n <= b
  BY <1>1, <1>2, WithinOne
<1>4. PICK x \in Nat \ {0} : x = D * (tc2 - tc)
  <2>1. \A u, v \in Nat \ {0} : u * v \in Nat \ {0}
    OBVIOUS
  <2> QED BY <1>1, <2>1, Zenon
<1>5. a - b = x
  <2>1. MinInterval \in Int
    BY IntervalAssumption
  <2> HIDE DEF D
  <2>2. /\ D * (th - tc) = D * th - D * tc /\ D * (th - tc2) = D * th - D * tc2
        /\ D * (tc2 - tc) = D * tc2 - D * tc
        /\ D * th \in Int /\ D * tc \in Int /\ D * tc2 \in Int
        /\ MinInterval * th \in Int
    BY <1>1, <2>1, Distributes
  <2>3. a = MinInterval * th + D * (th - tc) /\ b = MinInterval * th + D * (th - tc2)
    BY <1>2 DEF Numerator, D
  <2> QED BY <1>4, <2>2, <2>3
<1>6. th * m \in Int /\ th * n \in Int
  BY <1>3, Distributes
<1>7. th * n <= th * m + th - x
  BY <1>1, <1>3, <1>5, <1>6
<1>8. n <= m
  <2>1. th * n < th * m + th
    BY <1>1, <1>4, <1>6, <1>7
  <2> QED BY <1>1, <1>3, <2>1, AtLeast
<1>9. ASSUME x > th PROVE n < m
  <2>1. th * (n + 1) < th * m + th
    BY <1>1, <1>3, <1>4, <1>6, <1>7, <1>9, Distributes
  <2>2. n + 1 <= m
    BY <1>1, <1>3, <2>1, AtLeast
  <2> QED BY <1>3, <2>2
<1> QED BY <1>4, <1>8, <1>9

(* The interval belongs to the counts it was computed from. *)
Adjusted == Counts /\ interval \in Intervals(usedTasks, readThreads)

LEMMA AdjustedInit == Init => Adjusted
<1> SUFFICES ASSUME Init PROVE Adjusted
  OBVIOUS
<1>1. Counts
  BY IntervalAssumption DEF Init, Counts
<1>2. usedTasks = 0 /\ readThreads = 0 /\ interval = MaxInterval /\ ~(0 > 0 * ExpandThreshold)
  BY Limits DEF Init
<1> QED BY <1>1, <1>2 DEF Adjusted, Intervals

LEMMA AdjustedStep == Inv /\ Adjusted /\ [Next]_vars => Adjusted'
<1> SUFFICES ASSUME Inv, Adjusted, [Next]_vars PROVE Adjusted'
  OBVIOUS
<1>1. Counts'
  BY InvStep DEF Inv
<1>2. interval' \in Intervals(usedTasks', readThreads')
  BY DEF Adjusted, Next, TasksChange, WorkersChange, ReadTaskCount, AdjustCheckInterval, vars
<1> QED BY <1>1, <1>2 DEF Adjusted, Intervals, Interpolated

(* Between two adjustments with the same number of workers and no more     *)
(* tasks than workers, more tasks never mean a longer sleep, and a shorter *)
(* one when they move the interval by more than 1 ms: the truncation and   *)
(* the rounding of the double division together cost less than that.       *)
THEOREM HeavierLoadNeverSleepsLonger == Spec => HeavierLoadSleepsLess
<1> DEFINE A == readThreads' = readThreads /\ usedTasks < usedTasks'
                  /\ usedTasks' <= readThreads
                => /\ interval' <= interval
                   /\ (MaxInterval - MinInterval) * (usedTasks' - usedTasks) > readThreads
                        => interval' < interval
<1>1. Adjusted /\ Adjusted' /\ [Next]_vars => [A]_vars
  BY FewerTasksLongerSleep DEF Adjusted, Counts
<1>2. Inv /\ Adjusted /\ [Next]_vars => Adjusted'
  BY AdjustedStep
<1>3. (Spec => [][A]_vars) => (Spec => HeavierLoadSleepsLess)
  BY DEF HeavierLoadSleepsLess
<1> HIDE DEF A
<1> QED BY InvInit, InvStep, AdjustedInit, <1>1, <1>2, <1>3, PTL DEF Spec
=============================================================================
