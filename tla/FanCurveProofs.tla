---------------------------- MODULE FanCurveProofs ----------------------------
(***************************************************************************)
(* Proofs about the fan tables over their whole input range.               *)
(*                                                                         *)
(* What is proved of a LUT holds of every one whose rows overlap or meet   *)
(* (Ladder), what is proved of a track of every one that rises (Rising);   *)
(* the tables in the code are such.                                        *)
(***************************************************************************)
EXTENDS FanCurve, WellFoundedInduction, TLAPS

\* The rows of a LUT rise and leave no degree between them.
Ladder(tbl) ==
    /\ Len(tbl) \in Nat \ {0} /\ DOMAIN tbl = 1..Len(tbl)
    /\ \A j \in 1..Len(tbl) :
          tbl[j].rpm \in 0..255 /\ tbl[j].temp_low \in 0..255 /\ tbl[j].temp_high \in 0..255
    /\ tbl[1].temp_low = 0 /\ tbl[Len(tbl)].temp_high = 255
    /\ \A j \in 1..Len(tbl) - 1 : tbl[j + 1].temp_low <= tbl[j].temp_high
    /\ \A j, k \in 1..Len(tbl) : j <= k => tbl[j].rpm <= tbl[k].rpm

\* A track rises, in speed and in duty.
Rising(t) ==
    /\ Len(t) \in Nat /\ Len(t) >= 2
    /\ \A j \in 1..Len(t) : t[j].rpm \in Nat /\ t[j].pwm \in Nat
    /\ \A j, k \in 1..Len(t) : j < k => t[j].rpm < t[k].rpm /\ t[j].pwm < t[k].pwm

-----------------------------------------------------------------------------
(* Least elements, and quotients.                                          *)

LEMMA MinOfNats ==
  ASSUME NEW S \in SUBSET Nat, S # {}
  PROVE  Min(S) \in S /\ \A y \in S : Min(S) <= y
<1> DEFINE R == OpToRel(<, Nat)
<1>1. PICK m \in S : \A y \in S : ~(<<y, m>> \in R)
  <2>1. IsWellFoundedOn(R, Nat)
    BY NatLessThanWellFounded DEF R
  <2> HIDE DEF R
  <2> QED BY <2>1, WFMin
<1>2. \A y \in S : ~(y < m)
  BY <1>1 DEF OpToRel
<1> HIDE DEF R
<1>3. \A y \in S : m <= y
  BY <1>2
<1> QED BY <1>3 DEF Min

LEMMA MaxOfUpTo ==
  ASSUME NEW b \in Nat, NEW S \in SUBSET (0..b), S # {}
  PROVE  Max(S) \in S /\ \A y \in S : Max(S) >= y
<1> DEFINE T == {n \in Nat : b - n \in S}
<1>1. \A y \in S : b - y \in T /\ y \in Int
  <2> TAKE y \in S
  <2>1. b - y \in Nat /\ b - (b - y) = y /\ y \in Int
    OBVIOUS
  <2> QED BY <2>1
<1>2. T \in SUBSET Nat /\ \A n \in T : n \in Int /\ b - n \in S
  OBVIOUS
<1> HIDE DEF T
<1>3. Min(T) \in T /\ \A n \in T : Min(T) <= n
  BY <1>1, <1>2, MinOfNats
<1> DEFINE m == Min(T)
<1>4. b - m \in S /\ m \in Int
  BY <1>2, <1>3
<1>5. \A y \in S : m <= b - y /\ y \in Int
  BY <1>1, <1>3
<1> HIDE DEF m
<1>6. \A y \in S : b - m >= y
  BY <1>4, <1>5
<1> QED BY <1>4, <1>6 DEF Max

LEMMA Quotient ==
  ASSUME NEW n \in Nat, NEW d \in Nat, d > 0
  PROVE  n \div d \in Nat /\ d * (n \div d) <= n /\ n < d * (n \div d) + d
OBVIOUS

LEMMA Scaled ==
  ASSUME NEW d \in Nat, d > 0, NEW a \in Int, NEW b \in Int
  PROVE  /\ d * a \in Int /\ d * b \in Int
         /\ a <= b => d * a <= d * b
         /\ a < b => d * a + d <= d * b
OBVIOUS

-----------------------------------------------------------------------------
(* The speed that a LUT asks for.                                          *)

LEMMA Byte ==
  ASSUME NEW v \in 0..255
  PROVE  v \in Int /\ 0 <= v /\ v <= 255
OBVIOUS

LEMMA AtMost ==
  ASSUME NEW u \in Int, NEW v \in Int, NEW w \in Int, u <= v, v <= w
  PROVE  u <= w
OBVIOUS

LEMMA LadderRow ==
  ASSUME NEW tbl, Ladder(tbl), NEW j \in 1..Len(tbl)
  PROVE  /\ tbl[j].rpm \in 0..255 /\ tbl[j].rpm \in Int
         /\ tbl[j].temp_low \in Int /\ tbl[j].temp_high \in Int
<1>1. tbl[j].temp_low \in 0..255 /\ tbl[j].temp_high \in 0..255 /\ tbl[j].rpm \in 0..255
  BY DEF Ladder
<1> QED BY <1>1, Byte

LEMMA LadderClimbs ==
  ASSUME NEW tbl, Ladder(tbl), NEW j \in 1..Len(tbl), NEW k \in 1..Len(tbl), j <= k
  PROVE  tbl[j].rpm <= tbl[k].rpm
BY DEF Ladder

LEMMA LadderEnds ==
  ASSUME NEW tbl, Ladder(tbl)
  PROVE  /\ Len(tbl) \in Nat \ {0} /\ DOMAIN tbl = 1..Len(tbl)
         /\ 1 \in 1..Len(tbl) /\ tbl[1].temp_low = 0
         /\ Len(tbl) \in 1..Len(tbl) /\ tbl[Len(tbl)].temp_high = 255
<1>1. Len(tbl) \in Nat \ {0} /\ DOMAIN tbl = 1..Len(tbl)
  BY DEF Ladder
<1>2. tbl[1].temp_low = 0 /\ tbl[Len(tbl)].temp_high = 255
  BY DEF Ladder
<1> QED BY <1>1, <1>2

LEMMA SpeedOfLadder ==
  ASSUME NEW tbl, Ladder(tbl), NEW c \in Int
  PROVE  /\ Speed(tbl, c) \in 0..255
         /\ Speed(tbl, c) = 0
              \/ \E j \in 1..Len(tbl) : Matches(tbl[j], c) /\ Speed(tbl, c) = tbl[j].rpm
         /\ \A j \in 1..Len(tbl) : Matches(tbl[j], c) => tbl[j].rpm <= Speed(tbl, c)
<1> DEFINE S == {0} \cup {tbl[k].rpm : k \in {j \in DOMAIN tbl : Matches(tbl[j], c)}}
<1>1. DOMAIN tbl = 1..Len(tbl) /\ \A j \in 1..Len(tbl) : tbl[j].rpm \in 0..255
  BY LadderEnds, LadderRow
<1>2. Speed(tbl, c) = Max(S)
  BY DEF Speed
<1>3. S \in SUBSET (0..255) /\ S # {}
  <2>1. 0 \in 0..255 /\ 0 \in S
    OBVIOUS
  <2>2. ASSUME NEW v \in S
        PROVE  v = 0 \/ \E j \in 1..Len(tbl) : v = tbl[j].rpm
    BY <1>1
  <2> HIDE DEF S
  <2>3. ASSUME NEW v \in S
        PROVE  v \in 0..255
    <3>1. CASE v = 0
      BY <2>1, <3>1
    <3>2. CASE \E j \in 1..Len(tbl) : v = tbl[j].rpm
      <4>1. PICK j \in 1..Len(tbl) : v = tbl[j].rpm
        BY <3>2
      <4>2. tbl[j].rpm \in 0..255
        BY <1>1
      <4> QED BY <4>1, <4>2
    <3> QED BY <2>2, <3>1, <3>2
  <2> QED BY <2>1, <2>3
<1>4. Max(S) \in S /\ \A y \in S : Max(S) >= y
  <2> HIDE DEF S
  <2>1. 255 \in Nat
    OBVIOUS
  <2> QED BY <1>3, <2>1, MaxOfUpTo
<1>5. \A j \in 1..Len(tbl) : Matches(tbl[j], c) => tbl[j].rpm \in S
  BY <1>1
<1>6. \A v \in S : v = 0 \/ \E j \in 1..Len(tbl) : Matches(tbl[j], c) /\ v = tbl[j].rpm
  BY <1>1
<1> HIDE DEF S
<1>7. \A j \in 1..Len(tbl) : Matches(tbl[j], c) => tbl[j].rpm <= Max(S)
  <2> TAKE j \in 1..Len(tbl)
  <2> HAVE Matches(tbl[j], c)
  <2>1. tbl[j].rpm \in S
    BY <1>5
  <2> DEFINE v == tbl[j].rpm
  <2>2. Max(S) >= v /\ v \in 0..255 /\ Max(S) \in 0..255
    BY <1>3, <1>4, <2>1
  <2> HIDE DEF v
  <2>3. v <= Max(S)
    BY <2>2
  <2> QED BY <2>3 DEF v
<1> DEFINE m == Max(S)
<1>8. m \in 0..255
  BY <1>3, <1>4
<1>9. m = 0 \/ \E j \in 1..Len(tbl) : Matches(tbl[j], c) /\ m = tbl[j].rpm
  BY <1>4, <1>6
<1>10. Speed(tbl, c) = m /\ \A j \in 1..Len(tbl) : Matches(tbl[j], c) => tbl[j].rpm <= m
  BY <1>2, <1>7
<1> HIDE DEF m
<1> QED BY <1>8, <1>9, <1>10

LEMMA SpeedIsInt ==
  ASSUME NEW tbl, Ladder(tbl), NEW c \in Int
  PROVE  Speed(tbl, c) \in Int
<1>1. Speed(tbl, c) \in 0..255
  BY SpeedOfLadder
<1> QED BY <1>1, Byte

\* From a row whose lower bound has been passed upwards, one matches.
LEMMA RowAbove ==
  ASSUME NEW tbl, Ladder(tbl), NEW c \in Int, c <= 255,
         NEW j \in 1..Len(tbl), tbl[j].temp_low < c
  PROVE  \E k \in 1..Len(tbl) : j <= k /\ Matches(tbl[k], c)
<1> DEFINE K == {k \in 1..Len(tbl) : j <= k /\ c <= tbl[k].temp_high}
<1>1. K \in SUBSET Nat /\ Len(tbl) \in K
  BY LadderEnds
<1> DEFINE m == Min(K)
<1>2. m \in K /\ \A k \in K : m <= k
  <2> HIDE DEF K
  <2> QED BY <1>1, MinOfNats
<1>3. m \in 1..Len(tbl) /\ j <= m /\ c <= tbl[m].temp_high
  BY <1>2
<1>4. \A k \in 1..Len(tbl) : j <= k /\ k < m => ~(c <= tbl[k].temp_high)
  BY <1>2, <1>3
<1> HIDE DEF m, K
<1>5. tbl[m].temp_low < c
  <2>1. CASE m = j
    BY <2>1
  <2>2. CASE m # j
    <3>1. m - 1 \in 1..Len(tbl) - 1 /\ m - 1 \in 1..Len(tbl) /\ j <= m - 1 /\ (m - 1) + 1 = m
      BY <1>3, <2>2, LadderEnds
    <3>2. ~(c <= tbl[m - 1].temp_high)
      BY <1>4, <3>1
    <3>3. tbl[m].temp_low <= tbl[m - 1].temp_high
      BY <3>1 DEF Ladder
    <3>4. tbl[m].temp_low \in Int /\ tbl[m - 1].temp_high \in Int
      BY <1>3, <3>1, LadderRow
    <3> QED BY <3>2, <3>3, <3>4
  <2> QED BY <2>1, <2>2
<1> QED BY <1>3, <1>5 DEF Matches

\* The speed asked for rises with the temperature.
LEMMA SpeedRises ==
  ASSUME NEW tbl, Ladder(tbl), NEW c \in Int, NEW d \in Int, c <= d, d <= 255
  PROVE  Speed(tbl, c) <= Speed(tbl, d)
<1>1. Speed(tbl, c) \in 0..255 /\ Speed(tbl, d) \in 0..255
  BY SpeedOfLadder
<1>2. CASE Speed(tbl, c) = 0
  BY <1>1, <1>2
<1>3. CASE Speed(tbl, c) # 0
  <2>1. PICK j \in 1..Len(tbl) : Matches(tbl[j], c) /\ Speed(tbl, c) = tbl[j].rpm
    BY <1>3, SpeedOfLadder
  <2>2. tbl[j].temp_low < c /\ tbl[j].temp_low \in Int
    BY <2>1, LadderRow DEF Matches
  <2>3. tbl[j].temp_low < d
    BY <2>2
  <2>4. PICK k \in 1..Len(tbl) : j <= k /\ Matches(tbl[k], d)
    BY <2>3, RowAbove
  <2>5. tbl[k].rpm <= Speed(tbl, d)
    BY <2>4, SpeedOfLadder
  <2>6. tbl[j].rpm <= tbl[k].rpm
    BY <2>4, LadderClimbs
  <2>7. /\ Speed(tbl, d) \in Int
        /\ tbl[j].rpm \in Int /\ tbl[k].rpm \in Int
    BY SpeedIsInt, LadderRow
  <2>8. tbl[j].rpm <= Speed(tbl, d)
    BY <2>5, <2>6, <2>7, AtMost
  <2> QED BY <2>1, <2>8
<1> QED BY <1>2, <1>3

\* From one degree up no temperature falls between the rows.
LEMMA SpeedServes ==
  ASSUME NEW tbl, Ladder(tbl), NEW c \in Int, 1 <= c, c <= 255
  PROVE  tbl[1].rpm <= Speed(tbl, c)
<1>1. 1 \in 1..Len(tbl) /\ tbl[1].temp_low < c
  BY LadderEnds
<1>2. PICK k \in 1..Len(tbl) : 1 <= k /\ Matches(tbl[k], c)
  BY <1>1, RowAbove
<1>3. tbl[k].rpm <= Speed(tbl, c)
  BY <1>2, SpeedOfLadder
<1>4. tbl[1].rpm <= tbl[k].rpm
  BY <1>1, <1>2, LadderClimbs
<1>5. tbl[1].rpm \in Int /\ tbl[k].rpm \in Int /\ Speed(tbl, c) \in Int
  BY <1>1, SpeedIsInt, LadderRow
<1> QED BY <1>3, <1>4, <1>5, AtMost

-----------------------------------------------------------------------------
(* The duty that a track gives a speed.                                    *)

LEMMA TrackPoint ==
  ASSUME NEW t, Rising(t), NEW j \in 1..Len(t)
  PROVE  t[j].rpm \in Nat /\ t[j].pwm \in Nat
BY DEF Rising

LEMMA TrackClimbs ==
  ASSUME NEW t, Rising(t), NEW j \in 1..Len(t), NEW k \in 1..Len(t)
  PROVE  /\ j < k => t[j].rpm < t[k].rpm /\ t[j].pwm < t[k].pwm
         /\ j <= k => t[j].rpm <= t[k].rpm /\ t[j].pwm <= t[k].pwm
<1>1. j < k => t[j].rpm < t[k].rpm /\ t[j].pwm < t[k].pwm
  BY DEF Rising
<1>2. /\ t[j].rpm \in Nat /\ t[j].pwm \in Nat
      /\ t[k].rpm \in Nat /\ t[k].pwm \in Nat
  BY TrackPoint
<1>3. CASE j < k
  BY <1>1, <1>2, <1>3
<1>4. CASE j = k
  BY <1>2, <1>4
<1> QED BY <1>1, <1>3, <1>4

\* Between its ends a track is read on one of its segments, the first one that
\* reaches the speed.
LEMMA Segment ==
  ASSUME NEW t, Rising(t), NEW r \in Int, t[1].rpm < r, r < t[Len(t)].rpm
  PROVE  \E k \in 1..Len(t) - 1 :
           /\ t[k].rpm < r /\ r <= t[k + 1].rpm
           /\ cal_fan_pwm(t, r) = Between(t[k], t[k + 1], r)
<1> DEFINE n == Len(t) - 1
           K == {j \in 1..n : r <= t[j + 1].rpm}
           J == {j \in 1..n : t[j].rpm <= r /\ r <= t[j + 1].rpm}
           m == Min(K)
<1>1. Len(t) \in Nat /\ Len(t) >= 2 /\ n + 1 = Len(t) /\ n \in 1..n /\ 1..n \subseteq Nat
  BY DEF Rising
<1>2. \A j \in 1..n : t[j].rpm \in Int /\ t[j + 1].rpm \in Int
  <2> TAKE j \in 1..n
  <2>1. j \in 1..Len(t) /\ j + 1 \in 1..Len(t)
    BY <1>1
  <2> QED BY <2>1, TrackPoint
<1>3. n \in K
  <2>1. n + 1 \in 1..Len(t)
    BY <1>1
  <2>2. r <= t[n + 1].rpm
    BY <1>1, <2>1, TrackPoint
  <2> QED BY <1>1, <2>2
<1>4. m \in K /\ \A k \in K : m <= k
  <2>1. K \in SUBSET Nat
    BY <1>1
  <2> HIDE DEF K
  <2> QED BY <1>3, <2>1, MinOfNats
<1>5. m \in 1..n /\ r <= t[m + 1].rpm /\ \A k \in 1..n : k < m => ~(r <= t[k + 1].rpm)
  <2>1. m \in 1..n /\ r <= t[m + 1].rpm
    BY <1>4
  <2>2. ASSUME NEW k \in 1..n, k < m
        PROVE  k \notin K
    <3> HIDE DEF K
    <3>1. m \in 1..n
      BY <2>1
    <3> HIDE DEF m
    <3>2. ~(m <= k)
      BY <2>2, <3>1
    <3> QED BY <1>4, <3>2 DEF m
  <2> QED BY <2>1, <2>2
<1> HIDE DEF m, n
<1>6. t[m].rpm < r
  <2>1. CASE m = 1
    BY <2>1
  <2>2. CASE m # 1
    <3>1. m - 1 \in 1..n /\ m - 1 < m /\ (m - 1) + 1 = m
      BY <1>1, <1>5, <2>2
    <3>2. ~(r <= t[m].rpm)
      BY <1>5, <3>1
    <3> QED BY <1>2, <1>5, <3>2
  <2> QED BY <2>1, <2>2
<1>7. m \in J
  BY <1>2, <1>5, <1>6
<1>8. Min(J) \in J /\ \A k \in J : Min(J) <= k
  <2>1. J \in SUBSET Nat
    BY <1>1
  <2> HIDE DEF J
  <2> QED BY <1>7, <2>1, MinOfNats
<1> DEFINE q == Min(J)
<1>9. q \in 1..n /\ q \in K /\ q <= m
  BY <1>7, <1>8
<1>10. m <= q
  <2> HIDE DEF K, q
  <2> QED BY <1>4, <1>9 DEF m
<1> HIDE DEF q
<1>11. q = m
  BY <1>1, <1>5, <1>9, <1>10
<1>12. Min(J) = m
  BY <1>11 DEF q
<1>13. t[1].rpm \in Int /\ t[Len(t)].rpm \in Int
  <2>1. 1 \in 1..Len(t) /\ Len(t) \in 1..Len(t)
    BY <1>1
  <2> QED BY <2>1, TrackPoint
<1>14. ~(r <= t[1].rpm) /\ ~(r >= t[Len(t)].rpm)
  BY <1>13
<1>15. cal_fan_pwm(t, r) = Between(t[Min(J)], t[Min(J) + 1], r)
  BY <1>14 DEF cal_fan_pwm, n
<1> QED BY <1>5, <1>6, <1>12, <1>15 DEF n

\* Duty p is the greatest on the line from (ra, pa) to (rb, pb) that does not
\* exceed the line at speed r, and the end of the line only at its end.
OnLine(pa, pb, ra, rb, r, p) ==
    /\ p \in Nat /\ pa <= p /\ p <= pb
    /\ (p - pa) * (rb - ra) <= (r - ra) * (pb - pa)
    /\ (r - ra) * (pb - pa) < ((p + 1) - pa) * (rb - ra)
    /\ p = pb => r = rb

LEMMA Line ==
  ASSUME NEW pa \in Nat, NEW pb \in Nat, NEW ra \in Nat, NEW rb \in Nat, NEW r \in Int,
         pa < pb, ra < rb, ra < r, r <= rb,
         NEW p \in Int, p = pa + ((r - ra) * (pb - pa)) \div (rb - ra)
  PROVE  OnLine(pa, pb, ra, rb, r, p)
<1> DEFINE d == rb - ra
           e == pb - pa
           h == r - ra
           q == (h * e) \div d
<1>1. /\ d \in Nat /\ d > 0 /\ e \in Nat /\ e > 0
      /\ h \in Nat /\ h <= d
  OBVIOUS
<1>2. p = pa + q
  OBVIOUS
<1> HIDE DEF d, e, h, q
<1>3. h * e \in Nat /\ h * e <= d * e
  BY <1>1
<1>4. q \in Nat /\ d * q <= h * e /\ h * e < d * q + d
  BY <1>1, <1>3, Quotient DEF q
<1>5. q <= e
  <2>1. ~(e < q)
    <3> SUFFICES ASSUME e < q PROVE FALSE
      OBVIOUS
    <3>1. d * e + d <= d * q
      BY <1>1, <1>4, Scaled
    <3> QED BY <1>1, <1>3, <1>4, <3>1
  <2> QED BY <1>1, <1>4, <2>1
<1>6. q * d = d * q /\ (q + 1) * d = d * q + d
  BY <1>1, <1>4
<1>7. q = e => h = d
  <2> SUFFICES ASSUME q = e PROVE h = d
    OBVIOUS
  <2>1. d * e <= h * e /\ h * e = e * h /\ d * e = e * d
    BY <1>1, <1>4
  <2>2. h < d => e * h + e <= e * d
    BY <1>1, Scaled
  <2> QED BY <1>1, <1>3, <2>1, <2>2
<1>8. p - pa = q /\ (p + 1) - pa = q + 1 /\ p \in Nat /\ pa <= p
  BY <1>2, <1>4
<1>9. p <= pb
  BY <1>2, <1>4, <1>5 DEF e
<1>10. p = pb => r = rb
  <2>1. p = pb => q = e
    BY <1>2, <1>4 DEF e
  <2> QED BY <1>7, <2>1 DEF h, d
<1>11. (p - pa) * d <= h * e /\ h * e < ((p + 1) - pa) * d
  BY <1>3, <1>4, <1>6, <1>8
<1> QED BY <1>8, <1>9, <1>10, <1>11 DEF h, d, e, OnLine

\* Beyond the end of a line, and at its start, it is not above r.
LEMMA NotAbove ==
  ASSUME NEW pa \in Nat, NEW pb \in Nat, NEW ra \in Nat, NEW rb \in Nat, NEW r \in Int,
         NEW p \in Int, pa < pb, ra < rb
  PROVE  /\ p = pb /\ rb < r => ~((p - pa) * (rb - ra) > (r - ra) * (pb - pa))
         /\ p = pa /\ r = ra => ~((p - pa) * (rb - ra) > (r - ra) * (pb - pa))
         /\ (p - pa) * (rb - ra) <= (r - ra) * (pb - pa)
              => ~((p - pa) * (rb - ra) > (r - ra) * (pb - pa))
<1> DEFINE d == rb - ra
           e == pb - pa
           h == r - ra
<1>1. d \in Nat /\ d > 0 /\ e \in Nat /\ e > 0 /\ h \in Int
  OBVIOUS
<1>2. p = pb /\ rb < r => ~((p - pa) * d > h * e)
  <2> SUFFICES ASSUME p = pb, rb < r PROVE ~((p - pa) * d > h * e)
    OBVIOUS
  <2>1. p - pa = e /\ d < h
    OBVIOUS
  <2> HIDE DEF d, e, h
  <2>2. e * d + e <= e * h /\ e * h = h * e /\ e * d \in Int /\ e * h \in Int
    BY <1>1, <2>1, Scaled
  <2> QED BY <1>1, <2>1, <2>2
<1>3. p = pa /\ r = ra => (p - pa) * d = 0 /\ h * e = 0
  OBVIOUS
<1>4. (p - pa) * d \in Int /\ h * e \in Int
  OBVIOUS
<1> QED BY <1>2, <1>3, <1>4

\* One step from its start it is.
LEMMA AboveStart ==
  ASSUME NEW pa \in Nat, NEW pb \in Nat, NEW ra \in Nat, NEW rb \in Nat, pa < pb, ra < rb
  PROVE  pa <= pa + 1 /\ pa + 1 <= pb /\ ((pa + 1) - pa) * (rb - ra) > (ra - ra) * (pb - pa)
OBVIOUS

LEMMA LineRises ==
  ASSUME NEW d \in Nat, d > 0, NEW u \in Nat, NEW v \in Nat, u <= v
  PROVE  u \div d <= v \div d
<1>1. /\ u \div d \in Nat /\ d * (u \div d) <= u
      /\ v \div d \in Nat /\ v < d * (v \div d) + d
  BY Quotient
<1> DEFINE a == u \div d
           b == v \div d
<1> HIDE DEF a, b
<1>2. ~(b < a)
  <2> SUFFICES ASSUME b < a PROVE FALSE
    OBVIOUS
  <2>1. d * b + d <= d * a
    BY <1>1, Scaled DEF a, b
  <2> QED BY <1>1, <2>1 DEF a, b
<1> QED BY <1>1, <1>2 DEF a, b

\* What the duty of a speed between the ends says of the segment it is read on.
OnSegment(t, k, r, p) ==
    /\ t[k].rpm < r /\ r <= t[k + 1].rpm
    /\ OnLine(t[k].pwm, t[k + 1].pwm, t[k].rpm, t[k + 1].rpm, r, p)

LEMMA TrackSegment ==
  ASSUME NEW t, Rising(t), NEW k \in 1..Len(t) - 1
  PROVE  /\ k \in 1..Len(t) /\ k + 1 \in 1..Len(t)
         /\ t[k].rpm \in Nat /\ t[k].pwm \in Nat
         /\ t[k + 1].rpm \in Nat /\ t[k + 1].pwm \in Nat
         /\ t[k].rpm < t[k + 1].rpm /\ t[k].pwm < t[k + 1].pwm
<1>1. k \in 1..Len(t) /\ k + 1 \in 1..Len(t) /\ k < k + 1
  BY DEF Rising
<1>2. t[k].rpm < t[k + 1].rpm /\ t[k].pwm < t[k + 1].pwm
  BY <1>1, TrackClimbs
<1> QED BY <1>1, <1>2, TrackPoint

LEMMA DutyOnSegment ==
  ASSUME NEW t, Rising(t), NEW r \in Int, t[1].rpm < r, r < t[Len(t)].rpm
  PROVE  \E k \in 1..Len(t) - 1 :
           /\ OnSegment(t, k, r, cal_fan_pwm(t, r))
           /\ cal_fan_pwm(t, r) = Between(t[k], t[k + 1], r)
<1>1. PICK k \in 1..Len(t) - 1 :
        /\ t[k].rpm < r /\ r <= t[k + 1].rpm
        /\ cal_fan_pwm(t, r) = Between(t[k], t[k + 1], r)
  BY Segment
<1>2. OnSegment(t, k, r, Between(t[k], t[k + 1], r))
  <2> DEFINE pa == t[k].pwm
             pb == t[k + 1].pwm
             ra == t[k].rpm
             rb == t[k + 1].rpm
             p  == pa + ((r - ra) * (pb - pa)) \div (rb - ra)
  <2>1. /\ pa \in Nat /\ pb \in Nat /\ ra \in Nat /\ rb \in Nat
        /\ pa < pb /\ ra < rb
    BY TrackSegment
  <2>2. ra < r /\ r <= rb
    BY <1>1
  <2>3. Between(t[k], t[k + 1], r) = p
    BY DEF Between
  <2> HIDE DEF pa, pb, ra, rb
  <2>4. OnLine(pa, pb, ra, rb, r, p)
    <3>1. p \in Int
      <4>1. /\ rb - ra \in Nat /\ rb - ra > 0 /\ r - ra \in Nat /\ pb - pa \in Nat
        BY <2>1, <2>2
      <4>2. (r - ra) * (pb - pa) \in Nat
        BY <4>1
      <4> QED BY <2>1, <4>1, <4>2, Quotient
    <3>2. p = pa + ((r - ra) * (pb - pa)) \div (rb - ra)
      OBVIOUS
    <3> HIDE DEF p
    <3> QED BY <2>1, <2>2, <3>1, <3>2, Line
  <2> HIDE DEF p
  <2>5. OnSegment(t, k, r, p)
    BY <2>2, <2>4 DEF OnSegment, pa, pb, ra, rb
  <2> QED BY <2>3, <2>5
<1> QED BY <1>1, <1>2

\* No segment has the fan faster than r at the duty of r.
LEMMA NotFaster ==
  ASSUME NEW t, Rising(t), NEW k \in 1..Len(t) - 1, NEW r \in Int, NEW p, OnSegment(t, k, r, p)
  PROVE  ~Faster(t, p, r)
<1> SUFFICES ASSUME NEW i \in 1..Len(t) - 1, t[i].pwm <= p, p <= t[i + 1].pwm
             PROVE  ~((p - t[i].pwm) * (t[i + 1].rpm - t[i].rpm)
                        > (r - t[i].rpm) * (t[i + 1].pwm - t[i].pwm))
  BY DEF Faster
<1> DEFINE pa == t[i].pwm
           pb == t[i + 1].pwm
           ra == t[i].rpm
           rb == t[i + 1].rpm
           qa == t[k].pwm
           qb == t[k + 1].pwm
           sa == t[k].rpm
           sb == t[k + 1].rpm
<1>1. /\ pa \in Nat /\ pb \in Nat /\ ra \in Nat /\ rb \in Nat /\ pa < pb /\ ra < rb
      /\ i \in 1..Len(t) /\ i + 1 \in 1..Len(t)
  BY TrackSegment
<1>2. /\ qa \in Nat /\ qb \in Nat /\ sa \in Nat /\ sb \in Nat
      /\ k \in 1..Len(t) /\ k + 1 \in 1..Len(t)
  BY TrackSegment
<1>3. /\ p \in Nat /\ qa <= p /\ p <= qb /\ sa < r /\ r <= sb
      /\ p = qb => r = sb
      /\ i = k => (p - pa) * (rb - ra) <= (r - ra) * (pb - pa)
  BY DEF OnSegment, OnLine
<1>4. pa <= p /\ p <= pb
  OBVIOUS
<1>5. i < k => rb <= sa /\ pb <= qa
  <2>1. i < k => i + 1 <= k
    BY <1>1, <1>2
  <2> QED BY <1>1, <1>2, <2>1, TrackClimbs
<1>6. k < i => sb <= ra /\ qb <= pa /\ (k + 1 < i => qb < pa)
  <2>1. k < i => k + 1 <= i
    BY <1>1, <1>2
  <2> QED BY <1>1, <1>2, <2>1, TrackClimbs
<1>7. i = k + 1 => sb = ra
  OBVIOUS
<1> HIDE DEF pa, pb, ra, rb, qa, qb, sa, sb
<1>8. ~((p - pa) * (rb - ra) > (r - ra) * (pb - pa))
  <2>1. CASE i = k
    BY <1>1, <1>3, <2>1, NotAbove
  <2>2. CASE i < k
    <3>1. p = pb /\ rb < r
      BY <1>1, <1>2, <1>3, <1>4, <1>5, <2>2
    <3> QED BY <1>1, <1>3, <3>1, NotAbove
  <2>3. CASE k < i
    <3>1. p = qb /\ p = pa
      BY <1>1, <1>2, <1>3, <1>4, <1>6, <2>3
    <3>2. i = k + 1
      BY <1>1, <1>2, <1>6, <2>3, <3>1
    <3>3. r = ra
      BY <1>3, <1>7, <3>1, <3>2
    <3> QED BY <1>1, <1>3, <3>1, <3>3, NotAbove
  <2> QED BY <2>1, <2>2, <2>3
<1> QED BY <1>8 DEF pa, pb, ra, rb

LEMMA FasterOn ==
  ASSUME NEW t, NEW p, NEW r, NEW i \in 1..Len(t) - 1,
         t[i].pwm <= p, p <= t[i + 1].pwm,
         (p - t[i].pwm) * (t[i + 1].rpm - t[i].rpm)
           > (r - t[i].rpm) * (t[i + 1].pwm - t[i].pwm)
  PROVE  Faster(t, p, r)
<1> USE DEF Faster
<1> WITNESS i \in 1..Len(t) - 1
<1> QED OBVIOUS

\* One more unit of duty, and it is.
LEMMA ThenFaster ==
  ASSUME NEW t, Rising(t), NEW k \in 1..Len(t) - 1, NEW r \in Int, NEW p, OnSegment(t, k, r, p),
         r < t[Len(t)].rpm
  PROVE  Faster(t, p + 1, r)
<1> DEFINE pa == t[k].pwm
           pb == t[k + 1].pwm
           ra == t[k].rpm
           rb == t[k + 1].rpm
<1>1. pa \in Nat /\ pb \in Nat /\ ra \in Nat /\ rb \in Nat
  BY TrackSegment
<1>2. /\ p \in Nat /\ pa <= p /\ p <= pb
      /\ p = pb => r = rb
      /\ (r - ra) * (pb - pa) < ((p + 1) - pa) * (rb - ra)
  BY DEF OnSegment, OnLine
<1>3. CASE p < pb
  <2>1. pa <= p + 1 /\ p + 1 <= pb /\ ((p + 1) - pa) * (rb - ra) > (r - ra) * (pb - pa)
    <3>1. /\ p \in Nat /\ pa <= p
          /\ (r - ra) * (pb - pa) < ((p + 1) - pa) * (rb - ra)
      BY <1>2
    <3> HIDE DEF pa, pb, ra, rb
    <3>2. (r - ra) * (pb - pa) \in Int /\ ((p + 1) - pa) * (rb - ra) \in Int
      BY <1>1, <3>1
    <3> QED BY <1>1, <1>3, <3>1, <3>2
  <2> QED BY <2>1, FasterOn
<1>4. CASE ~(p < pb)
  <2>1. p = pb /\ r = rb
    <3>1. p \in Nat /\ p <= pb /\ (p = pb => r = rb)
      BY <1>2
    <3> HIDE DEF pa, pb, ra, rb
    <3> QED BY <1>1, <1>4, <3>1
  <2>2. k + 1 # Len(t)
    BY <1>1, <2>1
  <2> DEFINE i  == k + 1
             qb == t[i + 1].pwm
             sb == t[i + 1].rpm
  <2>3. i \in 1..Len(t) - 1
    BY <2>2 DEF Rising
  <2> HIDE DEF i
  <2>4. /\ t[i].pwm \in Nat /\ t[i].rpm \in Nat /\ qb \in Nat /\ sb \in Nat
        /\ t[i].pwm < qb /\ t[i].rpm < sb
    BY <2>3, TrackSegment
  <2>5. p = t[i].pwm /\ r = t[i].rpm
    BY <2>1 DEF i
  <2> HIDE DEF qb, sb
  <2>6. p <= p + 1 /\ p + 1 <= qb /\ ((p + 1) - p) * (sb - r) > (r - r) * (qb - p)
    BY <2>4, <2>5, AboveStart
  <2>7. /\ t[i].pwm <= p + 1 /\ p + 1 <= t[i + 1].pwm
        /\ ((p + 1) - t[i].pwm) * (t[i + 1].rpm - t[i].rpm)
             > (r - t[i].rpm) * (t[i + 1].pwm - t[i].pwm)
    BY <2>5, <2>6 DEF qb, sb
  <2> QED BY <2>3, <2>7, FasterOn
<1> QED BY <1>3, <1>4

\* On one segment the duty rises with the speed.
LEMMA BetweenRises ==
  ASSUME NEW t, Rising(t), NEW k \in 1..Len(t) - 1,
         NEW r \in Int, NEW s \in Int, t[k].rpm < r, r <= s
  PROVE  Between(t[k], t[k + 1], r) <= Between(t[k], t[k + 1], s)
<1> DEFINE pa == t[k].pwm
           d  == t[k + 1].rpm - t[k].rpm
           e  == t[k + 1].pwm - t[k].pwm
           x1 == r - t[k].rpm
           x2 == s - t[k].rpm
           u  == (x1 * e) \div d
           v  == (x2 * e) \div d
<1>1. /\ pa \in Nat /\ d \in Nat /\ d > 0 /\ e \in Nat
      /\ x1 \in Nat /\ x2 \in Nat /\ x1 <= x2
  <2> DEFINE pb == t[k + 1].pwm
             ra == t[k].rpm
             rb == t[k + 1].rpm
  <2>1. /\ pa \in Nat /\ pb \in Nat /\ ra \in Nat /\ rb \in Nat
        /\ pa < pb /\ ra < rb /\ ra < r
    BY TrackSegment
  <2> HIDE DEF pa, pb, ra, rb
  <2>2. /\ pa \in Nat /\ rb - ra \in Nat /\ rb - ra > 0 /\ pb - pa \in Nat
        /\ r - ra \in Nat /\ s - ra \in Nat /\ r - ra <= s - ra
    BY <2>1
  <2> QED BY <2>2 DEF pa, pb, ra, rb
<1>2. Between(t[k], t[k + 1], r) = pa + u /\ Between(t[k], t[k + 1], s) = pa + v
  BY DEF Between
<1> HIDE DEF pa, d, e, x1, x2
<1>3. x1 * e \in Nat /\ x2 * e \in Nat /\ x1 * e <= x2 * e
  <2>1. CASE e = 0
    BY <1>1, <2>1
  <2>2. CASE e # 0
    <3>1. e * x1 <= e * x2 /\ e * x1 = x1 * e /\ e * x2 = x2 * e
      BY <1>1, <2>2, Scaled
    <3> QED BY <1>1, <3>1
  <2> QED BY <2>1, <2>2
<1>4. u <= v /\ u \in Nat /\ v \in Nat
  BY <1>1, <1>3, LineRises, Quotient
<1> HIDE DEF u, v
<1> QED BY <1>1, <1>2, <1>4

LEMMA DutyWithinTrack ==
  ASSUME NEW t, Rising(t), NEW r \in Int
  PROVE  /\ cal_fan_pwm(t, r) \in Nat
         /\ t[1].pwm <= cal_fan_pwm(t, r) /\ cal_fan_pwm(t, r) <= t[Len(t)].pwm
         /\ r <= t[1].rpm => cal_fan_pwm(t, r) = t[1].pwm
         /\ ~(r <= t[1].rpm) /\ r >= t[Len(t)].rpm => cal_fan_pwm(t, r) = t[Len(t)].pwm
<1> DEFINE n == Len(t)
<1>1. 1 \in 1..n /\ n \in 1..n /\ 1 <= n
  BY DEF Rising
<1>2. /\ t[1].pwm \in Nat /\ t[n].pwm \in Nat /\ t[1].rpm \in Nat /\ t[n].rpm \in Nat
      /\ t[1].pwm <= t[n].pwm
  BY <1>1, TrackPoint, TrackClimbs
<1>3. CASE r <= t[1].rpm
  <2>1. ~(r >= t[n].rpm)
    <3>1. t[1].rpm < t[n].rpm
      BY <1>1, TrackClimbs DEF Rising
    <3> QED BY <1>2, <1>3, <3>1
  <2>2. cal_fan_pwm(t, r) = t[1].pwm
    BY <1>3, <2>1 DEF cal_fan_pwm
  <2> QED BY <1>2, <1>3, <2>2
<1>4. CASE ~(r <= t[1].rpm) /\ r >= t[n].rpm
  <2>1. cal_fan_pwm(t, r) = t[n].pwm
    BY <1>4 DEF cal_fan_pwm
  <2> QED BY <1>2, <1>4, <2>1
<1>5. CASE ~(r <= t[1].rpm) /\ ~(r >= t[n].rpm)
  <2>1. t[1].rpm < r /\ r < t[n].rpm
    BY <1>2, <1>5
  <2>2. PICK k \in 1..n - 1 : OnSegment(t, k, r, cal_fan_pwm(t, r))
    BY <2>1, DutyOnSegment
  <2>3. k \in 1..n /\ k + 1 \in 1..n /\ 1 <= k /\ k + 1 <= n
    BY <1>1, TrackSegment
  <2> DEFINE p  == cal_fan_pwm(t, r)
             q1 == t[1].pwm
             q2 == t[k].pwm
             q3 == t[k + 1].pwm
             q4 == t[n].pwm
  <2>4. q1 <= q2 /\ q3 <= q4
    BY <1>1, <2>3, TrackClimbs
  <2>5. q1 \in Nat /\ q2 \in Nat /\ q3 \in Nat /\ q4 \in Nat
    BY <1>1, <2>3, TrackPoint
  <2>6. p \in Nat /\ q2 <= p /\ p <= q3
    BY <2>2 DEF OnSegment, OnLine
  <2> HIDE DEF p, q1, q2, q3, q4
  <2>7. p \in Nat /\ q1 <= p /\ p <= q4
    BY <2>4, <2>5, <2>6
  <2> QED BY <1>5, <2>7 DEF p, q1, q4
<1> QED BY <1>3, <1>4, <1>5

\* The duty rises with the speed.
LEMMA DutyRises ==
  ASSUME NEW t, Rising(t), NEW r \in Int, NEW s \in Int, r <= s
  PROVE  cal_fan_pwm(t, r) <= cal_fan_pwm(t, s)
<1> DEFINE n == Len(t)
           p == cal_fan_pwm(t, r)
           q == cal_fan_pwm(t, s)
<1>1. t[1].rpm \in Nat /\ t[n].rpm \in Nat /\ t[1].pwm \in Nat /\ t[n].pwm \in Nat
  <2>1. 1 \in 1..n /\ n \in 1..n
    BY DEF Rising
  <2> QED BY <2>1, TrackPoint
<1>2. /\ p \in Nat /\ q \in Nat /\ t[1].pwm <= q /\ p <= t[n].pwm
      /\ r <= t[1].rpm => p = t[1].pwm
      /\ ~(s <= t[1].rpm) /\ s >= t[n].rpm => q = t[n].pwm
  BY DutyWithinTrack
<1>3. CASE r <= t[1].rpm
  BY <1>2, <1>3
<1>4. CASE ~(r <= t[1].rpm) /\ s >= t[n].rpm
  <2>1. ~(s <= t[1].rpm)
    BY <1>1, <1>4
  <2> QED BY <1>2, <1>4, <2>1
<1>5. CASE ~(r <= t[1].rpm) /\ ~(s >= t[n].rpm)
  <2>1. t[1].rpm < r /\ r < t[n].rpm /\ t[1].rpm < s /\ s < t[n].rpm
    BY <1>1, <1>5
  <2>2. PICK k \in 1..n - 1 : OnSegment(t, k, r, p) /\ p = Between(t[k], t[k + 1], r)
    BY <2>1, DutyOnSegment
  <2>3. PICK l \in 1..n - 1 : OnSegment(t, l, s, q) /\ q = Between(t[l], t[l + 1], s)
    BY <2>1, DutyOnSegment
  <2>4. /\ t[k].rpm < r /\ p <= t[k + 1].pwm
        /\ s <= t[l + 1].rpm /\ t[l].pwm <= q
    BY <2>2, <2>3 DEF OnSegment, OnLine
  <2>5. /\ k \in 1..n /\ k + 1 \in 1..n /\ l \in 1..n /\ l + 1 \in 1..n
        /\ t[k].rpm \in Nat /\ t[k + 1].pwm \in Nat
        /\ t[l + 1].rpm \in Nat /\ t[l].pwm \in Nat
    BY TrackSegment
  <2>6. CASE k = l
    BY <2>2, <2>3, <2>4, <2>6, BetweenRises
  <2>7. CASE k < l
    <3>1. k + 1 <= l
      BY <2>7
    <3>2. t[k + 1].pwm <= t[l].pwm
      BY <2>5, <3>1, TrackClimbs
    <3>3. p <= t[l].pwm
      BY <1>2, <2>4, <2>5, <3>2, AtMost
    <3> QED BY <1>2, <2>4, <2>5, <3>3, AtMost
  <2>8. CASE l < k
    <3>1. l + 1 <= k
      BY <2>8
    <3>2. t[l + 1].rpm <= t[k].rpm
      BY <2>5, <3>1, TrackClimbs
    <3> QED BY <2>4, <2>5, <3>2
  <2> QED BY <2>6, <2>7, <2>8
<1> QED BY <1>3, <1>4, <1>5

-----------------------------------------------------------------------------
(* The tables in the code.                                                 *)

LEMMA TablesAreLadders == \A f \in Fans : Ladder(better_performance(f))
<1>1. Ladder(better_performance(FAN_ID_1))
  <2> DEFINE t == better_performance(FAN_ID_1)
  <2>1. Len(t) = 10 /\ DOMAIN t = 1..10
    BY DEF better_performance, FAN_ID_1
  <2> QED BY <2>1 DEF Ladder, better_performance, Row, FAN_ID_1
<1>2. Ladder(better_performance(FAN_ID_2))
  <2> DEFINE t == better_performance(FAN_ID_2)
  <2>1. Len(t) = 10 /\ DOMAIN t = 1..10
    BY DEF better_performance, FAN_ID_1, FAN_ID_2
  <2> QED BY <2>1 DEF Ladder, better_performance, Row, FAN_ID_1, FAN_ID_2
<1> QED BY <1>1, <1>2 DEF Fans

LEMMA TracksRise == \A f \in Fans : Rising(track(f))
<1>1. Rising(track(FAN_ID_1))
  <2>1. Len(track(FAN_ID_1)) = 11
    BY DEF track, FAN_ID_1
  <2> QED BY <2>1 DEF Rising, track, Point, FAN_ID_1
<1>2. Rising(track(FAN_ID_2))
  <2>1. Len(track(FAN_ID_2)) = 11
    BY DEF track, FAN_ID_1, FAN_ID_2
  <2> QED BY <2>1 DEF Rising, track, Point, FAN_ID_1, FAN_ID_2
<1> QED BY <1>1, <1>2 DEF Fans

LEMMA ProfileTable ==
  ASSUME NEW p \in Profile, NEW f \in Fans
  PROVE  fan_profiles(p, f) = IF p \in 4..7 THEN better_performance(f) ELSE <<>>
BY DEF fan_profiles, best_performance, Profile

LEMMA DegreesOf ==
  ASSUME NEW y \in Nat, y <= Hottest
  PROVE  /\ Celsius(y) = y \div 10 /\ Celsius(y) \in Nat /\ Celsius(y) <= 255
         /\ 10 <= y => 1 <= Celsius(y)
<1>1. y \div 10 \in Nat /\ 10 * (y \div 10) <= y /\ y < 10 * (y \div 10) + 10
  BY Quotient
<1> DEFINE q == y \div 10
<1>2. q \in Nat /\ q <= 255 /\ (10 <= y => 1 <= q)
  BY <1>1 DEF Hottest
<1> HIDE DEF q
<1>3. q % 256 = q
  BY <1>2
<1> QED BY <1>2, <1>3 DEF Celsius, q

LEMMA NoTableNoSpeed == \A c : Speed(<<>>, c) = 0
<1> TAKE c
<1>1. {0} \cup {<<>>[i].rpm : i \in {j \in DOMAIN <<>> : Matches(<<>>[j], c)}} = {0}
  OBVIOUS
<1>2. Max({0}) = 0
  <2>1. 0 \in Nat /\ {0} \in SUBSET (0..0) /\ {0} # {}
    OBVIOUS
  <2> QED BY <2>1, MaxOfUpTo
<1> QED BY <1>1, <1>2 DEF Speed

-----------------------------------------------------------------------------
(* The theorems.                                                           *)

TypeOK == fan \in Fans /\ profile \in Profile /\ x \in 0..MaxX

LEMMA InitTypeOK == Init => TypeOK
BY CurveAssumption DEF Init, TypeOK

\* The next x is x + 1 or x itself.
LEMMA NextUp ==
  ASSUME TypeOK, [Next]_vars
  PROVE  TypeOK' /\ x <= x' /\ fan' = fan /\ profile' = profile
<1>1. CASE UNCHANGED vars
  BY <1>1 DEF TypeOK, vars
<1>2. CASE Next
  <2> DEFINE S == {x + 1, MaxX}
  <2>1. S \in SUBSET Nat /\ S # {}
    BY CurveAssumption DEF TypeOK
  <2>2. Min(S) \in S /\ \A y \in S : Min(S) <= y
    BY <2>1, MinOfNats
  <2>3. x' = Min(S) /\ fan' = fan /\ profile' = profile
    BY <1>2 DEF Next
  <2>4. x \in 0..MaxX /\ MaxX \in Nat
    BY CurveAssumption DEF TypeOK
  <2>5. (x' = x + 1 \/ x' = MaxX) /\ x' <= MaxX
    BY <2>2, <2>3
  <2>6. x' \in 0..MaxX /\ x <= x'
    BY <2>4, <2>5
  <2> QED BY <2>3, <2>6 DEF TypeOK
<1> QED BY <1>1, <1>2


LEMMA AlwaysTypeOK == Spec => []TypeOK
<1>1. TypeOK /\ [Next]_vars => TypeOK'
  BY NextUp
<1> QED BY InitTypeOK, <1>1, PTL DEF Spec

\* The speed asked for does not fall as x rises, with tables or without.
LEMMA AskedRises ==
  ASSUME NEW p \in Profile, NEW f \in Fans, NEW y \in Nat, NEW z \in Nat, y <= z, z <= Hottest
  PROVE  /\ Speed(fan_profiles(p, f), Celsius(y)) \in Int
         /\ Speed(fan_profiles(p, f), Celsius(z)) \in Int
         /\ Speed(fan_profiles(p, f), Celsius(y)) <= Speed(fan_profiles(p, f), Celsius(z))
<1> DEFINE c == Celsius(y)
           d == Celsius(z)
<1>1. /\ c \in Nat /\ d \in Nat /\ d <= 255
      /\ c = y \div 10 /\ d = z \div 10
  BY DegreesOf DEF Hottest
<1>2. c <= d
  BY <1>1, LineRises
<1> HIDE DEF c, d
<1>3. CASE p \in 4..7
  <2> DEFINE tbl == better_performance(f)
  <2>1. fan_profiles(p, f) = tbl
    BY <1>3, ProfileTable
  <2>2. Ladder(tbl)
    BY TablesAreLadders
  <2> HIDE DEF tbl
  <2>3. Speed(tbl, c) <= Speed(tbl, d)
    BY <1>1, <1>2, <2>2, SpeedRises
  <2>4. Speed(tbl, c) \in Int /\ Speed(tbl, d) \in Int
    BY <1>1, <2>2, SpeedIsInt
  <2> QED BY <2>1, <2>3, <2>4 DEF c, d
<1>4. CASE p \notin 4..7
  <2>1. fan_profiles(p, f) = <<>>
    BY <1>4, ProfileTable
  <2>2. Speed(<<>>, c) = 0 /\ Speed(<<>>, d) = 0
    BY NoTableNoSpeed
  <2>3. Speed(fan_profiles(p, f), c) = 0 /\ Speed(fan_profiles(p, f), d) = 0
    BY <2>1, <2>2
  <2> QED BY <2>3 DEF c, d
<1> QED BY <1>3, <1>4

\* HotterSpinsFaster, for every profile and to the end of the range: through
\* the LUT and the track the duty never falls while the temperature rises
\* (check_fan_rpm, cal_fan_pwm).
THEOREM HotterIsFaster == Spec => HotterSpinsFaster
<1>1. TypeOK /\ [Next]_vars => [x' <= Hottest => Duty' >= Duty]_vars
  <2> SUFFICES ASSUME TypeOK, [Next]_vars, x' <= Hottest
               PROVE  Duty' >= Duty
    OBVIOUS
  <2>1. TypeOK' /\ x <= x' /\ fan' = fan /\ profile' = profile
    BY NextUp
  <2>2. x \in Nat /\ x' \in Nat /\ fan \in Fans /\ profile \in Profile
    BY <2>1, CurveAssumption DEF TypeOK
  <2> DEFINE a == Speed(fan_profiles(profile, fan), Celsius(x))
             b == Speed(fan_profiles(profile, fan), Celsius(x'))
             p == cal_fan_pwm(track(fan), 100 * a)
             q == cal_fan_pwm(track(fan), 100 * b)
  <2>3. a \in Int /\ b \in Int /\ a <= b
    BY <2>1, <2>2, AskedRises
  <2>4. Duty = p /\ Duty' = q
    BY <2>1 DEF Duty, Asked
  <2> HIDE DEF a, b
  <2>5. 100 * a \in Int /\ 100 * b \in Int /\ 100 * a <= 100 * b
    BY <2>3
  <2>6. p <= q /\ p \in Nat /\ q \in Nat
    BY <2>2, <2>5, TracksRise, DutyRises, DutyWithinTrack
  <2> HIDE DEF p, q
  <2>7. q >= p
    BY <2>6
  <2> QED BY <2>4, <2>7
<1> QED BY AlwaysTypeOK, <1>1, PTL DEF Spec, HotterSpinsFaster

\* EveryDegreeServed, for every profile: no temperature falls between the rows
\* of a LUT.
THEOREM EveryDegreeIsServed == Spec => []EveryDegreeServed
<1>1. TypeOK => EveryDegreeServed
  <2> SUFFICES ASSUME TypeOK, 10 <= x, x <= Hottest, fan_profiles(profile, fan) # <<>>
               PROVE  Asked >= fan_profiles(profile, fan)[1].rpm
    BY DEF EveryDegreeServed
  <2>1. x \in Nat /\ fan \in Fans /\ profile \in Profile
    BY CurveAssumption DEF TypeOK
  <2> DEFINE tbl == better_performance(fan)
             c   == Celsius(x)
  <2>2. fan_profiles(profile, fan) = tbl
    BY <2>1, ProfileTable
  <2>3. c \in Nat /\ 1 <= c /\ c <= 255
    BY <2>1, DegreesOf
  <2>4. Ladder(tbl)
    BY <2>1, TablesAreLadders
  <2>5. Asked = Speed(tbl, c)
    BY <2>2 DEF Asked
  <2> HIDE DEF tbl, c
  <2>6. tbl[1].rpm <= Speed(tbl, c)
    BY <2>3, <2>4, SpeedServes
  <2>7. tbl[1].rpm \in Int
    BY <2>4, LadderRow, LadderEnds
  <2>8. Speed(tbl, c) \in Int
    BY <2>3, <2>4, SpeedIsInt
  <2>9. Speed(tbl, c) >= tbl[1].rpm
    BY <2>6, <2>7, <2>8
  <2> QED BY <2>2, <2>5, <2>9
<1> QED BY AlwaysTypeOK, <1>1, PTL

\* DutyInvertsTrack, for every speed: cal_fan_pwm gives the greatest duty at
\* which the fan does not outrun it.
THEOREM DutyIsInverse == Spec => []DutyInvertsTrack
<1>1. TypeOK => DutyInvertsTrack
  <2> SUFFICES ASSUME TypeOK
               PROVE  DutyInvertsTrack
    OBVIOUS
  <2> DEFINE t == track(fan)
             p == cal_fan_pwm(t, x)
  <2>1. x \in Int /\ Rising(t)
    BY TracksRise, CurveAssumption DEF TypeOK
  <2> HIDE DEF t
  <2>2. ASSUME t[1].rpm < x, x < t[Len(t)].rpm
        PROVE  ~Faster(t, p, x) /\ Faster(t, p + 1, x)
    <3>1. PICK k \in 1..Len(t) - 1 : OnSegment(t, k, x, p)
      BY <2>1, <2>2, DutyOnSegment
    <3> QED BY <2>1, <2>2, <3>1, NotFaster, ThenFaster
  <2> QED BY <2>2 DEF DutyInvertsTrack, t
<1> QED BY AlwaysTypeOK, <1>1, PTL

=============================================================================
