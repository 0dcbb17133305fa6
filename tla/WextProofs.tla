------------------------------ MODULE WextProofs ------------------------------
(***************************************************************************)
(* What the operators of module Wext compute, for every int.               *)
(***************************************************************************)
EXTENDS Wext, FiniteSetTheorems, WellFoundedInduction, TLAPS

-----------------------------------------------------------------------------
(***************************************************************************)
(* The least element of a set of naturals.  The proofs about frames and    *)
(* packet lists take it from here too, for their inductions.               *)
(***************************************************************************)

(* The intervals 0 .. m are finite, so of those that end in S one holds no *)
(* other: a set of naturals has a least element, and Min is one.           *)
LEMMA MinIsLeast ==
  ASSUME NEW S \in SUBSET Nat, S # {}
  PROVE  Min(S) \in S /\ \A x \in S : Min(S) <= x
<1> DEFINE T == {0 .. m : m \in S}
<1>1. T \subseteq FiniteSubsetsOf(Nat)
  <2> SUFFICES ASSUME NEW m \in S PROVE 0 .. m \in FiniteSubsetsOf(Nat)
    OBVIOUS
  <2>1. IsFiniteSet(0 .. m)
    BY FS_Interval
  <2>2. QED
    BY <2>1 DEF FiniteSubsetsOf
<1>2. T # {}
  OBVIOUS
<1>3. PICK I \in T : \A J \in T : <<J, I>> \notin StrictSubsetOrdering(Nat)
  <2> HIDE DEF T
  <2>1. QED
    BY <1>1, <1>2, FS_StrictSubsetOrderingWellFounded, WFMin
<1>4. PICK m \in S : I = 0 .. m
  OBVIOUS
<1>5. ASSUME NEW x \in S PROVE m <= x
  <2> SUFFICES ASSUME x < m PROVE FALSE
    OBVIOUS
  <2>1. 0 .. x \subseteq 0 .. m /\ 0 .. x # 0 .. m
    <3>1. m \in 0 .. m /\ m \notin 0 .. x
      OBVIOUS
    <3>2. QED
      BY <3>1
  <2>2. <<0 .. x, 0 .. m>> \in StrictSubsetOrdering(Nat)
    <3>1. 0 .. x \in SUBSET Nat /\ 0 .. m \in SUBSET Nat
      OBVIOUS
    <3>2. QED
      BY <2>1, <3>1 DEF StrictSubsetOrdering
  <2>3. QED
    BY <1>3, <1>4, <2>2
<1>6. QED
  BY <1>5 DEF Min

-----------------------------------------------------------------------------
(***************************************************************************)
(* The arithmetic of channels and frequencies.                             *)
(***************************************************************************)

(* The exponent of ten of an int. *)
LEMMA Log10Is ==
  ASSUME NEW n \in Nat, 0 < n, n <= IntMax
  PROVE  Log10(n) \in 0 .. 9 /\ 10^Log10(n) <= n /\ n \div 10^Log10(n) < 10
<1> DEFINE P(d) == 10^d <= n /\ n \div 10^d < 10
<1>1. /\ n < 10 => P(0)
      /\ 10 <= n /\ n < 100 => P(1)
      /\ 100 <= n /\ n < 1000 => P(2)
      /\ 1000 <= n /\ n < 10000 => P(3)
      /\ 10000 <= n /\ n < 100000 => P(4)
  BY SMT
<1>2. /\ 100000 <= n /\ n < 1000000 => P(5)
      /\ 1000000 <= n /\ n < 10000000 => P(6)
      /\ 10000000 <= n /\ n < 100000000 => P(7)
      /\ 100000000 <= n /\ n < 1000000000 => P(8)
      /\ 1000000000 <= n => P(9)
  BY SMT DEF IntMax
<1> HIDE DEF P
<1>3. \/ P(0) \/ P(1) \/ P(2) \/ P(3) \/ P(4) 
      \/ P(5) \/ P(6) \/ P(7) \/ P(8) \/ P(9)
  BY <1>1, <1>2, SMT
<1>4. \E d \in 0 .. 9 : P(d)
  BY <1>3, SMT
<1>5. Log10(n) \in 0 .. 9 /\ P(Log10(n))
  <2>1. Log10(n) = CHOOSE d \in 0 .. 9 : P(d)
    BY Zenon DEF Log10, P
  <2>2. QED
    BY <1>4, <2>1, Zenon
<1>6. QED
  BY <1>5 DEF P

(* A card takes the request for a number above 1024 for that many MHz,     *)
(* though iwfloat2freq keeps seven digits.                                 *)
LEMMA TunedToMegahertz ==
  ASSUME NEW n \in Nat, 1024 < n, n <= IntMax
  PROVE  /\ Tuned(ChannelRequest(n)) = Megahertz(ChannelRequest(n))
         /\ Megahertz(ChannelRequest(n)) \in Nat
         /\ \/ Megahertz(ChannelRequest(n)) = n
            \/ /\ Megahertz(ChannelRequest(n)) > 5900 /\ n > 5900
               /\ Megahertz(ChannelRequest(n)) <= n
<1> DEFINE d == Log10(n)
<1>1. /\ d \in 3 .. 9 /\ d \in Int
      /\ 10^d <= n /\ n \div 10^d < 10
  <2>1. d \in 0 .. 9 /\ 10^d <= n /\ n \div 10^d < 10
    BY Log10Is
  <2>2. /\ ~(n \div 10^0 < 10) /\ ~(n \div 10^1 < 10) /\ ~(n \div 10^2 < 10)
    BY SMT
  <2> HIDE DEF d
  <2>3. d # 0 /\ d # 1 /\ d # 2
    BY <2>1, <2>2, Zenon
  <2>4. QED
    BY <2>1, <2>3, SMT
<1>2. ChannelRequest(n) = IwFreq(Shifted(n, 6 - d) * 100, d - 2)
  <2> HIDE DEF d
  <2>1. d + 6 > 8 /\ 6 + 6 - (d + 6) = 6 - d /\ (d + 6) - 8 = d - 2 /\ n # 0 /\ n > 1024
    BY <1>1
  <2>2. QED
    BY <2>1 DEF ChannelRequest, Iwfloat2freq, d
<1> DEFINE m == Shifted(n, 6 - d) * 100
<1>3. /\ Tuned(ChannelRequest(n)) = Megahertz(ChannelRequest(n))
      /\ ChannelRequest(n) = IwFreq(m, d - 2)
  <2>1. d - 2 # 0
    BY <1>1
  <2>2. QED
    BY <1>2, <2>1 DEF Tuned, IwFreq
<1> HIDE DEF d, m
<1>4. CASE d = 3
  <2>1. m = n * 1000 * 100
    BY <1>4, SMT DEF m, Shifted
  <2>2. Megahertz(IwFreq(m, d - 2)) = (m + 50000) \div 100000
    BY <1>4, SMT DEF Megahertz, IwFreq
  <2>3. QED
    BY <1>3, <2>1, <2>2, SMT
<1>5. CASE d = 4
  <2>1. m = n * 100 * 100
    BY <1>5, SMT DEF m, Shifted
  <2>2. Megahertz(IwFreq(m, d - 2)) = (m + 5000) \div 10000
    BY <1>5, SMT DEF Megahertz, IwFreq
  <2>3. QED
    BY <1>3, <2>1, <2>2, SMT
<1>6. CASE d = 5
  <2>1. m = n * 10 * 100
    BY <1>6, SMT DEF m, Shifted
  <2>2. Megahertz(IwFreq(m, d - 2)) = (m + 500) \div 1000
    BY <1>6, SMT DEF Megahertz, IwFreq
  <2>3. QED
    BY <1>3, <2>1, <2>2, SMT
<1>7. CASE d = 6
  <2>1. m = n * 1 * 100
    BY <1>7, SMT DEF m, Shifted
  <2>2. Megahertz(IwFreq(m, d - 2)) = (m + 50) \div 100
    BY <1>7, SMT DEF Megahertz, IwFreq
  <2>3. QED
    BY <1>3, <2>1, <2>2, SMT
<1>8. CASE d = 7
  <2>1. m = (n \div 10) * 100 /\ 10000000 <= n
    <3>1. 6 - d < 0 /\ ~(6 - d >= 0) /\ 0 - (6 - d) = 1
      BY <1>8, SMT
    <3>2. m = (n \div 10^1) * 100
      BY <3>1, Zenon DEF m, Shifted
    <3>3. 10^7 <= n
      BY <1>1, <1>8, Zenon
    <3>4. QED
      BY <3>2, <3>3, SMT
  <2>2. Megahertz(IwFreq(m, d - 2)) = (m + 5) \div 10
    BY <1>8, SMT DEF Megahertz, IwFreq
  <2>3. /\ Megahertz(IwFreq(m, d - 2)) > 5900 /\ Megahertz(IwFreq(m, d - 2)) <= n
        /\ Megahertz(IwFreq(m, d - 2)) \in Nat
    BY <2>1, <2>2, SMT
  <2>4. QED
    BY <1>3, <2>1, <2>3, SMT
<1>9. CASE d = 8
  <2>1. m = (n \div 100) * 100 /\ 100000000 <= n
    <3>1. 6 - d < 0 /\ ~(6 - d >= 0) /\ 0 - (6 - d) = 2
      BY <1>9, SMT
    <3>2. m = (n \div 10^2) * 100
      BY <3>1, Zenon DEF m, Shifted
    <3>3. 10^8 <= n
      BY <1>1, <1>9, Zenon
    <3>4. QED
      BY <3>2, <3>3, SMT
  <2>2. Megahertz(IwFreq(m, d - 2)) = m * 1
    BY <1>9, SMT DEF Megahertz, IwFreq
  <2>3. /\ Megahertz(IwFreq(m, d - 2)) > 5900 /\ Megahertz(IwFreq(m, d - 2)) <= n
        /\ Megahertz(IwFreq(m, d - 2)) \in Nat
    BY <2>1, <2>2, SMT
  <2>4. QED
    BY <1>3, <2>1, <2>3, SMT
<1>10. CASE d = 9
  <2>1. m = (n \div 1000) * 100 /\ 1000000000 <= n
    <3>1. 6 - d < 0 /\ ~(6 - d >= 0) /\ 0 - (6 - d) = 3
      BY <1>10, SMT
    <3>2. m = (n \div 10^3) * 100
      BY <3>1, Zenon DEF m, Shifted
    <3>3. 10^9 <= n
      BY <1>1, <1>10, Zenon
    <3>4. QED
      BY <3>2, <3>3, SMT
  <2>2. Megahertz(IwFreq(m, d - 2)) = m * 10
    BY <1>10, SMT DEF Megahertz, IwFreq
  <2>3. /\ Megahertz(IwFreq(m, d - 2)) > 5900 /\ Megahertz(IwFreq(m, d - 2)) <= n
        /\ Megahertz(IwFreq(m, d - 2)) \in Nat
    BY <2>1, <2>2, SMT
  <2>4. QED
    BY <1>3, <2>1, <2>3, SMT
<1>11. QED
  BY <1>1, <1>4, <1>5, <1>6, <1>7, <1>8, <1>9, <1>10, SMT

(* The number floatchan2int finds is that of the frequency, 0 if the table *)
(* does not hold it.                                                       *)
LEMMA ChannelFound ==
  ASSUME NEW mhz
  PROVE  \/ /\ Floatchan2int(mhz) \in Nat \ {0}
            /\ Chan2mhz(Floatchan2int(mhz)) = mhz
            /\ mhz \in {IEEE80211Freq[x] : x \in DOMAIN IEEE80211Freq}
         \/ /\ Floatchan2int(mhz) = 0
            /\ mhz \notin {IEEE80211Freq[x] : x \in DOMAIN IEEE80211Freq}
<1> DEFINE X == {x \in DOMAIN IEEE80211Freq : IEEE80211Freq[x] = mhz}
<1>1. DOMAIN IEEE80211Freq = 1 .. 32
  BY DEF IEEE80211Freq
<1>2. CASE X = {}
  BY <1>2 DEF Floatchan2int
<1>3. CASE X # {}
  <2>1. X \in SUBSET Nat
    BY <1>1
  <2>2. PICK x \in 1 .. 32 : x = Min(X) /\ IEEE80211Freq[x] = mhz
    <3>1. Min(X) \in X
      BY <1>3, <2>1, MinIsLeast
    <3>2. QED
      BY <1>1, <3>1
  <2>3. Floatchan2int(mhz) = IEEE80211Ch[x]
    BY <1>3, <2>2 DEF Floatchan2int
  <2>4. IEEE80211Ch[x] \in Nat \ {0} /\ Chan2mhz(IEEE80211Ch[x]) = IEEE80211Freq[x]
    BY SMT DEF IEEE80211Ch, IEEE80211Freq, Chan2mhz
  <2>5. QED
    BY <1>1, <2>2, <2>3, <2>4
<1>4. QED
  BY <1>2, <1>3

(* What get_channel may return for a card tuned to mhz. *)
Stands(chan, mhz) ==
  \/ chan > 0 /\ Chan2mhz(chan) = mhz
  \/ chan = 0 /\ (mhz \notin {IEEE80211Freq[x] : x \in DOMAIN IEEE80211Freq}
                     \/ \E c \in 1 .. 14 : Chan2mhz(c) = mhz)

(* The request for a number up to 1024 is that number.                     *)
LEMMA SmallRequest ==
  ASSUME NEW n \in Nat, n <= 1024
  PROVE  ChannelRequest(n) = IwFreq(n, 0)
<1>1. CASE n = 0
  BY <1>1 DEF ChannelRequest, Iwfloat2freq
<1>2. CASE n # 0
  <2> DEFINE d == Log10(n)
  <2>1. 0 < n /\ n <= IntMax
    BY <1>2, SMT DEF IntMax
  <2>2. d \in 0 .. 9 /\ 10^d <= n
    BY <2>1, Log10Is
  <2> HIDE DEF d
  <2>3. d # 9
    <3>1. ~(10^9 <= n)
      BY SMT
    <3>2. QED
      BY <2>2, <3>1, Zenon
  <2>4. ~(d + 0 > 8) /\ n * 10^0 = n /\ ~(n > 1024)
    BY <2>2, <2>3, SMT
  <2>5. QED
    BY <1>2, <2>4 DEF ChannelRequest, Iwfloat2freq, d
<1>3. QED
  BY <1>1, <1>2

(* Above 1000 a card is left without a frequency.                          *)
LEMMA PlainMegahertz ==
  ASSUME NEW n \in Nat, n <= 1024
  PROVE  /\ Megahertz(IwFreq(n, 0)) = 0
         /\ Tuned(IwFreq(n, 0)) = IF n <= 1000 THEN Chan2mhz(n) ELSE 0
<1>1. Megahertz(IwFreq(n, 0)) = (n + 500000) \div 1000000
  BY SMT DEF Megahertz, IwFreq
<1>2. Megahertz(IwFreq(n, 0)) = 0
  BY <1>1, SMT
<1>3. QED
  BY <1>2 DEF Tuned, IwFreq

(* Whatever channel is asked for, the card is tuned to a frequency that is *)
(* an int again.                                                           *)
LEMMA TunedIsInt ==
  ASSUME NEW n \in Nat, n <= IntMax
  PROVE  Tuned(ChannelRequest(n)) \in Nat /\ Tuned(ChannelRequest(n)) <= IntMax
<1>1. CASE n > 1024
  <2>1. IntMax \in Int
    BY SMT DEF IntMax
  <2>2. QED
    BY <1>1, <2>1, TunedToMegahertz, SMT
<1>2. CASE n <= 1024
  <2>1. Tuned(ChannelRequest(n)) = IF n <= 1000 THEN Chan2mhz(n) ELSE 0
    BY <1>2, SmallRequest, PlainMegahertz
  <2>2. n <= 1000 => Chan2mhz(n) \in Nat /\ Chan2mhz(n) <= 10000
    BY SMT DEF Chan2mhz
  <2>3. 10000 <= IntMax /\ IntMax \in Int
    BY SMT DEF IntMax
  <2>4. QED
    BY <2>1, <2>2, <2>3, SMT
<1>3. QED
  BY <1>1, <1>2

(* No channel of the table is below 1025 MHz or above 5900.                *)
LEMMA TableRange ==
  ASSUME NEW n \in Int, n <= 1024 \/ n > 5900
  PROVE  n \notin {IEEE80211Freq[x] : x \in DOMAIN IEEE80211Freq}
BY SMT DEF IEEE80211Freq

(* A channel's number is what get_channel makes of every report of it.     *)
LEMMA ReportsStand ==
  ASSUME NEW mhz \in Nat, mhz <= IntMax, NEW f \in Reports(mhz)
  PROVE  /\ Floatchan2int(Megahertz(f)) \in Int
         /\ Stands(Floatchan2int(Megahertz(f)), mhz)
<1>1. CASE Megahertz(f) = mhz
  BY <1>1, ChannelFound DEF Stands
<1>2. ASSUME Megahertz(f) \in Int, Megahertz(f) <= 1024 \/ Megahertz(f) > 5900
      PROVE  Floatchan2int(Megahertz(f)) = 0
  BY <1>2, TableRange, ChannelFound
<1>3. \/ f = IwFreq(mhz, 6) \/ f = ChannelRequest(mhz)
      \/ \E c \in 1 .. 14 : Chan2mhz(c) = mhz /\ f = IwFreq(c, 0)
  BY DEF Reports
<1>4. CASE f = IwFreq(mhz, 6)
  <2>1. 6 >= 6 /\ mhz * 10^(6 - 6) = mhz
    BY SMT
  <2>2. Megahertz(f) = mhz
    BY <1>4, <2>1 DEF Megahertz, IwFreq
  <2>3. QED
    BY <1>1, <2>2
<1>5. CASE f = ChannelRequest(mhz)
  <2>1. CASE mhz <= 1024
    <3>1. Megahertz(f) = 0
      BY <1>5, <2>1, SmallRequest, PlainMegahertz
    <3>2. Floatchan2int(Megahertz(f)) = 0
      BY <1>2, <3>1, SMT
    <3>3. mhz \notin {IEEE80211Freq[x] : x \in DOMAIN IEEE80211Freq}
      BY <2>1, TableRange
    <3>4. QED
      BY <3>2, <3>3 DEF Stands
  <2>2. CASE mhz > 1024
    <3>1. \/ Megahertz(f) = mhz
          \/ Megahertz(f) > 5900 /\ mhz > 5900 /\ Megahertz(f) \in Nat
      BY <1>5, <2>2, TunedToMegahertz
    <3>2. CASE Megahertz(f) > 5900 /\ mhz > 5900 /\ Megahertz(f) \in Nat
      <4>1. Floatchan2int(Megahertz(f)) = 0
        BY <1>2, <3>2
      <4>2. mhz \notin {IEEE80211Freq[x] : x \in DOMAIN IEEE80211Freq}
        BY <3>2, TableRange
      <4>3. QED
        BY <4>1, <4>2 DEF Stands
    <3>3. QED
      BY <1>1, <3>1, <3>2
  <2>3. QED
    BY <2>1, <2>2
<1>6. ASSUME NEW c \in 1 .. 14, Chan2mhz(c) = mhz, f = IwFreq(c, 0)
      PROVE  Floatchan2int(Megahertz(f)) = 0
  <2>1. c \in Nat /\ c <= 1024
    OBVIOUS
  <2>2. Megahertz(f) = 0
    BY <1>6, <2>1, PlainMegahertz
  <2>3. QED
    BY <1>2, <2>2, SMT
<1>7. QED
  BY <1>3, <1>4, <1>5, <1>6 DEF Stands
=============================================================================
