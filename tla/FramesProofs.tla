------------------------------ MODULE FramesProofs ------------------------------
(***************************************************************************)
(* What the frozen frames hold and where a captured one is found, for every*)
(* request, element, QoS header, capture header and snapshot length.  The  *)
(* induction is over the steps only: that a list of any length flattens and*)
(* reads as it does is shown by the least place where it would not.        *)
(***************************************************************************)
EXTENDS Frames, WextProofs, SequenceTheorems

-----------------------------------------------------------------------------
(***************************************************************************)
(* Components laid end to end.                                             *)
(***************************************************************************)
Octets == Seq(Nat)

(* A set of numbers has a least one: where an induction would be. *)
LEMMA Least ==
  ASSUME NEW S \in SUBSET Nat, S # {}
  PROVE  \E n \in S : \A x \in S : n <= x
BY MinIsLeast, Zenon

(* The octets of a list's first components, as FlattenSeq computes them. *)
IsFlat(s, n, g) == g = [i \in 1 .. n |-> IF i = 1 THEN s[i] ELSE g[i - 1] \o s[i]]

(* The first n components can be laid end to end, for every n. *)
LEMMA FlatExists ==
  ASSUME NEW s \in Seq(Octets)
  PROVE  \A n \in 1 .. Len(s) : \E g : IsFlat(s, n, g)
<1> DEFINE S == {n \in 1 .. Len(s) : ~\E g : IsFlat(s, n, g)}
<1> SUFFICES ASSUME S # {} PROVE FALSE
  OBVIOUS
<1>1. PICK n \in S : \A x \in S : n <= x
  <2>1. S \in SUBSET Nat
    OBVIOUS
  <2> HIDE DEF S
  <2>2. QED
    BY <2>1, Least
<1>2. n \in Nat /\ 1 <= n /\ n <= Len(s) /\ ~\E g : IsFlat(s, n, g)
  OBVIOUS
<1>3. n # 1
  <2> SUFFICES ASSUME n = 1 PROVE FALSE
    OBVIOUS
  <2> DEFINE g == [i \in 1 .. 1 |-> s[i]]
  <2>1. g = [i \in 1 .. 1 |-> IF i = 1 THEN s[i] ELSE g[i - 1] \o s[i]]
    OBVIOUS
  <2>2. IsFlat(s, 1, g)
    <3> HIDE DEF g
    <3>1. QED
      BY <2>1 DEF IsFlat
  <2>3. QED
    BY <1>2, <2>2
<1>4. PICK g : IsFlat(s, n - 1, g)
  <2>1. n - 1 \in 1 .. Len(s) /\ n - 1 \notin S
    BY <1>1, <1>2, <1>3
  <2>2. QED
    BY <2>1
<1> DEFINE h == [i \in 1 .. n |-> IF i = n THEN g[n - 1] \o s[n] ELSE g[i]]
<1>5. \A i \in 1 .. n : h[i] = IF i = 1 THEN s[i] ELSE h[i - 1] \o s[i]
  <2> SUFFICES ASSUME NEW i \in 1 .. n
               PROVE  h[i] = IF i = 1 THEN s[i] ELSE h[i - 1] \o s[i]
    OBVIOUS
  <2>1. CASE i = n
    <3>1. h[n] = g[n - 1] \o s[n] /\ h[n - 1] = g[n - 1]
      <4>1. n \in 1 .. n /\ n - 1 \in 1 .. n /\ n - 1 # n
        BY <1>2, <1>3
      <4>2. QED
        BY <4>1
    <3>2. QED
      BY <1>3, <2>1, <3>1
  <2>2. CASE i # n
    <3>1. i \in 1 .. n - 1
      BY <1>2, <2>2
    <3>2. g[i] = IF i = 1 THEN s[i] ELSE g[i - 1] \o s[i]
      BY <1>4, <3>1 DEF IsFlat
    <3>3. h[i] = g[i] /\ (i # 1 => h[i - 1] = g[i - 1])
      BY <1>2, <2>2
    <3>4. QED
      BY <3>2, <3>3
  <2>3. QED
    BY <2>1, <2>2
<1>6. h = [i \in 1 .. n |-> h[i]]
  OBVIOUS
<1>7. IsFlat(s, n, h)
  <2> HIDE DEF h
  <2>1. QED
    BY <1>5, <1>6 DEF IsFlat
<1>8. QED
  BY <1>2, <1>7

(* FlattenSeq is the last of them. *)
LEMMA FlatIs ==
  ASSUME NEW s \in Seq(Octets), s # <<>>
  PROVE  \E g : IsFlat(s, Len(s), g) /\ FlattenSeq(s) = g[Len(s)]
<1>1. Len(s) \in Nat /\ Len(s) # 0
  OBVIOUS
<1> DEFINE g == CHOOSE g : g = [i \in 1 .. Len(s) |-> IF i = 1 THEN s[i] ELSE g[i - 1] \o s[i]]
<1>2. IsFlat(s, Len(s), g)
  <2>1. \E x : x = [i \in 1 .. Len(s) |-> IF i = 1 THEN s[i] ELSE x[i - 1] \o s[i]]
    <3>1. \E x : IsFlat(s, Len(s), x)
      BY <1>1, FlatExists
    <3>2. QED
      BY <3>1 DEF IsFlat
  <2>2. g = [i \in 1 .. Len(s) |-> IF i = 1 THEN s[i] ELSE g[i - 1] \o s[i]]
    BY <2>1, Zenon
  <2>3. QED
    BY <2>2, Zenon DEF IsFlat
<1>3. FlattenSeq(s) = g[Len(s)]
  BY <1>1 DEF FlattenSeq
<1> HIDE DEF g
<1>4. QED
  BY <1>2, <1>3

(* Each is a sequence of octets. *)
LEMMA FlatType ==
  ASSUME NEW s \in Seq(Octets), NEW n \in Nat, n <= Len(s), NEW g, IsFlat(s, n, g)
  PROVE  \A i \in 1 .. n : g[i] \in Octets
<1> DEFINE S == {i \in 1 .. n : g[i] \notin Octets}
<1> SUFFICES ASSUME S # {} PROVE FALSE
  OBVIOUS
<1>1. PICK i \in S : \A x \in S : i <= x
  <2>1. S \in SUBSET Nat
    OBVIOUS
  <2> HIDE DEF S
  <2>2. QED
    BY <2>1, Least
<1>2. i \in Nat /\ 1 <= i /\ i <= n /\ g[i] \notin Octets /\ s[i] \in Octets
  OBVIOUS
<1>3. i # 1
  BY <1>2 DEF IsFlat
<1>4. i - 1 \in 1 .. n /\ i - 1 \notin S
  BY <1>1, <1>2, <1>3
<1>5. g[i - 1] \in Octets
  BY <1>4
<1>6. g[i] = g[i - 1] \o s[i]
  BY <1>2, <1>3 DEF IsFlat
<1>7. QED
  BY <1>2, <1>5, <1>6 DEF Octets

(* The octets of the first components do not depend on the rest. *)
LEMMA FlatUnique ==
  ASSUME NEW s \in Seq(Octets), NEW t \in Seq(Octets), NEW m \in Nat, NEW n \in Nat,
         m <= n, m <= Len(s), m <= Len(t), \A i \in 1 .. m : s[i] = t[i],
         NEW g, IsFlat(s, m, g), NEW h, IsFlat(t, n, h)
  PROVE  \A i \in 1 .. m : g[i] = h[i]
<1> DEFINE S == {i \in 1 .. m : g[i] # h[i]}
<1> SUFFICES ASSUME S # {} PROVE FALSE
  OBVIOUS
<1>1. PICK i \in S : \A x \in S : i <= x
  <2>1. S \in SUBSET Nat
    OBVIOUS
  <2> HIDE DEF S
  <2>2. QED
    BY <2>1, Least
<1>2. i \in Nat /\ 1 <= i /\ i <= m /\ g[i] # h[i] /\ s[i] = t[i]
  OBVIOUS
<1>3. i # 1
  BY <1>2 DEF IsFlat
<1>4. i - 1 \in 1 .. m /\ i - 1 \notin S
  BY <1>1, <1>2, <1>3
<1>5. g[i - 1] = h[i - 1]
  BY <1>4
<1>6. g[i] = g[i - 1] \o s[i] /\ h[i] = h[i - 1] \o t[i]
  <2>1. i \in 1 .. m /\ i \in 1 .. n
    BY <1>2
  <2>2. g[i] = g[i - 1] \o s[i]
    BY <1>3, <2>1 DEF IsFlat
  <2>3. h[i] = h[i - 1] \o t[i]
    BY <1>3, <2>1 DEF IsFlat
  <2>4. QED
    BY <2>2, <2>3
<1>7. QED
  BY <1>2, <1>5, <1>6

(* No components are no octets. *)
LEMMA FlattenNone == FlattenSeq(<<>>) = <<>>
BY DEF FlattenSeq

(* Components of octets flatten to octets. *)
LEMMA FlattenType ==
  ASSUME NEW s \in Seq(Octets)
  PROVE  FlattenSeq(s) \in Octets
<1>1. CASE s = <<>>
  <2>1. <<>> \in Octets
    BY DEF Octets
  <2>2. QED
    BY <1>1, <2>1, FlattenNone
<1>2. CASE s # <<>>
  <2>1. PICK g : IsFlat(s, Len(s), g) /\ FlattenSeq(s) = g[Len(s)]
    BY <1>2, FlatIs
  <2>2. Len(s) \in Nat /\ 1 <= Len(s)
    BY <1>2
  <2>3. \A i \in 1 .. Len(s) : g[i] \in Octets
    BY <2>1, <2>2, FlatType
  <2>4. QED
    BY <2>1, <2>2, <2>3
<1>3. QED
  BY <1>1, <1>2

(* A component is appended to the octets. *)
LEMMA FlattenAppend ==
  ASSUME NEW s \in Seq(Octets), NEW x \in Octets
  PROVE  FlattenSeq(Append(s, x)) = FlattenSeq(s) \o x
<1> DEFINE t == Append(s, x)
           n == Len(s)
<1>1. /\ t \in Seq(Octets) /\ t # <<>> /\ Len(t) = n + 1 /\ n \in Nat /\ t[n + 1] = x
      /\ \A i \in 1 .. n : t[i] = s[i]
  OBVIOUS
<1>2. PICK h : IsFlat(t, n + 1, h) /\ FlattenSeq(t) = h[n + 1]
  <2> HIDE DEF t
  <2>1. QED
    BY <1>1, FlatIs
<1> HIDE DEF t
<1>3. CASE s = <<>>
  <2>1. n = 0 /\ h[1] = t[1]
    BY <1>2, <1>3 DEF IsFlat
  <2>2. FlattenSeq(t) = x
    BY <1>1, <1>2, <2>1
  <2>3. <<>> \o x = x
    BY DEF Octets
  <2>4. QED
    BY <1>3, <2>2, <2>3, FlattenNone DEF t
<1>4. CASE s # <<>>
  <2>1. PICK g : IsFlat(s, n, g) /\ FlattenSeq(s) = g[n]
    BY <1>4, FlatIs
  <2>2. 1 <= n
    BY <1>4
  <2>3. g[n] = h[n]
    <3>1. \A i \in 1 .. n : g[i] = h[i]
      <4> HIDE DEF n
      <4>1. n <= n + 1 /\ n <= Len(s) /\ n <= Len(t) /\ n + 1 \in Nat
        BY <1>1 DEF n
      <4>2. QED
        BY <1>1, <1>2, <2>1, <4>1, FlatUnique
    <3>2. QED
      BY <1>1, <2>2, <3>1
  <2>4. h[n + 1] = h[n] \o t[n + 1]
    <3>1. n + 1 \in 1 .. n + 1 /\ n + 1 # 1 /\ (n + 1) - 1 = n
      BY <1>1, <2>2
    <3>2. QED
      BY <1>2, <3>1 DEF IsFlat
  <2>5. QED
    BY <1>1, <1>2, <2>1, <2>3, <2>4 DEF t
<1>5. QED
  BY <1>3, <1>4

-----------------------------------------------------------------------------
(***************************************************************************)
(* Elements read from the octets.                                          *)
(***************************************************************************)

(* What is read at p, by g for the elements behind the first. *)
Read(f, g, p) ==
  IF p = Len(f) THEN <<>>
  ELSE IF p + 2 > Len(f) \/ p + 2 + f[p + 2] > Len(f) THEN <<<<>>>>
  ELSE <<<<f[p + 1], f[p + 2]>>>> \o g[p + 2 + f[p + 2]]

Reads(f, m, g) == g = [p \in m .. Len(f) |-> Read(f, g, p)]

(* There is a function that reads the elements of the last d octets. *)
LEMMA ReadsExists ==
  ASSUME NEW f \in Octets
  PROVE  \A d \in 0 .. Len(f) : \E g : Reads(f, Len(f) - d, g)
<1> DEFINE S == {d \in 0 .. Len(f) : ~\E g : Reads(f, Len(f) - d, g)}
<1> SUFFICES ASSUME S # {} PROVE FALSE
  OBVIOUS
<1>1. PICK d \in S : \A x \in S : d <= x
  <2>1. S \in SUBSET Nat
    OBVIOUS
  <2> HIDE DEF S
  <2>2. QED
    BY <2>1, Least
<1> DEFINE m == Len(f) - d
<1>2. d \in 0 .. Len(f) /\ ~\E g : Reads(f, m, g)
  OBVIOUS
<1>3. m \in Nat /\ m <= Len(f) /\ Len(f) \in Nat /\ \A i \in 1 .. Len(f) : f[i] \in Nat
  BY <1>2 DEF Octets
<1>4. PICK g : d # 0 => Reads(f, m + 1, g)
  <2>1. CASE d = 0
    BY <2>1
  <2>2. CASE d # 0
    <3>1. d - 1 \in 0 .. Len(f) /\ Len(f) - (d - 1) = m + 1
      BY <1>2, <1>3, <2>2
    <3>2. \E x : Reads(f, Len(f) - (d - 1), x)
      <4>1. ~(d <= d - 1)
        BY <1>2
      <4>2. d - 1 \notin S
        <5> HIDE DEF S
        <5>1. QED
          BY <1>1, <4>1
      <4>3. QED
        BY <3>1, <4>2
    <3>3. QED
      BY <3>1, <3>2
  <2>3. QED
    BY <2>1, <2>2
<1> DEFINE h == [p \in m .. Len(f) |-> IF p = m THEN Read(f, g, m) ELSE g[p]]
<1> HIDE DEF m
<1>5. \A q \in m + 1 .. Len(f) : h[q] = g[q]
  BY <1>3
<1>6. \A p \in m .. Len(f) : Read(f, h, p) = Read(f, g, p)
  <2> SUFFICES ASSUME NEW p \in m .. Len(f) PROVE Read(f, h, p) = Read(f, g, p)
    OBVIOUS
  <2>1. CASE p = Len(f) \/ p + 2 > Len(f) \/ p + 2 + f[p + 2] > Len(f)
    BY <2>1 DEF Read
  <2>2. CASE ~(p = Len(f) \/ p + 2 > Len(f) \/ p + 2 + f[p + 2] > Len(f))
    <3>1. f[p + 2] \in Nat
      BY <1>3, <2>2
    <3>2. p + 2 + f[p + 2] \in m + 1 .. Len(f)
      BY <1>3, <2>2, <3>1
    <3>3. h[p + 2 + f[p + 2]] = g[p + 2 + f[p + 2]]
      BY <1>5, <3>2
    <3>4. QED
      BY <2>2, <3>3 DEF Read
  <2>3. QED
    BY <2>1, <2>2
<1>7. \A p \in m .. Len(f) : h[p] = Read(f, h, p)
  <2> SUFFICES ASSUME NEW p \in m .. Len(f) PROVE h[p] = Read(f, g, p)
    BY <1>6
  <2>1. CASE p = m
    BY <2>1
  <2>2. CASE p # m
    <3>1. d # 0 /\ p \in m + 1 .. Len(f)
      BY <1>2, <1>3, <2>2 DEF m
    <3>2. g[p] = Read(f, g, p)
      <4>1. Reads(f, m + 1, g)
        BY <1>4, <3>1
      <4>2. g = [q \in m + 1 .. Len(f) |-> Read(f, g, q)]
        BY <4>1, Zenon DEF Reads
      <4>3. QED
        BY <3>1, <4>2
    <3>3. QED
      BY <2>2, <3>2
  <2>3. QED
    BY <2>1, <2>2
<1>8. h = [p \in m .. Len(f) |-> h[p]]
  OBVIOUS
<1>9. Reads(f, m, h)
  <2> HIDE DEF h
  <2>1. [p \in m .. Len(f) |-> h[p]] = [p \in m .. Len(f) |-> Read(f, h, p)]
    BY <1>7
  <2>2. QED
    BY <1>8, <2>1, Zenon DEF Reads
<1>10. QED
  BY <1>2, <1>9

(* ElementsAt is computed at each place from the places behind it. *)
LEMMA ElementsAtIs ==
  ASSUME NEW f \in Octets
  PROVE  \E g : /\ \A p \in 0 .. Len(f) : ElementsAt(f, p) = g[p] /\ g[p] = Read(f, g, p)
<1> DEFINE g == CHOOSE g : g = [p \in 0 .. Len(f) |->
                  IF p = Len(f) THEN <<>>
                  ELSE IF p + 2 > Len(f) \/ p + 2 + f[p + 2] > Len(f) THEN <<<<>>>>
                  ELSE <<<<f[p + 1], f[p + 2]>>>> \o g[p + 2 + f[p + 2]]]
<1>1. Reads(f, 0, g)
  <2>1. Len(f) \in 0 .. Len(f) /\ Len(f) - Len(f) = 0
    BY DEF Octets
  <2>2. \E x : Reads(f, 0, x)
    BY <2>1, ReadsExists
  <2>3. QED
    BY <2>2, Zenon DEF Reads, Read
<1>2. \A p : ElementsAt(f, p) = g[p]
  BY Zenon DEF ElementsAt
<1> HIDE DEF g
<1>3. \A p \in 0 .. Len(f) : g[p] = Read(f, g, p)
  <2>1. g = [p \in 0 .. Len(f) |-> Read(f, g, p)]
    BY <1>1, Zenon DEF Reads
  <2>2. QED
    BY <2>1, Zenon
<1>4. QED
  BY <1>2, <1>3

-----------------------------------------------------------------------------
Pairs == Nat \X Nat

(* The elements es take the octets from a to b: the i-th ends at at[i].    *)
Ends(es, a, b, at) ==
  /\ at \in [0 .. Len(es) -> Nat] /\ at[0] = a /\ at[Len(es)] = b
  /\ \A k \in 1 .. Len(es) : at[k] = at[k - 1] + 2 + es[k][2]

(* ... and are written there.                                              *)
Written(f, es, at) ==
  \A k \in 1 .. Len(es) : f[at[k - 1] + 1] = es[k][1] /\ f[at[k - 1] + 2] = es[k][2]

(* Elements written up to the end are read. *)
LEMMA WrittenIsRead ==
  ASSUME NEW f \in Octets, NEW es \in Seq(Pairs), NEW a, NEW at,
         Ends(es, a, Len(f), at), Written(f, es, at)
  PROVE  a \in 0 .. Len(f) /\ ElementsAt(f, a) = es
<1> DEFINE n == Len(es)
<1>1. /\ n \in Nat /\ Len(f) \in Nat /\ at[0] = a /\ at[n] = Len(f)
      /\ \A k \in 0 .. n : at[k] \in Nat
  <2>1. n \in Nat /\ Len(f) \in Nat
    BY DEF Octets
  <2>2. at \in [0 .. n -> Nat] /\ at[0] = a /\ at[n] = Len(f)
    BY DEF Ends
  <2>3. QED
    BY <2>1, <2>2
<1>2. \A k \in 1 .. n : /\ es[k][2] \in Nat /\ at[k] = at[k - 1] + 2 + es[k][2]
                        /\ es[k] = <<es[k][1], es[k][2]>>
  BY DEF Ends, Pairs
<1>3. PICK g : \A p \in 0 .. Len(f) : ElementsAt(f, p) = g[p] /\ g[p] = Read(f, g, p)
  BY ElementsAtIs
<1> DEFINE Ok(k) == at[k] <= Len(f) /\ g[at[k]] = SubSeq(es, k + 1, n)
           S == {d \in 0 .. n : ~Ok(n - d)}
<1>4. ASSUME S # {} PROVE FALSE
  <2>1. PICK d \in S : \A x \in S : d <= x
    <3>1. S \in SUBSET Nat
      BY <1>1
    <3> HIDE DEF S
    <3>2. QED
      BY <1>4, <3>1, Least
  <2> DEFINE k == n - d
  <2>2. d \in 0 .. n /\ ~Ok(k)
    OBVIOUS
  <2> HIDE DEF n
  <2>3. k \in 0 .. n
    BY <1>1, <2>2
  <2>4. CASE d = 0
    <3>1. k = n
      BY <1>1, <2>4
    <3>2. g[Len(f)] = <<>>
      <4>1. Len(f) \in 0 .. Len(f)
        BY <1>1
      <4>2. QED
        BY <1>3, <4>1 DEF Read
    <3>3. SubSeq(es, n + 1, n) = <<>>
      BY <1>1, SubSeqEmpty
    <3>4. Ok(n)
      BY <1>1, <3>2, <3>3
    <3>5. QED
      BY <2>2, <3>1, <3>4
  <2>5. CASE d # 0
    <3> HIDE DEF Ok
    <3>1. Ok(k + 1)
      <4>1. d - 1 \in 0 .. n /\ ~(d <= d - 1) /\ n - (d - 1) = k + 1
        BY <1>1, <2>2, <2>5
      <4>2. d - 1 \notin S
        <5> HIDE DEF S
        <5>1. QED
          BY <2>1, <4>1
      <4>3. Ok(n - (d - 1))
        BY <4>1, <4>2
      <4>4. QED
        BY <4>1, <4>3
    <3> DEFINE p == at[k]
               q == at[k + 1]
    <3>2. k + 1 \in 1 .. n /\ k \in 0 .. n /\ (k + 1) - 1 = k
      BY <1>1, <2>2, <2>5
    <3>3. p \in Nat /\ q \in Nat /\ es[k + 1][2] \in Nat /\ q = p + 2 + es[k + 1][2] /\ q <= Len(f)
      BY <1>1, <1>2, <3>1, <3>2, SMTT(30) DEF Ok
    <3>4. f[p + 1] = es[k + 1][1] /\ f[p + 2] = es[k + 1][2]
      BY <3>2 DEF Written, n
    <3>5. g[p] = <<es[k + 1]>> \o g[q]
      <4>1. p \in 0 .. Len(f) /\ p # Len(f) /\ ~(p + 2 > Len(f))
        BY <1>1, <3>3, SMTT(30)
      <4>2. p + 2 + f[p + 2] = q
        BY <3>3, <3>4
      <4>3. ~(p + 2 + f[p + 2] > Len(f))
        BY <1>1, <3>3, <4>2
      <4>4. g[p] = Read(f, g, p)
        BY <1>3, <4>1
      <4>5. g[p] = <<<<f[p + 1], f[p + 2]>>>> \o g[p + 2 + f[p + 2]]
        BY <4>1, <4>3, <4>4 DEF Read
      <4>6. <<f[p + 1], f[p + 2]>> = es[k + 1]
        BY <1>2, <3>2, <3>4
      <4>7. QED
        BY <4>2, <4>5, <4>6
    <3>6. SubSeq(es, k + 1, n) = <<es[k + 1]>> \o SubSeq(es, k + 2, n)
      <4>1. k + 1 \in 1 .. Len(es) /\ n \in k + 1 .. Len(es) /\ (k + 1) + 1 = k + 2
        BY <1>1, <2>3, <3>2 DEF n
      <4>2. QED
        BY <4>1, SubSeqRecursiveFirst
    <3>7. g[q] = SubSeq(es, k + 2, n)
      <4>1. (k + 1) + 1 = k + 2
        BY <1>1, <2>3
      <4>2. QED
        BY <3>1, <4>1 DEF Ok
    <3>8. Ok(k)
      <4>1. p <= Len(f)
        BY <1>1, <3>3
      <4>2. QED
        BY <3>5, <3>6, <3>7, <4>1 DEF Ok
    <3>9. QED
      BY <2>2, <3>8
  <2>6. QED
    BY <2>4, <2>5
<1>5. Ok(0)
  <2>1. n \in 0 .. n /\ n - n = 0
    BY <1>1
  <2>2. QED
    BY <1>4, <2>1
<1>6. QED
  <2>1. SubSeq(es, 1, n) = es
    BY SubSeqFull
  <2>2. QED
    BY <1>1, <1>3, <1>5, <2>1

-----------------------------------------------------------------------------
(***************************************************************************)
(* The random source address.                                              *)
(***************************************************************************)
Byte == 0 .. 255

(* A number below 65536 is two octets. *)
LEMMA Halves ==
  ASSUME NEW n \in Nat, n < 65536
  PROVE  n \div 256 \in Byte /\ n % 256 \in Byte
<1>1. n \div 256 \in Byte
  BY SMT DEF Byte
<1>2. n % 256 \in Byte
  BY SMT DEF Byte
<1>3. QED
  BY <1>1, <1>2

(* Where the parts of a concatenation are. *)
LEMMA ConcatAt ==
  ASSUME NEW T, NEW s \in Seq(T), NEW t \in Seq(T)
  PROVE  /\ s \o t \in Seq(T) /\ Len(s \o t) = Len(s) + Len(t)
         /\ \A i \in 1 .. Len(s) : (s \o t)[i] = s[i]
         /\ \A i \in 1 .. Len(t) : (s \o t)[Len(s) + i] = t[i]
OBVIOUS

(* A function on 1 .. n is a sequence. *)
LEMMA FunctionIsSeq ==
  ASSUME NEW T, NEW n \in Nat, NEW t \in [1 .. n -> T]
  PROVE  t \in Seq(T) /\ Len(t) = n
OBVIOUS

(* The tails of the wireless OUIs are two octets each. *)
LEMMA TailsType ==
  Tails \in Seq(Nat) /\ \A i \in 1 .. Len(Tails) : Tails[i] \in Nat /\ Tails[i] < 65536
<1>1. Tails \in Seq(Nat)
  BY SMT DEF Tails
<1>2. \A i \in 1 .. Len(Tails) : Tails[i] < 65536
  BY SMT DEF Tails
<1>3. \A i \in 1 .. Len(Tails) : Tails[i] \in Nat
  BY <1>1, ElementOfSeq
<1>4. QED
  BY <1>1, <1>2, <1>3

(* Every OUI of the list is three octets, the first one even. *)
LEMMA OuilistType ==
  /\ Len(Ouilist) \in Nat /\ 0 < Len(Ouilist)
  /\ \A i \in 1 .. Len(Ouilist) : /\ Ouilist[i] \in Seq(Byte) /\ Len(Ouilist[i]) = 3
                                  /\ Ouilist[i][1] \in {0, 8}
<1> DEFINE n == Len(Tails)
           t == [k \in DOMAIN Tails |-> <<0, Tails[k] \div 256, Tails[k] % 256>>]
           u == <<8, 0, 70>>
<1>1. DOMAIN Tails = 1 .. n /\ n \in Nat
  BY TailsType
<1>2. ASSUME NEW k \in 1 .. n
      PROVE  t[k] \in Seq(Byte) /\ Len(t[k]) = 3 /\ t[k][1] = 0
  <2> DEFINE x == Tails[k] \div 256
             y == Tails[k] % 256
  <2>1. x \in Byte /\ y \in Byte
    <3>1. Tails[k] \in Nat /\ Tails[k] < 65536
      BY TailsType
    <3>2. QED
      BY <3>1, Halves
  <2>2. t[k] = <<0, x, y>>
    BY <1>1
  <2> HIDE DEF x, y, t
  <2>3. <<0, x, y>> \in Seq(Byte) /\ Len(<<0, x, y>>) = 3 /\ <<0, x, y>>[1] = 0
    BY <2>1 DEF Byte
  <2>4. QED
    BY <2>2, <2>3
<1>3. t \in [1 .. n -> Seq(Byte)]
  <2>1. t = [k \in 1 .. n |-> t[k]]
    BY <1>1
  <2> HIDE DEF t, n
  <2>2. QED
    BY <1>2, <2>1
<1>4. u \in Seq(Byte) /\ Len(u) = 3 /\ u[1] = 8
  BY DEF Byte
<1>5. Ouilist = t \o <<u>>
  BY DEF Ouilist
<1> HIDE DEF t, u, n
<1>6. t \in Seq(Seq(Byte)) /\ Len(t) = n
  BY <1>1, <1>3, FunctionIsSeq
<1>7. <<u>> \in Seq(Seq(Byte)) /\ Len(<<u>>) = 1 /\ <<u>>[1] = u
  BY <1>4
<1>8. Len(Ouilist) = n + 1 /\ Ouilist[n + 1] = u /\ \A i \in 1 .. n : Ouilist[i] = t[i]
  BY <1>5, <1>6, <1>7, ConcatAt
<1>9. QED
  <2> SUFFICES ASSUME NEW i \in 1 .. n + 1
               PROVE  /\ Ouilist[i] \in Seq(Byte) /\ Len(Ouilist[i]) = 3
                      /\ Ouilist[i][1] \in {0, 8}
    BY <1>1, <1>8
  <2>1. CASE i = n + 1
    BY <1>4, <1>8, <2>1
  <2>2. CASE i # n + 1
    <3>1. i \in 1 .. n
      BY <1>1, <2>2
    <3>2. QED
      BY <1>2, <1>8, <3>1
  <2>3. QED
    BY <2>1, <2>2

(* A random address is one, never the broadcast one, and one station's if valid. *)
LEMMA RandmacIs ==
  ASSUME NEW valid \in BOOLEAN, NEW r \in [1 .. 6 -> Nat]
  PROVE  /\ Randmac(valid, r) \in Address
         /\ Randmac(valid, r) # Broadcast
         /\ valid => Randmac(valid, r)[1] % 2 = 0
<1> DEFINE s == Randmac(valid, r)
<1>1. \A k \in 1 .. 6 : r[k] % 255 \in 0 .. 254
  OBVIOUS
<1>2. /\ s \in Address /\ s[6] \in 0 .. 254
      /\ valid => s[1] % 2 = 0
  <2>1. CASE ~valid
    <3>1. s = [k \in 1 .. 6 |-> r[k] % 255]
      BY <2>1 DEF Randmac
    <3> HIDE DEF s
    <3>2. s[6] = r[6] % 255
      BY <3>1
    <3>3. s[6] \in 0 .. 254
      BY <3>2
    <3>4. s \in Address
      <4>1. \A k \in 1 .. 6 : r[k] % 255 \in 0 .. 255
        OBVIOUS
      <4> DEFINE W == 0 .. 255
                 g(k) == r[k] % 255
      <4>2. s = [k \in 1 .. 6 |-> g(k)] /\ \A k \in 1 .. 6 : g(k) \in W
        BY <3>1, <4>1, Zenon
      <4> HIDE DEF W, g
      <4>3. s \in [1 .. 6 -> W]
        BY <4>2
      <4>4. QED
        BY <4>3 DEF W, Address
    <3>5. QED
      BY <2>1, <3>3, <3>4, Zenon
  <2>2. CASE valid
    <3> DEFINE o == Ouilist[(r[1] % Len(Ouilist)) + 1]
               t == [k \in 1 .. 3 |-> r[k + 3] % 255]
    <3>1. s = o \o t
      BY <2>2 DEF Randmac
    <3>2. (r[1] % Len(Ouilist)) + 1 \in 1 .. Len(Ouilist)
      <4> DEFINE m == Len(Ouilist)
      <4>1. m \in Nat /\ 0 < m /\ r[1] \in Nat
        BY OuilistType
      <4> HIDE DEF m
      <4>2. r[1] % m \in 0 .. m - 1
        BY <4>1
      <4>3. QED
        BY <4>1, <4>2, SMTT(30) DEF m
    <3>3. o \in Seq(Byte) /\ Len(o) = 3 /\ o[1] \in {0, 8}
      BY <3>2, OuilistType
    <3>4. t \in [1 .. 3 -> 0 .. 254]
      BY <1>1
    <3>5. t \in Seq(Byte) /\ Len(t) = 3 /\ t[3] \in 0 .. 254
      <4> DEFINE n == 3
      <4>1. t \in [1 .. n -> Byte] /\ n \in Nat
        BY <3>4 DEF Byte
      <4> HIDE DEF t, n
      <4>2. t \in Seq(Byte) /\ Len(t) = n
        BY <4>1, FunctionIsSeq
      <4>3. QED
        BY <3>4, <4>2 DEF n
    <3> HIDE DEF o, t
    <3>6. s \in Seq(Byte) /\ Len(s) = 6 /\ s[1] = o[1] /\ s[6] = t[3]
      <4>1. 1 \in 1 .. Len(o) /\ Len(t) \in 1 .. Len(t) /\ Len(o) + Len(t) = 6
        BY <3>3, <3>5
      <4>2. o \in Seq(Byte) /\ t \in Seq(Byte)
        BY <3>3, <3>5
      <4>3. /\ o \o t \in Seq(Byte) /\ Len(o \o t) = Len(o) + Len(t)
            /\ \A i \in 1 .. Len(o) : (o \o t)[i] = o[i]
            /\ \A i \in 1 .. Len(t) : (o \o t)[Len(o) + i] = t[i]
        BY <4>2, ConcatAt
      <4>4. (o \o t)[1] = o[1] /\ (o \o t)[Len(o) + Len(t)] = t[Len(t)]
        BY <4>1, <4>3, Zenon
      <4>5. QED
        BY <3>1, <3>5, <4>1, <4>3, <4>4
    <3>7. s \in Address
      <4>1. s \in [1 .. Len(s) -> Byte]
        BY <3>6, LenProperties
      <4>2. QED
        BY <3>6, <4>1, Zenon DEF Address, Byte
    <3>8. s[1] % 2 = 0
      BY <3>3, <3>6
    <3>9. QED
      BY <3>5, <3>6, <3>7, <3>8
  <2>3. QED
    BY <2>1, <2>2
<1>3. Broadcast[6] = 255
  BY DEF Broadcast, Fill
<1>4. QED
  BY <1>2, <1>3

-----------------------------------------------------------------------------
(***************************************************************************)
(* Octets of numbers.                                                      *)
(***************************************************************************)
LEMMA OctetIs ==
  ASSUME NEW v \in Nat
  PROVE  /\ Octet(v, 1) = v % 256 /\ Octet(v, 2) = (v \div 256) % 256
         /\ \A k \in Nat \ {0} : Octet(v, k) \in Nat /\ Octet(v, k) < 256
<1>1. Octet(v, 1) = v % 256
  <2>1. v \div 256^(1 - 1) = v
    BY SMT
  <2>2. QED
    BY <2>1 DEF Octet
<1>2. Octet(v, 2) = (v \div 256) % 256
  <2>1. 256^(2 - 1) = 256
    BY SMT
  <2>2. QED
    BY <2>1 DEF Octet
<1>3. Octet(v, 3) = (v \div 65536) % 256
  <2>1. 256^(3 - 1) = 65536
    BY SMT
  <2>2. QED
    BY <2>1 DEF Octet
<1>4. ASSUME NEW k \in Nat, k > 3 PROVE Octet(v, k) = 0
  BY <1>4 DEF Octet
<1>5. \A n \in Nat : n % 256 \in Nat /\ n % 256 < 256
  BY SMT
<1>6. v \div 256 \in Nat /\ v \div 65536 \in Nat
  BY SMT
<1>7. \A k \in Nat \ {0} : k = 1 \/ k = 2 \/ k = 3 \/ k > 3
  OBVIOUS
<1> DEFINE T == {n \in Nat : n < 256}
<1>8. Octet(v, 1) \in T /\ Octet(v, 2) \in T /\ Octet(v, 3) \in T
  BY <1>1, <1>2, <1>3, <1>5, <1>6
<1>9. \A k \in Nat \ {0} : Octet(v, k) \in T
  BY <1>4, <1>7, <1>8
<1>10. QED
  BY <1>1, <1>2, <1>9

(* A number of n octets. *)
LEMMA LittleIs ==
  ASSUME NEW v \in Nat, NEW n \in Nat
  PROVE  /\ Little(v, n) \in Octets /\ Len(Little(v, n)) = n
         /\ \A k \in 1 .. n : Little(v, n)[k] = Octet(v, k)
<1>1. \A k \in 1 .. n : Octet(v, k) \in Nat
  BY OctetIs
<1>2. Little(v, n) \in [1 .. n -> Nat] /\ \A k \in 1 .. n : Little(v, n)[k] = Octet(v, k)
  BY <1>1 DEF Little
<1>3. QED
  BY <1>2, FunctionIsSeq DEF Octets

(* An octet is made of its bits. *)
LEMMA Bits ==
  ASSUME NEW n \in Nat, n < 256
  PROVE  /\ \A k \in 0 .. 7 : Bit(n, k) \in {0, 1}
         /\ n = Bit(n, 0) + 2 * Bit(n, 1) + 4 * Bit(n, 2) + 8 * Bit(n, 3) + 16 * Bit(n, 4)
                + 32 * Bit(n, 5) + 64 * Bit(n, 6) + 128 * Bit(n, 7)
<1>1. /\ Bit(n, 0) = n % 2 /\ Bit(n, 1) = (n \div 2) % 2
      /\ Bit(n, 2) = (n \div 4) % 2 /\ Bit(n, 3) = (n \div 8) % 2
      /\ Bit(n, 4) = (n \div 16) % 2 /\ Bit(n, 5) = (n \div 32) % 2
      /\ Bit(n, 6) = (n \div 64) % 2 /\ Bit(n, 7) = (n \div 128) % 2
  BY SMT DEF Bit
<1>2. \A k \in 0 .. 7 : Bit(n, k) \in {0, 1}
  BY <1>1, SMT
<1>3. n = (n % 2) + 2 * ((n \div 2) % 2) + 4 * ((n \div 4) % 2) + 8 * ((n \div 8) % 2)
          + 16 * ((n \div 16) % 2) + 32 * ((n \div 32) % 2) + 64 * ((n \div 64) % 2)
          + 128 * ((n \div 128) % 2)
  BY SMT
<1>4. QED
  BY <1>1, <1>2, <1>3

(* Eight bits make an octet. *)
LEMMA BitsOf ==
  ASSUME NEW c \in [0 .. 7 -> {0, 1}]
  PROVE  \E n \in 0 .. 255 : \A k \in 0 .. 7 : Bit(n, k) = c[k]
<1> DEFINE n == c[0] + 2 * c[1] + 4 * c[2] + 8 * c[3] + 16 * c[4] + 32 * c[5] + 64 * c[6] + 128 * c[7]
<1>1. \A k \in 0 .. 7 : c[k] \in {0, 1}
  OBVIOUS
<1>2. n \in Nat /\ n < 256
  BY <1>1
<1>3. /\ Bit(n, 0) = c[0] /\ Bit(n, 1) = c[1] /\ Bit(n, 2) = c[2] /\ Bit(n, 3) = c[3]
      /\ Bit(n, 4) = c[4] /\ Bit(n, 5) = c[5] /\ Bit(n, 6) = c[6] /\ Bit(n, 7) = c[7]
  BY <1>1, SMT DEF Bit
<1>4. QED
  BY <1>2, <1>3, SMTT(30)

(* The | of octets without a bit in common is their sum. *)
LEMMA EitherIs ==
  ASSUME NEW a \in Nat, a < 256, NEW b \in Nat, b < 256
  PROVE  /\ Either(a, b) \in Nat /\ Either(a, b) < 256
         /\ (\A k \in 0 .. 7 : Bit(a, k) = 0 \/ Bit(b, k) = 0) => Either(a, b) = a + b
<1> DEFINE P(n) == \A k \in 0 .. 7 : Bit(n, k) = 1 <=> 1 \in {Bit(a, k), Bit(b, k)}
           c == [k \in 0 .. 7 |-> IF 1 \in {Bit(a, k), Bit(b, k)} THEN 1 ELSE 0]
           e == Either(a, b)
<1>1. PICK n \in 0 .. 255 : \A k \in 0 .. 7 : Bit(n, k) = c[k]
  <2>1. c \in [0 .. 7 -> {0, 1}]
    OBVIOUS
  <2> HIDE DEF c
  <2>2. QED
    BY <2>1, BitsOf
<1>2. P(n)
  BY <1>1
<1> HIDE DEF P, c
<1>3. e \in 0 .. 255 /\ P(e)
  <2>1. e = CHOOSE x \in 0 .. 255 : P(x)
    BY Zenon DEF Either, P
  <2>2. QED
    BY <1>2, <2>1, Zenon
<1> HIDE DEF e
<1>4. e \in Nat /\ e < 256
  BY <1>3
<1>5. ASSUME \A k \in 0 .. 7 : Bit(a, k) = 0 \/ Bit(b, k) = 0
      PROVE  e = a + b
  <2>1. ASSUME NEW k \in 0 .. 7 PROVE Bit(e, k) = Bit(a, k) + Bit(b, k)
    <3>1. Bit(a, k) \in {0, 1} /\ Bit(b, k) \in {0, 1} /\ Bit(e, k) \in {0, 1}
      BY <1>4, Bits
    <3>2. Bit(e, k) = 1 <=> 1 \in {Bit(a, k), Bit(b, k)}
      BY <1>3, Zenon DEF P
    <3>3. Bit(a, k) = 0 \/ Bit(b, k) = 0
      BY <1>5
    <3>4. QED
      BY <3>1, <3>2, <3>3
  <2>2. /\ Bit(e, 0) = Bit(a, 0) + Bit(b, 0) /\ Bit(e, 1) = Bit(a, 1) + Bit(b, 1)
        /\ Bit(e, 2) = Bit(a, 2) + Bit(b, 2) /\ Bit(e, 3) = Bit(a, 3) + Bit(b, 3)
        /\ Bit(e, 4) = Bit(a, 4) + Bit(b, 4) /\ Bit(e, 5) = Bit(a, 5) + Bit(b, 5)
        /\ Bit(e, 6) = Bit(a, 6) + Bit(b, 6) /\ Bit(e, 7) = Bit(a, 7) + Bit(b, 7)
    BY <2>1
  <2>3. \A k \in 0 .. 7 : Bit(a, k) \in Int /\ Bit(b, k) \in Int
    BY Bits
  <2>4. /\ e = Bit(e, 0) + 2 * Bit(e, 1) + 4 * Bit(e, 2) + 8 * Bit(e, 3) + 16 * Bit(e, 4)
                + 32 * Bit(e, 5) + 64 * Bit(e, 6) + 128 * Bit(e, 7)
        /\ a = Bit(a, 0) + 2 * Bit(a, 1) + 4 * Bit(a, 2) + 8 * Bit(a, 3) + 16 * Bit(a, 4)
                + 32 * Bit(a, 5) + 64 * Bit(a, 6) + 128 * Bit(a, 7)
        /\ b = Bit(b, 0) + 2 * Bit(b, 1) + 4 * Bit(b, 2) + 8 * Bit(b, 3) + 16 * Bit(b, 4)
                + 32 * Bit(b, 5) + 64 * Bit(b, 6) + 128 * Bit(b, 7)
    BY <1>4, Bits
  <2>5. QED
    BY <2>2, <2>3, <2>4
<1>6. QED
  BY <1>4, <1>5 DEF e

(* The sequence's and the fragment's bits are apart. *)
LEMMA BitsApart ==
  ASSUME NEW x \in Nat, x < 16, NEW y \in Nat, y < 16
  PROVE  \A k \in 0 .. 7 : Bit(16 * x, k) = 0 \/ Bit(y, k) = 0
<1>1. /\ Bit(16 * x, 0) = 0 /\ Bit(16 * x, 1) = 0 /\ Bit(16 * x, 2) = 0 /\ Bit(16 * x, 3) = 0
      /\ Bit(y, 4) = 0 /\ Bit(y, 5) = 0 /\ Bit(y, 6) = 0 /\ Bit(y, 7) = 0
  BY SMT DEF Bit
<1>2. QED
  BY <1>1

(* The two octets of (sequence << 4) | fragment. *)
SeqOctets(s, f) == [k \in 1 .. 2 |-> Either(Octet(16 * s, k), Octet(f, k))]

(* The sequence and the fragment can be read from it. *)
LEMMA SeqOctetsIs ==
  ASSUME NEW s \in Nat, NEW f \in Nat
  PROVE  /\ SeqOctets(s, f) \in Octets /\ Len(SeqOctets(s, f)) = 2
         /\ f < 16 => LET w == SeqOctets(s, f)[1] + 256 * SeqOctets(s, f)[2]
                      IN  w % 16 = f /\ w \div 16 = s % 4096
<1> DEFINE a == Octet(16 * s, 1)
           b == Octet(16 * s, 2)
           c == Octet(f, 1)
           d == Octet(f, 2)
<1>1. 16 * s \in Nat
  OBVIOUS
<1>2. /\ a = (16 * s) % 256 /\ b = ((16 * s) \div 256) % 256
      /\ c = f % 256 /\ d = (f \div 256) % 256
  <2> DEFINE e == 16 * s
  <2>1. e \in Nat
    BY <1>1
  <2> HIDE DEF e
  <2>2. Octet(e, 1) = e % 256 /\ Octet(e, 2) = (e \div 256) % 256
    BY <2>1, OctetIs, SMTT(60)
  <2>3. Octet(f, 1) = f % 256 /\ Octet(f, 2) = (f \div 256) % 256
    BY OctetIs, SMTT(60)
  <2>4. QED
    BY <2>2, <2>3, Zenon DEF e
<1>3. /\ a \in Nat /\ a < 256 /\ b \in Nat /\ b < 256
      /\ c \in Nat /\ c < 256 /\ d \in Nat /\ d < 256
  <2>1. 1 \in Nat \ {0} /\ 2 \in Nat \ {0}
    OBVIOUS
  <2>2. a \in Nat /\ a < 256 /\ b \in Nat /\ b < 256
    BY <1>1, <2>1, OctetIs
  <2>3. c \in Nat /\ c < 256 /\ d \in Nat /\ d < 256
    BY <2>1, OctetIs
  <2>4. QED
    BY <2>2, <2>3
<1> HIDE DEF a, b, c, d
<1>4. Either(a, c) \in Nat /\ Either(b, d) \in Nat
  BY <1>3, EitherIs
<1>5. SeqOctets(s, f)[1] = Either(a, c) /\ SeqOctets(s, f)[2] = Either(b, d)
  BY DEF SeqOctets, a, b, c, d
<1>6. SeqOctets(s, f) \in Octets /\ Len(SeqOctets(s, f)) = 2
  <2> DEFINE n == 2
  <2>1. SeqOctets(s, f) \in [1 .. n -> Nat] /\ n \in Nat
    <3>1. SeqOctets(s, f) = [k \in 1 .. 2 |-> SeqOctets(s, f)[k]]
      BY DEF SeqOctets
    <3>2. \A k \in 1 .. 2 : SeqOctets(s, f)[k] \in Nat
      BY <1>4, <1>5
    <3>3. QED
      BY <3>1, <3>2
  <2> HIDE DEF n
  <2>2. SeqOctets(s, f) \in Seq(Nat) /\ Len(SeqOctets(s, f)) = n
    BY <2>1, FunctionIsSeq
  <2>3. QED
    BY <2>2 DEF n, Octets
<1>7. ASSUME f < 16
      PROVE  LET w == Either(a, c) + 256 * Either(b, d)
             IN  w % 16 = f /\ w \div 16 = s % 4096
  <2>1. c = f /\ d = 0
    BY <1>2, <1>7, SMT
  <2>2. Either(a, c) = a + c
    <3>1. a = 16 * (s % 16) /\ s % 16 \in Nat /\ s % 16 < 16
      BY <1>2, SMT
    <3>2. \A k \in 0 .. 7 : Bit(a, k) = 0 \/ Bit(c, k) = 0
      BY <1>7, <2>1, <3>1, BitsApart
    <3>3. QED
      BY <1>3, <3>2, EitherIs
  <2>3. Either(b, d) = b + d
    <3>1. \A k \in 0 .. 7 : Bit(d, k) = 0
      <4>1. /\ Bit(0, 0) = 0 /\ Bit(0, 1) = 0 /\ Bit(0, 2) = 0 /\ Bit(0, 3) = 0
            /\ Bit(0, 4) = 0 /\ Bit(0, 5) = 0 /\ Bit(0, 6) = 0 /\ Bit(0, 7) = 0
        BY SMT DEF Bit
      <4>2. QED
        BY <2>1, <4>1
    <3>2. QED
      BY <1>3, <3>1, EitherIs
  <2>4. a = 16 * (s % 16) /\ b = (s \div 16) % 256
    BY <1>2, SMT
  <2>5. /\ (16 * (s % 16) + f + 256 * ((s \div 16) % 256)) % 16 = f
        /\ (16 * (s % 16) + f + 256 * ((s \div 16) % 256)) \div 16 = s % 4096
    BY <1>7, SMT
  <2> DEFINE w == Either(a, c) + 256 * Either(b, d)
  <2>6. w = 16 * (s % 16) + f + 256 * ((s \div 16) % 256)
    <3>1. Either(a, c) = 16 * (s % 16) + f
      BY <2>1, <2>2, <2>4
    <3>2. Either(b, d) = (s \div 16) % 256
      BY <1>3, <2>1, <2>3, <2>4
    <3>3. QED
      BY <3>1, <3>2
  <2> HIDE DEF w
  <2>7. w % 16 = f /\ w \div 16 = s % 4096
    BY <2>5, <2>6
  <2>8. QED
    BY <2>7 DEF w
<1>8. QED
  BY <1>5, <1>6, <1>7

-----------------------------------------------------------------------------
(***************************************************************************)
(* The headers' octets.                                                    *)
(***************************************************************************)

(* A call, with the source address it was made with. *)
Asked(r) ==
  /\ r.op \in DOMAIN Subtype /\ r.valid \in BOOLEAN
  /\ r.src \in Address /\ r.src # Broadcast /\ (r.valid => r.src[1] % 2 = 0)
  /\ r.dst \in Address /\ r.bssid \in Address /\ r.mac4 \in Address \cup {NoMac}
  /\ r.fcflags \in Nat /\ r.duration \in Nat /\ r.fragment \in Nat /\ r.sequence \in Nat
  /\ r.args \in [1 .. 3 -> Nat]

(* A request, with a random source address, is one. *)
LEMMA MadeIsAsked ==
  ASSUME NEW c \in Requests
  PROVE  Asked([c EXCEPT !.src = Randmac(c.valid, c.src)])
<1> DEFINE s == Randmac(c.valid, c.src)
           r == [c EXCEPT !.src = s]
<1>1. c \in Calls
  BY FramesAssumption, Zenon
<1>2. /\ c.op \in DOMAIN Subtype /\ c.valid \in BOOLEAN /\ c.src \in [1 .. 6 -> Nat]
      /\ c.dst \in Address /\ c.bssid \in Address /\ c.mac4 \in Address \cup {NoMac}
      /\ c.fcflags \in Nat /\ c.duration \in Nat /\ c.fragment \in Nat /\ c.sequence \in Nat
      /\ c.args \in [1 .. 3 -> 0 .. 256^3 - 1]
  BY <1>1, Zenon DEF Calls
<1>3. c.args \in [1 .. 3 -> Nat]
  <2>1. 0 .. 256^3 - 1 \subseteq Nat
    <3>1. \A y : 0 .. y \subseteq Nat
      OBVIOUS
    <3>2. QED
      BY <3>1, Zenon
  <2> DEFINE U == 0 .. 256^3 - 1
  <2> HIDE DEF U
  <2>2. c.args \in [1 .. 3 -> U] /\ U \subseteq Nat
    BY <1>2, <2>1 DEF U
  <2>3. QED
    BY <2>2
<1>4. s \in Address /\ s # Broadcast /\ (c.valid => s[1] % 2 = 0)
  BY <1>2, RandmacIs
<1> HIDE DEF s
<1>5. /\ r.op = c.op /\ r.valid = c.valid /\ r.src = s /\ r.dst = c.dst /\ r.bssid = c.bssid
      /\ r.mac4 = c.mac4 /\ r.fcflags = c.fcflags /\ r.duration = c.duration
      /\ r.fragment = c.fragment /\ r.sequence = c.sequence /\ r.args = c.args
  BY <1>1 DEF Calls
<1> HIDE DEF r
<1>6. Asked(r)
  BY <1>2, <1>3, <1>4, <1>5, Zenon DEF Asked
<1>7. QED
  BY <1>6, Zenon DEF r, s

(* An address is six octets. *)
LEMMA AddressIs ==
  ASSUME NEW m \in Address
  PROVE  m \in Octets /\ Len(m) = 6 /\ m # NoMac
<1> DEFINE n == 6
<1>1. m \in [1 .. n -> Nat] /\ n \in Nat
  BY DEF Address
<1> HIDE DEF n
<1>2. m \in Octets /\ Len(m) = n
  BY <1>1, FunctionIsSeq DEF Octets
<1>3. Len(<<>>) = 0
  OBVIOUS
<1>4. m # <<>>
  <2>1. Len(m) = 6
    BY <1>2 DEF n
  <2>2. 6 # 0
    OBVIOUS
  <2>3. QED
    BY <1>3, <2>1, <2>2, Zenon
<1>5. QED
  BY <1>2, <1>4 DEF n, NoMac

(* Two octets. *)
LEMMA PairIs ==
  ASSUME NEW x \in Nat, NEW y \in Nat
  PROVE  <<x, y>> \in Octets /\ Len(<<x, y>>) = 2
BY DEF Octets

(* The octets x are in f, behind the first n. *)
At(f, n, x) == n + Len(x) <= Len(f) /\ \A i \in 1 .. Len(x) : f[n + i] = x[i]

(* What is put behind s is there. *)
LEMMA AtBehind ==
  ASSUME NEW s \in Octets, NEW x \in Octets
  PROVE  s \o x \in Octets /\ Len(s \o x) = Len(s) + Len(x) /\ At(s \o x, Len(s), x)
<1> DEFINE T == Nat
<1>1. s \in Seq(T) /\ x \in Seq(T)
  BY DEF Octets
<1> HIDE DEF T
<1>2. /\ s \o x \in Seq(T) /\ Len(s \o x) = Len(s) + Len(x)
      /\ \A i \in 1 .. Len(x) : (s \o x)[Len(s) + i] = x[i]
  BY <1>1, ConcatAt
<1>3. Len(s) + Len(x) <= Len(s \o x)
  BY <1>1, <1>2
<1>4. QED
  BY <1>2, <1>3, Zenon DEF Octets, T, At

(* What is in s stays where it is when x is put behind. *)
LEMMA AtStays ==
  ASSUME NEW s \in Octets, NEW x \in Octets, NEW n \in Nat, NEW y \in Octets, At(s, n, y)
  PROVE  At(s \o x, n, y)
<1> DEFINE T == Nat
<1>1. s \in Seq(T) /\ x \in Seq(T) /\ Len(y) \in Nat
  BY DEF Octets
<1> HIDE DEF T
<1>2. /\ Len(s \o x) = Len(s) + Len(x) /\ Len(s) \in Nat /\ Len(x) \in Nat
      /\ \A i \in 1 .. Len(s) : (s \o x)[i] = s[i]
  BY <1>1, ConcatAt
<1>3. n + Len(y) <= Len(s)
  BY DEF At
<1> DEFINE f == s \o x
<1> HIDE DEF f
<1>4. \A i \in 1 .. Len(y) : n + i \in 1 .. Len(s)
  BY <1>1, <1>2, <1>3
<1>5. \A i \in 1 .. Len(y) : f[n + i] = y[i]
  BY <1>2, <1>4 DEF At, f
<1>6. n + Len(y) <= Len(f)
  BY <1>1, <1>2, <1>3 DEF f
<1>7. QED
  BY <1>5, <1>6 DEF At, f

(* A component behind those of s, all of n octets. *)
LEMMA FlattenAt ==
  ASSUME NEW s \in Seq(Octets), NEW x \in Octets, NEW n, Len(FlattenSeq(s)) = n,
         NEW t, t = Append(s, x)
  PROVE  /\ FlattenSeq(t) \in Octets /\ n \in Nat /\ Len(FlattenSeq(t)) = n + Len(x)
         /\ At(FlattenSeq(t), n, x)
         /\ \A k \in Nat, y \in Octets : At(FlattenSeq(s), k, y) => At(FlattenSeq(t), k, y)
<1> DEFINE p == FlattenSeq(s)
           q == FlattenSeq(t)
<1>1. q = p \o x /\ p \in Octets
  BY FlattenAppend, FlattenType
<1>2. Len(p) = n /\ n \in Nat
  BY <1>1 DEF Octets
<1> HIDE DEF p, q
<1>3. q \in Octets /\ Len(q) = n + Len(x) /\ At(q, n, x)
  BY <1>1, <1>2, AtBehind
<1>4. \A k \in Nat, y \in Octets : At(p, k, y) => At(q, k, y)
  BY <1>1, AtStays
<1>5. QED
  BY <1>2, <1>3, <1>4 DEF p, q

(* One component is its octets. *)
LEMMA FlattenOne ==
  ASSUME NEW a \in Octets
  PROVE  FlattenSeq(<<a>>) = a /\ At(a, 0, a)
<1>1. <<>> \in Seq(Octets) /\ <<a>> = Append(<<>>, a)
  OBVIOUS
<1>2. FlattenSeq(<<a>>) = <<>> \o a
  BY <1>1, FlattenAppend, FlattenNone
<1>3. At(a, 0, a)
  <2>1. Len(a) \in Nat
    BY DEF Octets
  <2>2. QED
    BY <2>1 DEF At
<1>4. QED
  BY <1>2, <1>3 DEF Octets

(* The octets of a header with three addresses. *)
LEMMA FlattenSix ==
  ASSUME NEW a \in Octets, Len(a) = 2, NEW b \in Octets, Len(b) = 2,
         NEW m \in Address, NEW n \in Address, NEW o \in Address,
         NEW g \in Octets, NEW l, l = <<a, b, m, n, o, g>>, NEW f, f = FlattenSeq(l)
  PROVE  /\ l \in Seq(Octets) /\ f \in Octets /\ Len(f) = 22 + Len(g)
         /\ At(f, 0, a) /\ At(f, 2, b) /\ At(f, 4, m) /\ At(f, 10, n) /\ At(f, 16, o)
         /\ At(f, 22, g)
<1> DEFINE l1 == <<a>>
           l2 == <<a, b>>
           l3 == <<a, b, m>>
           l4 == <<a, b, m, n>>
           l5 == <<a, b, m, n, o>>
           l6 == <<a, b, m, n, o, g>>
           F(s) == FlattenSeq(s)
<1>1. /\ m \in Octets /\ Len(m) = 6 /\ n \in Octets /\ Len(n) = 6 /\ o \in Octets /\ Len(o) = 6
  BY AddressIs
<1>2. /\ l1 \in Seq(Octets) /\ l2 \in Seq(Octets) /\ l3 \in Seq(Octets)
      /\ l4 \in Seq(Octets) /\ l5 \in Seq(Octets) /\ l6 \in Seq(Octets)
  BY <1>1
<1>3. /\ l2 = Append(l1, b) /\ l3 = Append(l2, m) /\ l4 = Append(l3, n)
      /\ l5 = Append(l4, o) /\ l6 = Append(l5, g)
  OBVIOUS
<1>4. F(l1) = a /\ At(F(l1), 0, a) /\ Len(F(l1)) = 2
  BY FlattenOne
<1> HIDE DEF l1, l2, l3, l4, l5, l6
<1>5. /\ Len(F(l2)) = 4
      /\ At(F(l2), 0, a) /\ At(F(l2), 2, b)
  <2>1. /\ F(l2) \in Octets /\ Len(F(l2)) = 2 + Len(b) /\ At(F(l2), 2, b)
        /\ \A k \in Nat, y \in Octets : At(F(l1), k, y) => At(F(l2), k, y)
    <3> DEFINE w == 2
    <3>1. /\ l1 \in Seq(Octets) /\ b \in Octets /\ Len(F(l1)) = w
          /\ l2 = Append(l1, b)
      BY <1>1, <1>2, <1>3, <1>4
    <3> HIDE DEF w
    <3>2. /\ F(l2) \in Octets /\ Len(F(l2)) = w + Len(b) /\ At(F(l2), w, b)
          /\ \A k \in Nat, y \in Octets : At(F(l1), k, y) => At(F(l2), k, y)
      <4> HIDE DEF F
      <4>1. QED
        BY <3>1, FlattenAt, Zenon DEF F
    <3>3. QED
      BY <3>2 DEF w
  <2>2. QED
    BY <1>1, <1>4, <2>1
<1>6. /\ Len(F(l3)) = 10
      /\ At(F(l3), 0, a) /\ At(F(l3), 2, b) /\ At(F(l3), 4, m)
  <2>1. /\ F(l3) \in Octets /\ Len(F(l3)) = 4 + Len(m) /\ At(F(l3), 4, m)
        /\ \A k \in Nat, y \in Octets : At(F(l2), k, y) => At(F(l3), k, y)
    <3>1. /\ l2 \in Seq(Octets) /\ m \in Octets /\ Len(F(l2)) = 4
          /\ l3 = Append(l2, m)
      BY <1>1, <1>2, <1>3, <1>5
    <3> HIDE DEF F
    <3>2. QED
      BY <3>1, FlattenAt, ZenonT(60) DEF F
  <2>2. QED
    BY <1>1, <1>5, <2>1
<1>7. /\ Len(F(l4)) = 16
      /\ At(F(l4), 0, a) /\ At(F(l4), 2, b) /\ At(F(l4), 4, m)
      /\ At(F(l4), 10, n)
  <2>1. /\ F(l4) \in Octets /\ Len(F(l4)) = 10 + Len(n) /\ At(F(l4), 10, n)
        /\ \A k \in Nat, y \in Octets : At(F(l3), k, y) => At(F(l4), k, y)
    <3>1. /\ l3 \in Seq(Octets) /\ n \in Octets /\ Len(F(l3)) = 10
          /\ l4 = Append(l3, n)
      BY <1>1, <1>2, <1>3, <1>6
    <3> HIDE DEF F
    <3>2. QED
      BY <3>1, FlattenAt, ZenonT(60) DEF F
  <2>2. QED
    BY <1>1, <1>6, <2>1
<1>8. /\ Len(F(l5)) = 22
      /\ At(F(l5), 0, a) /\ At(F(l5), 2, b) /\ At(F(l5), 4, m)
      /\ At(F(l5), 10, n) /\ At(F(l5), 16, o)
  <2>1. /\ F(l5) \in Octets /\ Len(F(l5)) = 16 + Len(o) /\ At(F(l5), 16, o)
        /\ \A k \in Nat, y \in Octets : At(F(l4), k, y) => At(F(l5), k, y)
    <3>1. /\ l4 \in Seq(Octets) /\ o \in Octets /\ Len(F(l4)) = 16
          /\ l5 = Append(l4, o)
      BY <1>1, <1>2, <1>3, <1>7
    <3> HIDE DEF F
    <3>2. QED
      BY <3>1, FlattenAt, ZenonT(60) DEF F
  <2>2. QED
    BY <1>1, <1>7, <2>1
<1>9. /\ F(l6) \in Octets /\ Len(F(l6)) = 22 + Len(g)
      /\ At(F(l6), 0, a) /\ At(F(l6), 2, b) /\ At(F(l6), 4, m)
      /\ At(F(l6), 10, n) /\ At(F(l6), 16, o) /\ At(F(l6), 22, g)
  <2>1. /\ F(l6) \in Octets /\ Len(F(l6)) = 22 + Len(g) /\ At(F(l6), 22, g)
        /\ \A k \in Nat, y \in Octets : At(F(l5), k, y) => At(F(l6), k, y)
    <3>1. /\ l5 \in Seq(Octets) /\ g \in Octets /\ Len(F(l5)) = 22
          /\ l6 = Append(l5, g)
      BY <1>1, <1>2, <1>3, <1>8
    <3> HIDE DEF F
    <3>2. QED
      BY <3>1, FlattenAt, ZenonT(60) DEF F
  <2>2. QED
    BY <1>1, <1>8, <2>1
<1>10. QED
  BY <1>2, <1>9 DEF l6

-----------------------------------------------------------------------------
(***************************************************************************)
(* The forged components' octets.                                          *)
(***************************************************************************)

(* A header: x is where the sequence control is read. *)
Heads(f, t, s, c, m1, m2, m3, x) ==
  /\ At(f, 0, FrameControl(t, s, c.fcflags)) /\ At(f, 2, Duration(c.duration))
  /\ At(f, 4, m1) /\ At(f, 10, m2) /\ At(f, 16, m3) /\ At(f, 22, x)

(* The frame control is two octets. *)
LEMMA FrameControlIs ==
  ASSUME NEW t \in Nat, NEW s \in Nat, NEW g \in Nat
  PROVE  FrameControl(t, s, g) \in Octets /\ Len(FrameControl(t, s, g)) = 2
<1>1. (4 * t + 16 * s) % 256 \in Nat /\ g % 256 \in Nat
  OBVIOUS
<1>2. QED
  BY <1>1, PairIs DEF FrameControl

(* So is the duration. *)
LEMMA DurationIs ==
  ASSUME NEW d \in Nat
  PROVE  Duration(d) \in Octets /\ Len(Duration(d)) = 2
<1>1. 1 \in Nat \ {0} /\ 2 \in Nat \ {0}
  OBVIOUS
<1>2. Octet(d, 2) \in Nat /\ Octet(d, 1) \in Nat
  BY <1>1, OctetIs
<1>3. QED
  BY <1>2, PairIs DEF Duration

(* One component more. *)
LEMMA OneMore ==
  ASSUME NEW T, NEW s \in Seq(T), NEW x \in T
  PROVE  s \o <<x>> = Append(s, x) /\ Append(s, x) \in Seq(T)
OBVIOUS

(* One component more, behind two lists. *)
LEMMA OneMoreBehind ==
  ASSUME NEW T, NEW s \in Seq(T), NEW t \in Seq(T), NEW x \in T
  PROVE  s \o Append(t, x) = Append(s \o t, x)
OBVIOUS

(* The components of a header with three addresses. *)
LEMMA SixParts ==
  ASSUME NEW T, NEW a \in T, NEW b \in T, NEW m \in T, NEW n \in T, NEW o \in T, NEW g \in T
  PROVE  <<a, b>> \o (<<m>> \o <<n>> \o <<o>> \o <<>>) \o <<g>> = <<a, b, m, n, o, g>>
<1>1. <<a, b>> \in Seq(T) /\ <<m>> \in Seq(T) /\ <<m, n>> \in Seq(T) /\ <<m, n, o>> \in Seq(T)
  OBVIOUS
<1>2. /\ <<m, n>> = Append(<<m>>, n) /\ <<m, n, o>> = Append(<<m, n>>, o)
      /\ <<a, b, m>> = Append(<<a, b>>, m) /\ <<a, b, m, n>> = Append(<<a, b, m>>, n)
      /\ <<a, b, m, n, o>> = Append(<<a, b, m, n>>, o)
      /\ <<a, b, m, n, o, g>> = Append(<<a, b, m, n, o>>, g)
  OBVIOUS
<1>3. <<m>> \o <<n>> = <<m, n>>
  BY <1>1, <1>2, OneMore
<1>4. <<m, n>> \o <<o>> = <<m, n, o>>
  BY <1>1, <1>2, OneMore
<1>5. <<m, n, o>> \o <<>> = <<m, n, o>>
  BY <1>1, ConcatEmptySeq
<1>6. <<a, b>> \o <<m>> = <<a, b, m>>
  BY <1>1, <1>2, OneMore
<1>7. <<a, b>> \o <<m, n>> = <<a, b, m, n>>
  <2>1. <<a, b>> \o Append(<<m>>, n) = Append(<<a, b>> \o <<m>>, n)
    BY <1>1, OneMoreBehind
  <2>2. QED
    BY <1>2, <1>6, <2>1
<1>8. <<a, b>> \o <<m, n, o>> = <<a, b, m, n, o>>
  <2>1. <<a, b>> \o Append(<<m, n>>, o) = Append(<<a, b>> \o <<m, n>>, o)
    BY <1>1, OneMoreBehind
  <2>2. QED
    BY <1>2, <1>7, <2>1
<1>9. <<a, b, m, n, o>> \o <<g>> = <<a, b, m, n, o, g>>
  <2>1. <<a, b, m, n, o>> \in Seq(T)
    OBVIOUS
  <2>2. QED
    BY <1>2, <2>1, OneMore
<1>10. QED
  BY <1>3, <1>4, <1>5, <1>8, <1>9

(* A header with three addresses is 24 octets. *)
LEMMA HeaderIs ==
  ASSUME NEW c, Asked(c), NEW t \in Nat, NEW s \in Nat,
         NEW m1 \in Address, NEW m2 \in Address, NEW m3 \in Address,
         NEW l, l = Lcpf80211headers(t, s, c, <<m1, m2, m3, NoMac>>)
  PROVE  /\ l \in Seq(Octets) /\ FlattenSeq(l) \in Octets /\ Len(FlattenSeq(l)) = 24
         /\ Heads(FlattenSeq(l), t, s, c, m1, m2, m3, SeqOctets(c.sequence, c.fragment))
<1> DEFINE a == FrameControl(t, s, c.fcflags)
           b == Duration(c.duration)
           g == SeqOctets(c.sequence, c.fragment)
<1>1. a \in Octets /\ Len(a) = 2 /\ b \in Octets /\ Len(b) = 2 /\ g \in Octets /\ Len(g) = 2
  <2>1. c.fcflags \in Nat /\ c.duration \in Nat /\ c.sequence \in Nat /\ c.fragment \in Nat
    BY Zenon DEF Asked
  <2>2. a \in Octets /\ Len(a) = 2
    BY <2>1, FrameControlIs
  <2>3. b \in Octets /\ Len(b) = 2
    BY <2>1, DurationIs
  <2>4. g \in Octets /\ Len(g) = 2
    BY <2>1, SeqOctetsIs
  <2>5. QED
    BY <2>2, <2>3, <2>4
<1>2. l = <<a, b>> \o (<<m1>> \o <<m2>> \o <<m3>> \o <<>>) \o <<g>>
  <2>1. Given(m1) = <<m1>> /\ Given(m2) = <<m2>> /\ Given(m3) = <<m3>> /\ Given(NoMac) = <<>>
    BY AddressIs DEF Given
  <2>2. Givens(<<m1, m2, m3, NoMac>>) = <<m1>> \o <<m2>> \o <<m3>> \o <<>>
    BY <2>1 DEF Givens
  <2>3. QED
    BY <2>2, Zenon DEF Lcpf80211headers, SeqOctets
<1> HIDE DEF a, b, g
<1>3. l = <<a, b, m1, m2, m3, g>>
  BY <1>2, SixParts
<1> DEFINE f == FlattenSeq(l)
<1>4. /\ l \in Seq(Octets) /\ f \in Octets /\ Len(f) = 22 + Len(g)
      /\ At(f, 0, a) /\ At(f, 2, b) /\ At(f, 4, m1) /\ At(f, 10, m2) /\ At(f, 16, m3)
      /\ At(f, 22, g)
  <2>1. f = FlattenSeq(l)
    OBVIOUS
  <2> HIDE DEF f
  <2>2. /\ m1 \in Address /\ m2 \in Address /\ m3 \in Address
        /\ a \in Octets /\ Len(a) = 2 /\ b \in Octets /\ Len(b) = 2 /\ g \in Octets
    BY <1>1
  <2>3. QED
    BY <1>3, <2>1, <2>2, FlattenSix, SMTT(30)
<1> HIDE DEF f
<1>5. Len(f) = 24
  BY <1>1, <1>4
<1>6. QED
  BY <1>4, <1>5, Zenon DEF f, a, b, g, Heads

-----------------------------------------------------------------------------
(* The octets of f stay where they are in g. *)
Keeps(f, g) == \A k \in Nat, y \in Octets : At(f, k, y) => At(g, k, y)

(* The component x is in the octets of t, behind those of s. *)
Placed(s, x, t) ==
  /\ t \in Seq(Octets) /\ FlattenSeq(t) \in Octets
  /\ Len(FlattenSeq(s)) \in Nat /\ Len(FlattenSeq(t)) = Len(FlattenSeq(s)) + Len(x)
  /\ At(FlattenSeq(t), Len(FlattenSeq(s)), x) /\ Keeps(FlattenSeq(s), FlattenSeq(t))

(* A component that is appended is placed behind the others. *)
LEMMA OneBehind ==
  ASSUME NEW s \in Seq(Octets), NEW x \in Octets
  PROVE  Placed(s, x, Append(s, x))
<1> DEFINE n == Len(FlattenSeq(s))
           t == Append(s, x)
<1>1. Len(FlattenSeq(s)) = n /\ t = Append(s, x) /\ t \in Seq(Octets)
  OBVIOUS
<1> HIDE DEF n, t
<1>2. /\ FlattenSeq(t) \in Octets /\ n \in Nat /\ Len(FlattenSeq(t)) = n + Len(x)
      /\ At(FlattenSeq(t), n, x)
      /\ \A k \in Nat, y \in Octets : At(FlattenSeq(s), k, y) => At(FlattenSeq(t), k, y)
  BY <1>1, FlattenAt, Zenon
<1>3. Placed(s, x, t)
  BY <1>1, <1>2, Zenon DEF Placed, Keeps, n
<1>4. QED
  BY <1>3, Zenon DEF t

(* Where a placed component is. *)
LEMMA PlacedIs ==
  ASSUME NEW s, NEW x, NEW t, NEW n, NEW m, Placed(s, x, t), Len(FlattenSeq(s)) = n, n + Len(x) = m
  PROVE  /\ t \in Seq(Octets) /\ FlattenSeq(t) \in Octets
         /\ Len(FlattenSeq(t)) = m /\ At(FlattenSeq(t), n, x)
<1>1. /\ t \in Seq(Octets) /\ FlattenSeq(t) \in Octets
      /\ Len(FlattenSeq(t)) = Len(FlattenSeq(s)) + Len(x)
      /\ At(FlattenSeq(t), Len(FlattenSeq(s)), x)
  BY Zenon DEF Placed
<1>2. QED
  BY <1>1, Zenon

(* What was there before it stays. *)
LEMMA PlacedKeeps ==
  ASSUME NEW s, NEW x, NEW t, Placed(s, x, t), NEW k \in Nat, NEW y \in Octets,
         At(FlattenSeq(s), k, y)
  PROVE  At(FlattenSeq(t), k, y)
BY Zenon DEF Placed, Keeps

(* One, two and three components more. *)
LEMMA FewMore ==
  ASSUME NEW T, NEW s \in Seq(T), NEW x \in T, NEW y \in T, NEW z \in T
  PROVE  /\ s \o <<x>> = Append(s, x) /\ s \o <<x, y>> = Append(Append(s, x), y)
         /\ s \o <<x, y, z>> = Append(Append(Append(s, x), y), z)
<1>1. <<x>> \in Seq(T) /\ <<x, y>> \in Seq(T)
  OBVIOUS
<1>2. <<x, y>> = Append(<<x>>, y) /\ <<x, y, z>> = Append(<<x, y>>, z)
  OBVIOUS
<1>3. s \o <<x>> = Append(s, x)
  BY OneMore
<1>4. s \o <<x, y>> = Append(Append(s, x), y)
  <2>1. s \o Append(<<x>>, y) = Append(s \o <<x>>, y)
    BY <1>1, OneMoreBehind
  <2>2. QED
    BY <1>2, <1>3, <2>1
<1>5. s \o <<x, y, z>> = Append(Append(Append(s, x), y), z)
  <2>1. s \o Append(<<x, y>>, z) = Append(s \o <<x, y>>, z)
    BY <1>1, OneMoreBehind
  <2>2. QED
    BY <1>2, <1>4, <2>1
<1>6. QED
  BY <1>3, <1>4, <1>5

-----------------------------------------------------------------------------
(* The fixed fields of a body behind the header. *)
Fields(f, c, widths) ==
  /\ Len(f) = HdrLen + FixedLen(widths)
  /\ \A k \in DOMAIN widths : At(f, Offset(widths, k), Little(c.args[k], widths[k]))

AllWidths == {<<>>, <<2>>, <<2, 2>>, <<2, 2, 2>>, <<8, 2, 2>>}

(* A management frame's fixed fields are behind its header. *)
LEMMA BodyIs ==
  ASSUME NEW h \in Seq(Octets), FlattenSeq(h) \in Octets, Len(FlattenSeq(h)) = 24,
         NEW c, Asked(c), NEW widths \in AllWidths, NEW l, l = h \o Fixed(c, widths)
  PROVE  /\ l \in Seq(Octets) /\ FlattenSeq(l) \in Octets
         /\ Fields(FlattenSeq(l), c, widths) /\ Keeps(FlattenSeq(h), FlattenSeq(l))
<1> DEFINE L(k, n) == Little(c.args[k], n)
           n == 24
           F(s) == FlattenSeq(s)
<1>1. \A k \in 1 .. 3 : \A w \in Nat : L(k, w) \in Octets /\ Len(L(k, w)) = w
  <2>1. \A k \in 1 .. 3 : c.args[k] \in Nat
    BY DEF Asked
  <2>2. QED
    BY <2>1, LittleIs
<1>2. /\ L(1, 2) \in Octets /\ Len(L(1, 2)) = 2 /\ L(1, 8) \in Octets /\ Len(L(1, 8)) = 8
      /\ L(2, 2) \in Octets /\ Len(L(2, 2)) = 2 /\ L(3, 2) \in Octets /\ Len(L(3, 2)) = 2
  <2>1. 1 \in 1 .. 3 /\ 2 \in 1 .. 3 /\ 3 \in 1 .. 3 /\ 2 \in Nat /\ 8 \in Nat
    OBVIOUS
  <2> HIDE DEF L
  <2>2. QED
    BY <1>1, <2>1, Zenon
<1>3. n = Len(F(h)) /\ n \in Nat
  OBVIOUS
<1>4. CASE widths = <<>>
  <2>1. l = h
    <3>1. Fixed(c, widths) = <<>>
      BY <1>4 DEF Fixed
    <3>2. h \o <<>> = h
      BY ConcatEmptySeq
    <3>3. QED
      BY <3>1, <3>2
  <2>2. FixedLen(widths) = 0 /\ DOMAIN widths = {}
    BY <1>4 DEF FixedLen, Offset, HdrLen
  <2>3. QED
    BY <2>1, <2>2 DEF Fields, Keeps, HdrLen
<1> DEFINE x == L(1, 2)
           y == L(2, 2)
           z == L(3, 2)
<1>5. CASE widths = <<2>>
  <2> DEFINE t == Append(h, x)
  <2>1. Fixed(c, widths) = <<x>>
    BY <1>5 DEF Fixed
  <2>2. l = t
    BY <1>2, <2>1, FewMore
  <2>3. Placed(h, x, t)
    BY <1>2, OneBehind
  <2> HIDE DEF t
  <2>4. /\ FixedLen(widths) = 2 /\ DOMAIN widths = {1} /\ Offset(widths, 1) = 24
        /\ widths[1] = 2
    BY <1>5 DEF FixedLen, Offset, HdrLen
  <2>5. Len(x) = 2
    BY <1>2
  <2> HIDE DEF L
  <2>6. /\ Len(F(t)) = 26 /\ F(t) \in Octets /\ t \in Seq(Octets) /\ Keeps(F(h), F(t))
        /\ At(F(t), 24, x)
    <3> HIDE DEF x
    <3>1. 24 + Len(x) = 26
      BY <2>5
    <3>2. QED
      BY <2>3, <3>1, PlacedIs, Zenon DEF Placed
  <2>7. Fields(F(t), c, widths)
    <3>1. Len(F(t)) = HdrLen + FixedLen(widths)
      BY <2>4, <2>6 DEF HdrLen
    <3>2. \A k \in DOMAIN widths : At(F(t), Offset(widths, k), L(k, widths[k]))
      <4> HIDE DEF F
      <4>1. QED
        BY <2>4, <2>6
    <3>3. QED
      BY <3>1, <3>2, Zenon DEF Fields, L
  <2>8. QED
    BY <2>2, <2>6, <2>7
<1>6. CASE widths = <<2, 2>>
  <2> DEFINE t == Append(h, x)
             u == Append(t, y)
  <2>1. Fixed(c, widths) = <<x, y>>
    BY <1>6 DEF Fixed
  <2>2. l = u
    BY <1>2, <2>1, FewMore
  <2>3. t \in Seq(Octets)
    BY <1>2
  <2>4. Placed(h, x, t)
    BY <1>2, OneBehind
  <2>5. Placed(t, y, u)
    <3> HIDE DEF t
    <3>1. QED
      BY <1>2, <2>3, OneBehind
  <2> HIDE DEF t, u
  <2>6. /\ FixedLen(widths) = 4 /\ DOMAIN widths = {1, 2} /\ Offset(widths, 1) = 24
        /\ Offset(widths, 2) = 26 /\ widths[1] = 2 /\ widths[2] = 2
    BY <1>6 DEF FixedLen, Offset, HdrLen
  <2>7. Len(x) = 2 /\ Len(y) = 2 /\ x \in Octets
    BY <1>2
  <2> HIDE DEF L
  <2>8. Len(F(t)) = 26 /\ At(F(t), 24, x)
    <3> HIDE DEF x
    <3>1. 24 + Len(x) = 26
      BY <2>7
    <3>2. QED
      BY <2>4, <3>1, PlacedIs, ZenonT(60)
  <2>9. /\ Len(F(u)) = 28 /\ F(u) \in Octets /\ u \in Seq(Octets)
        /\ At(F(u), 24, x) /\ At(F(u), 26, y)
    <3> HIDE DEF x, y
    <3>1. 26 + Len(y) = 28 /\ 24 \in Nat
      BY <2>7
    <3>2. QED
      BY <2>5, <2>7, <2>8, <3>1, PlacedIs, PlacedKeeps, ZenonT(60)
  <2>10. Keeps(F(h), F(u))
    BY <2>4, <2>5, Zenon DEF Placed, Keeps
  <2>11. Fields(F(u), c, widths)
    <3>1. Len(F(u)) = HdrLen + FixedLen(widths)
      BY <2>6, <2>9 DEF HdrLen
    <3>2. \A k \in DOMAIN widths : At(F(u), Offset(widths, k), L(k, widths[k]))
      <4> HIDE DEF F
      <4>1. QED
        BY <2>6, <2>9
    <3>3. QED
      BY <3>1, <3>2, Zenon DEF Fields, L
  <2>12. QED
    BY <2>2, <2>9, <2>10, <2>11
<1>7. ASSUME NEW v \in {2, 8}, widths = <<v, 2, 2>>
      PROVE  /\ l \in Seq(Octets) /\ F(l) \in Octets
             /\ Fields(F(l), c, widths) /\ Keeps(F(h), F(l))
  <2> DEFINE w == L(1, v)
             t == Append(h, w)
             u == Append(t, y)
             s == Append(u, z)
  <2>0. w \in Octets /\ Len(w) = v
    BY <1>2
  <2>1. Fixed(c, widths) = <<w, y, z>>
    BY <1>7 DEF Fixed
  <2>2. l = s
    BY <1>2, <2>0, <2>1, FewMore
  <2>3. t \in Seq(Octets) /\ u \in Seq(Octets)
    BY <1>2, <2>0
  <2>4. Placed(h, w, t)
    BY <2>0, OneBehind
  <2>5. Placed(t, y, u)
    <3> HIDE DEF t
    <3>1. QED
      BY <1>2, <2>3, OneBehind
  <2>6. Placed(u, z, s)
    <3> HIDE DEF u
    <3>1. QED
      BY <1>2, <2>3, OneBehind
  <2> HIDE DEF t, u, s
  <2>7. /\ FixedLen(widths) = v + 4 /\ DOMAIN widths = {1, 2, 3} /\ Offset(widths, 1) = 24
        /\ Offset(widths, 2) = 24 + v /\ Offset(widths, 3) = 26 + v
        /\ widths[1] = v /\ widths[2] = 2 /\ widths[3] = 2
    BY <1>7 DEF FixedLen, Offset, HdrLen
  <2>8. Len(w) = v /\ Len(y) = 2 /\ Len(z) = 2 /\ w \in Octets /\ y \in Octets
    BY <1>2, <2>0
  <2> HIDE DEF L
  <2>9. Len(F(t)) = 24 + v /\ At(F(t), 24, w)
    <3> HIDE DEF w
    <3>1. 24 + Len(w) = 24 + v
      BY <2>8
    <3>2. QED
      BY <2>4, <3>1, PlacedIs, Zenon
  <2>10. Len(F(u)) = 26 + v /\ At(F(u), 24, w) /\ At(F(u), 24 + v, y)
    <3> HIDE DEF w, y
    <3>1. (24 + v) + Len(y) = 26 + v /\ 24 \in Nat
      BY <2>8
    <3>2. QED
      BY <2>5, <2>8, <2>9, <3>1, PlacedIs, PlacedKeeps, ZenonT(60)
  <2>11. /\ Len(F(s)) = 28 + v /\ F(s) \in Octets /\ s \in Seq(Octets)
         /\ At(F(s), 24, w) /\ At(F(s), 24 + v, y) /\ At(F(s), 26 + v, z)
    <3> HIDE DEF w, y, z
    <3>1. (26 + v) + Len(z) = 28 + v /\ 24 \in Nat /\ 24 + v \in Nat
      BY <2>8
    <3>2. QED
      BY <2>6, <2>8, <2>10, <3>1, PlacedIs, PlacedKeeps, ZenonT(60)
  <2>12. Keeps(F(h), F(s))
    BY <2>4, <2>5, <2>6, Zenon DEF Placed, Keeps
  <2>13. Fields(F(s), c, widths)
    <3>1. Len(F(s)) = HdrLen + FixedLen(widths)
      BY <2>7, <2>11 DEF HdrLen
    <3>2. \A k \in DOMAIN widths : At(F(s), Offset(widths, k), L(k, widths[k]))
      <4> HIDE DEF F
      <4>1. QED
        BY <2>7, <2>11
    <3>3. QED
      BY <3>1, <3>2, Zenon DEF Fields, L
  <2>14. QED
    BY <2>2, <2>11, <2>12, <2>13
<1>8. QED
  BY <1>4, <1>5, <1>6, <1>7 DEF AllWidths

-----------------------------------------------------------------------------
(* A data frame's header with four addresses. *)
LEMMA FourIs ==
  ASSUME NEW c, Asked(c), NEW t \in Nat, NEW s \in Nat,
         NEW m1 \in Address, NEW m2 \in Address, NEW m3 \in Address, NEW m4 \in Address,
         NEW l, l = Lcpf80211headers(t, s, c, <<m1, m2, m3, m4>>)
  PROVE  /\ l \in Seq(Octets) /\ FlattenSeq(l) \in Octets
         /\ Heads(FlattenSeq(l), t, s, c, m1, m2, m3, m4)
<1> DEFINE a == FrameControl(t, s, c.fcflags)
           b == Duration(c.duration)
           g == SeqOctets(c.sequence, c.fragment)
           h == <<a, b, m1, m2, m3, m4>>
           F(x) == FlattenSeq(x)
<1>1. a \in Octets /\ Len(a) = 2 /\ b \in Octets /\ Len(b) = 2 /\ g \in Octets
  <2>1. c.fcflags \in Nat /\ c.duration \in Nat /\ c.sequence \in Nat /\ c.fragment \in Nat
    BY Zenon DEF Asked
  <2>2. a \in Octets /\ Len(a) = 2
    BY <2>1, FrameControlIs
  <2>3. b \in Octets /\ Len(b) = 2
    BY <2>1, DurationIs
  <2>4. g \in Octets
    BY <2>1, SeqOctetsIs
  <2>5. QED
    BY <2>2, <2>3, <2>4
<1>2. /\ m1 \in Octets /\ m2 \in Octets /\ m3 \in Octets /\ m4 \in Octets
  BY AddressIs
<1>3. l = <<a, b>> \o (<<m1>> \o <<m2>> \o <<m3>> \o <<m4>>) \o <<g>>
  <2>1. Given(m1) = <<m1>> /\ Given(m2) = <<m2>> /\ Given(m3) = <<m3>> /\ Given(m4) = <<m4>>
    BY AddressIs DEF Given
  <2>2. Givens(<<m1, m2, m3, m4>>) = <<m1>> \o <<m2>> \o <<m3>> \o <<m4>>
    BY <2>1 DEF Givens
  <2>3. QED
    BY <2>2, Zenon DEF Lcpf80211headers, SeqOctets
<1> HIDE DEF a, b, g
<1>4. l = Append(h, g)
  <2> DEFINE T == Octets
             d == <<a, b>>
  <2>0. /\ a \in T /\ b \in T /\ g \in T /\ m1 \in T /\ m2 \in T /\ m3 \in T /\ m4 \in T
    BY <1>1, <1>2
  <2> HIDE DEF T
  <2>1. /\ <<m1>> \in Seq(T) /\ <<m1, m2>> \in Seq(T) /\ <<m1, m2, m3>> \in Seq(T)
        /\ <<m1, m2>> = Append(<<m1>>, m2) /\ <<m1, m2, m3>> = Append(<<m1, m2>>, m3)
        /\ <<m1, m2, m3, m4>> = Append(<<m1, m2, m3>>, m4)
        /\ d \in Seq(T) /\ h \in Seq(T) /\ h = Append(<<a, b, m1, m2, m3>>, m4)
    BY <2>0
  <2>2. <<m1>> \o <<m2>> \o <<m3>> \o <<m4>> = <<m1, m2, m3, m4>>
    <3>1. <<m1>> \o <<m2>> = <<m1, m2>>
      BY <2>0, <2>1, OneMore
    <3>2. <<m1, m2>> \o <<m3>> = <<m1, m2, m3>>
      BY <2>0, <2>1, OneMore
    <3>3. <<m1, m2, m3>> \o <<m4>> = <<m1, m2, m3, m4>>
      BY <2>0, <2>1, OneMore
    <3>4. QED
      BY <3>1, <3>2, <3>3
  <2>3. d \o <<m1, m2, m3>> = <<a, b, m1, m2, m3>>
    <3>1. d \o <<m1, m2, m3>> = Append(Append(Append(d, m1), m2), m3)
      <4> HIDE DEF d
      <4>1. QED
        BY <2>0, <2>1, FewMore
    <3>2. Append(Append(Append(d, m1), m2), m3) = <<a, b, m1, m2, m3>>
      <4>1. <<a, b, m1>> = Append(<<a, b>>, m1)
        OBVIOUS
      <4>2. <<a, b, m1, m2>> = Append(<<a, b, m1>>, m2)
        OBVIOUS
      <4>3. <<a, b, m1, m2, m3>> = Append(<<a, b, m1, m2>>, m3)
        OBVIOUS
      <4>4. QED
        BY <4>1, <4>2, <4>3
    <3>3. QED
      BY <3>1, <3>2
  <2>4. d \o <<m1, m2, m3, m4>> = h
    <3>1. d \o Append(<<m1, m2, m3>>, m4) = Append(d \o <<m1, m2, m3>>, m4)
      BY <2>0, <2>1, OneMoreBehind
    <3>2. QED
      BY <2>1, <2>3, <3>1
  <2>5. h \o <<g>> = Append(h, g)
    <3> HIDE DEF h
    <3>1. QED
      BY <2>0, <2>1, OneMore
  <2>6. QED
    BY <1>3, <2>2, <2>4, <2>5
<1>5. /\ h \in Seq(Octets) /\ At(F(h), 0, a) /\ At(F(h), 2, b) /\ At(F(h), 4, m1)
      /\ At(F(h), 10, m2) /\ At(F(h), 16, m3) /\ At(F(h), 22, m4)
  <2>1. h = <<a, b, m1, m2, m3, m4>>
    OBVIOUS
  <2> DEFINE e == F(h)
  <2>2. e = FlattenSeq(h)
    OBVIOUS
  <2> HIDE DEF h, e
  <2>3. /\ h \in Seq(Octets) /\ At(e, 0, a) /\ At(e, 2, b) /\ At(e, 4, m1)
        /\ At(e, 10, m2) /\ At(e, 16, m3) /\ At(e, 22, m4)
    BY <1>1, <1>2, <2>1, <2>2, FlattenSix, SMTT(30)
  <2>4. QED
    BY <2>3 DEF e
<1> HIDE DEF h
<1>6. Placed(h, g, l)
  BY <1>1, <1>4, <1>5, OneBehind
<1>7. l \in Seq(Octets) /\ F(l) \in Octets /\ Keeps(F(h), F(l))
  BY <1>6, Zenon DEF Placed
<1>8. /\ At(F(l), 0, a) /\ At(F(l), 2, b) /\ At(F(l), 4, m1)
      /\ At(F(l), 10, m2) /\ At(F(l), 16, m3) /\ At(F(l), 22, m4)
  <2>1. 0 \in Nat /\ 2 \in Nat /\ 4 \in Nat /\ 10 \in Nat /\ 16 \in Nat /\ 22 \in Nat
    OBVIOUS
  <2> HIDE DEF F
  <2>2. QED
    BY <1>1, <1>2, <1>5, <1>7, <2>1, Zenon DEF Keeps
<1>9. QED
  BY <1>7, <1>8, Zenon DEF a, b, Heads

-----------------------------------------------------------------------------
(* An RTS frame. *)
RtsHeads(f, c) ==
  /\ At(f, 0, FrameControl(1, 11, c.fcflags)) /\ At(f, 2, Duration(c.duration))
  /\ At(f, 4, c.dst) /\ At(f, 10, c.src)

(* An RTS frame has two addresses and nothing else. *)
LEMMA RtsIs ==
  ASSUME NEW c, Asked(c), NEW l, l = Rts(c)
  PROVE  /\ l \in Seq(Octets) /\ FlattenSeq(l) \in Octets
         /\ RtsHeads(FlattenSeq(l), c)
<1> DEFINE a == FrameControl(1, 11, c.fcflags)
           b == Duration(c.duration)
           m == c.dst
           n == c.src
           l1 == <<a>>
           l2 == Append(l1, b)
           l3 == Append(l2, m)
           l4 == Append(l3, n)
           F(x) == FlattenSeq(x)
<1>1. a \in Octets /\ Len(a) = 2 /\ b \in Octets /\ Len(b) = 2
  <2>1. c.fcflags \in Nat /\ c.duration \in Nat /\ 1 \in Nat /\ 11 \in Nat
    BY DEF Asked
  <2>2. a \in Octets /\ Len(a) = 2
    BY <2>1, FrameControlIs
  <2>3. b \in Octets /\ Len(b) = 2
    BY <2>1, DurationIs
  <2>4. QED
    BY <2>2, <2>3
<1>2. m \in Octets /\ Len(m) = 6 /\ n \in Octets /\ Len(n) = 6
  BY AddressIs DEF Asked
<1>3. l = <<a, b, m>> \o <<n>>
  BY DEF Rts, Lcpf80211ctrlheaders
<1> HIDE DEF a, b, m, n
<1>4. l = l4
  <2>1. <<a, b, m>> \in Seq(Octets) /\ <<a, b, m>> = l3
    BY <1>1, <1>2
  <2>2. <<a, b, m>> \o <<n>> = Append(<<a, b, m>>, n)
    BY <1>2, <2>1, OneMore
  <2>3. QED
    BY <1>3, <2>1, <2>2
<1>5. l1 \in Seq(Octets) /\ l2 \in Seq(Octets) /\ l3 \in Seq(Octets)
  BY <1>1, <1>2
<1>6. F(l1) = a /\ At(F(l1), 0, a) /\ Len(F(l1)) = 2
  BY <1>1, FlattenOne
<1>7. Placed(l1, b, l2)
  <2> HIDE DEF l1
  <2>1. QED
    BY <1>1, <1>5, OneBehind
<1>8. Placed(l2, m, l3)
  <2> HIDE DEF l2
  <2>1. QED
    BY <1>2, <1>5, OneBehind
<1>9. Placed(l3, n, l4)
  <2> HIDE DEF l3
  <2>1. QED
    BY <1>2, <1>5, OneBehind
<1> HIDE DEF l1, l2, l3, l4, F
<1>10. /\ 2 + Len(b) = 4 /\ 4 + Len(m) = 10 /\ 10 + Len(n) = 16
       /\ 0 \in Nat /\ 2 \in Nat /\ 4 \in Nat /\ 10 \in Nat
  BY <1>1, <1>2
<1>11. Len(F(l2)) = 4 /\ At(F(l2), 0, a) /\ At(F(l2), 2, b)
  BY <1>1, <1>6, <1>7, <1>10, PlacedIs, PlacedKeeps, Zenon DEF F
<1>12. Len(F(l3)) = 10 /\ At(F(l3), 0, a) /\ At(F(l3), 2, b) /\ At(F(l3), 4, m)
  BY <1>1, <1>8, <1>10, <1>11, PlacedIs, PlacedKeeps, Zenon DEF F
<1>13. /\ l4 \in Seq(Octets) /\ F(l4) \in Octets
       /\ At(F(l4), 0, a) /\ At(F(l4), 2, b) /\ At(F(l4), 4, m) /\ At(F(l4), 10, n)
  BY <1>1, <1>2, <1>9, <1>10, <1>12, PlacedIs, PlacedKeeps, Zenon DEF F
<1>14. QED
  BY <1>4, <1>13, Zenon DEF RtsHeads, a, b, m, n, F

-----------------------------------------------------------------------------
(* The management frames: their subtype's number, fixed fields and the     *)
(* first and third address.                                                *)
Management == DOMAIN Subtype \ {"rts", "data"}

Number == [assocreq |-> 5, assocresp |-> 5, probereq |-> 4, proberesp |-> 5, beacon |-> 8,
           disassoc |-> 10, authreq |-> 11, authresq |-> 11, deauth |-> 12]

Widths == [assocreq |-> <<2, 2>>, assocresp |-> <<2, 2, 2>>, probereq |-> <<>>,
           proberesp |-> <<8, 2, 2>>, beacon |-> <<8, 2, 2>>, disassoc |-> <<2>>,
           authreq |-> <<2, 2, 2>>, authresq |-> <<2, 2, 2>>, deauth |-> <<2>>]

First(r) == IF r.op \in {"beacon", "probereq"} THEN Broadcast ELSE r.dst
Third(r) == IF r.op = "probereq" THEN Broadcast ELSE r.bssid

(* The management frames by name. *)
LEMMA ManagementIs ==
  Management = {"assocreq", "assocresp", "probereq", "proberesp", "beacon", "disassoc",
                "authreq", "authresq", "deauth"}
BY DEF Management, Subtype

(* What each of their functions forges. *)
LEMMA ForgeManagement ==
  ASSUME NEW r, r.op \in Management
  PROVE  Forge(r) = Mgmt(Number[r.op], r, <<First(r), r.src, Third(r)>>, Widths[r.op])
<1>1. CASE r.op = "assocreq"
  BY <1>1 DEF Forge, Assocreq, Number, Widths, First, Third
<1>2. CASE r.op = "assocresp"
  BY <1>2 DEF Forge, Assocresp, Number, Widths, First, Third
<1>3. CASE r.op = "probereq"
  BY <1>3 DEF Forge, Probereq, Number, Widths, First, Third
<1>4. CASE r.op = "proberesp"
  BY <1>4 DEF Forge, Proberesp, Number, Widths, First, Third
<1>5. CASE r.op = "beacon"
  BY <1>5 DEF Forge, Beacon, Number, Widths, First, Third
<1>6. CASE r.op = "disassoc"
  BY <1>6 DEF Forge, Disassoc, Number, Widths, First, Third
<1>7. CASE r.op = "authreq"
  BY <1>7 DEF Forge, Authreq, Number, Widths, First, Third
<1>8. CASE r.op = "authresq"
  BY <1>8 DEF Forge, Authresq, Authreq, Number, Widths, First, Third
<1>9. CASE r.op = "deauth"
  BY <1>9 DEF Forge, Deauth, Number, Widths, First, Third
<1>10. QED
  BY <1>1, <1>2, <1>3, <1>4, <1>5, <1>6, <1>7, <1>8, <1>9, ManagementIs

(* Their numbers fit four bits. *)
LEMMA NumberIs ==
  ASSUME NEW o \in Management
  PROVE  Number[o] \in {4, 5, 8, 10, 11, 12} /\ Widths[o] \in AllWidths
BY ManagementIs DEF Number, Widths, AllWidths

(* Their first and third address are ones. *)
LEMMA AddressesAre ==
  ASSUME NEW r, Asked(r)
  PROVE  First(r) \in Address /\ Third(r) \in Address
<1>1. Broadcast \in Address
  BY DEF Broadcast, Fill, Address
<1>2. QED
  BY <1>1 DEF First, Third, Asked

(* A header stays when components are put behind it. *)
LEMMA HeadsKept ==
  ASSUME NEW c, Asked(c), NEW t \in Nat, NEW s \in Nat,
         NEW m1 \in Address, NEW m2 \in Address, NEW m3 \in Address, NEW x \in Octets,
         NEW f, NEW g, Heads(f, t, s, c, m1, m2, m3, x), Keeps(f, g)
  PROVE  Heads(g, t, s, c, m1, m2, m3, x)
<1>1. c.fcflags \in Nat /\ c.duration \in Nat
  BY Zenon DEF Asked
<1>2. FrameControl(t, s, c.fcflags) \in Octets
  BY <1>1, FrameControlIs
<1>3. Duration(c.duration) \in Octets
  BY <1>1, DurationIs
<1>4. m1 \in Octets /\ m2 \in Octets /\ m3 \in Octets
  BY AddressIs
<1>5. 0 \in Nat /\ 2 \in Nat /\ 4 \in Nat /\ 10 \in Nat /\ 16 \in Nat /\ 22 \in Nat
  OBVIOUS
<1>6. QED
  BY <1>2, <1>3, <1>4, <1>5, Zenon DEF Heads, Keeps

(* A forged management frame holds its header and its fixed fields. *)
LEMMA MgmtIs ==
  ASSUME NEW c, Asked(c), NEW s \in Nat, NEW m1 \in Address, NEW m2 \in Address,
         NEW m3 \in Address, NEW widths \in AllWidths,
         NEW l, l = Mgmt(s, c, <<m1, m2, m3>>, widths)
  PROVE  /\ l \in Seq(Octets) /\ FlattenSeq(l) \in Octets
         /\ Heads(FlattenSeq(l), 0, s, c, m1, m2, m3, SeqOctets(c.sequence, c.fragment))
         /\ Fields(FlattenSeq(l), c, widths)
<1> DEFINE h == Lcpf80211headers(0, s, c, <<m1, m2, m3, NoMac>>)
           g == SeqOctets(c.sequence, c.fragment)
           F(x) == FlattenSeq(x)
<1>1. h = Lcpf80211headers(0, s, c, <<m1, m2, m3, NoMac>>) /\ 0 \in Nat
  OBVIOUS
<1>2. l = h \o Fixed(c, widths)
  <2>1. <<m1, m2, m3, NoMac>> = Append(<<m1, m2, m3>>, NoMac)
    OBVIOUS
  <2>2. QED
    BY <2>1 DEF Mgmt
<1> HIDE DEF h
<1>3. /\ h \in Seq(Octets) /\ F(h) \in Octets /\ Len(F(h)) = 24
      /\ Heads(F(h), 0, s, c, m1, m2, m3, g)
  <2> DEFINE t == 0
  <2>1. t \in Nat /\ h = Lcpf80211headers(t, s, c, <<m1, m2, m3, NoMac>>)
    BY <1>1
  <2> HIDE DEF t, g
  <2>2. /\ h \in Seq(Octets) /\ F(h) \in Octets /\ Len(F(h)) = 24
        /\ Heads(F(h), t, s, c, m1, m2, m3, SeqOctets(c.sequence, c.fragment))
    BY <2>1, HeaderIs, SMTT(30)
  <2>3. QED
    BY <2>2 DEF t, g
<1>4. /\ l \in Seq(Octets) /\ F(l) \in Octets /\ Fields(F(l), c, widths) /\ Keeps(F(h), F(l))
  BY <1>2, <1>3, BodyIs, Zenon
<1>5. Heads(F(l), 0, s, c, m1, m2, m3, g)
  <2>1. g \in Octets
    BY SeqOctetsIs DEF Asked
  <2> HIDE DEF F, g
  <2>2. QED
    BY <1>1, <1>3, <1>4, <2>1, HeadsKept, Zenon
<1>6. QED
  BY <1>4, <1>5

-----------------------------------------------------------------------------
(* What the octets of r with es behind it hold. *)
Fourth(r) == IF r.mac4 = NoMac THEN SeqOctets(r.sequence, r.fragment) ELSE r.mac4

(* Each element is where the one before ends. *)
Laid(f, es, at) == \A k \in 1 .. Len(es) : At(f, at[k - 1], es[k])

HoldsRts(f, r, es) == RtsHeads(f, r) /\ es = <<>>

HoldsData(f, r, es) ==
  /\ Heads(f, 2, 0, r, r.dst, r.src, r.bssid, Fourth(r))
  /\ \/ es = <<>> /\ (r.mac4 = NoMac => Len(f) = 24)
     \/ \E q \in Qos : es = <<q>> /\ (r.mac4 = NoMac => At(f, 24, Lcpfqosheaders(q)))

HoldsManagement(f, r, es) ==
  /\ Heads(f, 0, Number[r.op], r, First(r), r.src, Third(r), SeqOctets(r.sequence, r.fragment))
  /\ \A k \in DOMAIN Widths[r.op] :
       At(f, Offset(Widths[r.op], k), Little(r.args[k], Widths[r.op][k]))
  /\ es \in Seq(Pairs)
  /\ \E at : Ends(es, HdrLen + FixedLen(Widths[r.op]), Len(f), at) /\ Laid(f, es, at)

Holds(f, r, es) ==
  /\ f \in Octets
  /\ r.op = "rts" => HoldsRts(f, r, es)
  /\ r.op = "data" => HoldsData(f, r, es)
  /\ r.op \in Management => HoldsManagement(f, r, es)

(* Every forged frame holds what was asked for. *)
LEMMA ForgeHolds ==
  ASSUME NEW r, Asked(r), NEW l, l = Forge(r)
  PROVE  l \in Seq(Octets) /\ Holds(FlattenSeq(l), r, <<>>)
<1> DEFINE f == FlattenSeq(l)
<1>1. r.op \in DOMAIN Subtype
  BY DEF Asked
<1>2. CASE r.op = "rts"
  <2>1. l = Rts(r)
    BY <1>2 DEF Forge
  <2>2. l \in Seq(Octets) /\ f \in Octets /\ RtsHeads(f, r)
    BY <2>1, RtsIs
  <2>3. r.op # "data" /\ r.op \notin Management
    BY <1>2, ManagementIs
  <2>4. QED
    BY <2>2, <2>3 DEF Holds, HoldsRts
<1>3. CASE r.op = "data"
  <2>1. l = Lcpf80211headers(2, 0, r, <<r.dst, r.src, r.bssid, r.mac4>>)
    BY <1>3 DEF Forge, Data
  <2>2. r.op # "rts" /\ r.op \notin Management
    BY <1>3, ManagementIs
  <2>3. /\ r.dst \in Address /\ r.src \in Address /\ r.bssid \in Address
        /\ r.mac4 = NoMac \/ r.mac4 \in Address
    BY DEF Asked
  <2>4. 2 \in Nat /\ 0 \in Nat
    OBVIOUS
  <2>5. /\ l \in Seq(Octets) /\ f \in Octets /\ (r.mac4 = NoMac => Len(f) = 24)
        /\ Heads(f, 2, 0, r, r.dst, r.src, r.bssid, Fourth(r))
    <3>1. CASE r.mac4 = NoMac
      <4>1. l = Lcpf80211headers(2, 0, r, <<r.dst, r.src, r.bssid, NoMac>>)
        BY <2>1, <3>1
      <4>2. /\ l \in Seq(Octets) /\ f \in Octets /\ Len(f) = 24
            /\ Heads(f, 2, 0, r, r.dst, r.src, r.bssid, SeqOctets(r.sequence, r.fragment))
        BY <2>3, <2>4, <4>1, HeaderIs, Zenon
      <4>3. QED
        BY <3>1, <4>2 DEF Fourth
    <3>2. CASE r.mac4 # NoMac
      <4>1. r.mac4 \in Address
        BY <2>3, <3>2
      <4>2. /\ l \in Seq(Octets) /\ f \in Octets
            /\ Heads(f, 2, 0, r, r.dst, r.src, r.bssid, r.mac4)
        BY <2>1, <2>3, <2>4, <4>1, FourIs, Zenon
      <4>3. QED
        BY <3>2, <4>2 DEF Fourth
    <3>3. QED
      BY <3>1, <3>2
  <2> HIDE DEF f
  <2>6. HoldsData(f, r, <<>>)
    BY <2>5, Zenon DEF HoldsData
  <2>7. QED
    BY <2>2, <2>5, <2>6 DEF Holds, f
<1>4. CASE r.op \in Management
  <2>1. l = Mgmt(Number[r.op], r, <<First(r), r.src, Third(r)>>, Widths[r.op])
    BY <1>4, ForgeManagement
  <2>2. Number[r.op] \in Nat /\ Widths[r.op] \in AllWidths
    BY <1>4, NumberIs
  <2>3. First(r) \in Address /\ r.src \in Address /\ Third(r) \in Address
    BY AddressesAre DEF Asked
  <2>4. /\ l \in Seq(Octets) /\ f \in Octets
        /\ Heads(f, 0, Number[r.op], r, First(r), r.src, Third(r), SeqOctets(r.sequence, r.fragment))
        /\ Fields(f, r, Widths[r.op])
    BY <2>1, <2>2, <2>3, MgmtIs, Zenon
  <2> HIDE DEF f
  <2>5. \E at : Ends(<<>>, HdrLen + FixedLen(Widths[r.op]), Len(f), at) /\ Laid(f, <<>>, at)
    <3> DEFINE at == [k \in 0 .. 0 |-> Len(f)]
    <3>1. Len(f) \in Nat /\ Len(f) = HdrLen + FixedLen(Widths[r.op])
      BY <2>4 DEF Octets, Fields
    <3>2. Ends(<<>>, Len(f), Len(f), at)
      BY <3>1 DEF Ends
    <3>3. Laid(f, <<>>, at)
      BY DEF Laid
    <3> HIDE DEF at
    <3>4. QED
      BY <3>1, <3>2, <3>3
  <2>6. <<>> \in Seq(Pairs)
    OBVIOUS
  <2>7. HoldsManagement(f, r, <<>>)
    BY <2>4, <2>5, <2>6, Zenon DEF HoldsManagement, Fields
  <2>8. r.op # "rts" /\ r.op # "data"
    BY <1>4, ManagementIs
  <2>9. QED
    BY <2>4, <2>7, <2>8 DEF Holds, f
<1>5. QED
  BY <1>1, <1>2, <1>3, <1>4 DEF Management

-----------------------------------------------------------------------------
(* What is added behind. *)
LEMMA AddIeIs ==
  ASSUME NEW num \in Nat, NEW len \in Nat
  PROVE  /\ AddIe(num, len) \in Octets /\ Len(AddIe(num, len)) = 2 + len
         /\ AddIe(num, len)[1] = num /\ AddIe(num, len)[2] = len
<1> DEFINE p == <<num, len>>
           d == Fill(num, len)
           T == Nat
<1>1. p \in Seq(T) /\ Len(p) = 2 /\ p[1] = num /\ p[2] = len
  OBVIOUS
<1>2. d \in Seq(T) /\ Len(d) = len
  <2>1. d \in [1 .. len -> T]
    BY DEF Fill
  <2> HIDE DEF d, T
  <2>2. QED
    BY <2>1, FunctionIsSeq
<1>3. AddIe(num, len) = p \o d
  BY DEF AddIe
<1> HIDE DEF p, d, T
<1>4. /\ p \o d \in Seq(T) /\ Len(p \o d) = Len(p) + Len(d)
      /\ \A i \in 1 .. Len(p) : (p \o d)[i] = p[i]
  <2>1. p \in Seq(T) /\ d \in Seq(T)
    BY <1>1, <1>2
  <2>2. QED
    BY <2>1, ConcatAt
<1>5. 1 \in 1 .. Len(p) /\ 2 \in 1 .. Len(p)
  BY <1>1
<1>6. QED
  BY <1>1, <1>2, <1>3, <1>4, <1>5 DEF T, Octets

(* A QoS header is two octets. *)
LEMMA QosIs ==
  ASSUME NEW q \in Qos
  PROVE  Lcpfqosheaders(q) \in Octets /\ Len(Lcpfqosheaders(q)) = 2
<1>1. q \in Nat \X (0 .. 3) \X (0 .. 3)
  BY FramesAssumption
<1>2. (32 * q[1] + 8 * q[2] + 2 * q[3]) % 256 \in Nat
  BY <1>1
<1>3. QED
  BY <1>2, PairIs DEF Lcpfqosheaders

(* An element's number and length are two octets. *)
LEMMA PairOctets ==
  ASSUME NEW e \in Pairs
  PROVE  e \in Octets /\ Len(e) = 2 /\ e[1] \in Nat /\ e[2] \in Nat
<1>1. PICK x \in Nat, y \in Nat : e = <<x, y>>
  BY DEF Pairs
<1>2. QED
  BY <1>1, PairIs

(* One element more ends behind the others. *)
LEMMA EndsMore ==
  ASSUME NEW es \in Seq(Pairs), NEW a, NEW b, NEW at, Ends(es, a, b, at), NEW e \in Pairs,
         NEW d, d = b + 2 + e[2]
  PROVE  \E to : /\ Ends(Append(es, e), a, d, to)
                 /\ \A k \in 0 .. Len(es) : to[k] = at[k] /\ at[k] \in Nat
<1> DEFINE n == Len(es)
           fs == Append(es, e)
           to == [k \in 0 .. n + 1 |-> IF k = n + 1 THEN d ELSE at[k]]
<1>1. n \in Nat /\ Len(fs) = n + 1 /\ fs[n + 1] = e /\ \A k \in 1 .. n : fs[k] = es[k]
  OBVIOUS
<1>2. /\ \A k \in 0 .. n : at[k] \in Nat
      /\ at[0] = a /\ at[n] = b /\ \A k \in 1 .. n : at[k] = at[k - 1] + 2 + es[k][2]
  BY DEF Ends
<1>3. b \in Nat /\ e[2] \in Nat /\ d \in Nat
  <2>1. b \in Nat
    BY <1>1, <1>2
  <2>2. e[2] \in Nat
    BY PairOctets
  <2>3. QED
    BY <2>1, <2>2
<1> HIDE DEF n, fs
<1>4. \A k \in 0 .. n : to[k] = at[k]
  BY <1>1
<1>5. to[n + 1] = d /\ to \in [0 .. n + 1 -> Nat]
  BY <1>1, <1>2, <1>3
<1> HIDE DEF to
<1>6. \A k \in 1 .. n + 1 : to[k] = to[k - 1] + 2 + fs[k][2]
  <2> SUFFICES ASSUME NEW k \in 1 .. n + 1 PROVE to[k] = to[k - 1] + 2 + fs[k][2]
    OBVIOUS
  <2>1. CASE k = n + 1
    <3>1. k - 1 = n /\ n \in 0 .. n
      BY <1>1, <2>1
    <3>2. to[k - 1] = b
      BY <1>2, <1>4, <3>1
    <3>3. QED
      BY <1>1, <1>5, <2>1, <3>2
  <2>2. CASE k # n + 1
    <3>1. k \in 1 .. n /\ k \in 0 .. n /\ k - 1 \in 0 .. n
      BY <1>1, <2>2
    <3>2. QED
      BY <1>1, <1>2, <1>4, <3>1
  <2>3. QED
    BY <2>1, <2>2
<1>7. Ends(fs, a, d, to)
  <2>1. to[0] = a
    <3>1. 0 \in 0 .. n
      BY <1>1
    <3>2. QED
      BY <1>2, <1>4, <3>1
  <2>2. QED
    BY <1>1, <1>5, <1>6, <2>1 DEF Ends
<1>8. QED
  BY <1>2, <1>4, <1>7 DEF n, fs

(* Elements stay where they are when another is laid behind them. *)
LEMMA LaidMore ==
  ASSUME NEW es \in Seq(Pairs), NEW a, NEW f, NEW at, Ends(es, a, Len(f), at), Laid(f, es, at),
         NEW e \in Pairs, NEW g, Keeps(f, g), At(g, Len(f), e), Len(g) = Len(f) + 2 + e[2]
  PROVE  \E to : Ends(Append(es, e), a, Len(g), to) /\ Laid(g, Append(es, e), to)
<1> DEFINE n == Len(es)
           fs == Append(es, e)
<1>1. /\ n \in Nat /\ Len(fs) = n + 1 /\ fs[n + 1] = e
      /\ \A k \in 1 .. n : fs[k] = es[k] /\ es[k] \in Pairs
  OBVIOUS
<1>2. PICK to : Ends(fs, a, Len(g), to) /\ \A k \in 0 .. n : to[k] = at[k] /\ at[k] \in Nat
  BY EndsMore
<1>3. at[n] = Len(f)
  BY DEF Ends
<1> HIDE DEF n, fs
<1>4. \A k \in 1 .. n + 1 : At(g, to[k - 1], fs[k])
  <2> SUFFICES ASSUME NEW k \in 1 .. n + 1 PROVE At(g, to[k - 1], fs[k])
    OBVIOUS
  <2>1. CASE k = n + 1
    <3>1. k - 1 = n /\ n \in 0 .. n
      BY <1>1, <2>1
    <3>2. to[k - 1] = Len(f) /\ fs[k] = e
      BY <1>1, <1>2, <1>3, <2>1, <3>1
    <3>3. QED
      BY <3>2
  <2>2. CASE k # n + 1
    <3>1. k \in 1 .. n /\ k - 1 \in 0 .. n
      BY <1>1, <2>2
    <3>2. At(f, at[k - 1], es[k])
      BY <3>1 DEF Laid, n
    <3>3. es[k] \in Octets /\ at[k - 1] \in Nat
      BY <1>1, <1>2, <3>1, PairOctets
    <3>4. At(g, at[k - 1], es[k])
      BY <3>2, <3>3, Zenon DEF Keeps
    <3>5. QED
      BY <1>1, <1>2, <3>1, <3>4
  <2>3. QED
    BY <2>1, <2>2
<1>5. Laid(g, fs, to)
  BY <1>1, <1>4 DEF Laid
<1>6. QED
  BY <1>2, <1>5 DEF fs

(* A frame with one element more holds it and all that it held. *)
LEMMA AddElementHolds ==
  ASSUME NEW r, Asked(r), r.op \in Management, NEW l \in Seq(Octets), NEW es,
         Holds(FlattenSeq(l), r, es), NEW num \in Nat, NEW len \in Nat,
         NEW m, m = Append(l, AddIe(num, len))
  PROVE  m \in Seq(Octets) /\ Holds(FlattenSeq(m), r, Append(es, <<num, len>>))
<1> DEFINE f == FlattenSeq(l)
           g == FlattenSeq(m)
           x == AddIe(num, len)
           e == <<num, len>>
           a == HdrLen + FixedLen(Widths[r.op])
           so == SeqOctets(r.sequence, r.fragment)
<1>1. x \in Octets /\ Len(x) = 2 + len /\ x[1] = num /\ x[2] = len
  BY AddIeIs
<1>2. m = Append(l, x)
  OBVIOUS
<1>3. e \in Pairs /\ e[1] = num /\ e[2] = len /\ Len(e) = 2
  BY DEF Pairs
<1>4. HoldsManagement(f, r, es) /\ f \in Octets
  BY DEF Holds
<1> HIDE DEF x, e
<1>5. Placed(l, x, m)
  BY <1>1, <1>2, OneBehind
<1>6. /\ m \in Seq(Octets) /\ g \in Octets /\ Len(g) = Len(f) + Len(x) /\ Len(f) \in Nat
      /\ At(g, Len(f), x) /\ Keeps(f, g)
  BY <1>5, Zenon DEF Placed
<1> HIDE DEF f, g
<1>7. At(g, Len(f), e)
  <2>1. Len(f) + 2 <= Len(g)
    <3>1. Len(f) + (2 + len) <= Len(g)
      BY <1>1, <1>6 DEF At
    <3>2. Len(g) \in Nat
      BY <1>6 DEF Octets
    <3>3. QED
      BY <1>6, <3>1, <3>2
  <2>2. g[Len(f) + 1] = x[1] /\ g[Len(f) + 2] = x[2]
    <3>1. 1 \in 1 .. Len(x) /\ 2 \in 1 .. Len(x)
      BY <1>1
    <3>2. QED
      BY <1>6, <3>1, Zenon DEF At
  <2>3. QED
    BY <1>1, <1>3, <2>1, <2>2 DEF At
<1>8. PICK at : Ends(es, a, Len(f), at) /\ Laid(f, es, at)
  BY <1>4, Zenon DEF HoldsManagement
<1>9. es \in Seq(Pairs)
  BY <1>4, Zenon DEF HoldsManagement
<1> HIDE DEF a
<1>10. \E to : Ends(Append(es, e), a, Len(g), to) /\ Laid(g, Append(es, e), to)
  <2>1. Len(g) = Len(f) + 2 + e[2]
    BY <1>1, <1>3, <1>6
  <2>2. QED
    BY <1>3, <1>6, <1>7, <1>8, <1>9, <2>1, LaidMore
<1>11. Append(es, e) \in Seq(Pairs)
  BY <1>3, <1>9
<1>12. Number[r.op] \in Nat /\ Widths[r.op] \in AllWidths
  BY NumberIs
<1>13. Heads(g, 0, Number[r.op], r, First(r), r.src, Third(r), so)
  <2>1. 0 \in Nat /\ First(r) \in Address /\ r.src \in Address /\ Third(r) \in Address
    BY AddressesAre DEF Asked
  <2>2. so \in Octets
    <3>1. r.sequence \in Nat /\ r.fragment \in Nat
      BY DEF Asked
    <3>2. QED
      BY <3>1, SeqOctetsIs
  <2>3. Heads(f, 0, Number[r.op], r, First(r), r.src, Third(r), so)
    BY <1>4, Zenon DEF HoldsManagement
  <2> HIDE DEF so
  <2>4. QED
    BY <1>6, <1>12, <2>1, <2>2, <2>3, HeadsKept, Zenon
<1>14. \A k \in DOMAIN Widths[r.op] :
         At(g, Offset(Widths[r.op], k), Little(r.args[k], Widths[r.op][k]))
  <2> SUFFICES ASSUME NEW k \in DOMAIN Widths[r.op]
               PROVE  At(g, Offset(Widths[r.op], k), Little(r.args[k], Widths[r.op][k]))
    OBVIOUS
  <2>1. At(f, Offset(Widths[r.op], k), Little(r.args[k], Widths[r.op][k]))
    BY <1>4, Zenon DEF HoldsManagement
  <2>2. k \in 1 .. 3 /\ Widths[r.op][k] \in Nat /\ Offset(Widths[r.op], k) \in Nat
    <3> DEFINE w == Widths[r.op]
    <3>1. w \in AllWidths /\ k \in DOMAIN w
      BY <1>12
    <3> HIDE DEF w
    <3>2. k \in 1 .. 3 /\ w[k] \in Nat /\ Offset(w, k) \in Nat
      BY <3>1 DEF AllWidths, Offset, HdrLen
    <3>3. QED
      BY <3>2 DEF w
  <2>3. r.args[k] \in Nat
    BY <2>2 DEF Asked
  <2>4. Little(r.args[k], Widths[r.op][k]) \in Octets
    BY <2>2, <2>3, LittleIs
  <2>5. QED
    BY <1>6, <2>1, <2>2, <2>4, Zenon DEF Keeps
<1>15. HoldsManagement(g, r, Append(es, e))
  BY <1>10, <1>11, <1>13, <1>14, Zenon DEF HoldsManagement, a, so
<1>16. r.op # "rts" /\ r.op # "data"
  BY ManagementIs
<1>17. Holds(g, r, Append(es, e))
  BY <1>6, <1>15, <1>16, Zenon DEF Holds
<1>18. QED
  BY <1>6, <1>17 DEF g, e

(* A data frame with a QoS header holds both. *)
LEMMA AddQosHolds ==
  ASSUME NEW r, Asked(r), r.op = "data", NEW l \in Seq(Octets),
         Holds(FlattenSeq(l), r, <<>>), NEW q \in Qos, NEW m, m = Append(l, Lcpfqosheaders(q))
  PROVE  m \in Seq(Octets) /\ Holds(FlattenSeq(m), r, <<q>>)
<1> DEFINE f == FlattenSeq(l)
           g == FlattenSeq(m)
           x == Lcpfqosheaders(q)
<1>1. x \in Octets
  BY QosIs
<1>2. HoldsData(f, r, <<>>)
  BY DEF Holds
<1> HIDE DEF x
<1>3. Placed(l, x, m)
  BY <1>1, OneBehind DEF x
<1>4. /\ m \in Seq(Octets) /\ g \in Octets /\ At(g, Len(f), x) /\ Keeps(f, g)
  BY <1>3, Zenon DEF Placed
<1> HIDE DEF f, g
<1>5. Heads(f, 2, 0, r, r.dst, r.src, r.bssid, Fourth(r)) /\ (r.mac4 = NoMac => Len(f) = 24)
  <2>1. \A p \in Qos : <<>> # <<p>>
    OBVIOUS
  <2>2. QED
    BY <1>2, <2>1, Zenon DEF HoldsData
<1>6. Heads(g, 2, 0, r, r.dst, r.src, r.bssid, Fourth(r))
  <2>1. 0 \in Nat /\ 2 \in Nat /\ r.dst \in Address /\ r.src \in Address /\ r.bssid \in Address
    BY DEF Asked
  <2>2. Fourth(r) \in Octets
    <3>1. r.sequence \in Nat /\ r.fragment \in Nat /\ (r.mac4 \in Address \/ r.mac4 = NoMac)
      BY DEF Asked
    <3>2. SeqOctets(r.sequence, r.fragment) \in Octets
      BY <3>1, SeqOctetsIs
    <3>3. r.mac4 # NoMac => r.mac4 \in Octets
      BY <3>1, AddressIs
    <3>4. QED
      BY <3>2, <3>3 DEF Fourth
  <2>3. QED
    BY <1>4, <1>5, <2>1, <2>2, HeadsKept, Zenon
<1>7. r.mac4 = NoMac => At(g, 24, x)
  BY <1>4, <1>5
<1>8. HoldsData(g, r, <<q>>)
  BY <1>6, <1>7, Zenon DEF HoldsData, x
<1>9. r.op # "rts" /\ r.op \notin Management
  BY ManagementIs
<1>10. QED
  BY <1>4, <1>8, <1>9 DEF Holds, g

-----------------------------------------------------------------------------
(* What is read where octets are. *)
LEMMA AddrIs ==
  ASSUME NEW f \in Octets, NEW n \in Nat, NEW m \in Address, At(f, n, m)
  PROVE  SubSeq(f, n + 1, n + 6) = m
<1> DEFINE w == 6
           g == SubSeq(f, n + 1, n + w)
<1>1. Len(m) = w /\ m \in Octets
  BY AddressIs
<1>2. m = [i \in 1 .. w |-> m[i]]
  BY DEF Address
<1>3. w \in Nat /\ n + w <= Len(f) /\ \A i \in 1 .. w : f[n + i] = m[i]
  BY <1>1 DEF At
<1> HIDE DEF w
<1>4. g = [i \in 1 .. w |-> f[n + i]]
  <2>1. f \in Seq(Nat) /\ n + 1 \in Nat /\ n + w \in Nat
    BY <1>3 DEF Octets
  <2>2. g = [i \in 1 .. (n + w) - (n + 1) + 1 |-> f[(n + 1) + i - 1]]
    BY <2>1
  <2>3. (n + w) - (n + 1) + 1 = w /\ \A i \in 1 .. w : (n + 1) + i - 1 = n + i
    BY <1>3
  <2>4. QED
    BY <2>2, <2>3
<1>5. g = m
  <2>1. [i \in 1 .. w |-> f[n + i]] = [i \in 1 .. w |-> m[i]]
    BY <1>3
  <2>2. QED
    BY <1>2, <1>4, <2>1, Zenon
<1>6. QED
  BY <1>5 DEF w

(* The type, subtype and flags are read from the frame control. *)
LEMMA ControlIs ==
  ASSUME NEW f, NEW t \in Nat, t < 4, NEW s \in Nat, s < 16, NEW g \in Nat,
         At(f, 0, FrameControl(t, s, g))
  PROVE  Kind(f) = [type |-> t, subtype |-> s] /\ f[2] = g % 256
<1> DEFINE x == FrameControl(t, s, g)
           v == (4 * t + 16 * s) % 256
<1>1. Len(x) = 2 /\ x[1] = v /\ x[2] = g % 256
  BY DEF FrameControl
<1>2. f[1] = x[1] /\ f[2] = x[2]
  <2>1. 1 \in 1 .. Len(x) /\ 2 \in 1 .. Len(x) /\ 0 + 1 = 1 /\ 0 + 2 = 2
    BY <1>1
  <2> HIDE DEF x
  <2>2. \A i \in 1 .. Len(x) : f[0 + i] = x[i]
    BY DEF At, x
  <2>3. QED
    BY <2>1, <2>2
<1>3. v = 4 * t + 16 * s
  BY SMT
<1>4. (v \div 4) % 4 = t
  BY <1>3, SMT
<1>5. v \div 16 = s
  BY <1>3, SMT
<1> HIDE DEF x, v
<1>6. QED
  BY <1>1, <1>2, <1>4, <1>5 DEF Kind

(* The duration is read with its octets swapped. *)
LEMMA DurationReads ==
  ASSUME NEW f, NEW d \in Nat, At(f, 2, Duration(d))
  PROVE  f[3] * 256 + f[4] = d % 65536
<1> DEFINE x == Duration(d)
<1>1. Len(x) = 2 /\ x[1] = (d \div 256) % 256 /\ x[2] = d % 256
  <2>1. Octet(d, 2) = (d \div 256) % 256 /\ Octet(d, 1) = d % 256
    BY OctetIs
  <2>2. QED
    BY <2>1 DEF Duration
<1>2. f[3] = x[1] /\ f[4] = x[2]
  <2>1. 1 \in 1 .. Len(x) /\ 2 \in 1 .. Len(x) /\ 2 + 1 = 3 /\ 2 + 2 = 4
    BY <1>1
  <2> HIDE DEF x
  <2>2. \A i \in 1 .. Len(x) : f[2 + i] = x[i]
    BY DEF At, x
  <2>3. QED
    BY <2>1, <2>2
<1>3. (((d \div 256) % 256) * 256) + (d % 256) = d % 65536
  <2> DEFINE a == d % 256
             b == d \div 256
             e == b \div 256
             h == b % 256
  <2>1. a \in Nat /\ a < 256 /\ b \in Nat /\ d = 256 * b + a
    BY SMT
  <2> HIDE DEF a, b
  <2>2. e \in Nat /\ h \in Nat /\ h < 256 /\ b = 256 * e + h
    BY <2>1, SMT
  <2> HIDE DEF e, h
  <2>3. d = 65536 * e + (256 * h + a) /\ 256 * h + a \in Nat /\ 256 * h + a < 65536
    BY <2>1, <2>2, SMT
  <2>4. d % 65536 = 256 * h + a
    BY <2>2, <2>3, SMT
  <2>5. h * 256 + a = d % 65536
    BY <2>1, <2>2, <2>4
  <2>6. QED
    BY <2>5 DEF a, b, h
<1>4. QED
  BY <1>1, <1>2, <1>3

(* A word is read from the first two octets of what is there. *)
LEMMA WordIs ==
  ASSUME NEW f, NEW n \in Nat, NEW x \in Octets, 2 <= Len(x), At(f, n, x)
  PROVE  Word(f, n) = x[1] + 256 * x[2]
<1>1. 1 \in 1 .. Len(x) /\ 2 \in 1 .. Len(x)
  BY DEF Octets
<1>2. f[n + 1] = x[1] /\ f[n + 2] = x[2]
  BY <1>1, Zenon DEF At
<1>3. QED
  BY <1>2 DEF Word

(* Sequence and fragment are read from the sequence control. *)
LEMMA SequenceReads ==
  ASSUME NEW f, NEW s \in Nat, NEW g \in Nat, g < 16, At(f, 22, SeqOctets(s, g))
  PROVE  SeqCtl(f) = [fragment |-> g, sequence |-> s % 4096]
<1> DEFINE x == SeqOctets(s, g)
           w == x[1] + 256 * x[2]
<1>1. x \in Octets /\ Len(x) = 2 /\ w % 16 = g /\ w \div 16 = s % 4096
  BY SeqOctetsIs
<1>2. 2 <= Len(x) /\ 22 \in Nat
  BY <1>1
<1>3. Word(f, 22) = w
  <2> HIDE DEF x
  <2>1. At(f, 22, x)
    BY DEF x
  <2>2. QED
    BY <1>1, <1>2, <2>1, WordIs
<1>4. QED
  <2> HIDE DEF w
  <2>1. QED
    BY <1>1, <1>3 DEF SeqCtl

(* All of a header is read as it was asked for. *)
LEMMA HeadsRead ==
  ASSUME NEW f \in Octets, NEW c, Asked(c), NEW t \in Nat, t < 4, NEW s \in Nat, s < 16,
         NEW m1 \in Address, NEW m2 \in Address, NEW m3 \in Address, NEW x,
         Heads(f, t, s, c, m1, m2, m3, x)
  PROVE  /\ Kind(f) = [type |-> t, subtype |-> s] /\ f[2] = c.fcflags % 256
         /\ f[3] * 256 + f[4] = c.duration % 65536
         /\ Addr(f, 1) = m1 /\ Addr(f, 2) = m2 /\ Addr(f, 3) = m3 /\ At(f, 22, x)
<1>1. c.fcflags \in Nat /\ c.duration \in Nat
  BY Zenon DEF Asked
<1>2. /\ At(f, 0, FrameControl(t, s, c.fcflags)) /\ At(f, 2, Duration(c.duration))
      /\ At(f, 4, m1) /\ At(f, 10, m2) /\ At(f, 16, m3) /\ At(f, 22, x)
  BY Zenon DEF Heads
<1>3. Kind(f) = [type |-> t, subtype |-> s] /\ f[2] = c.fcflags % 256
  BY <1>1, <1>2, ControlIs
<1>4. f[3] * 256 + f[4] = c.duration % 65536
  BY <1>1, <1>2, DurationReads
<1>5. /\ 6 * 1 - 1 = 4 + 1 /\ 6 * 1 + 4 = 4 + 6 /\ 6 * 2 - 1 = 10 + 1 /\ 6 * 2 + 4 = 10 + 6
      /\ 6 * 3 - 1 = 16 + 1 /\ 6 * 3 + 4 = 16 + 6 /\ 4 \in Nat /\ 10 \in Nat /\ 16 \in Nat
  OBVIOUS
<1>6. /\ SubSeq(f, 4 + 1, 4 + 6) = m1 /\ SubSeq(f, 10 + 1, 10 + 6) = m2
      /\ SubSeq(f, 16 + 1, 16 + 6) = m3
  BY <1>2, <1>5, AddrIs, Zenon
<1>7. Addr(f, 1) = m1 /\ Addr(f, 2) = m2 /\ Addr(f, 3) = m3
  BY <1>5, <1>6 DEF Addr
<1>8. QED
  BY <1>2, <1>3, <1>4, <1>7

-----------------------------------------------------------------------------
(* The first two octets of a field are its value's lower 16 bits. *)
LEMMA FieldReads ==
  ASSUME NEW f, NEW n \in Nat, NEW v \in Nat, NEW w \in Nat, 2 <= w, At(f, n, Little(v, w))
  PROVE  Word(f, n) = v % 65536
<1> DEFINE x == Little(v, w)
<1>1. x \in Octets /\ 2 <= Len(x) /\ x[1] = v % 256 /\ x[2] = (v \div 256) % 256
  <2>1. 1 \in 1 .. w /\ 2 \in 1 .. w
    OBVIOUS
  <2>2. x \in Octets /\ Len(x) = w /\ x[1] = Octet(v, 1) /\ x[2] = Octet(v, 2)
    BY <2>1, LittleIs
  <2>3. QED
    BY <2>2, OctetIs
<1> HIDE DEF x
<1>2. Word(f, n) = x[1] + 256 * x[2]
  <2>1. At(f, n, x)
    BY DEF x
  <2>2. QED
    BY <1>1, <2>1, WordIs
<1>3. (v % 256) + 256 * ((v \div 256) % 256) = v % 65536
  <2> DEFINE a == v % 256
             b == v \div 256
             e == b \div 256
             h == b % 256
  <2>1. a \in Nat /\ a < 256 /\ b \in Nat /\ v = 256 * b + a
    BY SMT
  <2> HIDE DEF a, b
  <2>2. e \in Nat /\ h \in Nat /\ h < 256 /\ b = 256 * e + h
    BY <2>1, SMT
  <2> HIDE DEF e, h
  <2>3. v = 65536 * e + (256 * h + a) /\ 256 * h + a \in Nat /\ 256 * h + a < 65536
    BY <2>1, <2>2, SMT
  <2>4. v % 65536 = a + 256 * h
    BY <2>1, <2>2, <2>3, SMT
  <2>5. QED
    BY <2>4 DEF a, b, h
<1>4. QED
  BY <1>1, <1>2, <1>3

(* Elements laid up to the end are read. *)
LEMMA LaidIsRead ==
  ASSUME NEW f \in Octets, NEW es \in Seq(Pairs), NEW a, NEW at,
         Ends(es, a, Len(f), at), Laid(f, es, at)
  PROVE  ElementsAt(f, a) = es
<1>1. Written(f, es, at)
  <2> SUFFICES ASSUME NEW k \in 1 .. Len(es)
               PROVE  f[at[k - 1] + 1] = es[k][1] /\ f[at[k - 1] + 2] = es[k][2]
    BY DEF Written
  <2>1. At(f, at[k - 1], es[k])
    BY DEF Laid
  <2>2. es[k] \in Pairs
    OBVIOUS
  <2>3. Len(es[k]) = 2
    BY <2>2, PairOctets
  <2>4. 1 \in 1 .. Len(es[k]) /\ 2 \in 1 .. Len(es[k])
    BY <2>3
  <2>5. QED
    BY <2>1, <2>4, Zenon DEF At
<1>2. QED
  BY <1>1, WrittenIsRead

-----------------------------------------------------------------------------
(***************************************************************************)
(* Where a captured frame is found.                                        *)
(***************************************************************************)

(* Any capture of a proper header, of which len octets are there. *)
Caught(c) == Proper(c) /\ c.len \in Nat

(* A frame is found in every capture of a proper header. *)
LEMMA Found ==
  ASSUME NEW c, Caught(c), Decodepkt(c).ret = 1
  PROVE  /\ Decodepkt(c).dot11 < c.len \/ (c.dlt = "IEEE802_11" /\ Decodepkt(c).dot11 = 0)
         /\ c.field = c.hdrlen =>
              Decodepkt(c).dot11 = IF c.len > c.hdrlen \/ c.dlt = "IEEE802_11"
                                     THEN c.hdrlen ELSE NoFrame
<1> USE DEF Caught, Proper, SizeOf, Decodepkt, Decoded, Behind, NoFrame
<1>1. CASE c.dlt = "PRISM_HEADER" /\ c.kind = "avs"
  BY <1>1
<1>2. CASE c.dlt = "PRISM_HEADER" /\ c.kind # "avs"
  BY <1>2
<1>3. CASE c.dlt = "PPI"
  BY <1>3
<1>4. CASE c.dlt = "IEEE802_11_RADIO"
  BY <1>4
<1>5. CASE c.dlt = "IEEE802_11"
  BY <1>5
<1>6. CASE c.dlt \notin {"PRISM_HEADER", "PPI", "IEEE802_11_RADIO", "IEEE802_11"}
  BY <1>6
<1>7. QED
  BY <1>1, <1>2, <1>3, <1>4, <1>5, <1>6

-----------------------------------------------------------------------------
(***************************************************************************)
(* The inductive invariant: the components, and then the frame, hold what  *)
(* was asked for and what was added, and a capture is decoded as it is.    *)
(***************************************************************************)
FramesInv ==
  /\ phase \in {"new", "forged", "frozen", "captured"}
  /\ phase = "new" => extra = <<>>
  /\ phase # "new" => Asked(request)
  /\ phase = "forged" => pack \in Seq(Octets) /\ Holds(FlattenSeq(pack), request, extra)
  /\ phase \in {"frozen", "captured"} => Holds(frame, request, extra)
  /\ phase = "captured" => Caught(cap) /\ decoded = Decodepkt(cap)

(* The invariant holds at first. *)
LEMMA FramesInit == Init => FramesInv
BY DEF Init, FramesInv

(* Each of the steps keeps it: a frame is forged, *)
LEMMA MakeFrameKeeps ==
  ASSUME FramesInv, NEW c \in Requests, MakeFrame(c)
  PROVE  FramesInv'
<1>1. phase = "new" /\ phase' = "forged" /\ extra' = <<>>
  BY DEF MakeFrame, FramesInv
<1>2. Asked(request')
  <2>1. request' = [c EXCEPT !.src = Randmac(c.valid, c.src)]
    BY DEF MakeFrame
  <2>2. QED
    BY <2>1, MadeIsAsked
<1>3. pack' \in Seq(Octets) /\ Holds(FlattenSeq(pack'), request', extra')
  <2>1. pack' = Forge(request')
    BY DEF MakeFrame
  <2> DEFINE r == request'
             l == pack'
  <2>2. l = Forge(r) /\ Asked(r)
    BY <1>2, <2>1
  <2> HIDE DEF r, l
  <2>3. l \in Seq(Octets) /\ Holds(FlattenSeq(l), r, <<>>)
    BY <2>2, ForgeHolds
  <2>4. QED
    BY <1>1, <2>3 DEF r, l
<1>4. QED
  BY <1>1, <1>2, <1>3 DEF FramesInv

(* an element is added, *)
LEMMA AddElementKeeps ==
  ASSUME FramesInv, NEW e \in Elements, AddElement(e[1], e[2])
  PROVE  FramesInv'
<1>1. /\ phase = "forged" /\ phase' = "forged" /\ request' = request
      /\ request.op \in Management
      /\ extra' = Append(extra, <<e[1], e[2]>>) /\ pack' = Append(pack, AddIe(e[1], e[2]))
  BY DEF AddElement, Management
<1>2. e[1] \in Nat /\ e[2] \in Nat
  BY FramesAssumption
<1>3. Asked(request) /\ pack \in Seq(Octets) /\ Holds(FlattenSeq(pack), request, extra)
  BY <1>1 DEF FramesInv
<1>4. pack' \in Seq(Octets) /\ Holds(FlattenSeq(pack'), request, extra')
  <2> DEFINE m == pack'
  <2>1. m = Append(pack, AddIe(e[1], e[2]))
    BY <1>1
  <2> HIDE DEF m
  <2>2. m \in Seq(Octets) /\ Holds(FlattenSeq(m), request, Append(extra, <<e[1], e[2]>>))
    BY <1>1, <1>2, <1>3, <2>1, AddElementHolds
  <2>3. QED
    BY <1>1, <2>2 DEF m
<1>5. QED
  BY <1>1, <1>3, <1>4 DEF FramesInv

(* a QoS header is added, *)
LEMMA AddQosKeeps ==
  ASSUME FramesInv, NEW q \in Qos, AddQos(q)
  PROVE  FramesInv'
<1>1. /\ phase = "forged" /\ phase' = "forged" /\ request' = request
      /\ request.op = "data" /\ extra = <<>>
      /\ extra' = <<q>> /\ pack' = Append(pack, Lcpfqosheaders(q))
  BY DEF AddQos
<1>2. Asked(request) /\ pack \in Seq(Octets) /\ Holds(FlattenSeq(pack), request, <<>>)
  BY <1>1 DEF FramesInv
<1>3. pack' \in Seq(Octets) /\ Holds(FlattenSeq(pack'), request, extra')
  <2> DEFINE m == pack'
  <2>1. m = Append(pack, Lcpfqosheaders(q))
    BY <1>1
  <2> HIDE DEF m
  <2>2. m \in Seq(Octets) /\ Holds(FlattenSeq(m), request, <<q>>)
    BY <1>1, <1>2, <2>1, AddQosHolds
  <2>3. QED
    BY <1>1, <2>2 DEF m
<1>4. QED
  BY <1>1, <1>2, <1>3 DEF FramesInv

(* the components are laid end to end, *)
LEMMA FreezeKeeps ==
  ASSUME FramesInv, Freeze
  PROVE  FramesInv'
<1>1. /\ phase = "forged" /\ phase' = "frozen" /\ request' = request /\ extra' = extra
      /\ frame' = FlattenSeq(pack)
  BY DEF Freeze
<1>2. Asked(request) /\ Holds(FlattenSeq(pack), request, extra)
  BY <1>1 DEF FramesInv
<1>3. QED
  BY <1>1, <1>2 DEF FramesInv

(* and the frame is captured. *)
LEMMA CaptureKeeps ==
  ASSUME FramesInv, NEW h \in Headers, NEW s \in Snaplens, Capture(h, s)
  PROVE  FramesInv'
<1>1. /\ phase = "frozen" /\ phase' = "captured" /\ request' = request /\ extra' = extra
      /\ frame' = frame /\ decoded' = Decodepkt(cap')
      /\ cap' = [dlt |-> h.dlt, kind |-> h.kind, hdrlen |-> h.hdrlen, field |-> h.field,
                 len |-> Min({h.hdrlen + Len(frame), s})]
  BY DEF Capture
<1>2. Asked(request) /\ Holds(frame, request, extra)
  BY <1>1 DEF FramesInv
<1>3. Proper(h) /\ h.hdrlen \in Nat /\ s \in Nat
  BY FramesAssumption DEF Proper
<1>4. Min({h.hdrlen + Len(frame), s}) \in Nat
  <2> DEFINE S == {h.hdrlen + Len(frame), s}
  <2>1. frame \in Octets
    BY <1>2 DEF Holds
  <2>2. h.hdrlen + Len(frame) \in Nat
    BY <1>3, <2>1 DEF Octets
  <2>3. S \in SUBSET Nat /\ S # {}
    BY <1>3, <2>2
  <2> HIDE DEF S
  <2>4. \E x \in S : \A y \in S : x <= y
    BY <2>3, Least
  <2>5. Min(S) \in S
    BY <2>4, Zenon DEF Min
  <2>6. QED
    BY <2>3, <2>5 DEF S
<1>5. Caught(cap')
  BY <1>1, <1>3, <1>4 DEF Caught, Proper
<1>6. QED
  BY <1>1, <1>2, <1>5 DEF FramesInv

(* So every step keeps it. *)
LEMMA FramesNext == FramesInv /\ [Next]_vars => FramesInv'
<1> SUFFICES ASSUME FramesInv, [Next]_vars PROVE FramesInv'
  OBVIOUS
<1>1. ASSUME NEW c \in Requests, MakeFrame(c) PROVE FramesInv'
  BY <1>1, MakeFrameKeeps
<1>2. ASSUME NEW e \in Elements, AddElement(e[1], e[2]) PROVE FramesInv'
  BY <1>2, AddElementKeeps
<1>3. ASSUME NEW q \in Qos, AddQos(q) PROVE FramesInv'
  BY <1>3, AddQosKeeps
<1>4. CASE Freeze
  BY <1>4, FreezeKeeps
<1>5. ASSUME NEW h \in Headers, NEW s \in Snaplens, Capture(h, s) PROVE FramesInv'
  BY <1>5, CaptureKeeps
<1>6. CASE UNCHANGED vars
  BY <1>6 DEF vars, FramesInv
<1>7. QED
  BY <1>1, <1>2, <1>3, <1>4, <1>5, <1>6 DEF Next

(* It is an invariant. *)
LEMMA FramesInvariant == Spec => []FramesInv
BY FramesInit, FramesNext, PTL DEF Spec

-----------------------------------------------------------------------------
(* The invariant implies the properties. *)
LEMMA HeaderHolds == FramesInv => HeaderReadsBack
<1> SUFFICES ASSUME FramesInv, phase = "frozen" PROVE HeaderReadsBack
  BY DEF HeaderReadsBack
<1> DEFINE f == frame
           r == request
<1>1. Asked(r) /\ Holds(f, r, extra) /\ f \in Octets
  BY DEF FramesInv, Holds
<1>2. /\ r.op \in DOMAIN Subtype /\ r.src # Broadcast /\ (r.valid => r.src[1] % 2 = 0)
      /\ r.src \in Address /\ r.dst \in Address /\ r.bssid \in Address
      /\ r.mac4 \in Address \cup {NoMac}
      /\ r.fcflags \in Nat /\ r.duration \in Nat /\ r.fragment \in Nat /\ r.sequence \in Nat
  BY <1>1, Zenon DEF Asked
<1>3. CASE r.op = "rts"
  <2>1. RtsHeads(f, r)
    BY <1>1, <1>3 DEF Holds, HoldsRts
  <2>2. /\ At(f, 0, FrameControl(1, 11, r.fcflags)) /\ At(f, 2, Duration(r.duration))
        /\ At(f, 4, r.dst) /\ At(f, 10, r.src)
    BY <2>1, Zenon DEF RtsHeads
  <2>3. Kind(f) = [type |-> 1, subtype |-> 11] /\ f[2] = r.fcflags % 256
    <3>1. 1 \in Nat /\ 1 < 4 /\ 11 \in Nat /\ 11 < 16
      OBVIOUS
    <3>2. QED
      BY <1>2, <2>2, <3>1, ControlIs
  <2>4. f[3] * 256 + f[4] = r.duration % 65536
    BY <1>2, <2>2, DurationReads
  <2>5. Addr(f, 1) = r.dst /\ Addr(f, 2) = r.src
    <3>1. /\ 6 * 1 - 1 = 4 + 1 /\ 6 * 1 + 4 = 4 + 6 /\ 6 * 2 - 1 = 10 + 1 /\ 6 * 2 + 4 = 10 + 6
          /\ 4 \in Nat /\ 10 \in Nat
      OBVIOUS
    <3>2. SubSeq(f, 4 + 1, 4 + 6) = r.dst /\ SubSeq(f, 10 + 1, 10 + 6) = r.src
      BY <1>1, <1>2, <2>2, <3>1, AddrIs, Zenon
    <3>3. QED
      BY <3>1, <3>2 DEF Addr
  <2>6. Kind(f).type = 1 /\ Kind(f).subtype = Subtype.rts
    BY <2>3 DEF Subtype
  <2>7. QED
    BY <1>2, <1>3, <2>3, <2>4, <2>5, <2>6 DEF HeaderReadsBack, Three
<1>4. CASE r.op = "data"
  <2>1. Heads(f, 2, 0, r, r.dst, r.src, r.bssid, Fourth(r))
    BY <1>1, <1>4 DEF Holds, HoldsData
  <2>2. /\ Kind(f) = [type |-> 2, subtype |-> 0] /\ f[2] = r.fcflags % 256
        /\ f[3] * 256 + f[4] = r.duration % 65536
        /\ Addr(f, 1) = r.dst /\ Addr(f, 2) = r.src /\ Addr(f, 3) = r.bssid
        /\ At(f, 22, Fourth(r))
    <3> DEFINE t == 2
               n == 0
               x == Fourth(r)
    <3>1. t \in Nat /\ t < 4 /\ n \in Nat /\ n < 16
      OBVIOUS
    <3>2. Heads(f, t, n, r, r.dst, r.src, r.bssid, x)
      BY <2>1
    <3> HIDE DEF t, n, x
    <3>3. /\ Kind(f) = [type |-> t, subtype |-> n] /\ f[2] = r.fcflags % 256
          /\ f[3] * 256 + f[4] = r.duration % 65536
          /\ Addr(f, 1) = r.dst /\ Addr(f, 2) = r.src /\ Addr(f, 3) = r.bssid
          /\ At(f, 22, x)
      BY <1>1, <1>2, <3>1, <3>2, HeadsRead, SMTT(30)
    <3>4. QED
      BY <3>3 DEF t, n, x
  <2>3. ASSUME Three, r.fragment < 16
        PROVE  SeqCtl(f) = [fragment |-> r.fragment, sequence |-> r.sequence % 4096]
    <3>1. Fourth(r) = SeqOctets(r.sequence, r.fragment)
      BY <1>4, <2>3 DEF Three, Fourth
    <3>2. At(f, 22, SeqOctets(r.sequence, r.fragment))
      BY <2>2, <3>1
    <3>3. QED
      BY <1>2, <2>3, <3>2, SequenceReads
  <2>4. Kind(f).type = 2 /\ Kind(f).subtype = Subtype.data
    BY <2>2 DEF Subtype
  <2>5. QED
    BY <1>2, <1>4, <2>2, <2>3, <2>4 DEF HeaderReadsBack
<1>5. CASE r.op \in Management
  <2>1. Heads(f, 0, Number[r.op], r, First(r), r.src, Third(r), SeqOctets(r.sequence, r.fragment))
    BY <1>1, <1>5 DEF Holds, HoldsManagement
  <2>2. Number[r.op] \in Nat /\ Number[r.op] < 16
    BY <1>5, NumberIs
  <2>3. First(r) \in Address /\ Third(r) \in Address
    BY <1>1, AddressesAre
  <2>4. /\ Kind(f) = [type |-> 0, subtype |-> Number[r.op]] /\ f[2] = r.fcflags % 256
        /\ f[3] * 256 + f[4] = r.duration % 65536
        /\ Addr(f, 1) = First(r) /\ Addr(f, 2) = r.src /\ Addr(f, 3) = Third(r)
        /\ At(f, 22, SeqOctets(r.sequence, r.fragment))
    <3>1. 0 \in Nat /\ 0 < 4
      OBVIOUS
    <3>2. QED
      BY <1>1, <1>2, <2>1, <2>2, <2>3, <3>1, HeadsRead, SMTT(30)
  <2>5. r.fragment < 16 =>
          SeqCtl(f) = [fragment |-> r.fragment, sequence |-> r.sequence % 4096]
    BY <1>2, <2>4, SequenceReads
  <2>6. r.op # "rts" /\ r.op # "data"
    BY <1>5, ManagementIs
  <2>7. Kind(f).type = 0
    BY <2>4
  <2>8. r.op \notin {"assocreq", "assocresp"} => Kind(f).subtype = Subtype[r.op]
    BY <1>5, <2>4, ManagementIs DEF Number, Subtype
  <2>9. QED
    BY <1>2, <2>4, <2>5, <2>6, <2>7, <2>8 DEF HeaderReadsBack, First, Third
<1>6. QED
  BY <1>2, <1>3, <1>4, <1>5 DEF Management

(* The widths are those ieee80211.h has for the subtype that is meant, *)
LEMMA LaidOut ==
  ASSUME NEW o \in Management
  PROVE  Layout(Subtype[o]) = Widths[o]
<1>1. CASE o \in {"assocreq", "assocresp"}
  <2>1. \/ Subtype[o] = 0 /\ Widths[o] = <<2, 2>>
        \/ Subtype[o] = 1 /\ Widths[o] = <<2, 2, 2>>
    BY <1>1 DEF Subtype, Widths
  <2>2. Layout(0) = <<2, 2>> /\ Layout(1) = <<2, 2, 2>>
    BY DEF Layout
  <2>3. QED
    BY <2>1, <2>2
<1>2. CASE o = "probereq"
  <2>1. Subtype[o] = 4 /\ Widths[o] = <<>>
    BY <1>2 DEF Subtype, Widths
  <2>2. Layout(4) = <<>>
    BY DEF Layout
  <2>3. QED
    BY <2>1, <2>2
<1>3. CASE o \in {"disassoc", "deauth"}
  <2>1. Subtype[o] \in {10, 12} /\ Widths[o] = <<2>>
    BY <1>3 DEF Subtype, Widths
  <2>2. Layout(10) = <<2>> /\ Layout(12) = <<2>>
    BY DEF Layout
  <2>3. QED
    BY <2>1, <2>2
<1>4. CASE o \in {"authreq", "authresq"}
  <2>1. Subtype[o] = 11 /\ Widths[o] = <<2, 2, 2>>
    BY <1>4 DEF Subtype, Widths
  <2>2. Layout(11) = <<2, 2, 2>>
    BY DEF Layout
  <2>3. QED
    BY <2>1, <2>2
<1>5. CASE o \in {"proberesp", "beacon"}
  <2>1. Subtype[o] \in {5, 8} /\ Widths[o] = <<8, 2, 2>>
    BY <1>5 DEF Subtype, Widths
  <2>2. Layout(5) = <<8, 2, 2>> /\ Layout(8) = <<8, 2, 2>>
    BY DEF Layout
  <2>3. QED
    BY <2>1, <2>2
<1>6. QED
  BY <1>1, <1>2, <1>3, <1>4, <1>5, ManagementIs

(* what it reads behind the header, *)
LEMMA BodyHolds == FramesInv => BodyReadsBack
<1> SUFFICES ASSUME FramesInv, phase = "frozen", request.op \notin {"rts", "data"}
             PROVE  BodyReadsBack
  BY DEF BodyReadsBack
<1> DEFINE f == frame
           r == request
           w == Layout(Subtype[r.op])
           v == Widths[r.op]
<1>1. Asked(r) /\ Holds(f, r, extra) /\ f \in Octets /\ r.op \in DOMAIN Subtype
  BY DEF FramesInv, Holds, Asked
<1>2. r.op \in Management
  BY <1>1 DEF Management
<1>3. HoldsManagement(f, r, extra)
  BY <1>1, <1>2 DEF Holds
<1>4. PICK at : Ends(extra, HdrLen + FixedLen(v), Len(f), at) /\ Laid(f, extra, at)
  BY <1>3, Zenon DEF HoldsManagement
<1>5. extra \in Seq(Pairs)
  BY <1>3, Zenon DEF HoldsManagement
<1>6. w = v
  BY <1>2, LaidOut
<1>7. ElementsAt(f, HdrLen + FixedLen(v)) = extra
  <2> DEFINE a == HdrLen + FixedLen(v)
  <2>1. Ends(extra, a, Len(f), at)
    BY <1>4
  <2> HIDE DEF a
  <2>2. ElementsAt(f, a) = extra
    BY <1>1, <1>4, <1>5, <2>1, LaidIsRead
  <2>3. QED
    BY <2>2 DEF a
<1>8. ASSUME NEW k \in DOMAIN v
      PROVE  Word(f, Offset(v, k)) = r.args[k] % 65536
  <2>1. At(f, Offset(v, k), Little(r.args[k], v[k]))
    BY <1>3, <1>8, Zenon DEF HoldsManagement
  <2>2. k \in 1 .. 3 /\ v[k] \in Nat /\ 2 <= v[k] /\ Offset(v, k) \in Nat
    <3>1. v \in AllWidths /\ k \in DOMAIN v
      BY <1>2, NumberIs
    <3> HIDE DEF v
    <3>2. QED
      BY <3>1 DEF AllWidths, Offset, HdrLen
  <2>3. r.args[k] \in Nat
    BY <1>1, <2>2 DEF Asked
  <2>4. QED
    BY <2>1, <2>2, <2>3, FieldReads
<1>9. QED
  <2>1. /\ \A k \in DOMAIN w : Word(f, Offset(w, k)) = r.args[k] % 65536
        /\ ElementsAt(f, HdrLen + FixedLen(w)) = extra
    <3> HIDE DEF w, v
    <3>1. QED
      BY <1>6, <1>7, <1>8
  <2>2. QED
    BY <2>1 DEF BodyReadsBack

(* and where a captured frame is found. *)
LEMMA DecodedHolds == FramesInv => DecodeFindsFrame
<1> SUFFICES ASSUME FramesInv, phase = "captured", decoded.ret = 1 PROVE DecodeFindsFrame
  BY DEF DecodeFindsFrame
<1>1. Caught(cap) /\ decoded = Decodepkt(cap)
  BY DEF FramesInv
<1>2. QED
  BY <1>1, Found DEF DecodeFindsFrame

-----------------------------------------------------------------------------
(* Every frozen frame reads back what its header was asked to hold, but for*)
(* an association frame's subtype and what four addresses put out of place *)
(* (lorcon_forge.c, the headers).                                          *)
THEOREM FramesHeader == Spec => []HeaderReadsBack
BY FramesInvariant, HeaderHolds, PTL

(* ... and behind it every management frame has the fixed fields and the   *)
(* elements, laid out as ieee80211.h has them for the frame that was asked *)
(* for, however many (lorcon_forge.c, the bodies).                         *)
THEOREM FramesBody == Spec => []BodyReadsBack
BY FramesInvariant, BodyHolds, PTL

(* tx80211_decodepkt finds a frame inside the packet, and where it is when *)
(* the capture's header tells its true length (lorcon_decode.c).           *)
THEOREM FramesDecoded == Spec => []DecodeFindsFrame
BY FramesInvariant, DecodedHolds, PTL
==============================================================================
