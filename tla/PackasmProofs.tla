---------------------------- MODULE PackasmProofs ----------------------------
(***************************************************************************)
(* What holds of module Packasm for any heap, any contents of data and any *)
(* sequence of calls.                                                      *)
(***************************************************************************)
EXTENDS Packasm, WextProofs

(***************************************************************************)
(* Links that form lists.  K is a set of components, pv and nx are their   *)
(* links; lst gives each component the sequence of its list and pos its    *)
(* place there.  A prev link may skip components.                          *)
(***************************************************************************)
Places(K, lst, pos) ==
  /\ lst \in [K -> Seq(K)] /\ pos \in [K -> Nat]
  /\ \A m \in K : /\ 1 <= pos[m] /\ pos[m] <= Len(lst[m]) /\ lst[m][pos[m]] = m
                  /\ \A i \in 1 .. Len(lst[m]) :
                       lst[lst[m][i]] = lst[m] /\ pos[lst[m][i]] = i

Linked(K, pv, nx, lst, pos) ==
  /\ Places(K, lst, pos)
  /\ \A m \in K :
       /\ nx[m] = IF pos[m] = Len(lst[m]) THEN Null ELSE lst[m][pos[m] + 1]
       /\ IF pos[m] = 1 THEN pv[m] = Null
                        ELSE \E j \in 1 .. (pos[m] - 1) : pv[m] = lst[m][j]

(* The loops as functions of the links.                                    *)
HeadOf(K, pv) ==
  CHOOSE f : f = [n \in K |-> IF pv[n] = Null THEN n ELSE f[pv[n]]]
EndOf(K, nx) ==
  CHOOSE f : f = [n \in K |-> IF nx[n] = Null THEN n ELSE f[nx[n]]]
ChainOf(K, nx) ==
  CHOOSE f : f = [n \in K |-> <<n>> \o (IF nx[n] = Null THEN <<>> ELSE f[nx[n]])]

LEMMA LoopsAre ==
  /\ ListHead = HeadOf(known, prev) /\ ListHead' = HeadOf(known', prev')
  /\ ListEnd = EndOf(known, next) /\ ListEnd' = EndOf(known', next')
  /\ Chain = ChainOf(known, next) /\ Chain' = ChainOf(known', next')
BY DEF ListHead, HeadOf, ListEnd, EndOf, Chain, ChainOf

(* Each component's place, its list's length and its neighbours.           *)
LEMMA PlaceFacts ==
  ASSUME NEW K, NEW lst, NEW pos, Places(K, lst, pos), NEW m \in K
  PROVE  /\ lst[m] \in Seq(K) /\ Len(lst[m]) \in Nat /\ pos[m] \in Nat
         /\ 1 <= pos[m] /\ pos[m] <= Len(lst[m]) /\ lst[m][pos[m]] = m
         /\ \A i \in 1 .. Len(lst[m]) :
              lst[m][i] \in K /\ lst[lst[m][i]] = lst[m] /\ pos[lst[m][i]] = i
<1>1. lst[m] \in Seq(K) /\ pos[m] \in Nat
  BY DEF Places
<1>2. Len(lst[m]) \in Nat /\ \A i \in 1 .. Len(lst[m]) : lst[m][i] \in K
  BY <1>1
<1>3. QED
  BY <1>1, <1>2 DEF Places

(* The loop to the head ends there: each step leads to an earlier place.   *)
LEMMA HeadFound ==
  ASSUME NEW K, NEW pv, NEW nx, NEW lst, NEW pos, Linked(K, pv, nx, lst, pos),
         Null \notin K
  PROVE  \A m \in K : HeadOf(K, pv)[m] = lst[m][1]
<1> USE DEF Linked
<1> DEFINE h == HeadOf(K, pv)
           g == [n \in K |-> lst[n][1]]
<1>1. ASSUME NEW m \in K
      PROVE  /\ pv[m] = Null => lst[m][1] = m
             /\ pv[m] # Null => /\ pv[m] \in K /\ lst[pv[m]] = lst[m]
                                /\ pos[pv[m]] < pos[m]
  BY <1>1, PlaceFacts
<1>2. g = [n \in K |-> IF pv[n] = Null THEN n ELSE g[pv[n]]]
  BY <1>1
<1>3. h = [n \in K |-> IF pv[n] = Null THEN n ELSE h[pv[n]]]
  <2> HIDE DEF g
  <2>1. QED
    BY <1>2 DEF HeadOf
<1> HIDE DEF g, h
<1> DEFINE B == {m \in K : h[m] # lst[m][1]}
           S == {pos[m] : m \in B}
<1>4. CASE B # {}
  <2>1. S \in SUBSET Nat /\ S # {}
    BY <1>4, PlaceFacts
  <2>2. PICK m \in B : \A x \in S : pos[m] <= x
    <3>1. Min(S) \in S /\ \A x \in S : Min(S) <= x
      BY <2>1, MinIsLeast
    <3>2. QED
      BY <3>1
  <2>3. m \in K /\ h[m] # lst[m][1]
    OBVIOUS
  <2>4. pv[m] # Null
    BY <1>1, <1>3, <2>3
  <2>5. h[m] = h[pv[m]]
    BY <1>3, <2>3, <2>4
  <2>6. pv[m] \in K /\ lst[pv[m]] = lst[m] /\ pos[pv[m]] < pos[m]
    BY <1>1, <2>3, <2>4
  <2>7. pv[m] \in B
    BY <2>3, <2>5, <2>6
  <2>8. pos[m] <= pos[pv[m]]
    BY <2>2, <2>7
  <2>9. QED
    BY <2>3, <2>6, <2>8, PlaceFacts
<1>5. QED
  BY <1>4 DEF h

(* A next link leads one place on, and the last one nowhere.               *)
LEMMA NextPlace ==
  ASSUME NEW K, NEW pv, NEW nx, NEW lst, NEW pos, Linked(K, pv, nx, lst, pos),
         Null \notin K, NEW m \in K
  PROVE  /\ nx[m] = Null => pos[m] = Len(lst[m])
         /\ nx[m] # Null => /\ nx[m] \in K /\ lst[nx[m]] = lst[m]
                            /\ pos[nx[m]] = pos[m] + 1
         /\ nx[m] = Null <=> pos[m] = Len(lst[m])
<1>1. Places(K, lst, pos)
  BY DEF Linked
<1>2. nx[m] = IF pos[m] = Len(lst[m]) THEN Null ELSE lst[m][pos[m] + 1]
  BY DEF Linked
<1>3. lst[m] \in Seq(K) /\ pos[m] \in 1 .. Len(lst[m])
  BY <1>1, PlaceFacts
<1>4. CASE pos[m] = Len(lst[m])
  BY <1>2, <1>4
<1>5. CASE pos[m] # Len(lst[m])
  <2>1. pos[m] + 1 \in 1 .. Len(lst[m])
    BY <1>3, <1>5
  <2>2. nx[m] = lst[m][pos[m] + 1]
    BY <1>2, <1>5
  <2>3. /\ nx[m] \in K
        /\ lst[nx[m]] = lst[m]
        /\ pos[nx[m]] = pos[m] + 1
    BY <1>1, <1>3, <2>1, <2>2, PlaceFacts
  <2>4. QED
    BY <1>5, <2>3
<1>6. QED
  BY <1>4, <1>5

(* The loop to the end ends there.                                         *)
LEMMA EndFound ==
  ASSUME NEW K, NEW pv, NEW nx, NEW lst, NEW pos, Linked(K, pv, nx, lst, pos),
         Null \notin K
  PROVE  \A m \in K : EndOf(K, nx)[m] = lst[m][Len(lst[m])]
<1> DEFINE e == EndOf(K, nx)
           g == [n \in K |-> lst[n][Len(lst[n])]]
<1>1. ASSUME NEW m \in K
      PROVE  /\ nx[m] = Null => pos[m] = Len(lst[m])
             /\ nx[m] # Null => /\ nx[m] \in K /\ lst[nx[m]] = lst[m]
                                /\ pos[nx[m]] = pos[m] + 1
  BY <1>1, NextPlace
<1>a. Places(K, lst, pos)
  BY DEF Linked
<1> USE <1>a
<1>2. g = [n \in K |-> IF nx[n] = Null THEN n ELSE g[nx[n]]]
  BY <1>1, PlaceFacts
<1>3. e = [n \in K |-> IF nx[n] = Null THEN n ELSE e[nx[n]]]
  <2> HIDE DEF g
  <2>1. QED
    BY <1>2 DEF EndOf
<1> HIDE DEF g, e
<1> DEFINE left(m) == Len(lst[m]) - pos[m]
           B == {m \in K : e[m] # lst[m][Len(lst[m])]}
           S == {left(m) : m \in B}
<1>4. CASE B # {}
  <2>1. S \in SUBSET Nat /\ S # {}
    BY <1>4, PlaceFacts
  <2>2. PICK m \in B : \A x \in S : left(m) <= x
    <3>1. Min(S) \in S /\ \A x \in S : Min(S) <= x
      BY <2>1, MinIsLeast
    <3>2. QED
      BY <3>1
  <2>3. m \in K /\ e[m] # lst[m][Len(lst[m])]
    OBVIOUS
  <2>4. nx[m] # Null
    BY <1>1, <1>3, <2>3, PlaceFacts
  <2>5. nx[m] \in K /\ lst[nx[m]] = lst[m] /\ pos[nx[m]] = pos[m] + 1
    BY <1>1, <2>3, <2>4
  <2>6. nx[m] \in B
    BY <1>3, <2>3, <2>4, <2>5
  <2>7. left(m) <= left(nx[m])
    BY <2>2, <2>6
  <2>8. QED
    BY <2>3, <2>5, <2>7, PlaceFacts
<1>5. QED
  BY <1>4 DEF e

LEMMA SubSeqSplits ==
  ASSUME NEW T, NEW s \in Seq(T), NEW k \in 1 .. Len(s)
  PROVE  SubSeq(s, k, Len(s)) =
           <<s[k]>> \o (IF k = Len(s) THEN <<>> ELSE SubSeq(s, k + 1, Len(s)))
OBVIOUS

(* The loop to the end visits the rest of the list.                        *)
LEMMA ChainFound ==
  ASSUME NEW K, NEW pv, NEW nx, NEW lst, NEW pos, Linked(K, pv, nx, lst, pos),
         Null \notin K
  PROVE  \A m \in K : ChainOf(K, nx)[m] = SubSeq(lst[m], pos[m], Len(lst[m]))
<1> DEFINE c == ChainOf(K, nx)
           g == [n \in K |-> SubSeq(lst[n], pos[n], Len(lst[n]))]
<1>1. ASSUME NEW m \in K
      PROVE  /\ nx[m] = Null => pos[m] = Len(lst[m])
             /\ nx[m] # Null => /\ nx[m] \in K /\ lst[nx[m]] = lst[m]
                                /\ pos[nx[m]] = pos[m] + 1
             /\ nx[m] = Null <=> pos[m] = Len(lst[m])
  BY <1>1, NextPlace
<1>a. Places(K, lst, pos)
  BY DEF Linked
<1> USE <1>a
<1>2. ASSUME NEW m \in K
      PROVE  SubSeq(lst[m], pos[m], Len(lst[m])) =
               <<m>> \o (IF nx[m] = Null THEN <<>>
                         ELSE SubSeq(lst[nx[m]], pos[nx[m]], Len(lst[nx[m]])))
  <2>1. lst[m] \in Seq(K) /\ pos[m] \in 1 .. Len(lst[m]) /\ lst[m][pos[m]] = m
    BY <1>2, PlaceFacts
  <2>2. SubSeq(lst[m], pos[m], Len(lst[m])) =
          <<m>> \o (IF pos[m] = Len(lst[m]) THEN <<>>
                    ELSE SubSeq(lst[m], pos[m] + 1, Len(lst[m])))
    BY <2>1, SubSeqSplits
  <2>3. CASE nx[m] = Null
    BY <1>1, <1>2, <2>2, <2>3
  <2>4. CASE nx[m] # Null
    BY <1>1, <1>2, <2>2, <2>4
  <2>5. QED
    BY <2>3, <2>4
<1>3. g = [n \in K |-> <<n>> \o (IF nx[n] = Null THEN <<>> ELSE g[nx[n]])]
  BY <1>1, <1>2
<1>4. c = [n \in K |-> <<n>> \o (IF nx[n] = Null THEN <<>> ELSE c[nx[n]])]
  <2> HIDE DEF g
  <2>1. QED
    BY <1>3 DEF ChainOf
<1> HIDE DEF g, c
<1> DEFINE left(m) == Len(lst[m]) - pos[m]
           rest(m) == SubSeq(lst[m], pos[m], Len(lst[m]))
           B == {m \in K : c[m] # rest(m)}
           S == {left(m) : m \in B}
<1>5. CASE B # {}
  <2>1. S \in SUBSET Nat /\ S # {}
    BY <1>5, PlaceFacts
  <2>2. PICK m \in B : \A x \in S : left(m) <= x
    <3>1. Min(S) \in S /\ \A x \in S : Min(S) <= x
      BY <2>1, MinIsLeast
    <3>2. QED
      BY <3>1
  <2>3. m \in K /\ c[m] # rest(m)
    OBVIOUS
  <2>4. nx[m] # Null
    BY <1>2, <1>4, <2>3
  <2>5. nx[m] \in K /\ lst[nx[m]] = lst[m] /\ pos[nx[m]] = pos[m] + 1
    BY <1>1, <2>3, <2>4
  <2>6. nx[m] \in B
    <3>1. c[m] = <<m>> \o c[nx[m]]
      BY <1>4, <2>3, <2>4
    <3>2. rest(m) = <<m>> \o rest(nx[m])
      BY <1>2, <2>3, <2>4
    <3> HIDE DEF rest
    <3>3. QED
      BY <2>3, <2>5, <3>1, <3>2
  <2>7. left(m) <= left(nx[m])
    BY <2>2, <2>6
  <2>8. QED
    BY <2>3, <2>5, <2>7, PlaceFacts
<1>6. QED
  BY <1>5 DEF c

LEMMA WholeList ==
  ASSUME NEW K, NEW pv, NEW nx, NEW lst, NEW pos, Linked(K, pv, nx, lst, pos),
         Null \notin K, NEW m \in K
  PROVE  /\ HeadOf(K, pv)[m] = lst[m][1] /\ lst[m][1] \in K
         /\ ChainOf(K, nx)[HeadOf(K, pv)[m]] = lst[m]
<1>1. HeadOf(K, pv)[m] = lst[m][1]
  BY HeadFound
<1>2. /\ lst[m] \in Seq(K) /\ Len(lst[m]) >= 1
      /\ lst[m][1] \in K /\ lst[lst[m][1]] = lst[m] /\ pos[lst[m][1]] = 1
  <2>1. 1 \in 1 .. Len(lst[m])
    BY PlaceFacts DEF Linked
  <2>2. QED
    BY <2>1, PlaceFacts DEF Linked
<1>3. ChainOf(K, nx)[lst[m][1]] = SubSeq(lst[m], 1, Len(lst[m]))
  <2>1. \A q \in K : ChainOf(K, nx)[q] = SubSeq(lst[q], pos[q], Len(lst[q]))
    BY ChainFound
  <2> DEFINE q == lst[m][1]
  <2>2. ChainOf(K, nx)[q] = SubSeq(lst[q], pos[q], Len(lst[q]))
    BY <1>2, <2>1
  <2>3. QED
    BY <1>2, <2>2
<1>4. SubSeq(lst[m], 1, Len(lst[m])) = lst[m]
  BY <1>2
<1>5. QED
  BY <1>1, <1>2, <1>3, <1>4
-----------------------------------------------------------------------------
(***************************************************************************)
(* The lists after each call.                                              *)
(***************************************************************************)

LEMMA LinkNew ==
  ASSUME NEW K, NEW pv, NEW nx, NEW lst, NEW pos, Linked(K, pv, nx, lst, pos),
         NEW c, c \notin K, NEW pv2, NEW nx2,
         \A m \in K : pv2[m] = pv[m] /\ nx2[m] = nx[m],
         pv2[c] = Null, nx2[c] = Null
  PROVE  LET N == K \cup {c}
         IN  Linked(N, pv2, nx2, [m \in N |-> IF m = c THEN <<c>> ELSE lst[m]],
                    [m \in N |-> IF m = c THEN 1 ELSE pos[m]])
<1> DEFINE N == K \cup {c}
           lst2 == [m \in N |-> IF m = c THEN <<c>> ELSE lst[m]]
           pos2 == [m \in N |-> IF m = c THEN 1 ELSE pos[m]]
<1>1. /\ c \in N /\ lst2[c] = <<c>> /\ pos2[c] = 1
      /\ \A m \in K : m \in N /\ lst2[m] = lst[m] /\ pos2[m] = pos[m]
      /\ \A m \in N : m = c \/ m \in K
  OBVIOUS
<1>2. lst2 \in [N -> Seq(N)] /\ pos2 \in [N -> Nat]
  <2>1. ASSUME NEW m \in K PROVE lst[m] \in Seq(N) /\ pos[m] \in Nat
    <3>1. lst[m] \in Seq(K) /\ pos[m] \in Nat
      BY PlaceFacts DEF Linked
    <3>2. QED
      BY <3>1
  <2>2. <<c>> \in Seq(N)
    OBVIOUS
  <2>3. QED
    BY <2>1, <2>2
<1>3. <<c>> \in Seq(N) /\ Len(<<c>>) = 1 /\ <<c>>[1] = c /\ \A i \in 1 .. 1 : i = 1
  OBVIOUS
<1> HIDE DEF N, lst2, pos2
<1>4. Places(N, lst2, pos2)
  <2> SUFFICES ASSUME NEW m \in N
               PROVE  /\ 1 <= pos2[m] /\ pos2[m] <= Len(lst2[m])
                      /\ lst2[m][pos2[m]] = m
                      /\ \A i \in 1 .. Len(lst2[m]) :
                           lst2[lst2[m][i]] = lst2[m] /\ pos2[lst2[m][i]] = i
    BY <1>2 DEF Places
  <2>1. CASE m = c
    <3>1. lst2[m] = <<c>> /\ pos2[m] = 1 /\ Len(lst2[m]) = 1
      BY <1>1, <1>3, <2>1
    <3>2. \A i \in 1 .. 1 : lst2[<<c>>[i]] = <<c>> /\ pos2[<<c>>[i]] = i
      BY <1>1, <1>3
    <3>3. QED
      BY <1>3, <2>1, <3>1, <3>2
  <2>2. CASE m \in K
    <3>1. /\ 1 <= pos[m] /\ pos[m] <= Len(lst[m]) /\ lst[m][pos[m]] = m
          /\ \A i \in 1 .. Len(lst[m]) :
               lst[m][i] \in K /\ lst[lst[m][i]] = lst[m] /\ pos[lst[m][i]] = i
      BY <2>2, PlaceFacts DEF Linked
    <3>2. QED
      BY <1>1, <2>2, <3>1
  <2>3. QED
    BY <1>1, <2>1, <2>2
<1>5. ASSUME NEW m \in N
      PROVE  /\ nx2[m] = IF pos2[m] = Len(lst2[m]) THEN Null ELSE lst2[m][pos2[m] + 1]
             /\ IF pos2[m] = 1 THEN pv2[m] = Null
                ELSE \E j \in 1 .. (pos2[m] - 1) : pv2[m] = lst2[m][j]
  <2>1. CASE m = c
    BY <1>1, <1>3, <2>1
  <2>2. CASE m \in K
    BY <1>1, <2>2 DEF Linked
  <2>3. QED
    BY <1>1, <2>1, <2>2
<1>6. Linked(N, pv2, nx2, lst2, pos2)
  BY <1>4, <1>5 DEF Linked
<1>7. QED
  BY <1>6 DEF N, lst2, pos2

(* The lists and places after c was added to the end of n's list.          *)
WithEnd(K, lst, n, c) ==
  [m \in K \cup {c} |-> IF m = c \/ lst[m] = lst[n] THEN Append(lst[n], c) ELSE lst[m]]
EndPlaces(K, lst, pos, n, c) ==
  [m \in K \cup {c} |-> IF m = c THEN Len(lst[n]) + 1 ELSE pos[m]]

LEMMA LinkEnd ==
  ASSUME NEW K, NEW pv, NEW nx, NEW lst, NEW pos, Linked(K, pv, nx, lst, pos),
         NEW n \in K, NEW c, c \notin K, NEW e, e = lst[n][Len(lst[n])],
         NEW pv2, NEW nx2,
         \A m \in K : pv2[m] = pv[m],
         \A m \in K : nx2[m] = IF m = e THEN c ELSE nx[m],
         pv2[c] = e, nx2[c] = Null
  PROVE  Linked(K \cup {c}, pv2, nx2, WithEnd(K, lst, n, c), EndPlaces(K, lst, pos, n, c))
<1> DEFINE N == K \cup {c}
           s == lst[n]
           t == Append(s, c)
           lst2 == [m \in N |-> IF m = c \/ lst[m] = s THEN t ELSE lst[m]]
           pos2 == [m \in N |-> IF m = c THEN Len(s) + 1 ELSE pos[m]]
<1>1. /\ c \in N /\ lst2[c] = t /\ pos2[c] = Len(s) + 1
      /\ \A m \in K : /\ m \in N /\ pos2[m] = pos[m]
                      /\ lst2[m] = IF lst[m] = s THEN t ELSE lst[m]
      /\ \A m \in N : m = c \/ m \in K
  OBVIOUS
<1>2. /\ s \in Seq(K) /\ Len(s) \in Nat /\ Len(s) >= 1
      /\ \A i \in 1 .. Len(s) : s[i] \in K /\ lst[s[i]] = s /\ pos[s[i]] = i
  BY PlaceFacts DEF Linked
<1>3. s \in Seq(N) /\ t \in Seq(N)
  BY <1>2
<1>4. /\ Len(t) = Len(s) + 1 /\ t[Len(s) + 1] = c
      /\ \A i \in 1 .. Len(s) : t[i] = s[i]
  BY <1>3
<1>5. e = s[Len(s)] /\ e \in K /\ lst[e] = s /\ pos[e] = Len(s)
  BY <1>2
<1>6. lst2 \in [N -> Seq(N)] /\ pos2 \in [N -> Nat]
  <2>1. ASSUME NEW m \in K PROVE lst[m] \in Seq(N) /\ pos[m] \in Nat
    <3>1. lst[m] \in Seq(K) /\ pos[m] \in Nat
      BY PlaceFacts DEF Linked
    <3>2. QED
      BY <3>1
  <2> HIDE DEF s, t
  <2>2. QED
    BY <1>2, <1>3, <2>1
<1> HIDE DEF N, lst2, pos2, s, t
<1>7. ASSUME NEW i \in 1 .. Len(t) PROVE lst2[t[i]] = t /\ pos2[t[i]] = i
  <2>1. CASE i \in 1 .. Len(s)
    BY <1>1, <1>2, <1>4, <2>1
  <2>2. CASE i = Len(s) + 1
    BY <1>1, <1>4, <2>2
  <2>3. QED
    BY <1>2, <1>4, <2>1, <2>2
<1>8. Places(N, lst2, pos2)
  <2> SUFFICES ASSUME NEW m \in N
               PROVE  /\ 1 <= pos2[m] /\ pos2[m] <= Len(lst2[m])
                      /\ lst2[m][pos2[m]] = m
                      /\ \A i \in 1 .. Len(lst2[m]) :
                           lst2[lst2[m][i]] = lst2[m] /\ pos2[lst2[m][i]] = i
    BY <1>6 DEF Places
  <2>1. CASE m = c
    BY <1>1, <1>2, <1>4, <1>7, <2>1
  <2>2. CASE m \in K /\ lst[m] = s
    <3>1. pos[m] \in 1 .. Len(s) /\ s[pos[m]] = m
      BY <2>2, PlaceFacts DEF Linked
    <3>2. QED
      BY <1>1, <1>2, <1>4, <1>7, <2>2, <3>1
  <2>3. CASE m \in K /\ lst[m] # s
    <3>1. /\ 1 <= pos[m] /\ pos[m] <= Len(lst[m]) /\ lst[m][pos[m]] = m
          /\ \A i \in 1 .. Len(lst[m]) :
               lst[m][i] \in K /\ lst[lst[m][i]] = lst[m] /\ pos[lst[m][i]] = i
      BY <2>3, PlaceFacts DEF Linked
    <3>2. QED
      BY <1>1, <2>3, <3>1
  <2>4. QED
    BY <1>1, <2>1, <2>2, <2>3
<1>9. ASSUME NEW m \in N
      PROVE  /\ nx2[m] = IF pos2[m] = Len(lst2[m]) THEN Null ELSE lst2[m][pos2[m] + 1]
             /\ IF pos2[m] = 1 THEN pv2[m] = Null
                ELSE \E j \in 1 .. (pos2[m] - 1) : pv2[m] = lst2[m][j]
  <2>1. CASE m = c
    <3>1. pv2[m] = t[Len(s)] /\ Len(s) \in 1 .. (pos2[m] - 1)
      BY <1>1, <1>2, <1>4, <2>1 DEF s
    <3>2. QED
      BY <1>1, <1>2, <1>4, <2>1, <3>1
  <2>2. CASE m \in K /\ lst[m] = s
    <3>1. pos[m] \in 1 .. Len(s) /\ s[pos[m]] = m
      BY <2>2, PlaceFacts DEF Linked
    <3>2. /\ nx[m] = IF pos[m] = Len(s) THEN Null ELSE s[pos[m] + 1]
          /\ IF pos[m] = 1 THEN pv[m] = Null
             ELSE \E j \in 1 .. (pos[m] - 1) : pv[m] = s[j]
      BY <2>2 DEF Linked
    <3>3. nx2[m] = IF m = e THEN c ELSE nx[m]
      BY <2>2 DEF s
    <3>4. m = e <=> pos[m] = Len(s)
      BY <1>5, <3>1
    <3>5. nx2[m] = t[pos[m] + 1] /\ pos[m] # Len(t)
      <4>1. CASE pos[m] = Len(s)
        BY <1>2, <1>4, <3>3, <3>4, <4>1
      <4>2. CASE pos[m] # Len(s)
        <5>1. pos[m] + 1 \in 1 .. Len(s) /\ pos[m] # Len(t)
          BY <1>2, <1>4, <3>1, <4>2
        <5>2. nx2[m] = s[pos[m] + 1]
          BY <3>2, <3>3, <3>4, <4>2
        <5>3. QED
          BY <1>4, <5>1, <5>2
      <4>3. QED
        BY <4>1, <4>2
    <3>6. IF pos[m] = 1 THEN pv2[m] = Null
          ELSE \E j \in 1 .. (pos[m] - 1) : pv2[m] = t[j]
      BY <1>2, <1>4, <2>2, <3>1, <3>2
    <3>7. QED
      BY <1>1, <2>2, <3>5, <3>6
  <2>3. CASE m \in K /\ lst[m] # s
    <3>1. m # e
      BY <1>5, <2>3
    <3>2. nx2[m] = nx[m] /\ pv2[m] = pv[m]
      BY <2>3, <3>1 DEF s
    <3>3. QED
      BY <1>1, <2>3, <3>2 DEF Linked
  <2>4. QED
    BY <1>1, <2>1, <2>2, <2>3
<1>10. Linked(N, pv2, nx2, lst2, pos2)
  BY <1>8, <1>9 DEF Linked
<1>11. QED
  BY <1>10 DEF N, lst2, pos2, s, t, WithEnd, EndPlaces

LEMMA Joined ==
  ASSUME NEW T, NEW u \in Seq(T), NEW v \in Seq(T)
  PROVE  /\ u \o v \in Seq(T) /\ Len(u \o v) = Len(u) + Len(v)
         /\ \A i \in 1 .. Len(u) : (u \o v)[i] = u[i]
         /\ \A i \in 1 .. Len(v) : (u \o v)[Len(u) + i] = v[i]
OBVIOUS

LEMMA InsertedAt ==
  ASSUME NEW T, NEW w \in Seq(T), NEW k \in 1 .. Len(w), NEW x \in T
  PROVE  /\ InsertAt(w, k + 1, x) \in Seq(T)
         /\ Len(InsertAt(w, k + 1, x)) = Len(w) + 1
         /\ \A i \in 1 .. k : InsertAt(w, k + 1, x)[i] = w[i]
         /\ InsertAt(w, k + 1, x)[k + 1] = x
         /\ \A i \in (k + 2) .. (Len(w) + 1) : InsertAt(w, k + 1, x)[i] = w[i - 1]
<1> DEFINE t == InsertAt(w, k + 1, x)
<1> DEFINE a == SubSeq(w, 1, k)
           b == SubSeq(w, k + 1, Len(w))
<1>1. t = (a \o <<x>>) \o b
  <2>1. (k + 1) - 1 = k
    OBVIOUS
  <2>2. QED
    BY <2>1 DEF InsertAt
<1> HIDE DEF t
<1>2. a \in Seq(T) /\ Len(a) = k /\ \A i \in 1 .. k : a[i] = w[i]
  OBVIOUS
<1>3. b \in Seq(T) /\ Len(b) = Len(w) - k /\ \A i \in 1 .. (Len(w) - k) : b[i] = w[i + k]
  OBVIOUS
<1> HIDE DEF a, b
<1> DEFINE d == a \o <<x>>
<1>4. /\ d \in Seq(T) /\ Len(d) = k + 1 /\ d[k + 1] = x
      /\ \A i \in 1 .. k : d[i] = w[i]
  BY <1>2
<1> HIDE DEF d
<1>5. /\ t \in Seq(T) /\ Len(t) = Len(w) + 1
      /\ \A i \in 1 .. (k + 1) : t[i] = d[i]
      /\ \A i \in 1 .. (Len(w) - k) : t[(k + 1) + i] = b[i]
  <2>1. t = d \o b
    BY <1>1 DEF d
  <2>2. /\ d \o b \in Seq(T) /\ Len(d \o b) = Len(d) + Len(b)
        /\ \A i \in 1 .. Len(d) : (d \o b)[i] = d[i]
        /\ \A i \in 1 .. Len(b) : (d \o b)[Len(d) + i] = b[i]
    <3>1. d \in Seq(T) /\ b \in Seq(T)
      BY <1>3, <1>4
    <3>2. QED
      BY <3>1, Joined, SMT
  <2>3. Len(d) = k + 1 /\ Len(b) = Len(w) - k /\ k \in Nat /\ Len(w) \in Nat
    BY <1>3, <1>4
  <2>4. QED
    BY <2>1, <2>2, <2>3
<1>6. ASSUME NEW i \in (k + 2) .. (Len(w) + 1) PROVE t[i] = w[i - 1]
  <2> DEFINE e == i - (k + 1)
  <2>1. e \in 1 .. (Len(w) - k) /\ e + k = i - 1 /\ (k + 1) + e = i
    OBVIOUS
  <2> HIDE DEF e
  <2>2. t[(k + 1) + e] = b[e] /\ b[e] = w[e + k]
    BY <1>3, <1>5, <2>1
  <2>3. QED
    BY <2>1, <2>2
<1>7. t[k + 1] = x /\ \A i \in 1 .. k : t[i] = w[i]
  BY <1>4, <1>5
<1>8. QED
  BY <1>5, <1>6, <1>7 DEF t

LEMMA LinkAfter ==
  ASSUME NEW K, NEW pv, NEW nx, NEW lst, NEW pos, Linked(K, pv, nx, lst, pos),
         NEW n \in K, NEW c, c \notin K, NEW pv2, NEW nx2,
         \A m \in K : pv2[m] = pv[m],
         \A m \in K : nx2[m] = IF m = n THEN c ELSE nx[m],
         pv2[c] = n, nx2[c] = nx[n]
  PROVE  LET N == K \cup {c}
         IN  Linked(N, pv2, nx2,
               [m \in N |-> IF m = c \/ lst[m] = lst[n] THEN InsertAt(lst[n], pos[n] + 1, c)
                                                      ELSE lst[m]],
               [m \in N |-> IF m = c THEN pos[n] + 1
                            ELSE IF lst[m] = lst[n] /\ pos[m] > pos[n] THEN pos[m] + 1
                            ELSE pos[m]])
<1> DEFINE N == K \cup {c}
           s == lst[n]
           p == pos[n]
           t == InsertAt(s, p + 1, c)
           lst2 == [m \in N |-> IF m = c \/ lst[m] = s THEN t ELSE lst[m]]
           pos2 == [m \in N |-> IF m = c THEN p + 1
                                ELSE IF lst[m] = s /\ pos[m] > p THEN pos[m] + 1
                                ELSE pos[m]]
<1>1. /\ c \in N /\ lst2[c] = t /\ pos2[c] = p + 1
      /\ \A m \in K : /\ m \in N
                      /\ pos2[m] = IF lst[m] = s /\ pos[m] > p THEN pos[m] + 1 ELSE pos[m]
                      /\ lst2[m] = IF lst[m] = s THEN t ELSE lst[m]
      /\ \A m \in N : m = c \/ m \in K
  OBVIOUS
<1>2. /\ s \in Seq(K) /\ Len(s) \in Nat /\ Len(s) >= 1
      /\ p \in 1 .. Len(s) /\ s[p] = n
      /\ \A i \in 1 .. Len(s) : s[i] \in K /\ lst[s[i]] = s /\ pos[s[i]] = i
  BY PlaceFacts DEF Linked
<1>3. s \in Seq(N)
  BY <1>2
<1>4. /\ t \in Seq(N) /\ Len(t) = Len(s) + 1
      /\ \A i \in 1 .. p : t[i] = s[i]
      /\ t[p + 1] = c
      /\ \A i \in (p + 2) .. (Len(s) + 1) : t[i] = s[i - 1]
  <2>1. t = InsertAt(s, p + 1, c) /\ c \in N
    OBVIOUS
  <2>2. p \in 1 .. Len(s) /\ s \in Seq(N)
    BY <1>2, <1>3
  <2> HIDE DEF s, p, t, N
  <2> DEFINE a == InsertAt(s, p + 1, c)
  <2>3. a \in Seq(N) /\ Len(a) = Len(s) + 1
    BY <2>1, <2>2, InsertedAt, SMTT(30)
  <2>4. \A i \in 1 .. p : a[i] = s[i]
    BY <2>1, <2>2, InsertedAt, SMTT(30)
  <2>5. a[p + 1] = c
    BY <2>1, <2>2, InsertedAt, SMTT(30)
  <2>6. \A i \in (p + 2) .. (Len(s) + 1) : a[i] = s[i - 1]
    BY <2>1, <2>2, InsertedAt, SMTT(30)
  <2>7. QED
    BY <2>1, <2>3, <2>4, <2>5, <2>6
<1>5. lst2 \in [N -> Seq(N)] /\ pos2 \in [N -> Nat]
  <2>1. ASSUME NEW m \in K PROVE lst[m] \in Seq(N) /\ pos[m] \in Nat
    <3>1. lst[m] \in Seq(K) /\ pos[m] \in Nat
      BY PlaceFacts DEF Linked
    <3>2. QED
      BY <3>1
  <2> HIDE DEF s, t, p
  <2>2. QED
    BY <1>2, <1>4, <2>1
<1> HIDE DEF N, lst2, pos2, s, t, p
<1>6. ASSUME NEW i \in 1 .. Len(t) PROVE lst2[t[i]] = t /\ pos2[t[i]] = i
  <2>1. CASE i \in 1 .. p
    <3>1. t[i] = s[i] /\ s[i] \in K /\ lst[s[i]] = s /\ pos[s[i]] = i
      BY <1>2, <1>4, <2>1
    <3>2. QED
      BY <1>1, <1>2, <2>1, <3>1
  <2>2. CASE i = p + 1
    BY <1>1, <1>4, <2>2
  <2>3. CASE i - 1 \in (p + 1) .. Len(s)
    <3>1. t[i] = s[i - 1]
      <4>1. i \in (p + 2) .. (Len(s) + 1)
        BY <1>2, <2>3
      <4>2. \A k \in (p + 2) .. (Len(s) + 1) : t[k] = s[k - 1]
        BY <1>4
      <4>3. QED
        BY <4>1, <4>2
    <3>2. s[i - 1] \in K /\ lst[s[i - 1]] = s /\ pos[s[i - 1]] = i - 1
      BY <1>2, <2>3
    <3>3. QED
      BY <1>1, <1>2, <2>3, <3>1, <3>2
  <2>4. QED
    BY <1>2, <1>4, <2>1, <2>2, <2>3
<1>7. ASSUME NEW m \in K, lst[m] = s
      PROVE  /\ pos[m] \in 1 .. Len(s) /\ s[pos[m]] = m
             /\ nx[m] = IF pos[m] = Len(s) THEN Null ELSE s[pos[m] + 1]
             /\ IF pos[m] = 1 THEN pv[m] = Null
                ELSE \E j \in 1 .. (pos[m] - 1) : pv[m] = s[j]
  BY <1>7, PlaceFacts DEF Linked
<1>8. Places(N, lst2, pos2)
  <2> SUFFICES ASSUME NEW m \in N
               PROVE  /\ 1 <= pos2[m] /\ pos2[m] <= Len(lst2[m])
                      /\ lst2[m][pos2[m]] = m
                      /\ \A i \in 1 .. Len(lst2[m]) :
                           lst2[lst2[m][i]] = lst2[m] /\ pos2[lst2[m][i]] = i
    BY <1>5 DEF Places
  <2>1. CASE m = c
    BY <1>1, <1>2, <1>4, <1>6, <2>1
  <2>2. CASE m \in K /\ lst[m] = s
    <3>1. pos[m] \in 1 .. Len(s) /\ s[pos[m]] = m
      BY <1>7, <2>2
    <3>2. CASE pos[m] > p
      <4>1. t[pos[m] + 1] = m /\ pos2[m] = pos[m] + 1 /\ lst2[m] = t
        <5>1. pos[m] + 1 \in (p + 2) .. (Len(s) + 1) /\ (pos[m] + 1) - 1 = pos[m]
          BY <1>2, <3>1, <3>2
        <5>2. t[pos[m] + 1] = s[pos[m]]
          BY <1>4, <5>1
        <5>3. QED
          BY <1>1, <2>2, <3>1, <3>2, <5>2
      <4>2. QED
        BY <1>2, <1>4, <1>6, <3>1, <4>1
    <3>3. CASE ~(pos[m] > p)
      <4>1. t[pos[m]] = m /\ pos2[m] = pos[m] /\ lst2[m] = t
        BY <1>1, <1>2, <1>4, <2>2, <3>1, <3>3
      <4>2. QED
        BY <1>2, <1>4, <1>6, <3>1, <4>1
    <3>4. QED
      BY <3>2, <3>3
  <2>3. CASE m \in K /\ lst[m] # s
    <3>1. /\ 1 <= pos[m] /\ pos[m] <= Len(lst[m]) /\ lst[m][pos[m]] = m
          /\ \A i \in 1 .. Len(lst[m]) :
               lst[m][i] \in K /\ lst[lst[m][i]] = lst[m] /\ pos[lst[m][i]] = i
      BY <2>3, PlaceFacts DEF Linked
    <3>2. QED
      BY <1>1, <2>3, <3>1
  <2>4. QED
    BY <1>1, <2>1, <2>2, <2>3
<1>9. ASSUME NEW m \in N
      PROVE  /\ nx2[m] = IF pos2[m] = Len(lst2[m]) THEN Null ELSE lst2[m][pos2[m] + 1]
             /\ IF pos2[m] = 1 THEN pv2[m] = Null
                ELSE \E j \in 1 .. (pos2[m] - 1) : pv2[m] = lst2[m][j]
  <2>1. CASE m = c
    <3>1. pv2[m] = t[p] /\ p \in 1 .. (pos2[m] - 1) /\ pos2[m] = p + 1 /\ lst2[m] = t
      BY <1>1, <1>2, <1>4, <2>1
    <3>2. nx[n] = IF p = Len(s) THEN Null ELSE s[p + 1]
      BY <1>7 DEF s, p
    <3>3. p # Len(s) => t[p + 2] = s[p + 1]
      <4>1. p # Len(s) => p + 2 \in (p + 2) .. (Len(s) + 1) /\ (p + 2) - 1 = p + 1
        BY <1>2
      <4>2. QED
        BY <1>4, <4>1
    <3>4. nx2[m] = IF p + 1 = Len(t) THEN Null ELSE t[(p + 1) + 1]
      BY <1>2, <1>4, <2>1, <3>2, <3>3
    <3>5. QED
      BY <1>2, <3>1, <3>4
  <2>2. CASE m \in K /\ lst[m] = s
    <3>1. /\ pos[m] \in 1 .. Len(s) /\ s[pos[m]] = m
          /\ nx[m] = IF pos[m] = Len(s) THEN Null ELSE s[pos[m] + 1]
          /\ IF pos[m] = 1 THEN pv[m] = Null
             ELSE \E j \in 1 .. (pos[m] - 1) : pv[m] = s[j]
      BY <1>7, <2>2
    <3>2. lst2[m] = t /\ pv2[m] = pv[m] /\ nx2[m] = IF m = n THEN c ELSE nx[m]
      BY <1>1, <2>2
    <3>3. CASE pos[m] < p
      <4>1. pos2[m] = pos[m] /\ m # n
        BY <1>1, <1>2, <2>2, <3>1, <3>3 DEF p
      <4>2. pos[m] + 1 \in 1 .. p /\ pos[m] # Len(t) /\ pos[m] # Len(s)
        BY <1>2, <1>4, <3>1, <3>3
      <4>3. nx2[m] = t[pos[m] + 1]
        BY <1>4, <3>1, <3>2, <4>1, <4>2
      <4>4. \A j \in 1 .. (pos[m] - 1) : t[j] = s[j]
        BY <1>2, <1>4, <3>1, <3>3
      <4>5. QED
        BY <3>1, <3>2, <4>1, <4>2, <4>3, <4>4
    <3>4. CASE pos[m] = p
      <4>1. pos2[m] = p /\ m = n
        BY <1>1, <1>2, <2>2, <3>1, <3>4
      <4>2. p # Len(t) /\ nx2[m] = t[p + 1]
        BY <1>2, <1>4, <3>2, <4>1
      <4>3. \A j \in 1 .. (p - 1) : t[j] = s[j]
        BY <1>2, <1>4
      <4>4. QED
        BY <3>1, <3>2, <3>4, <4>1, <4>2, <4>3
    <3>5. CASE pos[m] > p
      <4>1. pos2[m] = pos[m] + 1 /\ m # n /\ pos2[m] # 1 /\ pos[m] # 1
        <5>1. pos2[m] = pos[m] + 1
          BY <1>1, <2>2, <3>5
        <5>2. m # n
          BY <1>2, <3>1, <3>5 DEF p
        <5>3. QED
          BY <1>2, <3>1, <3>5, <5>1, <5>2
      <4>2. nx2[m] = nx[m]
        BY <3>2, <4>1
      <4>3. pos[m] = Len(s) <=> pos2[m] = Len(t)
        BY <1>2, <1>4, <3>1, <4>1
      <4>4. pos[m] # Len(s) => s[pos[m] + 1] = t[pos2[m] + 1]
        <5>1. pos[m] # Len(s) => /\ pos[m] + 2 \in (p + 2) .. (Len(s) + 1)
                                 /\ (pos[m] + 2) - 1 = pos[m] + 1
                                 /\ pos2[m] + 1 = pos[m] + 2
          BY <1>2, <3>1, <3>5, <4>1
        <5>2. QED
          BY <1>4, <4>1, <5>1
      <4>5. PICK j \in 1 .. (pos[m] - 1) : pv[m] = s[j]
        BY <3>1, <4>1
      <4>6. \E k \in 1 .. (pos2[m] - 1) : pv[m] = t[k]
        <5>1. CASE j <= p
          BY <1>2, <1>4, <3>1, <4>1, <4>5, <5>1
        <5>2. CASE j > p
          <6>1. /\ j + 1 \in (p + 2) .. (Len(s) + 1) /\ (j + 1) - 1 = j
                /\ j + 1 \in 1 .. (pos2[m] - 1)
            BY <1>2, <3>1, <4>1, <5>2
          <6>2. QED
            BY <1>4, <4>5, <6>1
        <5>3. QED
          BY <1>2, <5>1, <5>2
      <4>7. QED
        BY <3>1, <3>2, <4>1, <4>2, <4>3, <4>4, <4>6
    <3>6. QED
      BY <1>2, <3>1, <3>3, <3>4, <3>5
  <2>3. CASE m \in K /\ lst[m] # s
    <3>1. m # n
      BY <2>3 DEF s
    <3>2. nx2[m] = nx[m] /\ pv2[m] = pv[m]
      BY <2>3, <3>1
    <3>3. QED
      BY <1>1, <2>3, <3>2 DEF Linked
  <2>4. QED
    BY <1>1, <2>1, <2>2, <2>3
<1>10. Linked(N, pv2, nx2, lst2, pos2)
  BY <1>8, <1>9 DEF Linked
<1>11. QED
  BY <1>10 DEF N, lst2, pos2, s, t, p

(* The components of a list are those that have it for their list.         *)
LEMMA Members ==
  ASSUME NEW K, NEW lst, NEW pos, Places(K, lst, pos), NEW n \in K
  PROVE  ToSet(lst[n]) = {m \in K : lst[m] = lst[n]}
<1>1. ASSUME NEW m \in K
      PROVE  /\ lst[m] \in Seq(K) /\ Len(lst[m]) \in Nat /\ pos[m] \in Nat
             /\ 1 <= pos[m] /\ pos[m] <= Len(lst[m]) /\ lst[m][pos[m]] = m
             /\ \A i \in 1 .. Len(lst[m]) :
                  lst[m][i] \in K /\ lst[lst[m][i]] = lst[m] /\ pos[lst[m][i]] = i
  BY <1>1, PlaceFacts
<1>2. ToSet(lst[n]) = {lst[n][i] : i \in 1 .. Len(lst[n])}
  BY <1>1 DEF ToSet
<1>3. QED
  BY <1>1, <1>2

(* The lists and places of the components that are not in n's list.        *)
Without(K, lst, n)     == [m \in K \ ToSet(lst[n]) |-> lst[m]]
RestPlaces(K, lst, pos, n) == [m \in K \ ToSet(lst[n]) |-> pos[m]]

LEMMA Unlink ==
  ASSUME NEW K, NEW pv, NEW nx, NEW lst, NEW pos, Linked(K, pv, nx, lst, pos),
         NEW n \in K
  PROVE  Linked(K \ ToSet(lst[n]), pv, nx, Without(K, lst, n), RestPlaces(K, lst, pos, n))
<1> DEFINE N == K \ ToSet(lst[n])
           lst2 == [m \in N |-> lst[m]]
           pos2 == [m \in N |-> pos[m]]
<1>1. ASSUME NEW m \in K
      PROVE  /\ lst[m] \in Seq(K) /\ Len(lst[m]) \in Nat /\ pos[m] \in Nat
             /\ 1 <= pos[m] /\ pos[m] <= Len(lst[m]) /\ lst[m][pos[m]] = m
             /\ \A i \in 1 .. Len(lst[m]) :
                  lst[m][i] \in K /\ lst[lst[m][i]] = lst[m] /\ pos[lst[m][i]] = i
  BY <1>1, PlaceFacts DEF Linked
<1>2. ToSet(lst[n]) = {m \in K : lst[m] = lst[n]}
  BY Members DEF Linked
<1>3. \A m \in K : m \in N <=> lst[m] # lst[n]
  BY <1>2
<1>4. ASSUME NEW m \in N
      PROVE  \A i \in 1 .. Len(lst[m]) : lst[m][i] \in N
  BY <1>1, <1>3
<1>5. ASSUME NEW m \in N PROVE lst[m] \in Seq(N) /\ pos[m] \in Nat
  <2>1. lst[m] \in Seq(K) /\ pos[m] \in Nat /\ \A i \in 1 .. Len(lst[m]) : lst[m][i] \in N
    BY <1>1, <1>4
  <2> HIDE DEF N
  <2>2. QED
    BY <2>1
<1>6. lst2 \in [N -> Seq(N)] /\ pos2 \in [N -> Nat]
  <2> HIDE DEF N
  <2>1. QED
    BY <1>5
<1>7. /\ \A m \in N : m \in K /\ lst2[m] = lst[m] /\ pos2[m] = pos[m]
  OBVIOUS
<1> HIDE DEF N, lst2, pos2
<1>8. Places(N, lst2, pos2)
  <2> SUFFICES ASSUME NEW m \in N
               PROVE  /\ 1 <= pos2[m] /\ pos2[m] <= Len(lst2[m])
                      /\ lst2[m][pos2[m]] = m
                      /\ \A i \in 1 .. Len(lst2[m]) :
                           lst2[lst2[m][i]] = lst2[m] /\ pos2[lst2[m][i]] = i
    BY <1>6 DEF Places
  <2>1. m \in K /\ lst2[m] = lst[m] /\ pos2[m] = pos[m]
    BY <1>7
  <2>2. \A i \in 1 .. Len(lst[m]) : lst[m][i] \in N
    BY <1>4
  <2>3. QED
    BY <1>1, <1>7, <2>1, <2>2
<1>9. Linked(N, pv, nx, lst2, pos2)
  BY <1>7, <1>8 DEF Linked
<1>10. QED
  BY <1>9 DEF N, lst2, pos2, Without, RestPlaces

(* The lists are what the chains from their heads are.                     *)
ListSet(K, lst)       == {lst[m] : m \in K}
HeadChains(K, pv, nx) == {ChainOf(K, nx)[n] : n \in {m \in K : pv[m] = Null}}

LEMMA ListsAre ==
  ASSUME NEW K, NEW pv, NEW nx, NEW lst, NEW pos, Linked(K, pv, nx, lst, pos),
         Null \notin K
  PROVE  HeadChains(K, pv, nx) = ListSet(K, lst)
<1> DEFINE H == {m \in K : pv[m] = Null}
<1>1. ASSUME NEW m \in K
      PROVE  /\ lst[m] \in Seq(K) /\ 1 \in 1 .. Len(lst[m])
             /\ lst[m][1] \in K /\ lst[lst[m][1]] = lst[m] /\ pos[lst[m][1]] = 1
             /\ pv[m] = Null <=> pos[m] = 1
             /\ pos[m] = 1 => SubSeq(lst[m], pos[m], Len(lst[m])) = lst[m]
  <2>1. lst[m] \in Seq(K) /\ 1 \in 1 .. Len(lst[m])
    BY PlaceFacts DEF Linked
  <2>2. lst[m][1] \in K /\ lst[lst[m][1]] = lst[m] /\ pos[lst[m][1]] = 1
    BY <2>1, PlaceFacts DEF Linked
  <2>3. pv[m] = Null <=> pos[m] = 1
    BY PlaceFacts DEF Linked
  <2>4. SubSeq(lst[m], 1, Len(lst[m])) = lst[m]
    BY <2>1
  <2>5. QED
    BY <2>1, <2>2, <2>3, <2>4
<1>0. \A m \in K : ChainOf(K, nx)[m] = SubSeq(lst[m], pos[m], Len(lst[m]))
  BY ChainFound
<1>2. ASSUME NEW m \in H PROVE m \in K /\ ChainOf(K, nx)[m] = lst[m]
  <2>1. m \in K /\ pos[m] = 1
    BY <1>1
  <2>2. ChainOf(K, nx)[m] = SubSeq(lst[m], pos[m], Len(lst[m]))
    BY <1>0, <2>1
  <2>3. QED
    BY <1>1, <2>1, <2>2
<1>3. \A m \in K : lst[m][1] \in H /\ ChainOf(K, nx)[lst[m][1]] = lst[m]
  BY <1>1, <1>2
<1> HIDE DEF H
<1>4. {ChainOf(K, nx)[n] : n \in H} = {lst[m] : m \in K}
  BY <1>2, <1>3
<1>5. QED
  BY <1>4 DEF H, HeadChains, ListSet
-----------------------------------------------------------------------------
(***************************************************************************)
(* The heap in every state, whatever lcpa_insert leaves in freedata.       *)
(***************************************************************************)

(* The links of the components in use form lists.                          *)
InLists == \E lst, pos : Linked(known, prev, next, lst, pos)

(* Only a list's first component has no data.                              *)
Bodies == \A n \in known : prev[n] # Null => data[n] # Null

HeapInv == TypeOK /\ InLists /\ Bodies /\ OnlyTheLastLeaks

LEMMA NullApart == Null \notin Nodes /\ Null \notin Blocks /\ Null \notin Values
BY PackasmAssumption

LEMMA KnownApart == TypeOK => Null \notin known /\ known \subseteq Nodes
BY NullApart DEF TypeOK

(* The loops go to the ends of the list, and through all of it.            *)
LEMMA LoopsGo ==
  ASSUME TypeOK, NEW lst, NEW pos, Linked(known, prev, next, lst, pos), NEW n \in known
  PROVE  /\ lst[n] \in Seq(known) /\ Len(lst[n]) \in Nat /\ Len(lst[n]) >= 1
         /\ \A i \in 1 .. Len(lst[n]) : lst[n][i] \in known /\ lst[lst[n][i]] = lst[n]
                                                        /\ pos[lst[n][i]] = i
         /\ ListEnd[n] = lst[n][Len(lst[n])] /\ ListEnd[n] \in known
         /\ Chain[ListHead[n]] = lst[n]
<1>1. Null \notin known
  BY KnownApart
<1>2. /\ lst[n] \in Seq(known) /\ Len(lst[n]) \in Nat /\ Len(lst[n]) >= 1
      /\ \A i \in 1 .. Len(lst[n]) : lst[n][i] \in known /\ lst[lst[n][i]] = lst[n]
                                                     /\ pos[lst[n][i]] = i
  BY PlaceFacts DEF Linked
<1>3. \A m \in known : EndOf(known, next)[m] = lst[m][Len(lst[m])]
  BY <1>1, EndFound
<1>4. ChainOf(known, next)[HeadOf(known, prev)[n]] = lst[n]
  BY <1>1, WholeList
<1>5. ListEnd[n] = lst[n][Len(lst[n])] /\ Chain[ListHead[n]] = lst[n]
  BY <1>3, <1>4, LoopsAre
<1>6. QED
  BY <1>2, <1>5

(* The lists after a call that made a component, after n or alone.         *)
WithAfter(lst, pos, n, c) ==
  [m \in known \cup {c} |-> IF m = c \/ lst[m] = lst[n]
                            THEN InsertAt(lst[n], pos[n] + 1, c) ELSE lst[m]]
WithNew(lst, c) == [m \in known \cup {c} |-> IF m = c THEN <<c>> ELSE lst[m]]

LEMMA Appended ==
  ASSUME TypeOK, NEW lst, NEW pos, Linked(known, prev, next, lst, pos),
         NEW n \in known, NEW c, Malloc(c), AtEnd(n, c)
  PROVE  \E p : Linked(known', prev', next', WithEnd(known, lst, n, c), p)
<1>1. /\ c \in Nodes /\ c \notin known /\ known' = known \cup {c}
      /\ ListEnd[n] \in known /\ ListEnd[n] = lst[n][Len(lst[n])]
  BY LoopsGo DEF Malloc, TypeOK
<1>2. /\ \A m \in known : prev'[m] = prev[m]
      /\ \A m \in known : next'[m] = IF m = ListEnd[n] THEN c ELSE next[m]
      /\ prev'[c] = ListEnd[n] /\ next'[c] = Null
  BY <1>1, KnownApart DEF AtEnd, TypeOK
<1>3. Linked(known \cup {c}, prev', next', WithEnd(known, lst, n, c),
             EndPlaces(known, lst, pos, n, c))
  BY <1>1, <1>2, LinkEnd
<1>4. QED
  BY <1>1, <1>3

LEMMA Inserted ==
  ASSUME TypeOK, NEW lst, NEW pos, Linked(known, prev, next, lst, pos),
         NEW n \in known, NEW c, Malloc(c), After(n, c)
  PROVE  \E p : Linked(known', prev', next', WithAfter(lst, pos, n, c), p)
<1>1. c \in Nodes /\ c \notin known /\ known' = known \cup {c}
  BY DEF Malloc, TypeOK
<1>2. /\ \A m \in known : prev'[m] = prev[m]
      /\ \A m \in known : next'[m] = IF m = n THEN c ELSE next[m]
      /\ prev'[c] = n /\ next'[c] = next[n]
  BY <1>1, KnownApart DEF After, TypeOK
<1> DEFINE p == [m \in known \cup {c} |->
                   IF m = c THEN pos[n] + 1
                   ELSE IF lst[m] = lst[n] /\ pos[m] > pos[n] THEN pos[m] + 1
                   ELSE pos[m]]
<1>3. Linked(known \cup {c}, prev', next', WithAfter(lst, pos, n, c), p)
  BY <1>1, <1>2, LinkAfter DEF WithAfter
<1>4. QED
  BY <1>1, <1>3

LEMMA Created ==
  ASSUME TypeOK, NEW lst, NEW pos, Linked(known, prev, next, lst, pos),
         NEW c, LcpaInit(c)
  PROVE  \E p : Linked(known', prev', next', WithNew(lst, c), p)
<1>1. c \in Nodes /\ c \notin known /\ known' = known \cup {c}
  BY DEF LcpaInit, Malloc, TypeOK
<1>2. /\ \A m \in known : prev'[m] = prev[m] /\ next'[m] = next[m]
      /\ prev'[c] = Null /\ next'[c] = Null
  BY <1>1, KnownApart DEF LcpaInit, TypeOK
<1> DEFINE p == [m \in known \cup {c} |-> IF m = c THEN 1 ELSE pos[m]]
<1>3. Linked(known \cup {c}, prev', next', WithNew(lst, c), p)
  BY <1>1, <1>2, LinkNew DEF WithNew
<1>4. QED
  BY <1>1, <1>3

LEMMA Freed ==
  ASSUME TypeOK, NEW lst, NEW pos, Linked(known, prev, next, lst, pos),
         NEW n \in known, LcpaFree(n)
  PROVE  \E p : Linked(known', prev', next', Without(known, lst, n), p)
<1>1. known' = known \ ToSet(lst[n]) /\ UNCHANGED <<prev, next>>
  BY LoopsGo DEF LcpaFree, links
<1>2. Linked(known \ ToSet(lst[n]), prev, next, Without(known, lst, n),
             RestPlaces(known, lst, pos, n))
  BY Unlink
<1>3. QED
  BY <1>1, <1>2

LEMMA HeapStarts == Init => HeapInv
<1> SUFFICES ASSUME Init PROVE HeapInv
  OBVIOUS
<1>1. TypeOK
  <2>1. /\ alloc \subseteq Nodes /\ known \subseteq alloc
        /\ prev \in [Nodes -> Nodes \cup {Null}] /\ next \in [Nodes -> Nodes \cup {Null}]
        /\ data \in [Nodes -> Blocks \cup {Null}]
    BY DEF Init
  <2>2. own \in [Blocks -> {"none", "user", "list"}] /\ mem \in [Blocks -> Values]
    BY DEF Init
  <2>3. freedata \in [Nodes -> BOOLEAN]
    BY DEF Init
  <2>4. badfree \in BOOLEAN
    BY DEF Init
  <2>5. frame \in Seq(Values)
    BY DEF Init
  <2>6. QED
    BY <2>1, <2>2, <2>3, <2>4, <2>5 DEF TypeOK
<1>2. InLists
  <2> DEFINE none == [m \in known |-> <<>>]
             zero == [m \in known |-> 0]
  <2>1. Linked(known, prev, next, none, zero)
    BY DEF Init, Linked, Places
  <2>2. QED
    BY <2>1 DEF InLists
<1>3. Bodies /\ OnlyTheLastLeaks
  BY DEF Init, Bodies, OnlyTheLastLeaks
<1>4. QED
  BY <1>1, <1>2, <1>3 DEF HeapInv

LEMMA CreateKeepsHeap ==
  ASSUME HeapInv, NEW c, LcpaInit(c)
  PROVE  HeapInv'
<1> USE DEF HeapInv
<1>1. /\ c \in Nodes /\ c \notin known
      /\ alloc' = alloc \cup {c} /\ known' = known \cup {c} /\ c \notin alloc
  BY DEF LcpaInit, Malloc, TypeOK
<1>2. TypeOK'
  BY <1>1 DEF LcpaInit, TypeOK, blocks
<1>3. InLists'
  BY Created DEF InLists
<1>4. Bodies' /\ OnlyTheLastLeaks'
  BY <1>1 DEF LcpaInit, TypeOK, Bodies, OnlyTheLastLeaks
<1>5. QED
  BY <1>2, <1>3, <1>4

LEMMA AddKeepsHeap ==
  ASSUME HeapInv, NEW n \in known, NEW c, NEW b \in Blocks, Malloc(c),
         AtEnd(n, c) \/ After(n, c), frame' = <<>>,
         \/ \E v \in Values : Copied(c, b, v)
         \/ \E flag \in BOOLEAN : Lent(c, b, flag)
  PROVE  HeapInv'
<1> USE DEF HeapInv
<1>1. /\ c \in Nodes /\ c \notin known /\ c \notin alloc /\ n \in Nodes /\ n # c
      /\ alloc' = alloc \cup {c} /\ known' = known \cup {c} /\ known \subseteq alloc
  BY DEF Malloc, TypeOK
<1>2. PICK lst, pos : Linked(known, prev, next, lst, pos)
  BY DEF InLists
<1>3. ListEnd[n] \in known
  BY <1>2, LoopsGo
<1>4. TypeOK'
  <2>1. (alloc \subseteq Nodes /\ known \subseteq alloc)'
    BY <1>1 DEF TypeOK
  <2>2. (/\ prev \in [Nodes -> Nodes \cup {Null}]
         /\ next \in [Nodes -> Nodes \cup {Null}])'
    <3>1. CASE AtEnd(n, c)
      BY <1>1, <1>3, <3>1 DEF AtEnd, TypeOK
    <3>2. CASE After(n, c)
      BY <1>1, <3>2 DEF After, TypeOK
    <3>3. QED
      BY <3>1, <3>2
  <2>3. (/\ data \in [Nodes -> Blocks \cup {Null}]
         /\ freedata \in [Nodes -> BOOLEAN]
         /\ own \in [Blocks -> {"none", "user", "list"}]
         /\ mem \in [Blocks -> Values]
         /\ badfree \in BOOLEAN)'
    <3>1. CASE \E v \in Values : Copied(c, b, v)
      <4>1. (data \in [Nodes -> Blocks \cup {Null}])'
        BY <3>1 DEF Copied, TypeOK
      <4>2. (own \in [Blocks -> {"none", "user", "list"}])'
        BY <3>1 DEF Copied, TypeOK
      <4>3. (mem \in [Blocks -> Values])'
        BY <3>1 DEF Copied, TypeOK
      <4>4. (freedata \in [Nodes -> BOOLEAN] /\ badfree \in BOOLEAN)'
        BY <3>1 DEF Copied, TypeOK
      <4>5. QED
        BY <4>1, <4>2, <4>3, <4>4
    <3>2. CASE \E flag \in BOOLEAN : Lent(c, b, flag)
      <4>1. (/\ data \in [Nodes -> Blocks \cup {Null}]
             /\ own \in [Blocks -> {"none", "user", "list"}]
             /\ mem \in [Blocks -> Values])'
        BY <3>2 DEF Lent, blocks, TypeOK
      <4>2. (freedata \in [Nodes -> BOOLEAN] /\ badfree \in BOOLEAN)'
        BY <3>2 DEF Lent, blocks, TypeOK
      <4>3. QED
        BY <4>1, <4>2
    <3>3. QED
      BY <3>1, <3>2
  <2>4. (frame \in Seq(Values))'
    OBVIOUS
  <2>5. QED
    BY <2>1, <2>2, <2>3, <2>4 DEF TypeOK
<1>5. InLists'
  BY <1>2, Appended, Inserted DEF InLists
<1>6. Bodies'
  <2>1. \A m \in known : prev'[m] = prev[m] /\ data'[m] = data[m]
    BY <1>1 DEF AtEnd, After, Copied, Lent, TypeOK
  <2>2. data'[c] = b /\ b # Null
    BY <1>1, NullApart DEF Copied, Lent, TypeOK
  <2>3. QED
    BY <1>1, <2>1, <2>2 DEF Bodies
<1>7. OnlyTheLastLeaks'
  <2>1. \A m \in alloc \ known : next'[m] = next[m]
    BY <1>1, <1>3 DEF AtEnd, After, TypeOK
  <2>2. QED
    BY <1>1, <2>1 DEF OnlyTheLastLeaks
<1>8. QED
  BY <1>4, <1>5, <1>6, <1>7

(* A frame holds what every component but the first has for its data.      *)
LEMMA FrameIs ==
  ASSUME TypeOK, Bodies, NEW lst, NEW pos, Linked(known, prev, next, lst, pos),
         NEW n \in known
  PROVE  Contents(Tail(lst[n])) \in Seq(Values)
<1> DEFINE s == lst[n]
           t == Tail(s)
<1>1. /\ s \in Seq(known) /\ Len(s) \in Nat /\ Len(s) >= 1
      /\ \A i \in 1 .. Len(s) : s[i] \in known /\ pos[s[i]] = i
  BY LoopsGo
<1>2. /\ t \in Seq(known) /\ Len(t) = Len(s) - 1 /\ DOMAIN t = 1 .. Len(t)
      /\ \A k \in 1 .. Len(t) : t[k] = s[k + 1]
  <2> HIDE DEF s
  <2>1. QED
    BY <1>1
<1> HIDE DEF s, t
<1>3. ASSUME NEW k \in 1 .. Len(t)
      PROVE  t[k] \in known /\ prev[t[k]] # Null
  <2>1. k + 1 \in 1 .. Len(s) /\ k + 1 # 1
    BY <1>1, <1>2
  <2>2. t[k] \in known /\ pos[t[k]] # 1
    BY <1>1, <1>2, <2>1
  <2>3. prev[t[k]] \in known
    BY <2>2, PlaceFacts DEF Linked
  <2>4. QED
    BY <2>2, <2>3, KnownApart
<1>4. ASSUME NEW k \in 1 .. Len(t)
      PROVE  data[t[k]] # Null /\ mem[data[t[k]]] \in Values
  BY <1>3 DEF Bodies, TypeOK
<1>5. Contents(t) = [k \in 1 .. Len(t) |-> mem[data[t[k]]]]
  BY <1>2, <1>4 DEF Contents
<1>6. Len(t) \in Nat
  BY <1>1, <1>2
<1>7. Contents(t) \in [1 .. Len(t) -> Values]
  BY <1>4, <1>5
<1>8. Contents(t) \in Seq(Values)
  BY <1>6, <1>7
<1>9. QED
  BY <1>8 DEF t, s

LEMMA OwnersTyped ==
  ASSUME TypeOK, NEW S
  PROVE  OwnAfterFree(S) \in [Blocks -> {"none", "user", "list"}]
BY DEF OwnAfterFree, TypeOK

LEMMA BadFreeTyped == \A S : IsBadFree(S) \in BOOLEAN
BY DEF IsBadFree

LEMMA ReplaceKeepsHeap ==
  ASSUME HeapInv, NEW n \in known, NEW b \in Blocks,
         (\E v \in Values : ReplaceCopy(n, b, v)) \/ ReplaceLent(n, b)
  PROVE  HeapInv'
<1> USE DEF HeapInv
<1>1. UNCHANGED <<alloc, known, prev, next>> /\ frame' = <<>>
  BY DEF ReplaceCopy, ReplaceLent, links
<1>2. data' = [data EXCEPT ![n] = b] /\ b # Null /\ n \in Nodes
  BY NullApart DEF ReplaceCopy, ReplaceLent, TypeOK
<1>3. TypeOK'
  <2>1. (own \in [Blocks -> {"none", "user", "list"}])'
    BY OwnersTyped DEF ReplaceCopy, ReplaceLent
  <2>2. (mem \in [Blocks -> Values])'
    BY DEF ReplaceCopy, ReplaceLent, TypeOK
  <2>3. (freedata \in [Nodes -> BOOLEAN])'
    BY DEF ReplaceCopy, ReplaceLent, TypeOK
  <2>4. (badfree \in BOOLEAN)'
    BY BadFreeTyped DEF ReplaceCopy, ReplaceLent, TypeOK
  <2>5. (data \in [Nodes -> Blocks \cup {Null}])'
    BY <1>2 DEF TypeOK
  <2>6. QED
    BY <1>1, <2>1, <2>2, <2>3, <2>4, <2>5 DEF TypeOK
<1>4. InLists'
  BY <1>1 DEF InLists
<1>5. Bodies'
  BY <1>1, <1>2 DEF Bodies, TypeOK
<1>6. OnlyTheLastLeaks'
  BY <1>1 DEF OnlyTheLastLeaks
<1>7. QED
  BY <1>3, <1>4, <1>5, <1>6

(* What a freed list leaves behind: its last component.                    *)
LEMMA LastRemains ==
  ASSUME TypeOK, NEW lst, NEW pos, Linked(known, prev, next, lst, pos),
         NEW n \in known
  PROVE  /\ ToSet(Front(lst[n])) \subseteq ToSet(lst[n]) /\ ToSet(lst[n]) \subseteq known
         /\ ToSet(lst[n]) \ ToSet(Front(lst[n])) = {lst[n][Len(lst[n])]}
         /\ next[lst[n][Len(lst[n])]] = Null
<1> DEFINE s == lst[n]
<1>1. /\ s \in Seq(known) /\ Len(s) \in Nat /\ Len(s) >= 1
      /\ \A i \in 1 .. Len(s) : s[i] \in known /\ pos[s[i]] = i /\ lst[s[i]] = s
  BY LoopsGo
<1>2. next[s[Len(s)]] = Null
  BY <1>1 DEF Linked
<1> HIDE DEF s
<1>3. ToSet(s) = {s[i] : i \in 1 .. Len(s)}
  BY <1>1 DEF ToSet
<1>4. ToSet(Front(s)) = {s[i] : i \in 1 .. (Len(s) - 1)}
  <2> DEFINE f == SubSeq(s, 1, Len(s) - 1)
  <2>1. DOMAIN f = 1 .. (Len(s) - 1) /\ \A i \in 1 .. (Len(s) - 1) : f[i] = s[i]
    BY <1>1
  <2>2. Front(s) = f
    BY DEF Front
  <2> HIDE DEF f
  <2>3. QED
    BY <2>1, <2>2 DEF ToSet
<1>5. ToSet(s) \ ToSet(Front(s)) = {s[Len(s)]}
  BY <1>1, <1>3, <1>4
<1>6. ToSet(Front(s)) \subseteq ToSet(s) /\ ToSet(s) \subseteq known
  BY <1>1, <1>3, <1>4
<1>7. QED
  BY <1>2, <1>5, <1>6 DEF s

LEMMA FreeKeepsHeap ==
  ASSUME HeapInv, NEW n \in known, LcpaFree(n)
  PROVE  HeapInv'
<1> USE DEF HeapInv
<1>1. PICK lst, pos : Linked(known, prev, next, lst, pos)
  BY DEF InLists
<1> DEFINE freed == ToSet(Front(lst[n]))
           all == ToSet(lst[n])
<1>2. /\ alloc' = alloc \ freed /\ known' = known \ all
      /\ own' = OwnAfterFree(freed) /\ badfree' = (badfree \/ IsBadFree(freed))
      /\ frame' = <<>> /\ UNCHANGED <<prev, next, data, freedata, mem>>
  <2>1. Chain[ListHead[n]] = lst[n]
    BY <1>1, LoopsGo
  <2>2. QED
    BY <2>1 DEF LcpaFree, links
<1>3. /\ freed \subseteq all /\ all \subseteq known
      /\ all \ freed = {lst[n][Len(lst[n])]} /\ next[lst[n][Len(lst[n])]] = Null
  BY <1>1, LastRemains
<1> HIDE DEF freed, all
<1>4. TypeOK'
  <2>1. (alloc \subseteq Nodes /\ known \subseteq alloc)'
    BY <1>2, <1>3 DEF TypeOK
  <2>2. (own \in [Blocks -> {"none", "user", "list"}])'
    BY <1>2, OwnersTyped
  <2>3. (badfree \in BOOLEAN)'
    BY <1>2, BadFreeTyped DEF TypeOK
  <2>4. QED
    BY <1>2, <2>1, <2>2, <2>3 DEF TypeOK
<1>5. InLists'
  BY <1>1, Freed DEF InLists
<1>6. Bodies'
  BY <1>2 DEF Bodies
<1>7. OnlyTheLastLeaks'
  BY <1>2, <1>3 DEF OnlyTheLastLeaks
<1>8. QED
  BY <1>4, <1>5, <1>6, <1>7

LEMMA FreezeKeepsHeap ==
  ASSUME HeapInv, NEW n \in known, LcpaFreeze(n)
  PROVE  HeapInv'
<1> USE DEF HeapInv
<1>1. PICK lst, pos : Linked(known, prev, next, lst, pos)
  BY DEF InLists
<1>2. UNCHANGED <<alloc, known, prev, next, data, freedata, own, mem, badfree>>
  BY DEF LcpaFreeze, links, blocks
<1>3. frame' \in Seq(Values)
  BY <1>1, LoopsGo, FrameIs DEF LcpaFreeze
<1>4. TypeOK'
  BY <1>2, <1>3 DEF TypeOK
<1>5. InLists' /\ Bodies' /\ OnlyTheLastLeaks'
  BY <1>2 DEF InLists, Bodies, OnlyTheLastLeaks
<1>6. QED
  BY <1>4, <1>5

LEMMA UserKeepsHeap ==
  ASSUME HeapInv, NEW b \in Blocks, (\E v \in Values : UserAlloc(b, v)) \/ UserFree(b)
  PROVE  HeapInv'
<1> USE DEF HeapInv
<1>1. UNCHANGED <<alloc, known, prev, next, data, freedata, badfree, frame>>
  BY DEF UserAlloc, UserFree, links
<1>2. TypeOK'
  <2>1. (own \in [Blocks -> {"none", "user", "list"}])'
    BY DEF UserAlloc, UserFree, TypeOK
  <2>2. (mem \in [Blocks -> Values])'
    BY DEF UserAlloc, UserFree, TypeOK
  <2>3. QED
    BY <1>1, <2>1, <2>2 DEF TypeOK
<1>3. InLists' /\ Bodies' /\ OnlyTheLastLeaks'
  BY <1>1 DEF InLists, Bodies, OnlyTheLastLeaks
<1>4. QED
  BY <1>2, <1>3

LEMMA HeapStep == HeapInv /\ [Next]_vars => HeapInv'
<1> SUFFICES ASSUME HeapInv, [Next]_vars PROVE HeapInv'
  OBVIOUS
<1>1. ASSUME NEW c \in Nodes, LcpaInit(c) PROVE HeapInv'
  BY <1>1, CreateKeepsHeap
<1>2. ASSUME NEW n \in known, NEW c \in Nodes, NEW b \in Blocks,
             \/ \E v \in Values : AppendCopy(n, c, b, v) \/ InsertCopy(n, c, b, v)
             \/ AppendLent(n, c, b)
             \/ InsertLent(n, c, b)
      PROVE  HeapInv'
  <2>1. /\ Malloc(c) /\ (AtEnd(n, c) \/ After(n, c)) /\ frame' = <<>>
        /\ \/ \E v \in Values : Copied(c, b, v)
           \/ \E flag \in BOOLEAN : Lent(c, b, flag)
    BY <1>2, PackasmAssumption DEF AppendCopy, InsertCopy, AppendLent, InsertLent
  <2>2. QED
    BY <2>1, AddKeepsHeap
<1>3. ASSUME NEW n \in known, NEW b \in Blocks,
             (\E v \in Values : ReplaceCopy(n, b, v)) \/ ReplaceLent(n, b)
      PROVE  HeapInv'
  BY <1>3, ReplaceKeepsHeap
<1>4. ASSUME NEW n \in known, LcpaFree(n) PROVE HeapInv'
  BY <1>4, FreeKeepsHeap
<1>5. ASSUME NEW n \in known, LcpaFreeze(n) PROVE HeapInv'
  BY <1>5, FreezeKeepsHeap
<1>6. ASSUME NEW b \in Blocks, (\E v \in Values : UserAlloc(b, v)) \/ UserFree(b)
      PROVE  HeapInv'
  BY <1>6, UserKeepsHeap
<1>7. CASE UNCHANGED vars
  BY <1>7 DEF vars, links, blocks, HeapInv, TypeOK, InLists, Bodies, OnlyTheLastLeaks
<1>8. QED
  BY <1>1, <1>2, <1>3, <1>4, <1>5, <1>6, <1>7 DEF Next

(* TypeOK holds in every state, for any heap and any contents of fields    *)
(* that nobody has written.                                                *)
THEOREM TypeCorrect == Spec => []TypeOK
<1>1. HeapInv => TypeOK
  BY DEF HeapInv
<1>2. QED
  BY <1>1, HeapStarts, HeapStep, PTL DEF Spec

(* What freed lists leave behind are their last components only.           *)
THEOREM OneLeakAList == Spec => []OnlyTheLastLeaks
<1>1. HeapInv => OnlyTheLastLeaks
  BY DEF HeapInv
<1>2. QED
  BY <1>1, HeapStarts, HeapStep, PTL DEF Spec
-----------------------------------------------------------------------------
(***************************************************************************)
(* Who owns the data, when the flag that lcpa_insert does not write reads  *)
(* as false.                                                               *)
(***************************************************************************)

(* The data of a component that will free it is the library's, and no      *)
(* other component's to free.                                              *)
Owned ==
  \A n \in alloc : freedata[n] =>
    /\ data[n] \in Blocks /\ own[data[n]] = "list"
    /\ \A m \in alloc \ {n} : ~(freedata[m] /\ data[m] = data[n])

(* The data of a component that will not free it is the user's.            *)
Borrowed ==
  \A n \in known : ~freedata[n] /\ data[n] # Null => own[data[n]] = "user"

Owners == Owned /\ Borrowed /\ CopyHasOneOwner /\ NoBadFree

OwnInv == HeapInv /\ Owners

(* Freeing the data of components in use frees each block once, and only   *)
(* blocks that are theirs.                                                 *)
LEMMA FreeOwned ==
  ASSUME TypeOK, Owned, Borrowed, NEW S \in SUBSET known
  PROVE  /\ ~IsBadFree(S)
         /\ \A m \in alloc \ S : freedata[m] => OwnAfterFree(S)[data[m]] = "list"
         /\ \A m \in known : ~freedata[m] /\ data[m] # Null
                             => OwnAfterFree(S)[data[m]] = "user"
         /\ \A b \in Blocks : OwnAfterFree(S)[b] = "list" =>
              own[b] = "list" /\ \A m \in S : ~(freedata[m] /\ data[m] = b)
<1>1. S \subseteq alloc
  BY DEF TypeOK
<1>2. ~IsBadFree(S)
  BY <1>1, NullApart DEF IsBadFree, Owned
<1>3. \A b \in Blocks : OwnAfterFree(S)[b] =
                         IF \E m \in S : freedata[m] /\ data[m] = b THEN "none" ELSE own[b]
  BY DEF OwnAfterFree
<1>4. \A m \in alloc \ S : freedata[m] => OwnAfterFree(S)[data[m]] = "list"
  BY <1>1, <1>3 DEF Owned
<1>5. ASSUME NEW m \in known, ~freedata[m], data[m] # Null
      PROVE  OwnAfterFree(S)[data[m]] = "user"
  <2>1. data[m] \in Blocks /\ own[data[m]] = "user"
    BY <1>5 DEF Borrowed, TypeOK
  <2>2. \A k \in S : freedata[k] => data[k] # data[m]
    BY <1>1, <2>1 DEF Owned
  <2>3. QED
    BY <1>3, <2>1, <2>2
<1>6. QED
  BY <1>2, <1>3, <1>4, <1>5

LEMMA OwnStarts == Init => OwnInv
<1> SUFFICES ASSUME Init PROVE OwnInv
  OBVIOUS
<1>1. HeapInv
  BY HeapStarts
<1>2. Owned /\ Borrowed /\ CopyHasOneOwner /\ NoBadFree
  BY DEF Init, Owned, Borrowed, CopyHasOneOwner, NoBadFree
<1>3. QED
  BY <1>1, <1>2 DEF OwnInv, Owners

LEMMA CreateKeepsOwners ==
  ASSUME OwnInv, NEW c, LcpaInit(c)
  PROVE  Owners'
<1> USE DEF OwnInv, Owners, HeapInv
<1>1. /\ c \in Nodes /\ c \notin alloc /\ c \notin known
      /\ alloc' = alloc \cup {c} /\ known' = known \cup {c}
      /\ alloc \subseteq Nodes /\ known \subseteq alloc
  BY DEF LcpaInit, Malloc, TypeOK
<1>2. /\ freedata'[c] = FALSE /\ data'[c] = Null
      /\ \A m \in alloc : freedata'[m] = freedata[m] /\ data'[m] = data[m]
      /\ UNCHANGED <<own, badfree>>
  BY <1>1 DEF LcpaInit, blocks, TypeOK
<1>3. Owned'
  BY <1>1, <1>2 DEF Owned
<1>4. Borrowed'
  BY <1>1, <1>2 DEF Borrowed
<1>5. CopyHasOneOwner'
  BY <1>1, <1>2 DEF CopyHasOneOwner
<1>6. QED
  BY <1>2, <1>3, <1>4, <1>5 DEF NoBadFree

LEMMA CopyKeepsOwners ==
  ASSUME OwnInv, NEW c, NEW b \in Blocks, NEW v, Malloc(c), Copied(c, b, v)
  PROVE  Owners'
<1> USE DEF OwnInv, Owners, HeapInv
<1>1. /\ c \in Nodes /\ c \notin alloc /\ c \notin known
      /\ alloc' = alloc \cup {c} /\ known' = known \cup {c}
      /\ alloc \subseteq Nodes /\ known \subseteq alloc
  BY DEF Malloc, TypeOK
<1>2. /\ freedata'[c] = TRUE /\ data'[c] = b
      /\ \A m \in alloc : freedata'[m] = freedata[m] /\ data'[m] = data[m]
      /\ own[b] = "none" /\ own'[b] = "list"
      /\ \A d \in Blocks : d # b => own'[d] = own[d]
      /\ UNCHANGED badfree
  BY <1>1 DEF Copied, TypeOK
<1>3. \A m \in alloc : freedata[m] => data[m] # b
  BY <1>2 DEF Owned
<1>4. Owned'
  BY <1>1, <1>2, <1>3 DEF Owned
<1>5. Borrowed'
  BY <1>1, <1>2 DEF Borrowed, TypeOK
<1>6. CopyHasOneOwner'
  BY <1>1, <1>2, <1>3 DEF CopyHasOneOwner
<1>7. QED
  BY <1>2, <1>4, <1>5, <1>6 DEF NoBadFree

LEMMA LoanKeepsOwners ==
  ASSUME OwnInv, NEW c, NEW b \in Blocks, Malloc(c), Lent(c, b, FALSE)
  PROVE  Owners'
<1> USE DEF OwnInv, Owners, HeapInv
<1>1. /\ c \in Nodes /\ c \notin alloc /\ c \notin known
      /\ alloc' = alloc \cup {c} /\ known' = known \cup {c}
      /\ alloc \subseteq Nodes /\ known \subseteq alloc
  BY DEF Malloc, TypeOK
<1>2. /\ freedata'[c] = FALSE /\ data'[c] = b /\ own[b] = "user"
      /\ \A m \in alloc : freedata'[m] = freedata[m] /\ data'[m] = data[m]
      /\ UNCHANGED <<own, badfree>>
  BY <1>1 DEF Lent, blocks, TypeOK
<1>3. Owned'
  BY <1>1, <1>2 DEF Owned
<1>4. Borrowed'
  BY <1>1, <1>2 DEF Borrowed
<1>5. CopyHasOneOwner'
  BY <1>1, <1>2 DEF CopyHasOneOwner
<1>6. QED
  BY <1>2, <1>3, <1>4, <1>5 DEF NoBadFree

LEMMA ReplaceKeepsOwners ==
  ASSUME OwnInv, NEW n \in known, NEW b \in Blocks,
         (\E v \in Values : ReplaceCopy(n, b, v)) \/ ReplaceLent(n, b)
  PROVE  Owners'
<1> USE DEF OwnInv, Owners, HeapInv
<1> DEFINE O == OwnAfterFree({n})
<1>1. /\ n \in Nodes /\ n \in alloc /\ alloc \subseteq Nodes /\ known \subseteq alloc
      /\ UNCHANGED <<alloc, known>> /\ badfree' = (badfree \/ IsBadFree({n}))
  BY DEF ReplaceCopy, ReplaceLent, TypeOK
<1>2. /\ data'[n] = b /\ \A m \in Nodes \ {n} : data'[m] = data[m]
      /\ \A m \in Nodes \ {n} : freedata'[m] = freedata[m]
  BY DEF ReplaceCopy, ReplaceLent, TypeOK
<1>3. /\ ~IsBadFree({n})
      /\ \A m \in alloc \ {n} : freedata[m] => O[data[m]] = "list"
      /\ \A m \in known : ~freedata[m] /\ data[m] # Null => O[data[m]] = "user"
      /\ \A d \in Blocks : O[d] = "list" =>
           own[d] = "list" /\ \A m \in {n} : ~(freedata[m] /\ data[m] = d)
  BY FreeOwned
<1>4. O \in [Blocks -> {"none", "user", "list"}]
  BY OwnersTyped
<1> HIDE DEF O
<1>5. CASE \E v \in Values : ReplaceCopy(n, b, v)
  <2>1. /\ O[b] = "none" /\ freedata'[n] = TRUE
        /\ own'[b] = "list" /\ \A d \in Blocks \ {b} : own'[d] = O[d]
    BY <1>1, <1>4, <1>5 DEF ReplaceCopy, TypeOK, O
  <2>2. \A m \in alloc \ {n} : freedata[m] => data[m] # b
    BY <1>3, <2>1
  <2>3. Owned'
    BY <1>1, <1>2, <1>3, <2>1, <2>2 DEF Owned
  <2>4. Borrowed'
    BY <1>1, <1>2, <1>3, <2>1 DEF Borrowed, TypeOK
  <2>5. CopyHasOneOwner'
    <3> SUFFICES ASSUME NEW d \in Blocks, own'[d] = "list"
                 PROVE  \E k \in alloc' : /\ freedata'[k] /\ data'[k] = d
                          /\ \A m \in alloc' \ {k} : ~(freedata'[m] /\ data'[m] = d)
      BY DEF CopyHasOneOwner
    <3>1. CASE d = b
      BY <1>1, <1>2, <2>1, <2>2, <3>1
    <3>2. CASE d # b
      <4>1. own[d] = "list" /\ ~(freedata[n] /\ data[n] = d)
        BY <1>3, <2>1, <3>2
      <4>2. PICK k \in alloc : /\ freedata[k] /\ data[k] = d
                               /\ \A m \in alloc \ {k} : ~(freedata[m] /\ data[m] = d)
        BY <4>1 DEF CopyHasOneOwner
      <4>3. QED
        BY <1>1, <1>2, <3>2, <4>1, <4>2
    <3>3. QED
      BY <3>1, <3>2
  <2>6. QED
    BY <1>1, <1>3, <2>3, <2>4, <2>5 DEF NoBadFree
<1>6. CASE ReplaceLent(n, b)
  <2>1. own[b] = "user" /\ own' = O /\ freedata'[n] = FALSE
    BY <1>1, <1>6 DEF ReplaceLent, TypeOK, O
  <2>2. O[b] = "user"
    BY <1>1, <2>1 DEF O, OwnAfterFree, Owned
  <2>3. Owned'
    BY <1>1, <1>2, <1>3, <2>1 DEF Owned
  <2>4. Borrowed'
    BY <1>1, <1>2, <1>3, <2>1, <2>2 DEF Borrowed, TypeOK
  <2>5. CopyHasOneOwner'
    <3> SUFFICES ASSUME NEW d \in Blocks, own'[d] = "list"
                 PROVE  \E k \in alloc' : /\ freedata'[k] /\ data'[k] = d
                          /\ \A m \in alloc' \ {k} : ~(freedata'[m] /\ data'[m] = d)
      BY DEF CopyHasOneOwner
    <3>1. own[d] = "list" /\ ~(freedata[n] /\ data[n] = d) /\ d # b
      BY <1>3, <2>1, <2>2
    <3>2. PICK k \in alloc : /\ freedata[k] /\ data[k] = d
                             /\ \A m \in alloc \ {k} : ~(freedata[m] /\ data[m] = d)
      BY <3>1 DEF CopyHasOneOwner
    <3>3. QED
      BY <1>1, <1>2, <3>1, <3>2
  <2>6. QED
    BY <1>1, <1>3, <2>3, <2>4, <2>5 DEF NoBadFree
<1>7. QED
  BY <1>5, <1>6

LEMMA FreeKeepsOwners ==
  ASSUME OwnInv, NEW n \in known, LcpaFree(n)
  PROVE  Owners'
<1> USE DEF OwnInv, Owners, HeapInv
<1>1. PICK S \in SUBSET known :
        /\ alloc' = alloc \ S /\ known' \subseteq known
        /\ own' = OwnAfterFree(S) /\ badfree' = (badfree \/ IsBadFree(S))
        /\ UNCHANGED <<data, freedata>>
  <2>1. PICK lst, pos : Linked(known, prev, next, lst, pos)
    BY DEF InLists
  <2>2. Chain[ListHead[n]] = lst[n]
    BY <2>1, LoopsGo
  <2>3. ToSet(Front(lst[n])) \in SUBSET known
    BY <2>1, LastRemains
  <2>4. QED
    BY <2>2, <2>3 DEF LcpaFree
<1>2. /\ ~IsBadFree(S)
      /\ \A m \in alloc \ S : freedata[m] => own'[data[m]] = "list"
      /\ \A m \in known : ~freedata[m] /\ data[m] # Null => own'[data[m]] = "user"
      /\ \A d \in Blocks : own'[d] = "list" =>
           own[d] = "list" /\ \A m \in S : ~(freedata[m] /\ data[m] = d)
  BY <1>1, FreeOwned
<1>3. Owned'
  BY <1>1, <1>2 DEF Owned
<1>4. Borrowed'
  BY <1>1, <1>2 DEF Borrowed
<1>5. CopyHasOneOwner'
  <2> SUFFICES ASSUME NEW d \in Blocks, own'[d] = "list"
               PROVE  \E k \in alloc' : /\ freedata'[k] /\ data'[k] = d
                        /\ \A m \in alloc' \ {k} : ~(freedata'[m] /\ data'[m] = d)
    BY DEF CopyHasOneOwner
  <2>1. PICK k \in alloc : /\ freedata[k] /\ data[k] = d
                           /\ \A m \in alloc \ {k} : ~(freedata[m] /\ data[m] = d)
    BY <1>2 DEF CopyHasOneOwner
  <2>2. QED
    BY <1>1, <1>2, <2>1
<1>6. QED
  BY <1>1, <1>2, <1>3, <1>4, <1>5 DEF NoBadFree

LEMMA UserKeepsOwners ==
  ASSUME OwnInv, NEW b \in Blocks, (\E v \in Values : UserAlloc(b, v)) \/ UserFree(b)
  PROVE  Owners'
<1> USE DEF OwnInv, Owners, HeapInv
<1>1. /\ UNCHANGED <<alloc, known, data, freedata, badfree>>
      /\ own[b] # "list" /\ own'[b] # "list" /\ \A d \in Blocks \ {b} : own'[d] = own[d]
      /\ own[b] = "none" \/ \A m \in known : data[m] # b
  BY DEF UserAlloc, UserFree, TypeOK
<1>2. Owned'
  BY <1>1 DEF Owned
<1>3. Borrowed'
  BY <1>1 DEF Borrowed, TypeOK
<1>4. CopyHasOneOwner'
  BY <1>1 DEF CopyHasOneOwner
<1>5. QED
  BY <1>1, <1>2, <1>3, <1>4 DEF NoBadFree

LEMMA OwnStep ==
  ASSUME Junk = {FALSE}
  PROVE  OwnInv /\ [Next]_vars => OwnInv'
<1> SUFFICES ASSUME OwnInv, [Next]_vars PROVE OwnInv'
  OBVIOUS
<1>1. ASSUME NEW c \in Nodes, LcpaInit(c) PROVE Owners'
  BY <1>1, CreateKeepsOwners
<1>2. ASSUME NEW n \in known, NEW c \in Nodes, NEW b \in Blocks,
             \/ \E v \in Values : AppendCopy(n, c, b, v) \/ InsertCopy(n, c, b, v)
             \/ AppendLent(n, c, b)
             \/ InsertLent(n, c, b)
      PROVE  Owners'
  <2>1. /\ Malloc(c)
        /\ (\E v \in Values : Copied(c, b, v)) \/ Lent(c, b, FALSE)
    BY <1>2 DEF AppendCopy, InsertCopy, AppendLent, InsertLent
  <2>2. QED
    BY <2>1, CopyKeepsOwners, LoanKeepsOwners
<1>3. ASSUME NEW n \in known, NEW b \in Blocks,
             (\E v \in Values : ReplaceCopy(n, b, v)) \/ ReplaceLent(n, b)
      PROVE  Owners'
  BY <1>3, ReplaceKeepsOwners
<1>4. ASSUME NEW n \in known, LcpaFree(n) PROVE Owners'
  BY <1>4, FreeKeepsOwners
<1>5. ASSUME UNCHANGED vars \/ \E n \in known : LcpaFreeze(n) PROVE Owners'
  <2>1. UNCHANGED <<alloc, known, data, freedata, own, badfree>>
    BY <1>5 DEF vars, links, blocks, LcpaFreeze
  <2>2. Owned' /\ Borrowed'
    BY <2>1 DEF OwnInv, Owners, Owned, Borrowed
  <2>3. CopyHasOneOwner' /\ NoBadFree'
    BY <2>1 DEF OwnInv, Owners, CopyHasOneOwner, NoBadFree
  <2>4. QED
    BY <2>2, <2>3 DEF Owners
<1>6. ASSUME NEW b \in Blocks, (\E v \in Values : UserAlloc(b, v)) \/ UserFree(b)
      PROVE  Owners'
  BY <1>6, UserKeepsOwners
<1>7. Owners'
  BY <1>1, <1>2, <1>3, <1>4, <1>5, <1>6 DEF Next
<1>8. HeapInv'
  BY HeapStep DEF OwnInv
<1>9. QED
  BY <1>7, <1>8 DEF OwnInv

(* The library frees neither what is the user's nor anything twice, as     *)
(* long as the flag of a component that lcpa_insert made reads as false.   *)
THEOREM FreesItsOwn ==
  ASSUME Junk = {FALSE}
  PROVE  Spec => []NoBadFree
<1>1. OwnInv => NoBadFree
  BY DEF OwnInv, Owners
<1>2. OwnInv /\ [Next]_vars => OwnInv'
  BY OwnStep
<1>3. QED
  BY <1>1, <1>2, OwnStarts, PTL DEF Spec

(* Under the same condition every copy has exactly one component that will *)
(* free it.                                                                *)
THEOREM CopiesOwned ==
  ASSUME Junk = {FALSE}
  PROVE  Spec => []CopyHasOneOwner
<1>1. OwnInv => CopyHasOneOwner
  BY DEF OwnInv, Owners
<1>2. OwnInv /\ [Next]_vars => OwnInv'
  BY OwnStep
<1>3. QED
  BY <1>1, <1>2, OwnStarts, PTL DEF Spec
-----------------------------------------------------------------------------
(***************************************************************************)
(* The lists as sequences: what the mapping of module Packasm gives for    *)
(* the variables of module PacketSeq, and how each call changes it.        *)
(***************************************************************************)
Lists   == {Chain[n] : n \in {m \in known : prev[m] = Null}}
Content == [n \in Nodes |-> IF n \notin known \/ data[n] = Null THEN Null
                                                              ELSE mem[data[n]]]

LEMMA MappedInit == Init => Abstract!Init
BY DEF Init, Abstract!Init

LEMMA MappedLists ==
  ASSUME TypeOK, NEW lst, NEW pos, Linked(known, prev, next, lst, pos)
  PROVE  /\ Lists = {lst[m] : m \in known}
         /\ Abstract!Parts = known
         /\ \A n \in known : Abstract!ListOf(n) = lst[n]
<1>1. Null \notin known
  BY KnownApart
<1>2. Lists = {lst[m] : m \in known}
  <2>1. Chain = ChainOf(known, next)
    BY LoopsAre
  <2>2. HeadChains(known, prev, next) = ListSet(known, lst)
    BY <1>1, ListsAre
  <2>3. QED
    BY <2>1, <2>2 DEF Lists, HeadChains, ListSet
<1>3. ASSUME NEW n \in known PROVE ToSet(lst[n]) = {m \in known : lst[m] = lst[n]}
  BY Members DEF Linked
<1>4. Abstract!Parts = UNION {ToSet(l) : l \in Lists}
  BY DEF Abstract!Parts, Lists, Abstract!ToSet, ToSet
<1>5. Abstract!Parts = known
  BY <1>2, <1>3, <1>4
<1>6. ASSUME NEW n \in known PROVE Abstract!ListOf(n) = lst[n]
  <2>1. Abstract!ListOf(n) = CHOOSE l \in Lists : n \in ToSet(l)
    BY DEF Abstract!ListOf, Lists, Abstract!ToSet, ToSet
  <2>2. lst[n] \in Lists /\ n \in ToSet(lst[n])
    BY <1>2, <1>3
  <2>3. \A l \in Lists : n \in ToSet(l) => l = lst[n]
    BY <1>2, <1>3
  <2>4. QED
    BY <2>1, <2>2, <2>3
<1>7. QED
  BY <1>2, <1>5, <1>6

LEMMA MappedListsNext ==
  ASSUME TypeOK', NEW lst, NEW pos, Linked(known', prev', next', lst, pos)
  PROVE  Lists' = {lst[m] : m \in known'}
<1>1. Null \notin known'
  BY NullApart DEF TypeOK
<1>2. Lists' = {Chain'[n] : n \in {m \in known' : prev'[m] = Null}}
  BY DEF Lists
<1>3. Chain' = ChainOf(known', next')
  BY LoopsAre
<1>4. HeadChains(known', prev', next') = ListSet(known', lst)
  BY <1>1, ListsAre
<1>5. QED
  BY <1>2, <1>3, <1>4 DEF HeadChains, ListSet

(* The content of a component in use is that of its data.                  *)
LEMMA MappedContent ==
  /\ Content = [n \in Nodes |-> IF n \in known /\ data[n] # Null
                               THEN mem[data[n]] ELSE Null]
  /\ \A n \in Nodes : Content[n] = IF n \in known /\ data[n] # Null
                                  THEN mem[data[n]] ELSE Null
  /\ Content' = [n \in Nodes |-> IF n \in known' /\ data'[n] # Null
                               THEN mem'[data'[n]] ELSE Null]
BY DEF Content

LEMMA CreateMaps ==
  ASSUME OwnInv, NEW c \in Nodes, LcpaInit(c)
  PROVE  c \notin known /\ Abstract!NewList(c)
<1> USE DEF OwnInv, HeapInv
<1>1. PICK lst, pos : Linked(known, prev, next, lst, pos)
  BY DEF InLists
<1>2. PICK p : Linked(known', prev', next', WithNew(lst, c), p)
  BY <1>1, Created
<1>3. /\ c \notin known /\ known' = known \cup {c} /\ known \subseteq Nodes
      /\ data' = [data EXCEPT ![c] = Null] /\ UNCHANGED mem /\ frame' = <<>>
  BY DEF LcpaInit, Malloc, blocks, TypeOK
<1>4. Lists' = Lists \cup {<<c>>}
  <2>1. Lists = {lst[m] : m \in known}
    BY <1>1, MappedLists
  <2>2. Lists' = {WithNew(lst, c)[m] : m \in known'}
    BY <1>2, CreateKeepsHeap, MappedListsNext
  <2>3. /\ WithNew(lst, c)[c] = <<c>>
        /\ \A m \in known : WithNew(lst, c)[m] = lst[m]
    BY <1>3 DEF WithNew
  <2>4. QED
    BY <1>3, <2>1, <2>2, <2>3
<1>5. Content' = Content
  BY <1>3, MappedContent DEF TypeOK
<1>6. QED
  BY <1>3, <1>4, <1>5 DEF Abstract!NewList, Lists, Content

(* Lending or copying data to a new component gives it a value and leaves  *)
(* the contents of the others.                                             *)
LEMMA AddedContent ==
  ASSUME OwnInv, NEW c, NEW b \in Blocks, NEW v \in Values, Malloc(c),
         Copied(c, b, v) \/ (Lent(c, b, FALSE) /\ v = mem[b])
  PROVE  Content' = [Content EXCEPT ![c] = v]
<1> USE DEF OwnInv, HeapInv, Owners
<1>1. /\ c \in Nodes /\ c \notin known /\ known' = known \cup {c}
      /\ known \subseteq alloc /\ known \subseteq Nodes
  BY DEF Malloc, TypeOK
<1>2. /\ data'[c] = b /\ b # Null
      /\ \A m \in known : data'[m] = data[m]
  BY <1>1, NullApart DEF Copied, Lent, TypeOK
<1>3. mem'[b] = v
  BY DEF Copied, Lent, blocks, TypeOK
<1>4. ASSUME NEW m \in known, data[m] # Null
      PROVE  mem'[data[m]] = mem[data[m]]
  <2>1. data[m] \in Blocks /\ own[data[m]] # "none"
    BY <1>1, <1>4 DEF Owned, Borrowed, TypeOK
  <2>2. CASE Copied(c, b, v)
    BY <2>1, <2>2 DEF Copied, TypeOK
  <2>3. CASE Lent(c, b, FALSE)
    BY <2>3 DEF Lent, blocks
  <2>4. QED
    BY <2>2, <2>3
<1> DEFINE C == [Content EXCEPT ![c] = v]
<1>5. ASSUME NEW m \in Nodes
      PROVE  C[m] = IF m \in known' /\ data'[m] # Null THEN mem'[data'[m]] ELSE Null
  <2>1. C[m] = IF m = c THEN v ELSE Content[m]
    BY <1>1, MappedContent
  <2>2. QED
    BY <1>1, <1>2, <1>3, <1>4, <2>1, MappedContent
<1>6. C = [m \in Nodes |-> C[m]]
  BY MappedContent
<1>7. QED
  BY <1>5, <1>6, MappedContent

LEMMA AppendMaps ==
  ASSUME OwnInv, NEW n \in known, NEW c \in Nodes, NEW b \in Blocks, NEW v \in Values,
         Malloc(c), AtEnd(n, c), frame' = <<>>,
         Copied(c, b, v) \/ (Lent(c, b, FALSE) /\ v = mem[b])
  PROVE  c \notin known /\ Abstract!AppendPart(n, c, v)
<1> USE DEF OwnInv, HeapInv
<1>1. PICK lst, pos : Linked(known, prev, next, lst, pos)
  BY DEF InLists
<1>2. PICK p : Linked(known', prev', next', WithEnd(known, lst, n, c), p)
  BY <1>1, Appended
<1>3. c \notin known /\ known' = known \cup {c}
  BY DEF Malloc, TypeOK
<1>4. HeapInv'
  BY AddKeepsHeap
<1>5. Lists' = (Lists \ {lst[n]}) \cup {Append(lst[n], c)}
  <2>1. Lists = {lst[m] : m \in known}
    BY <1>1, MappedLists
  <2>2. Lists' = {WithEnd(known, lst, n, c)[m] : m \in known'}
    BY <1>2, <1>4, MappedListsNext
  <2>3. /\ WithEnd(known, lst, n, c)[c] = Append(lst[n], c)
        /\ \A m \in known : WithEnd(known, lst, n, c)[m] =
                              IF lst[m] = lst[n] THEN Append(lst[n], c) ELSE lst[m]
    BY <1>3 DEF WithEnd
  <2>4. QED
    BY <1>3, <2>1, <2>2, <2>3
<1>6. Abstract!ListOf(n) = lst[n]
  BY <1>1, MappedLists
<1>7. Content' = [Content EXCEPT ![c] = v]
  BY AddedContent
<1>8. QED
  BY <1>3, <1>5, <1>6, <1>7 DEF Abstract!AppendPart, Abstract!Change, Lists, Content

LEMMA InsertMaps ==
  ASSUME OwnInv, NEW n \in known, NEW c \in Nodes, NEW b \in Blocks, NEW v \in Values,
         Malloc(c), After(n, c), frame' = <<>>,
         Copied(c, b, v) \/ (Lent(c, b, FALSE) /\ v = mem[b])
  PROVE  c \notin known /\ Abstract!InsertPart(n, c, v)
<1> USE DEF OwnInv, HeapInv
<1>1. PICK lst, pos : Linked(known, prev, next, lst, pos)
  BY DEF InLists
<1>2. PICK p : Linked(known', prev', next', WithAfter(lst, pos, n, c), p)
  BY <1>1, Inserted
<1>3. c \notin known /\ known' = known \cup {c}
  BY DEF Malloc, TypeOK
<1>4. HeapInv'
  BY AddKeepsHeap
<1> DEFINE new == InsertAt(lst[n], pos[n] + 1, c)
<1>5. Lists' = (Lists \ {lst[n]}) \cup {new}
  <2>1. Lists = {lst[m] : m \in known}
    BY <1>1, MappedLists
  <2>2. Lists' = {WithAfter(lst, pos, n, c)[m] : m \in known'}
    BY <1>2, <1>4, MappedListsNext
  <2>3. /\ WithAfter(lst, pos, n, c)[c] = new
        /\ \A m \in known : WithAfter(lst, pos, n, c)[m] =
                              IF lst[m] = lst[n] THEN new ELSE lst[m]
    BY <1>3 DEF WithAfter
  <2> HIDE DEF new
  <2>4. QED
    BY <1>3, <2>1, <2>2, <2>3
<1>6. Abstract!ListOf(n) = lst[n]
  BY <1>1, MappedLists
<1>7. Content' = [Content EXCEPT ![c] = v]
  BY AddedContent
<1>8. pos[n] \in DOMAIN lst[n] /\ lst[n][pos[n]] = n
  BY <1>1, PlaceFacts DEF Linked
<1>9. QED
  BY <1>3, <1>5, <1>6, <1>7, <1>8
     DEF Abstract!InsertPart, Abstract!Change, Abstract!InsertAt, InsertAt, Lists, Content

LEMMA ReplaceMaps ==
  ASSUME OwnInv, NEW n \in known, NEW b \in Blocks,
         (\E v \in Values : ReplaceCopy(n, b, v)) \/ ReplaceLent(n, b)
  PROVE  \E v \in Values : Abstract!ReplacePart(n, v)
<1> USE DEF OwnInv, HeapInv, Owners
<1> DEFINE O == OwnAfterFree({n})
<1>1. PICK v \in Values : /\ mem' = mem \/ O[b] = "none"
                          /\ mem'[b] = v
                          /\ \A d \in Blocks \ {b} : mem'[d] = mem[d]
  BY DEF ReplaceCopy, ReplaceLent, TypeOK
<1>2. /\ UNCHANGED <<known, prev, next>> /\ frame' = <<>>
      /\ n \in Nodes /\ known \subseteq alloc /\ known \subseteq Nodes
      /\ data' = [data EXCEPT ![n] = b] /\ b # Null
  BY NullApart DEF ReplaceCopy, ReplaceLent, links, TypeOK
<1>3. ASSUME NEW m \in known \ {n}, data[m] # Null
      PROVE  mem'[data[m]] = mem[data[m]]
  <2>1. O[data[m]] # "none"
    BY <1>2, <1>3, FreeOwned
  <2>2. data[m] \in Blocks
    BY <1>2, <1>3 DEF TypeOK
  <2>3. QED
    BY <1>1, <2>1, <2>2
<1>4. Lists' = Lists
  <2>1. Chain' = Chain
    BY <1>2, LoopsAre
  <2>2. QED
    BY <1>2, <2>1 DEF Lists
<1>5. Content' = [Content EXCEPT ![n] = v]
  <2> DEFINE C == [Content EXCEPT ![n] = v]
  <2>1. ASSUME NEW m \in Nodes
        PROVE  C[m] = IF m \in known' /\ data'[m] # Null THEN mem'[data'[m]] ELSE Null
    <3>1. C[m] = IF m = n THEN v ELSE Content[m]
      BY <1>2, MappedContent
    <3>2. CASE m = n
      BY <1>1, <1>2, <3>1, <3>2 DEF TypeOK
    <3>3. CASE m # n
      <4>1. data'[m] = data[m]
        BY <1>2, <3>3 DEF TypeOK
      <4>2. QED
        BY <1>2, <1>3, <3>1, <3>3, <4>1, MappedContent
    <3>4. QED
      BY <3>2, <3>3
  <2>2. C = [m \in Nodes |-> C[m]]
    BY MappedContent
  <2>3. QED
    BY <2>1, <2>2, MappedContent
<1>6. Abstract!ReplacePart(n, v)
  BY <1>2, <1>4, <1>5 DEF Abstract!ReplacePart, Lists, Content
<1>7. QED
  BY <1>6

LEMMA FreeMaps ==
  ASSUME OwnInv, NEW n \in known, LcpaFree(n)
  PROVE  Abstract!FreeList(n)
<1> USE DEF OwnInv, HeapInv
<1>1. PICK lst, pos : Linked(known, prev, next, lst, pos)
  BY DEF InLists
<1>2. PICK p : Linked(known', prev', next', Without(known, lst, n), p)
  BY <1>1, Freed
<1> DEFINE all == ToSet(lst[n])
<1>3. /\ known' = known \ all /\ UNCHANGED <<data, mem>> /\ frame' = <<>>
      /\ known \subseteq Nodes
  BY <1>1, LoopsGo DEF LcpaFree, TypeOK
<1>4. all = {m \in known : lst[m] = lst[n]}
  BY <1>1, Members DEF Linked
<1>5. Lists' = Lists \ {lst[n]}
  <2>1. Lists = {lst[m] : m \in known}
    BY <1>1, MappedLists
  <2>2. Lists' = {Without(known, lst, n)[m] : m \in known'}
    BY <1>2, FreeKeepsHeap, MappedListsNext
  <2>3. \A m \in known' : Without(known, lst, n)[m] = lst[m]
    BY <1>3 DEF Without
  <2> HIDE DEF all
  <2>4. QED
    BY <1>3, <1>4, <2>1, <2>2, <2>3
<1>6. Content' = [m \in Nodes |-> IF m \in all THEN Null ELSE Content[m]]
  <2> HIDE DEF all
  <2>1. QED
    BY <1>3, MappedContent
<1>7. Abstract!ListOf(n) = lst[n]
  BY <1>1, MappedLists
<1>8. QED
  BY <1>3, <1>5, <1>6, <1>7
     DEF Abstract!FreeList, Abstract!ToSet, ToSet, Lists, Content

LEMMA FreezeMaps ==
  ASSUME OwnInv, NEW n \in known, LcpaFreeze(n)
  PROVE  Abstract!FreezeList(n)
<1> USE DEF OwnInv, HeapInv
<1>1. PICK lst, pos : Linked(known, prev, next, lst, pos)
  BY DEF InLists
<1> DEFINE s == lst[n]
<1>2. UNCHANGED <<known, prev, next, data, mem>> /\ frame' = Contents(Tail(s))
  BY <1>1, LoopsGo DEF LcpaFreeze, links, blocks
<1>3. /\ s \in Seq(known) /\ Len(s) \in Nat /\ Len(s) >= 1
      /\ \A i \in 1 .. Len(s) : s[i] \in known
      /\ known \subseteq Nodes
  BY <1>1, LoopsGo DEF TypeOK
<1> HIDE DEF s
<1>4. /\ DOMAIN Tail(s) = 1 .. (Len(s) - 1)
      /\ \A k \in 1 .. (Len(s) - 1) : Tail(s)[k] = s[k + 1] /\ k + 1 \in 1 .. Len(s)
  BY <1>3
<1>5. \A k \in 1 .. (Len(s) - 1) :
        Content[s[k + 1]] = IF data[Tail(s)[k]] = Null THEN Null ELSE mem[data[Tail(s)[k]]]
  <2> SUFFICES ASSUME NEW k \in 1 .. (Len(s) - 1)
               PROVE  Content[s[k + 1]] = IF data[Tail(s)[k]] = Null THEN Null
                                          ELSE mem[data[Tail(s)[k]]]
    OBVIOUS
  <2>1. Tail(s)[k] \in known /\ Tail(s)[k] = s[k + 1]
    BY <1>3, <1>4
  <2>2. QED
    BY <1>3, <2>1, MappedContent
<1>6. frame' = [k \in 1 .. (Len(s) - 1) |-> Content[s[k + 1]]]
  BY <1>2, <1>4, <1>5 DEF Contents
<1>7. Lists' = Lists
  <2>1. Chain' = Chain
    BY <1>2, LoopsAre
  <2>2. QED
    BY <1>2, <2>1 DEF Lists
<1>8. Content' = Content
  BY <1>2 DEF Content
<1> DEFINE L == Abstract!ListOf(n)
<1>9. L = s
  BY <1>1, MappedLists DEF s
<1> HIDE DEF L
<1>10. frame' = [k \in 1 .. (Len(L) - 1) |-> Content[L[k + 1]]]
  BY <1>6, <1>9
<1>11. QED
  BY <1>7, <1>8, <1>10 DEF L, Abstract!FreezeList, Lists, Content

(* What the user does with memory of its own changes no list's contents.   *)
LEMMA UserMaps ==
  ASSUME OwnInv, NEW b \in Blocks, (\E v \in Values : UserAlloc(b, v)) \/ UserFree(b)
  PROVE  UNCHANGED <<Lists, Content, frame>>
<1> USE DEF OwnInv, HeapInv, Owners
<1>1. UNCHANGED <<known, prev, next, data, frame>>
  BY DEF UserAlloc, UserFree, links
<1>2. ASSUME NEW m \in known, data[m] # Null
      PROVE  mem'[data[m]] = mem[data[m]]
  <2>1. data[m] \in Blocks /\ own[data[m]] # "none"
    BY <1>2 DEF Owned, Borrowed, TypeOK
  <2>2. QED
    BY <2>1 DEF UserAlloc, UserFree, TypeOK
<1>3. Lists' = Lists
  <2>1. Chain' = Chain
    BY <1>1, LoopsAre
  <2>2. QED
    BY <1>1, <2>1 DEF Lists
<1>4. Content' = Content
  BY <1>1, <1>2, MappedContent
<1>5. QED
  BY <1>1, <1>3, <1>4

LEMMA StepMaps ==
  ASSUME Junk = {FALSE}, OwnInv, [Next]_vars
  PROVE  Abstract!Next \/ UNCHANGED <<Lists, Content, frame>>
<1>1. known \subseteq Nodes /\ Abstract!Parts = known
  <2>1. PICK lst, pos : Linked(known, prev, next, lst, pos)
    BY DEF OwnInv, HeapInv, InLists
  <2>2. QED
    BY <2>1, MappedLists, KnownApart DEF OwnInv, HeapInv
<1>2. ASSUME NEW c \in Nodes, LcpaInit(c) PROVE Abstract!Next
  BY <1>1, <1>2, CreateMaps DEF Abstract!Next
<1>3. ASSUME NEW n \in known, NEW c \in Nodes, NEW b \in Blocks,
             \/ \E v \in Values : AppendCopy(n, c, b, v) \/ InsertCopy(n, c, b, v)
             \/ AppendLent(n, c, b)
             \/ InsertLent(n, c, b)
      PROVE  Abstract!Next
  <2>1. mem[b] \in Values
    BY DEF OwnInv, HeapInv, TypeOK
  <2>2. PICK v \in Values :
          /\ Malloc(c) /\ (AtEnd(n, c) \/ After(n, c)) /\ frame' = <<>>
          /\ Copied(c, b, v) \/ (Lent(c, b, FALSE) /\ v = mem[b])
    BY <1>3, <2>1 DEF AppendCopy, InsertCopy, AppendLent, InsertLent
  <2>3. c \notin known /\ (Abstract!AppendPart(n, c, v) \/ Abstract!InsertPart(n, c, v))
    BY <2>2, AppendMaps, InsertMaps
  <2>4. QED
    BY <1>1, <2>3 DEF Abstract!Next
<1>4. ASSUME NEW n \in known, NEW b \in Blocks,
             (\E v \in Values : ReplaceCopy(n, b, v)) \/ ReplaceLent(n, b)
      PROVE  Abstract!Next
  BY <1>1, <1>4, ReplaceMaps DEF Abstract!Next
<1>5. ASSUME NEW n \in known, LcpaFree(n) \/ LcpaFreeze(n) PROVE Abstract!Next
  BY <1>1, <1>5, FreeMaps, FreezeMaps DEF Abstract!Next
<1>6. ASSUME NEW b \in Blocks, (\E v \in Values : UserAlloc(b, v)) \/ UserFree(b)
      PROVE  UNCHANGED <<Lists, Content, frame>>
  BY <1>6, UserMaps
<1>7. CASE UNCHANGED vars
  <2>1. UNCHANGED <<known, prev, next, data, mem, frame>>
    BY <1>7 DEF vars, links, blocks
  <2>2. Chain' = Chain
    BY <2>1, LoopsAre
  <2>3. QED
    BY <2>1, <2>2 DEF Lists, Content
<1>8. QED
  BY <1>2, <1>3, <1>4, <1>5, <1>6, <1>7 DEF Next

(* The linked lists are sequences of components to the user: every call,   *)
(* whatever component of a list it is given, does to the whole list what   *)
(* lorcon_packasm.h says, as long as a flag nobody wrote reads as false.   *)
THEOREM ListsAreSequences ==
  ASSUME Junk = {FALSE}
  PROVE  Spec => RefinesSequences
<1>1. Init => OwnInv /\ Abstract!Init
  BY OwnStarts, MappedInit
<1>2. OwnInv /\ [Next]_vars => OwnInv'
  BY OwnStep
<1>3. OwnInv /\ [Next]_vars => [Abstract!Next]_<<Lists, Content, frame>>
  BY StepMaps
<1>4. QED
  BY <1>1, <1>2, <1>3, PTL DEF Spec, RefinesSequences, Abstract!Spec, Lists, Content
=============================================================================
