---------------------------- MODULE SessionProofs ----------------------------
(***************************************************************************)
(* What holds of module Session for every set of handles, interfaces and   *)
(* descriptors, for a client that keeps to the order lorcon.3 gives.       *)
(***************************************************************************)
EXTENDS Session, TLAPS

(* The descriptor socket() returns was free. *)
LEMMA LowestIsFree ==
  ASSUME NEW f, NEW d \in Lowest(f)
  PROVE  d \in Fds /\ f[d] = Free
BY DEF Lowest

LEMMA ZeroIsFd == 0 \in Fds
BY MaxFdAssumption DEF Fds

(* close() keeps a table a table and touches one entry. *)
LEMMA CloseType ==
  ASSUME NEW S, Free \in S, NEW f \in [Fds -> S], NEW d
  PROVE  /\ AfterClose(f, d) \in [Fds -> S]
         /\ \A e \in Fds : e # d => AfterClose(f, d)[e] = f[e]
         /\ d \in Fds => AfterClose(f, d)[d] = Free
BY DEF AfterClose, IsOpen

LEMMA BoundType ==
  ASSUME TypeOK, NEW h \in Handles, BoundSocket(h)
  PROVE  /\ fd' \in [Fds -> Handles \cup {Free, Client, Lost}]
         /\ raw' \in [Handles -> Fds \cup {NoFd}]
BY LowestIsFree DEF BoundSocket, TypeOK, SetRaw

LEMMA OpenSocketType ==
  ASSUME TypeOK, NEW h \in Handles, OpenSocket(h)
  PROVE  /\ fd' \in [Fds -> Handles \cup {Free, Client, Lost}]
         /\ raw' \in [Handles -> Fds \cup {NoFd}]
         /\ phase' \in [Handles -> Phases]
BY BoundType, LowestIsFree DEF OpenSocket, TypeOK, SetRaw, SetPhase, Phases

-----------------------------------------------------------------------------
(* A handle has an interface from tx80211_init on, and no two the same. *)
Named ==
  /\ \A h \in Handles : phase[h] = "none" <=> ifn[h] = NoIface
  /\ \A g, h \in Handles : ifn[g] = ifn[h] /\ g # h => ifn[h] = NoIface

(* startingmacset is only set together with an address read from a card. *)
Recorded == \A h \in Handles : macset[h] => startmac[h] \in Macs

(* TypeOK is not inductive alone: a selfack writes startingmac to the card *)
(* its handle names.                                                       *)
TypeInv == TypeOK /\ Named /\ Recorded

LEMMA TypeInvInit == Init => TypeInv
<1> SUFFICES ASSUME Init PROVE TypeInv
  OBVIOUS
<1>1. fd \in [Fds -> Handles \cup {Free, Client, Lost}]
  BY DEF Init
<1>2. raw \in [Handles -> Fds \cup {NoFd}]
  BY ZeroIsFd DEF Init
<1>3. QED
  BY <1>1, <1>2 DEF Init, TypeInv, TypeOK, Named, Recorded, Phases, Replies

LEMMA TypeInvStep == TypeInv /\ [Next]_vars => TypeInv'
<1> SUFFICES ASSUME TypeInv, [Next]_vars PROVE TypeInv'
  OBVIOUS
<1> USE DEF handleVars, ifaceVars, TypeInv
<1>1. ASSUME NEW h \in Handles, NEW d \in Injectors, NEW i \in Ifaces,
             InitHandle(h, d, i)
      PROVE  TypeInv'
  <2>1. TypeOK'
    BY <1>1, ZeroIsFd DEF InitHandle, TypeOK, SetPhase, SetRaw, Answer, Phases,
                          Replies
  <2>2. Named' /\ Recorded'
    BY <1>1, SessionAssumption
    DEF InitHandle, TypeOK, SetPhase, Named, Recorded, Phases
  <2>3. QED
    BY <2>1, <2>2
<1>2. ASSUME NEW h \in Handles, SetFuncmode(h)
      PROVE  TypeInv'
  <2>1. TypeOK'
    BY <1>2 DEF SetFuncmode, WtinjSetFuncmode, TypeOK, SetPhase,
                SetUp, Phases
  <2>2. Named' /\ Recorded'
    BY <1>2 DEF SetFuncmode, WtinjSetFuncmode, TypeOK, SetPhase,
                Named, Recorded
  <2>3. QED
    BY <2>1, <2>2
<1>b. ASSUME NEW h \in Handles, SetMode(h)
      PROVE  TypeInv'
  <2>1. TypeOK'
    BY <1>b DEF SetMode, WtinjSetmode, WginjSetmode, AjSetmode, TypeOK, SetPhase,
                Phases
  <2>2. Named' /\ Recorded'
    BY <1>b DEF SetMode, WtinjSetmode, WginjSetmode, AjSetmode, TypeOK, SetPhase,
                Named, Recorded
  <2>3. QED
    BY <2>1, <2>2
<1>3. ASSUME NEW h \in Handles, Open(h)
      PROVE  TypeInv'
  <2>1. /\ fd' \in [Fds -> Handles \cup {Free, Client, Lost}]
        /\ raw' \in [Handles -> Fds \cup {NoFd}]
        /\ SetPhase(h, "open") \/ UNCHANGED phase
    <3>1. CASE OpenSocket(h)
      BY <3>1, OpenSocketType DEF OpenSocket
    <3>2. CASE BoundSocket(h) /\ (SetPhase(h, "open") \/ UNCHANGED phase)
      BY <3>2, BoundType
    <3>3. CASE UNCHANGED <<fd, phase>> /\ (SetRaw(h, NoFd) \/ UNCHANGED raw)
      BY <3>3 DEF TypeOK, SetRaw
    <3>4. CASE /\ \E d \in Lowest(fd) : fd' = [fd EXCEPT ![d] = Lost]
               /\ UNCHANGED <<raw, phase>>
      BY <3>4, LowestIsFree DEF TypeOK
    <3>5. QED
      BY <1>3, <3>1, <3>2, <3>3, <3>4
      DEF Open, WtinjOpen, RtOpen, AirjackOpen, Bcm43xxOpen, MadwifioldOpen
  <2>2. up' \in [Ifaces -> BOOLEAN] /\ rfmontx' \in [Ifaces -> BOOLEAN]
    BY <1>3 DEF Open, WtinjOpen, RtOpen, SetUp, TypeOK
  <2>3. phase[h] = "ready" /\ UNCHANGED <<drv, ifn, macset, startmac, monitor,
                                          hw, reply, alive>>
    BY <1>3 DEF Open
  <2>4. TypeOK'
    BY <2>1, <2>2, <2>3 DEF TypeOK, SetPhase, Phases
  <2>5. Named' /\ Recorded'
    BY <2>1, <2>3 DEF TypeOK, SetPhase, Named, Recorded
  <2>6. QED
    BY <2>4, <2>5
<1>4. ASSUME NEW h \in Handles, Close(h)
      PROVE  TypeInv'
  <2>1. \/ fd' = AfterClose(fd, raw[h])
        \/ UNCHANGED fd
    BY <1>4 DEF Close, RestoreMac, DriverClose, RtClose, WtinjClose, Bcm43xxClose
  <2>2. fd' \in [Fds -> Handles \cup {Free, Client, Lost}]
    <3>1. Free \in Handles \cup {Free, Client, Lost}
      OBVIOUS
    <3>2. AfterClose(fd, raw[h]) \in [Fds -> Handles \cup {Free, Client, Lost}]
      BY <3>1, CloseType DEF TypeOK
    <3>3. QED
      BY <2>1, <3>2 DEF TypeOK
  <2>3. /\ raw' \in [Handles -> Fds \cup {NoFd}]
        /\ SetPhase(h, "closed") \/ UNCHANGED phase
        /\ up' \in [Ifaces -> BOOLEAN]
        /\ rfmontx' \in [Ifaces -> BOOLEAN]
        /\ alive' \in BOOLEAN
    BY <1>4 DEF Close, RestoreMac, DriverClose, RtClose, WtinjClose,
                Bcm43xxClose, TypeOK, SetUp, SetRaw
  <2>4. /\ phase[h] # "none"
        /\ Answer(h, "none")
        /\ UNCHANGED <<drv, ifn, macset, startmac, monitor, hw>>
    BY <1>4 DEF Close
  <2>5. TypeOK'
    BY <2>2, <2>3, <2>4 DEF TypeOK, Answer, Replies, SetPhase, Phases
  <2>6. Named' /\ Recorded'
    BY <2>3, <2>4 DEF TypeOK, SetPhase, Named, Recorded
  <2>7. QED
    BY <2>5, <2>6
<1>5. ASSUME NEW h \in Handles, TxPacket(h)
      PROVE  TypeInv'
  BY <1>5 DEF TxPacket, TypeOK, Answer, Replies, Named, Recorded
<1>6. ASSUME NEW h \in Handles, NEW addr \in Macs, SelfAck(h, addr)
      PROVE  TypeInv'
  <2>1. CASE UNCHANGED <<macset, startmac, up, hw>> /\ Answer(h, "error")
    BY <1>6, <2>1 DEF SelfAck, TypeOK, Answer, Replies, Named, Recorded
  <2>2. ASSUME NEW mac,
               mac = IF macset[h] THEN startmac[h] ELSE hw[ifn[h]],
               macset' = [macset EXCEPT ![h] = TRUE],
               startmac' = [startmac EXCEPT ![h] = mac],
               WtinjSelfack(h, addr, mac)
        PROVE  TypeInv'
    <3>1. ifn[h] \in Ifaces
      BY <1>6 DEF SelfAck, Named, TypeOK
    <3>2. mac \in Macs
      BY <2>2, <3>1 DEF Recorded, TypeOK
    <3>3. TypeOK'
      <4>1. /\ up' \in [Ifaces -> BOOLEAN]
            /\ hw' \in [Ifaces -> Macs]
            /\ reply' \in [Handles -> Replies]
        <5>1. WtinjSelfack(h, addr, mac)
          BY <2>2
        <5>2. up' \in [Ifaces -> BOOLEAN]
          BY <5>1 DEF WtinjSelfack, TypeOK, SetUp
        <5>3. hw' \in [Ifaces -> Macs]
          BY <5>1, <3>2 DEF WtinjSelfack, TypeOK
        <5>4. reply' \in [Handles -> Replies]
          BY <5>1 DEF WtinjSelfack, TypeOK, Answer, Replies
        <5>5. QED
          BY <5>2, <5>3, <5>4
      <4>2. macset' \in [Handles -> BOOLEAN]
        BY <2>2 DEF TypeOK
      <4>3. startmac' \in [Handles -> Macs \cup {ZeroMac}]
        BY <2>2, <3>2 DEF TypeOK
      <4>4. QED
        BY <1>6, <4>1, <4>2, <4>3 DEF SelfAck, TypeOK
    <3>4. Named' /\ Recorded'
      BY <1>6, <2>2, <3>2 DEF SelfAck, Named, Recorded, TypeOK
    <3>5. QED
      BY <3>3, <3>4
  <2>3. QED
    BY <1>6, <2>1, <2>2 DEF SelfAck
<1>7. ASSUME ClientOpen
      PROVE  TypeInv'
  BY <1>7, LowestIsFree DEF ClientOpen, TypeOK, Named, Recorded
<1>8. ASSUME NEW d \in Fds, ClientClose(d)
      PROVE  TypeInv'
  BY <1>8 DEF ClientClose, TypeOK, Named, Recorded
<1>9. CASE UNCHANGED vars
  BY <1>9 DEF vars, TypeOK, Named, Recorded
<1>10. QED
  BY <1>1, <1>2, <1>b, <1>3, <1>4, <1>5, <1>6, <1>7, <1>8, <1>9
  DEF Next, Running, Dead

(* The type invariant holds in every behaviour, also if the client closes *)
(* handles that are not open.                                             *)
THEOREM TypeCorrect == Spec => []TypeOK
<1>1. TypeInv => TypeOK
  BY DEF TypeInv
<1>2. QED
  BY <1>1, TypeInvInit, TypeInvStep, PTL DEF Spec
-----------------------------------------------------------------------------
(***************************************************************************)
(* Who owns which descriptor.  Two lemmas reduce the twelve drivers' opens *)
(* and closes to what they do to the table, raw_fd and the phase.          *)
(***************************************************************************)
LEMMA OpenEffect ==
  ASSUME TypeInv, NEW h \in Handles, Open(h)
  PROVE  /\ phase[h] = "ready"
         /\ \A g \in Handles : g # h => raw'[g] = raw[g]
         /\ \/ UNCHANGED <<fd, phase>>
            \/ \E d \in Fds :
                 /\ fd[d] = Free
                 /\ \/ /\ fd' = [fd EXCEPT ![d] = h]
                       /\ raw' = [raw EXCEPT ![h] = d]
                       /\ \/ SetPhase(h, "open")
                          \/ drv[h] = "madwifiold" /\ UNCHANGED phase
                    \/ /\ drv[h] = "madwifiold"
                       /\ fd' = [fd EXCEPT ![d] = Lost]
                       /\ UNCHANGED <<raw, phase>>
<1> DEFINE Bound(p) ==
      \E d \in Fds : /\ fd[d] = Free
                     /\ fd' = [fd EXCEPT ![d] = h]
                     /\ raw' = [raw EXCEPT ![h] = d]
                     /\ p
<1>1. phase[h] = "ready"
  BY DEF Open
<1>2. CASE UNCHANGED <<fd, phase>> /\ (SetRaw(h, NoFd) \/ UNCHANGED raw)
  BY <1>1, <1>2 DEF SetRaw, TypeInv, TypeOK
<1>3. CASE UNCHANGED <<fd, phase>> /\ \E d \in Lowest(fd) : SetRaw(h, d)
  BY <1>1, <1>3 DEF SetRaw, TypeInv, TypeOK
<1>4. CASE BoundSocket(h) /\ SetPhase(h, "open")
  BY <1>1, <1>4, LowestIsFree DEF BoundSocket, SetRaw, TypeInv, TypeOK
<1>5. CASE BoundSocket(h) /\ drv[h] = "madwifiold" /\ UNCHANGED phase
  BY <1>1, <1>5, LowestIsFree DEF BoundSocket, SetRaw, TypeInv, TypeOK
<1>6. CASE /\ drv[h] = "madwifiold"
           /\ \E d \in Lowest(fd) : fd' = [fd EXCEPT ![d] = Lost]
           /\ UNCHANGED <<raw, phase>>
  BY <1>1, <1>6, LowestIsFree
<1>7. QED
  BY <1>2, <1>3, <1>4, <1>5, <1>6
  DEF Open, WtinjOpen, RtOpen, AirjackOpen, Bcm43xxOpen, MadwifioldOpen, OpenSocket

LEMMA CloseEffect ==
  ASSUME TypeInv, OpenOwnsSocket, ~CloseAnyway, NEW h \in Handles, Close(h)
  PROVE  /\ phase[h] = "open"
         /\ \A g \in Handles : g # h => raw'[g] = raw[g]
         /\ \/ UNCHANGED <<fd, phase, raw>>
            \/ /\ fd' = [fd EXCEPT ![raw[h]] = Free]
               /\ SetPhase(h, "closed")
<1>1. phase[h] = "open" /\ IsOpen(fd, raw[h])
  BY DEF Close, OpenOwnsSocket
<1>2. AfterClose(fd, raw[h]) = [fd EXCEPT ![raw[h]] = Free]
  BY <1>1 DEF AfterClose
<1>3. QED
  BY <1>1, <1>2
  DEF Close, RestoreMac, DriverClose, RtClose, WtinjClose, Bcm43xxClose, SetRaw,
      TypeInv, TypeOK

(* Descriptor 0 stays with the client, so no socket of the library gets it. *)
OwnInv ==
  /\ TypeInv
  /\ fd[0] = Client
  /\ OpenOwnsSocket

LEMMA OwnInvInit == Init => OwnInv
BY TypeInvInit, ZeroIsFd DEF Init, OwnInv, OpenOwnsSocket

LEMMA OwnInvStep ==
  ASSUME ~CloseAnyway
  PROVE  OwnInv /\ [Next]_vars => OwnInv'
<1> SUFFICES ASSUME OwnInv, [Next]_vars PROVE OwnInv'
  OBVIOUS
<1> USE DEF handleVars, ifaceVars, OwnInv
<1>0. TypeInv'
  BY TypeInvStep
<1>a. ASSUME UNCHANGED fd,
             \A g \in Handles : phase'[g] = "open" => phase[g] = "open" /\ raw'[g] = raw[g]
      PROVE  OwnInv'
  BY <1>0, <1>a DEF OpenOwnsSocket, IsOpen
<1>1. ASSUME NEW h \in Handles, NEW d \in Injectors, NEW i \in Ifaces,
             InitHandle(h, d, i)
      PROVE  OwnInv'
  BY <1>1, <1>a DEF InitHandle, SetPhase, SetRaw, TypeInv, TypeOK
<1>2. ASSUME NEW h \in Handles, SetFuncmode(h)
      PROVE  OwnInv'
  BY <1>2, <1>a DEF SetFuncmode, WtinjSetFuncmode, SetPhase,
     TypeInv, TypeOK
<1>b. ASSUME NEW h \in Handles, SetMode(h)
      PROVE  OwnInv'
  BY <1>b, <1>a DEF SetMode, WtinjSetmode, WginjSetmode, AjSetmode, SetPhase,
     TypeInv, TypeOK
<1>3. ASSUME NEW h \in Handles, Open(h)
      PROVE  OwnInv'
  <2>2. CASE UNCHANGED <<fd, phase>>
    BY <1>3, <1>a, <2>2, OpenEffect
  <2>3. ASSUME NEW d \in Fds, fd[d] = Free,
               \/ /\ fd' = [fd EXCEPT ![d] = h]
                  /\ raw' = [raw EXCEPT ![h] = d]
                  /\ SetPhase(h, "open") \/ UNCHANGED phase
               \/ fd' = [fd EXCEPT ![d] = Lost] /\ UNCHANGED <<raw, phase>>
        PROVE  OwnInv'
    <3>1. phase[h] = "ready" /\ d # 0 /\ h # Free
      BY <1>3, <2>3, OpenEffect, SessionAssumption DEF Free, Client
    <3>2. OpenOwnsSocket'
      BY <2>3, <3>1 DEF OpenOwnsSocket, IsOpen, SetPhase, TypeInv, TypeOK
    <3>3. fd'[0] = Client
      BY <2>3, <3>1, ZeroIsFd DEF TypeInv, TypeOK
    <3>4. QED
      BY <1>0, <3>2, <3>3
  <2>4. QED
    BY <1>3, <2>2, <2>3, OpenEffect
<1>4. ASSUME NEW h \in Handles, Close(h)
      PROVE  OwnInv'
  <2>2. CASE UNCHANGED <<fd, phase, raw>>
    BY <1>a, <2>2
  <2>3. CASE fd' = [fd EXCEPT ![raw[h]] = Free] /\ SetPhase(h, "closed")
    <3>1. \A g \in Handles : g # h => raw'[g] = raw[g]
      BY <1>4, CloseEffect
    <3>2. /\ raw[h] \in Fds
          /\ fd[raw[h]] = h
          /\ h # Client
      BY <1>4, CloseEffect, SessionAssumption DEF OpenOwnsSocket, IsOpen
    <3>3. OpenOwnsSocket'
      BY <2>3, <3>1, <3>2 DEF OpenOwnsSocket, IsOpen, SetPhase, TypeInv, TypeOK
    <3>4. fd'[0] = Client
      BY <2>3, <3>2, ZeroIsFd DEF TypeInv, TypeOK
    <3>5. QED
      BY <1>0, <3>3, <3>4
  <2>4. QED
    BY <1>4, <2>2, <2>3, CloseEffect
<1>5. ASSUME NEW h \in Handles, TxPacket(h)
      PROVE  OwnInv'
  BY <1>5, <1>a DEF TxPacket
<1>6. ASSUME NEW h \in Handles, NEW addr \in Macs, SelfAck(h, addr)
      PROVE  OwnInv'
  BY <1>6, <1>a DEF SelfAck
<1>7. ASSUME ClientOpen
      PROVE  OwnInv'
  <2>1. PICK d \in Lowest(fd) : fd' = [fd EXCEPT ![d] = Client]
    BY <1>7 DEF ClientOpen
  <2>2. OpenOwnsSocket' /\ fd'[0] = Client
    BY <1>7, <2>1, LowestIsFree, ZeroIsFd, SessionAssumption
    DEF ClientOpen, OpenOwnsSocket, IsOpen, TypeInv, TypeOK
  <2>3. QED
    BY <1>0, <2>2
<1>8. ASSUME NEW d \in Fds, ClientClose(d)
      PROVE  OwnInv'
  <2>1. OpenOwnsSocket' /\ fd'[0] = Client
    BY <1>8, ZeroIsFd, SessionAssumption
    DEF ClientClose, OpenOwnsSocket, IsOpen, TypeInv, TypeOK
  <2>2. QED
    BY <1>0, <2>1
<1>9. CASE UNCHANGED vars
  BY <1>9, <1>a DEF vars
<1>10. QED
  BY <1>1, <1>2, <1>b, <1>3, <1>4, <1>5, <1>6, <1>7, <1>8, <1>9
  DEF Next, Running, Dead

(* A handle the client holds open owns the descriptor in raw_fd, whichever  *)
(* driver opened it and whatever opened and closed descriptors in between.  *)
THEOREM OpenHandleOwnsSocket ==
  ASSUME ~CloseAnyway
  PROVE  Spec => []OpenOwnsSocket
<1>1. OwnInv => OpenOwnsSocket
  BY DEF OwnInv
<1>2. OwnInv /\ [Next]_vars => OwnInv'
  BY OwnInvStep
<1>3. QED
  BY <1>1, <1>2, OwnInvInit, PTL DEF Spec

(* A handle that was never initialised has no driver. *)
DriverlessInv == \A h \in Handles : phase[h] = "none" => drv[h] = NoDriver

(* A bcm43xx handle that a send takes for open is open: its raw_fd is above *)
(* 0 only while the client holds it open.  Of the other drivers this is     *)
(* false after a failed open or a close.                                    *)
HomeInv ==
  /\ OwnInv
  /\ DriverlessInv
  /\ \A h \in Handles : drv[h] = "bcm43xx" /\ raw[h] > 0 => phase[h] = "open"

LEMMA Bcm43xxOpenEffect ==
  ASSUME TypeInv, NEW h \in Handles, drv[h] = "bcm43xx", Open(h)
  PROVE  UNCHANGED <<raw, phase>> \/ SetPhase(h, "open")
BY DEF Open, Bcm43xxOpen, WtDrivers, RtDrivers

LEMMA Bcm43xxCloseEffect ==
  ASSUME TypeInv, NEW h \in Handles, drv[h] = "bcm43xx", Close(h)
  PROVE  UNCHANGED <<raw, phase>> \/ raw' = [raw EXCEPT ![h] = NoFd]
BY DEF Close, RestoreMac, DriverClose, Bcm43xxClose, SetRaw

LEMMA HomeInvStep ==
  ASSUME ~CloseAnyway
  PROVE  HomeInv /\ [Next]_vars => HomeInv'
<1> SUFFICES ASSUME HomeInv, [Next]_vars PROVE HomeInv'
  OBVIOUS
<1> USE DEF handleVars, ifaceVars, OwnInv, HomeInv
<1>0. OwnInv'
  BY OwnInvStep
<1>a. ASSUME UNCHANGED drv,
             \A g \in Handles : phase'[g] = "none" => phase[g] = "none",
             \A g \in Handles : \/ raw'[g] = raw[g] /\ (phase[g] = "open" => phase'[g] = "open")
                                \/ drv[g] # "bcm43xx" \/ phase'[g] = "open" \/ raw'[g] = NoFd
      PROVE  HomeInv'
  <2>1. ~(NoFd > 0)
    BY DEF NoFd
  <2>2. QED
    BY <1>0, <1>a, <2>1 DEF DriverlessInv
<1>1. ASSUME NEW h \in Handles, NEW d \in Injectors, NEW i \in Ifaces,
             InitHandle(h, d, i)
      PROVE  HomeInv'
  BY <1>0, <1>1
  DEF InitHandle, SetPhase, SetRaw, DriverlessInv, TypeInv, TypeOK
<1>2. ASSUME NEW h \in Handles, SetFuncmode(h) \/ SetMode(h)
      PROVE  HomeInv'
  BY <1>2, <1>a
  DEF SetFuncmode, WtinjSetFuncmode, SetMode, WtinjSetmode, WginjSetmode,
      AjSetmode, SetPhase, TypeInv, TypeOK
<1>3. ASSUME NEW h \in Handles, Open(h)
      PROVE  HomeInv'
  <2>1. UNCHANGED drv
    BY <1>3 DEF Open
  <2>2. /\ phase[h] = "ready"
        /\ SetPhase(h, "open") \/ UNCHANGED phase
        /\ \A g \in Handles : g # h => raw'[g] = raw[g]
    BY <1>3, OpenEffect
  <2>3. drv[h] = "bcm43xx" => UNCHANGED <<raw, phase>> \/ SetPhase(h, "open")
    BY <1>3, Bcm43xxOpenEffect
  <2>4. \A g \in Handles : g # h => phase'[g] = phase[g]
    BY <2>2 DEF SetPhase, TypeInv, TypeOK
  <2>5. QED
    BY <1>a, <2>1, <2>2, <2>3, <2>4 DEF SetPhase, TypeInv, TypeOK
<1>4. ASSUME NEW h \in Handles, Close(h)
      PROVE  HomeInv'
  <2>1. UNCHANGED drv
    BY <1>4 DEF Close
  <2>2. /\ phase[h] = "open"
        /\ SetPhase(h, "closed") \/ UNCHANGED phase
        /\ \A g \in Handles : g # h => raw'[g] = raw[g]
    BY <1>4, CloseEffect
  <2>3. drv[h] = "bcm43xx" => UNCHANGED <<raw, phase>> \/ raw' = [raw EXCEPT ![h] = NoFd]
    BY <1>4, Bcm43xxCloseEffect
  <2>4. \A g \in Handles : g # h => phase'[g] = phase[g]
    BY <2>2 DEF SetPhase, TypeInv, TypeOK
  <2>5. phase'[h] # "none"
    BY <2>2 DEF SetPhase, TypeInv, TypeOK
  <2>6. QED
    BY <1>a, <2>1, <2>2, <2>3, <2>4, <2>5 DEF TypeInv, TypeOK
<1>5. ASSUME NEW h \in Handles, TxPacket(h) \/ \E addr \in Macs : SelfAck(h, addr)
      PROVE  HomeInv'
  BY <1>5, <1>a DEF TxPacket, SelfAck
<1>6. CASE ClientOpen \/ \E d \in Fds : ClientClose(d)
  BY <1>6, <1>a DEF ClientOpen, ClientClose
<1>7. CASE UNCHANGED vars
  BY <1>7, <1>a DEF vars
<1>8. QED
  BY <1>1, <1>2, <1>3, <1>4, <1>5, <1>6, <1>7 DEF Next, Running, Dead

(* Only a send answers so. *)
LEMMA SendAnswers ==
  ASSUME TypeInv, Next, NEW h \in Handles, reply'[h] # reply[h],
         reply'[h] \in {"notopen", "strayed"}
  PROVE  TxPacket(h)
<1> USE DEF TypeInv, TypeOK, handleVars, ifaceVars
<1>1. CASE \E g \in Handles, d \in Injectors, i \in Ifaces : InitHandle(g, d, i)
  BY <1>1 DEF InitHandle, Answer
<1>2. CASE \E g \in Handles : SetFuncmode(g) \/ SetMode(g) \/ Open(g)
  BY <1>2 DEF SetFuncmode, SetMode, Open
<1>3. CASE \E g \in Handles : Close(g)
  BY <1>3 DEF Close, Answer
<1>4. CASE \E g \in Handles : TxPacket(g)
  BY <1>4 DEF TxPacket, Answer
<1>5. CASE \E g \in Handles, addr \in Macs : SelfAck(g, addr)
  <2>1. PICK g \in Handles, addr \in Macs : SelfAck(g, addr)
    BY <1>5
  <2>2. Answer(g, "error") \/ Answer(g, addr)
    BY <2>1 DEF SelfAck, WtinjSelfack
  <2>3. addr \notin {"notopen", "strayed"}
    BY SessionAssumption
  <2>4. QED
    BY <2>2, <2>3 DEF Answer
<1>6. CASE ClientOpen \/ (\E d \in Fds : ClientClose(d)) \/ Dead
  BY <1>6 DEF ClientOpen, ClientClose, Dead, vars
<1>7. QED
  BY <1>1, <1>2, <1>3, <1>4, <1>5, <1>6 DEF Next, Running

(* An open handle sends to its own socket; one that is not open refuses the *)
(* frame, or writes it to whoever has its number by now, and never that if  *)
(* it is bcm43xx's.                                                         *)
THEOREM SendsKnowTheirSocket ==
  ASSUME ~CloseAnyway
  PROVE  Spec => SendKnowsItsSocket
<1> DEFINE Known == \A h \in Handles : reply'[h] # reply[h] =>
      /\ reply'[h] = "notopen" => phase[h] # "open"
      /\ reply'[h] = "strayed" => phase[h] # "open" /\ drv[h] # "bcm43xx"
<1>1. Init => HomeInv
  BY OwnInvInit DEF Init, HomeInv, DriverlessInv
<1>2. HomeInv /\ [Next]_vars => [Known]_vars
  <2> SUFFICES ASSUME HomeInv, Next, NEW h \in Handles, reply'[h] # reply[h],
                      reply'[h] \in {"notopen", "strayed"}
               PROVE  /\ reply'[h] = "notopen" => phase[h] # "open"
                      /\ reply'[h] = "strayed" => phase[h] # "open" /\ drv[h] # "bcm43xx"
    OBVIOUS
  <2>0. TxPacket(h)
    BY SendAnswers DEF HomeInv, OwnInv
  <2>1. phase[h] = "open" => raw[h] > 0 /\ fd[raw[h]] = h
    <3> SUFFICES ASSUME phase[h] = "open"
                 PROVE  raw[h] > 0 /\ fd[raw[h]] = h
      OBVIOUS
    <3>1. raw[h] \in Fds /\ fd[raw[h]] = h /\ fd[0] = Client
      BY DEF HomeInv, OwnInv, OpenOwnsSocket, IsOpen
    <3>2. h # Client
      BY SessionAssumption
    <3>3. QED
      BY <3>1, <3>2, MaxFdAssumption DEF Fds
  <2>2. reply'[h] = "notopen" => ~(raw[h] > 0)
    BY <2>0 DEF TxPacket, Answer, HomeInv, OwnInv, TypeInv, TypeOK
  <2>3. reply'[h] = "strayed" => raw[h] > 0 /\ fd[raw[h]] # h
    BY <2>0 DEF TxPacket, Answer, HomeInv, OwnInv, TypeInv, TypeOK
  <2>4. QED
    BY <2>1, <2>2, <2>3 DEF HomeInv
<1>3. QED
  BY <1>1, <1>2, HomeInvStep, PTL DEF Spec, SendKnowsItsSocket
-----------------------------------------------------------------------------
(***************************************************************************)
(* Nothing is left behind.                                                 *)
(***************************************************************************)
(* The exception that NoSocketStranded makes for madwifi-old is about       *)
(* handles in use, by DriverlessInv.                                        *)
StrandedInv ==
  /\ OwnInv
  /\ DriverlessInv
  /\ NoSocketStranded

LEMMA StrandedStep ==
  ASSUME ~CloseAnyway
  PROVE  StrandedInv /\ [Next]_vars => StrandedInv'
<1> SUFFICES ASSUME StrandedInv, [Next]_vars
             PROVE  StrandedInv'
  OBVIOUS
<1> USE DEF handleVars, ifaceVars, OwnInv, StrandedInv, DriverlessInv
<1>0. OwnInv'
  BY OwnInvStep
<1>a. ASSUME UNCHANGED <<fd, drv>>,
             \A g \in Handles : phase'[g] = "none" => phase[g] = "none",
             \A g \in Handles : phase[g] = "open" => phase'[g] = "open" /\ raw'[g] = raw[g]
      PROVE  StrandedInv'
  BY <1>0, <1>a DEF NoSocketStranded
<1>1. ASSUME NEW h \in Handles, NEW d \in Injectors, NEW i \in Ifaces,
             InitHandle(h, d, i)
      PROVE  StrandedInv'
  <2>1. NoDriver # "madwifiold"
    BY DEF NoDriver
  <2>2. \A c \in Fds : fd[c] # h
    BY <1>1, <2>1 DEF InitHandle, NoSocketStranded
  <2>3. QED
    BY <1>0, <1>1, <2>2
    DEF InitHandle, NoSocketStranded, SetPhase, SetRaw, TypeInv, TypeOK
<1>2. ASSUME NEW h \in Handles, SetFuncmode(h)
      PROVE  StrandedInv'
  BY <1>2, <1>a
  DEF SetFuncmode, WtinjSetFuncmode, SetPhase, TypeInv, TypeOK
<1>b. ASSUME NEW h \in Handles, SetMode(h)
      PROVE  StrandedInv'
  BY <1>b, <1>a
  DEF SetMode, WtinjSetmode, WginjSetmode, AjSetmode, SetPhase, TypeInv, TypeOK
<1>3. ASSUME NEW h \in Handles, Open(h)
      PROVE  StrandedInv'
  <2>1. UNCHANGED drv
    BY <1>3 DEF Open
  <2>2. CASE UNCHANGED <<fd, phase>>
    BY <1>3, <1>a, <2>1, <2>2, OpenEffect
  <2>3. ASSUME NEW d \in Fds, fd[d] = Free,
               \/ /\ fd' = [fd EXCEPT ![d] = h]
                  /\ raw' = [raw EXCEPT ![h] = d]
                  /\ \/ SetPhase(h, "open")
                     \/ drv[h] = "madwifiold" /\ UNCHANGED phase
               \/ /\ fd' = [fd EXCEPT ![d] = Lost]
                  /\ UNCHANGED <<raw, phase>>
        PROVE  StrandedInv'
    <3>1. phase[h] = "ready" /\ \A g \in Handles : g # Lost
      BY <1>3, OpenEffect, SessionAssumption
    <3>2. NoSocketStranded'
      BY <2>1, <2>3, <3>1 DEF NoSocketStranded, SetPhase, TypeInv, TypeOK
    <3>3. QED
      BY <1>0, <2>1, <2>3, <3>1, <3>2 DEF SetPhase, TypeInv, TypeOK
  <2>4. QED
    BY <1>3, <2>2, <2>3, OpenEffect
<1>4. ASSUME NEW h \in Handles, Close(h)
      PROVE  StrandedInv'
  <2>1. UNCHANGED drv
    BY <1>4 DEF Close
  <2>2. CASE UNCHANGED <<fd, phase, raw>>
    BY <2>1, <2>2, <1>a
  <2>3. CASE fd' = [fd EXCEPT ![raw[h]] = Free] /\ SetPhase(h, "closed")
    <3>1. \A g \in Handles : g # h => raw'[g] = raw[g]
      BY <1>4, CloseEffect
    <3>2. /\ raw[h] \in Fds /\ fd[raw[h]] = h
          /\ Free \notin Handles
      BY <1>4, CloseEffect, SessionAssumption DEF OpenOwnsSocket, IsOpen, Free
    <3>3. NoSocketStranded'
      BY <2>1, <2>3, <3>1, <3>2 DEF NoSocketStranded, SetPhase, TypeInv, TypeOK
    <3>4. QED
      BY <1>0, <2>1, <2>3, <3>3 DEF SetPhase, TypeInv, TypeOK
  <2>4. QED
    BY <1>4, <2>2, <2>3, CloseEffect
<1>5. ASSUME NEW h \in Handles, TxPacket(h)
      PROVE  StrandedInv'
  BY <1>5, <1>a DEF TxPacket
<1>6. ASSUME NEW h \in Handles, NEW addr \in Macs, SelfAck(h, addr)
      PROVE  StrandedInv'
  BY <1>6, <1>a DEF SelfAck
<1>7. ASSUME ClientOpen
      PROVE  StrandedInv'
  BY <1>0, <1>7, LowestIsFree, SessionAssumption
  DEF ClientOpen, NoSocketStranded, TypeInv, TypeOK, Client
<1>8. ASSUME NEW d \in Fds, ClientClose(d)
      PROVE  StrandedInv'
  BY <1>0, <1>8, SessionAssumption
  DEF ClientClose, NoSocketStranded, TypeInv, TypeOK, Free
<1>9. CASE UNCHANGED vars
  BY <1>9, <1>a DEF vars
<1>10. QED
  BY <1>1, <1>2, <1>b, <1>3, <1>4, <1>5, <1>6, <1>7, <1>8, <1>9
  DEF Next, Running, Dead

(* With any of the drivers but madwifi-old, every descriptor a handle ever  *)
(* got is released by the open that failed or by the handle's close.        *)
THEOREM NothingStranded ==
  ASSUME ~CloseAnyway
  PROVE  Spec => []NoSocketStranded
<1>1. Init => StrandedInv
  BY OwnInvInit, SessionAssumption
  DEF Init, StrandedInv, DriverlessInv, NoSocketStranded, Free, Client
<1>2. StrandedInv => NoSocketStranded
  BY DEF StrandedInv
<1>3. QED
  BY <1>1, <1>2, StrandedStep, PTL DEF Spec

(* A call of the library closes the descriptor of the handle it was called  *)
(* on and no other.                                                         *)
THEOREM LibraryClosesOnlyItsOwn ==
  ASSUME ~CloseAnyway
  PROVE  Spec => ClosesOnlyItsOwn
<1> DEFINE OwnClose ==
      \A d \in Fds : IsOpen(fd, d) /\ fd'[d] # fd[d] =>
        \/ ClientClose(d)
        \/ \E h \in Handles : fd[d] = h /\ phase[h] = "open" /\ phase'[h] = "closed"
<1>1. OwnInv /\ [Next]_vars => [OwnClose]_vars
  <2> SUFFICES ASSUME OwnInv, Next, NEW d \in Fds, IsOpen(fd, d), fd'[d] # fd[d],
                      ~ClientClose(d)
               PROVE  \E h \in Handles :
                        fd[d] = h /\ phase[h] = "open" /\ phase'[h] = "closed"
    OBVIOUS
  <2> USE DEF handleVars, ifaceVars, OwnInv
  <2>1. ASSUME NEW h \in Handles, Open(h)
        PROVE  FALSE
    BY <2>1, OpenEffect DEF IsOpen, TypeInv, TypeOK
  <2>2. ASSUME NEW h \in Handles, Close(h)
        PROVE  fd[d] = h /\ phase[h] = "open" /\ phase'[h] = "closed"
    <3>1. fd' = [fd EXCEPT ![raw[h]] = Free] /\ SetPhase(h, "closed")
      BY <2>2, CloseEffect
    <3>2. d = raw[h] /\ fd[raw[h]] = h /\ phase[h] = "open"
      BY <2>2, <3>1, CloseEffect DEF OpenOwnsSocket, TypeInv, TypeOK
    <3>3. QED
      BY <3>1, <3>2 DEF SetPhase, TypeInv, TypeOK
  <2>3. ~ClientOpen
    BY LowestIsFree DEF ClientOpen, IsOpen, TypeInv, TypeOK
  <2>4. ASSUME NEW e \in Fds, ClientClose(e)
        PROVE  FALSE
    BY <2>4 DEF ClientClose, TypeInv, TypeOK
  <2>5. QED
    BY <2>1, <2>2, <2>3, <2>4
    DEF Next, Running, Dead, vars, InitHandle, SetFuncmode, SetMode, TxPacket, SelfAck
<1>2. OwnInv /\ [Next]_vars => OwnInv'
  BY OwnInvStep
<1>3. QED
  BY <1>1, <1>2, OwnInvInit, PTL DEF Spec, ClosesOnlyItsOwn
-----------------------------------------------------------------------------
(***************************************************************************)
(* The state of the card.                                                  *)
(***************************************************************************)
(* The drivers whose setmode may report success on a card that is not in    *)
(* monitor mode.                                                            *)
Careless == {"wlanng", "airjack"}

CardInv ==
  /\ OpenCardIsReady
  /\ ClosedCardIsQuiet
  /\ \A h \in Handles :
       phase[h] = "ready" /\ drv[h] \notin Careless => monitor[ifn[h]]

(* What a call on handle h leaves alone on the cards of the other handles. *)
Untouched(h) ==
  \A g \in Handles : g # h /\ phase[g] # "none" =>
    /\ phase'[g] = phase[g] /\ drv'[g] = drv[g] /\ ifn'[g] = ifn[g]
    /\ macset'[g] = macset[g]
    /\ up'[ifn[g]] = up[ifn[g]]
    /\ monitor'[ifn[g]] = monitor[ifn[g]]
    /\ rfmontx'[ifn[g]] = rfmontx[ifn[g]]

(* What CardInv says of one handle. *)
CardOf(h) ==
  /\ phase[h] = "open" =>
       /\ drv[h] \notin Careless => monitor[ifn[h]]
       /\ drv[h] \in RtDrivers => rfmontx[ifn[h]]
       /\ drv[h] \in WtDrivers \cup RtDrivers /\ ~macset[h] => up[ifn[h]]
  /\ phase[h] = "closed" /\ drv[h] \in {"rt2500", "rt73"} => ~rfmontx[ifn[h]]
  /\ phase[h] = "ready" /\ drv[h] \notin Careless => monitor[ifn[h]]

LEMMA CardInvSplits == CardInv <=> \A h \in Handles : CardOf(h)
BY DEF CardInv, CardOf, OpenCardIsReady, ClosedCardIsQuiet, Careless

LEMMA OthersUntouched ==
  ASSUME CardInv, NEW h \in Handles, Untouched(h),
         \A g \in Handles : g # h /\ phase[g] = "none" => phase'[g] = "none",
         CardOf(h)'
  PROVE  CardInv'
<1>1. ASSUME NEW g \in Handles, g # h
      PROVE  CardOf(g)'
  <2>1. CardOf(g)
    BY CardInvSplits
  <2>2. CASE phase[g] = "none"
    BY <1>1, <2>2 DEF CardOf
  <2>3. CASE phase[g] # "none"
    BY <1>1, <2>1, <2>3 DEF CardOf, Untouched
  <2>4. QED
    BY <2>2, <2>3
<1>2. \A g \in Handles : CardOf(g)'
  BY <1>1
<1>3. QED
  BY <1>2 DEF CardInv, CardOf, OpenCardIsReady, ClosedCardIsQuiet, Careless

LEMMA OnlyOwnCard ==
  ASSUME TypeInv, NEW h \in Handles, phase[h] # "none", UNCHANGED <<drv, ifn>>,
         \A g \in Handles : g # h => phase'[g] = phase[g] /\ macset'[g] = macset[g],
         \A i \in Ifaces : i # ifn[h] =>
           up'[i] = up[i] /\ monitor'[i] = monitor[i] /\ rfmontx'[i] = rfmontx[i]
  PROVE  Untouched(h)
<1>1. \A g \in Handles : phase[g] # "none" => ifn[g] \in Ifaces
  BY DEF TypeInv, TypeOK, Named
<1>2. \A g \in Handles : g # h => ifn[g] # ifn[h]
  BY DEF TypeInv, Named
<1>3. QED
  BY <1>1, <1>2 DEF Untouched

LEMMA CardInvStep ==
  ASSUME ~CloseAnyway
  PROVE  OwnInv /\ CardInv /\ [Next]_vars => CardInv'
<1> SUFFICES ASSUME OwnInv, CardInv, [Next]_vars PROVE CardInv'
  OBVIOUS
<1> USE DEF handleVars, ifaceVars, OwnInv
<1>c. \A h \in Handles : CardOf(h)
  BY CardInvSplits
<1>1. ASSUME NEW h \in Handles, NEW d \in Injectors, NEW i \in Ifaces,
             InitHandle(h, d, i)
      PROVE  CardInv'
  <2>1. Untouched(h)
    BY <1>1 DEF InitHandle, Untouched, SetPhase, TypeInv, TypeOK
  <2>2. CardOf(h)'
    BY <1>1 DEF InitHandle, CardOf, SetPhase, TypeInv, TypeOK
  <2>3. QED
    BY <1>1, <2>1, <2>2, OthersUntouched DEF InitHandle, SetPhase, TypeInv, TypeOK
<1>2. ASSUME NEW h \in Handles, SetFuncmode(h)
      PROVE  CardInv'
  <2>1. phase[h] \in {"init", "ready", "closed"} /\ ifn[h] \in Ifaces
    BY <1>2 DEF SetFuncmode, TypeInv, TypeOK, Named
  <2>2. Untouched(h)
    BY <1>2, <2>1, OnlyOwnCard
    DEF SetFuncmode, WtinjSetFuncmode, SetPhase, SetUp, TypeInv, TypeOK
  <2>3. CardOf(h)'
    BY <1>2, <1>c, <2>1
    DEF SetFuncmode, WtinjSetFuncmode, SetPhase, CardOf, TypeInv, TypeOK
  <2>4. QED
    BY <1>2, <2>2, <2>3, OthersUntouched
    DEF SetFuncmode, WtinjSetFuncmode, SetPhase, TypeInv, TypeOK
<1>b. ASSUME NEW h \in Handles, SetMode(h)
      PROVE  CardInv'
  <2>1. /\ phase[h] \in {"init", "ready", "closed"} /\ ifn[h] \in Ifaces
        /\ UNCHANGED <<drv, ifn, macset, up, rfmontx>>
        /\ UNCHANGED phase \/ SetPhase(h, "ready")
        /\ \/ monitor' = [monitor EXCEPT ![ifn[h]] = TRUE]
           \/ UNCHANGED monitor /\ (drv[h] \in Careless \/ UNCHANGED phase)
    BY <1>b DEF SetMode, WtinjSetmode, WginjSetmode, AjSetmode, TypeInv, TypeOK,
                Named, Careless
  <2>2. Untouched(h)
    BY <2>1, OnlyOwnCard DEF SetPhase, TypeInv, TypeOK
  <2>3. CardOf(h)'
    BY <1>c, <2>1 DEF SetPhase, CardOf, TypeInv, TypeOK
  <2>4. QED
    BY <2>1, <2>2, <2>3, OthersUntouched DEF SetPhase, TypeInv, TypeOK
<1>3. ASSUME NEW h \in Handles, Open(h)
      PROVE  CardInv'
  <2>1. /\ phase[h] = "ready" /\ ifn[h] \in Ifaces
        /\ UNCHANGED <<drv, ifn, macset, monitor>>
        /\ SetPhase(h, "open") \/ UNCHANGED phase
    BY <1>3, OpenEffect DEF Open, TypeInv, TypeOK, Named
  <2>2. /\ UNCHANGED up \/ SetUp(h, TRUE)
        /\ UNCHANGED rfmontx \/ rfmontx' = [rfmontx EXCEPT ![ifn[h]] = TRUE]
    BY <1>3 DEF Open, WtinjOpen, RtOpen
  <2>3. Untouched(h)
    BY <2>1, <2>2, OnlyOwnCard DEF SetPhase, SetUp, TypeInv, TypeOK
  <2>4. CardOf(h)'
    <3>1. CASE UNCHANGED phase
      BY <1>c, <2>1, <3>1 DEF CardOf
    <3>2. CASE SetPhase(h, "open") /\ phase' # phase
      <4>1. drv[h] \in WtDrivers \cup RtDrivers => SetUp(h, TRUE)
        BY <1>3, <3>2 DEF Open, WtinjOpen, RtOpen, WtDrivers, RtDrivers
      <4>2. drv[h] \in RtDrivers => rfmontx' = [rfmontx EXCEPT ![ifn[h]] = TRUE]
        BY <1>3, <3>2 DEF Open, RtOpen, WtDrivers, RtDrivers
      <4>3. drv'[h] \notin Careless => monitor'[ifn'[h]]
        BY <1>c, <2>1 DEF CardOf
      <4>4. drv'[h] \in WtDrivers \cup RtDrivers => up'[ifn'[h]]
        BY <2>1, <4>1 DEF SetUp, TypeInv, TypeOK
      <4>5. drv'[h] \in RtDrivers => rfmontx'[ifn'[h]]
        BY <2>1, <4>2 DEF TypeInv, TypeOK
      <4>6. phase'[h] = "open"
        BY <3>2 DEF SetPhase, TypeInv, TypeOK
      <4>7. QED
        BY <4>3, <4>4, <4>5, <4>6 DEF CardOf
    <3>3. QED
      BY <2>1, <3>1, <3>2
  <2>5. QED
    BY <2>1, <2>3, <2>4, OthersUntouched DEF SetPhase, TypeInv, TypeOK
<1>4. ASSUME NEW h \in Handles, Close(h)
      PROVE  CardInv'
  <2>1. /\ phase[h] = "open" /\ ifn[h] \in Ifaces
        /\ UNCHANGED <<drv, ifn, macset, monitor>>
        /\ SetPhase(h, "closed") \/ UNCHANGED phase
    BY <1>4, CloseEffect DEF Close, TypeInv, TypeOK, Named
  <2>2. /\ UNCHANGED up \/ (macset[h] /\ SetUp(h, FALSE))
        /\ UNCHANGED rfmontx \/ rfmontx' = [rfmontx EXCEPT ![ifn[h]] = FALSE]
    BY <1>4 DEF Close, RestoreMac, DriverClose, RtClose
  <2>3. Untouched(h)
    BY <2>1, <2>2, OnlyOwnCard DEF SetPhase, SetUp, TypeInv, TypeOK
  <2>4. CardOf(h)'
    <3>1. CASE UNCHANGED phase
      <4>1. UNCHANGED rfmontx
        BY <1>4, <3>1, <2>1
        DEF Close, RestoreMac, DriverClose, RtClose, WtinjClose, SetPhase,
            OpenOwnsSocket, TypeInv, TypeOK
      <4>2. macset[h] \/ UNCHANGED up
        BY <2>2
      <4>3. QED
        BY <1>c, <2>1, <3>1, <4>1, <4>2 DEF CardOf
    <3>2. CASE SetPhase(h, "closed") /\ phase' # phase
      <4>1. drv[h] \in {"rt2500", "rt73"} => rfmontx' = [rfmontx EXCEPT ![ifn[h]] = FALSE]
        BY <1>4, <3>2 DEF Close, RestoreMac, DriverClose, RtClose
      <4>2. phase'[h] = "closed"
        BY <3>2 DEF SetPhase, TypeInv, TypeOK
      <4>3. drv'[h] \in {"rt2500", "rt73"} => ~rfmontx'[ifn'[h]]
        BY <2>1, <4>1 DEF TypeInv, TypeOK
      <4>4. QED
        BY <4>2, <4>3 DEF CardOf
    <3>3. QED
      BY <2>1, <3>1, <3>2
  <2>5. QED
    BY <2>1, <2>3, <2>4, OthersUntouched DEF SetPhase, TypeInv, TypeOK
<1>5. ASSUME NEW h \in Handles, TxPacket(h)
      PROVE  CardInv'
  BY <1>5 DEF TxPacket, CardInv, OpenCardIsReady, ClosedCardIsQuiet
<1>6. ASSUME NEW h \in Handles, NEW addr \in Macs, SelfAck(h, addr)
      PROVE  CardInv'
  <2>1. /\ phase[h] = "open" /\ ifn[h] \in Ifaces
        /\ drv[h] \in WtDrivers /\ drv[h] \notin RtDrivers
        /\ UNCHANGED <<phase, drv, ifn, monitor, rfmontx>>
    BY <1>6 DEF SelfAck, TypeInv, TypeOK, Named, WtDrivers, RtDrivers
  <2>2. \/ UNCHANGED <<macset, up>>
        \/ /\ macset' = [macset EXCEPT ![h] = TRUE]
           /\ UNCHANGED up \/ SetUp(h, TRUE) \/ SetUp(h, FALSE)
    BY <1>6 DEF SelfAck, WtinjSelfack
  <2>3. Untouched(h)
    BY <2>1, <2>2, OnlyOwnCard DEF SetUp, TypeInv, TypeOK
  <2>4. CardOf(h)'
    BY <1>c, <2>1, <2>2 DEF CardOf, TypeInv, TypeOK
  <2>5. QED
    BY <2>1, <2>3, <2>4, OthersUntouched
<1>7. ASSUME ClientOpen
      PROVE  CardInv'
  BY <1>7 DEF ClientOpen, CardInv, OpenCardIsReady, ClosedCardIsQuiet
<1>8. ASSUME NEW d \in Fds, ClientClose(d)
      PROVE  CardInv'
  BY <1>8 DEF ClientClose, CardInv, OpenCardIsReady, ClosedCardIsQuiet
<1>9. CASE UNCHANGED vars
  BY <1>9 DEF vars, CardInv, OpenCardIsReady, ClosedCardIsQuiet
<1>10. QED
  BY <1>1, <1>2, <1>b, <1>3, <1>4, <1>5, <1>6, <1>7, <1>8, <1>9
  DEF Next, Running, Dead

LEMMA CardInvInit == Init => CardInv
BY DEF Init, CardInv, OpenCardIsReady, ClosedCardIsQuiet

(* The card of an open handle is in the state injection needs, whatever the *)
(* mode changes, failed opens and closes of this and other handles did.     *)
THEOREM OpenCardsAreReady ==
  ASSUME ~CloseAnyway
  PROVE  Spec => []OpenCardIsReady
<1>1. OwnInv /\ CardInv /\ [Next]_vars => (OwnInv /\ CardInv)'
  BY OwnInvStep, CardInvStep
<1>2. CardInv => OpenCardIsReady
  BY DEF CardInv
<1>3. QED
  BY <1>1, <1>2, OwnInvInit, CardInvInit, PTL DEF Spec

(* The Ralink cards whose driver module switches raw transmission off are   *)
(* quiet once closed.                                                       *)
THEOREM ClosedCardsAreQuiet ==
  ASSUME ~CloseAnyway
  PROVE  Spec => []ClosedCardIsQuiet
<1>1. OwnInv /\ CardInv /\ [Next]_vars => (OwnInv /\ CardInv)'
  BY OwnInvStep, CardInvStep
<1>2. CardInv => ClosedCardIsQuiet
  BY DEF CardInv
<1>3. QED
  BY <1>1, <1>2, OwnInvInit, CardInvInit, PTL DEF Spec
=============================================================================
