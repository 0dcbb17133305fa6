---------------------------- MODULE MadwifingProofs ----------------------------
(***************************************************************************)
(* What holds of module Madwifing for any processes, names and addresses;  *)
(* and, for any names and addresses, what one process can rely on that has *)
(* the card to itself.                                                     *)
(***************************************************************************)
EXTENDS Madwifing, TLAPS

(* The names tried are VAPs, and there is a first.                         *)
LEMMA Names ==
  /\ Len(Lorcon) \in Nat /\ 1 \in 1 .. Len(Lorcon)
  /\ \A n \in 1 .. Len(Lorcon) : Lorcon[n] \in Vaps
  /\ HomeMac \in Macs
<1> DEFINE B == Built
<1>1. Lorcon \in Seq(B) /\ Lorcon # <<>> /\ HomeMac \in Macs
  BY MadwifingAssumption
<1>2. \A n \in 1 .. Len(Lorcon) : Lorcon[n] \in Vaps
  BY DEF Vaps, Built
<1> HIDE DEF B
<1>3. Len(Lorcon) \in Nat /\ 1 \in 1 .. Len(Lorcon)
  BY <1>1
<1>4. QED
  BY <1>1, <1>2, <1>3

(* Where a process is in the call it makes, and what the client knows.     *)
Where(p) ==
  /\ pc[p] = "devtype" => call[p] = "setfuncmode"
  /\ pc[p] \in {"list", "destroy", "scan", "create", "retype", "open"} =>
       call[p] \in {"setfuncmode", "selfack"}
  /\ pc[p] \in {"down", "sethw", "up"} => call[p] = "selfack"
  /\ pc[p] \in {"restdown", "restset", "restup", "shut"} => call[p] = "close"
  /\ pc[p] \in {"restdown", "restset", "restup"} => macset[p]
  /\ pc[p] # "idle" /\ call[p] = "setfuncmode" =>
       phase[p] \in {"init", "bare", "closed"}
  /\ pc[p] # "idle" /\ call[p] = "selfack" =>
       phase[p] \in {"open", "bare"} /\ macset[p] /\ extra[p] # Null
  /\ pc[p] # "idle" /\ call[p] = "close" => phase[p] \in {"open", "bare"}
  /\ macset[p] => startmac[p] \in Macs

TypeInv == TypeOK /\ \A p \in Procs : Where(p)

(* What a step of p leaves to another process q.                           *)
Spared(q) ==
  /\ pc'[q] = pc[q] /\ call'[q] = call[q] /\ list'[q] = list[q] /\ cand'[q] = cand[q]
  /\ phase'[q] = phase[q] /\ reply'[q] = reply[q]
  /\ ifname'[q] = ifname[q] /\ extra'[q] = extra[q]
  /\ macset'[q] = macset[q] /\ startmac'[q] = startmac[q]
  /\ raw'[q] = raw[q] /\ mishap'[q] = mishap[q]

LEMMA TypeInit == Init => TypeInv
<1> SUFFICES ASSUME Init PROVE TypeInv
  OBVIOUS
<1>1. TypeOK
  BY Names DEF Init, TypeOK, Steps, Exists, Vaps
<1>2. ASSUME NEW p \in Procs PROVE Where(p)
  BY DEF Init, Where
<1>3. QED
  BY <1>1, <1>2 DEF TypeInv

LEMMA SparedStep ==
  ASSUME TypeOK, NEW p \in Procs, Call(p) \/ Step(p), NEW q \in Procs, q # p
  PROVE  Spared(q)
<1> USE DEF TypeOK, Go, Continue, Return, SetIfname, SetExtra, Mishap, Spared
<1> USE DEF local, handle, socket, card
<1>1. CASE SetFuncmode(p) \/ DevType(p) \/ ListVaps(p) \/ Open(p)
  BY <1>1 DEF SetFuncmode, DevType, ListVaps, Open
<1>2. CASE DestroyVaps(p)
  BY <1>2 DEF DestroyVaps, DestroyVap
<1>3. CASE Destroyed(p)
  BY <1>3 DEF Destroyed
<1>4. CASE Scan(p)
  BY <1>4 DEF Scan, BuildFails
<1>5. CASE CreateVap(p)
  BY <1>5 DEF CreateVap, BuildFails
<1>6. CASE RetypeVap(p)
  BY <1>6 DEF RetypeVap, BuildFails
<1>7. CASE OpenVap(p)
  BY <1>7 DEF OpenVap
<1>8. CASE SelfAck(p)
  BY <1>8 DEF SelfAck, CloseRaw, Recorded
<1>9. CASE SetCardDown(p) \/ (\E mac \in Macs : SetCardAddress(p, mac)) \/ SetCardUp(p)
  BY <1>9 DEF SetCardDown, SetCardAddress, SetCardUp
<1>10. CASE Close(p) \/ RestoreDown(p) \/ RestoreAddress(p) \/ RestoreUp(p)
  BY <1>10 DEF Close, RestoreDown, RestoreAddress, RestoreUp
<1>11. CASE MadwifingClose(p)
  BY <1>11 DEF MadwifingClose, CloseRaw
<1>12. QED
  BY <1>1, <1>2, <1>3, <1>4, <1>5, <1>6, <1>7, <1>8, <1>9, <1>10, <1>11 DEF Call, Step

(* The types, by what the variables are about.                             *)
ControlType ==
  /\ pc \in [Procs -> Steps]
  /\ call \in [Procs -> {"setfuncmode", "selfack", "close"}]
  /\ phase \in [Procs -> {"init", "ready", "open", "bare", "closed"}]
  /\ reply \in [Procs -> BOOLEAN]

SearchType ==
  /\ list \in [Procs -> SUBSET Vaps]
  /\ cand \in [Procs -> 1 .. Len(Lorcon)]
  /\ mishap \in [Procs -> BOOLEAN]

HandleType ==
  /\ ifname \in [Procs -> Vaps \cup {Master}]
  /\ extra \in [Procs -> Vaps \cup {Master, Null}]
  /\ macset \in [Procs -> BOOLEAN]
  /\ startmac \in [Procs -> Macs \cup {NoMac}]

SocketType ==
  /\ raw \in [Procs -> {"zero", "held", "stale", "bad"}]
  /\ sock \in [Procs -> Vaps \cup {NoVap, Gone}]

CardType ==
  /\ owner \in [Vaps -> Procs \cup {Nobody, Admin}]
  /\ hw \in Macs

LEMMA TypeParts ==
  TypeOK <=> ControlType /\ SearchType /\ HandleType /\ SocketType /\ CardType
BY DEF TypeOK, ControlType, SearchType, HandleType, SocketType, CardType

(* A call goes on or returns.                                              *)
LEMMA ContinueType ==
  ASSUME ControlType, NEW p \in Procs, NEW l \in Steps, Continue(p, l),
         call' \in [Procs -> {"setfuncmode", "selfack", "close"}]
  PROVE  ControlType'
BY DEF ControlType, Continue, Go

LEMMA ReturnType ==
  ASSUME ControlType, NEW p \in Procs, NEW ok \in BOOLEAN, Return(p, ok), UNCHANGED call
  PROVE  ControlType'
<1>1. pc' \in [Procs -> Steps]
  BY DEF ControlType, Return, Go, Steps
<1>2. reply' \in [Procs -> BOOLEAN]
  BY DEF ControlType, Return
<1>3. phase' \in [Procs -> {"init", "ready", "open", "bare", "closed"}]
  BY DEF ControlType, Return
<1>4. QED
  BY <1>1, <1>2, <1>3 DEF ControlType

LEMMA TypeStep ==
  ASSUME TypeInv, NEW p \in Procs, Call(p) \/ Step(p)
  PROVE  TypeOK'
<1>1. ControlType /\ SearchType /\ HandleType /\ SocketType /\ CardType
  BY TypeParts DEF TypeInv
<1> SUFFICES ControlType' /\ SearchType' /\ HandleType' /\ SocketType' /\ CardType'
  BY DEF TypeOK, ControlType, SearchType, HandleType, SocketType, CardType
<1> USE DEF local, handle, socket, card
<1>2. CASE SetFuncmode(p)
  <2>1. ControlType'
    BY <1>1, <1>2, ContinueType, ReturnType DEF SetFuncmode, Steps, ControlType
  <2>2. SearchType' /\ HandleType' /\ SocketType' /\ CardType'
    BY <1>1, <1>2 DEF SetFuncmode, SearchType, HandleType, SocketType, CardType
  <2>3. QED
    BY <2>1, <2>2
<1>3. CASE DevType(p)
  <2>1. ControlType'
    BY <1>1, <1>3, ContinueType, ReturnType DEF DevType, Steps, ControlType
  <2>2. HandleType'
    BY <1>1, <1>3, Names DEF DevType, SetIfname, HandleType
  <2>3. SearchType' /\ SocketType' /\ CardType'
    BY <1>1, <1>3 DEF DevType, SearchType, SocketType, CardType
  <2>4. QED
    BY <2>1, <2>2, <2>3
<1>4. CASE ListVaps(p)
  <2>1. ControlType'
    BY <1>1, <1>4, ContinueType, ReturnType DEF ListVaps, Steps, ControlType
  <2>2. SearchType'
    BY <1>1, <1>4, Names DEF ListVaps, Mishap, SearchType
  <2>3. HandleType' /\ SocketType' /\ CardType'
    BY <1>1, <1>4 DEF ListVaps, HandleType, SocketType, CardType
  <2>4. QED
    BY <2>1, <2>2, <2>3
<1>5. CASE DestroyVaps(p)
  <2>1. ControlType'
    BY <1>1, <1>5, ContinueType, ReturnType DEF DestroyVaps, Steps, ControlType
  <2>2. SearchType'
    BY <1>1, <1>5, Names DEF DestroyVaps, Mishap, SearchType
  <2>3. SocketType'
    BY <1>1, <1>5 DEF DestroyVaps, DestroyVap, SocketType
  <2>4. CardType'
    BY <1>1, <1>5, Names DEF DestroyVaps, DestroyVap, CardType
  <2>5. HandleType'
    BY <1>1, <1>5 DEF DestroyVaps, HandleType
  <2>6. QED
    BY <2>1, <2>2, <2>3, <2>4, <2>5
<1>6. CASE Destroyed(p)
  <2>1. ControlType'
    BY <1>1, <1>6, ContinueType, ReturnType DEF Destroyed, Steps, ControlType
  <2>2. SearchType'
    BY <1>1, <1>6, Names DEF Destroyed, SearchType
  <2>3. HandleType'
    BY <1>1, <1>6, Names DEF Destroyed, SetExtra, HandleType
  <2>4. SocketType' /\ CardType'
    BY <1>1, <1>6 DEF Destroyed, SocketType, CardType
  <2>5. QED
    BY <2>1, <2>2, <2>3, <2>4
<1>7. CASE Scan(p)
  <2>1. ControlType'
    BY <1>1, <1>7, ContinueType, ReturnType DEF Scan, BuildFails, Steps, ControlType
  <2>2. SearchType'
    <3>1. cand[p] \in 1 .. Len(Lorcon) /\ Len(Lorcon) \in Nat
      BY <1>1, Names DEF SearchType
    <3>2. cand[p] < Len(Lorcon) => cand[p] + 1 \in 1 .. Len(Lorcon)
      BY <3>1
    <3>3. QED
      BY <1>1, <1>7, <3>2 DEF Scan, SearchType
  <2>3. HandleType'
    BY <1>1, <1>7, Names DEF Scan, BuildFails, SetExtra, HandleType
  <2>4. SocketType' /\ CardType'
    BY <1>1, <1>7 DEF Scan, SocketType, CardType
  <2>5. QED
    BY <2>1, <2>2, <2>3, <2>4
<1>8. CASE CreateVap(p)
  <2>1. ControlType'
    BY <1>1, <1>8, ContinueType, ReturnType DEF CreateVap, BuildFails, Steps,
       ControlType
  <2>2. HandleType'
    BY <1>1, <1>8, Names DEF CreateVap, BuildFails, SetExtra, HandleType
  <2>3. CardType'
    BY <1>1, <1>8, Names DEF CreateVap, CardType
  <2>4. SearchType' /\ SocketType'
    BY <1>1, <1>8 DEF CreateVap, SearchType, SocketType
  <2>5. QED
    BY <2>1, <2>2, <2>3, <2>4
<1>9. CASE RetypeVap(p)
  <2>1. ControlType'
    BY <1>1, <1>9, ContinueType, ReturnType DEF RetypeVap, BuildFails, Steps,
       ControlType
  <2>2. SearchType'
    BY <1>1, <1>9, Names DEF RetypeVap, Mishap, SearchType
  <2>3. HandleType'
    BY <1>1, <1>9, Names DEF RetypeVap, BuildFails, SetIfname, SetExtra,
       HandleType, SearchType
  <2>4. SocketType' /\ CardType'
    BY <1>1, <1>9 DEF RetypeVap, SocketType, CardType
  <2>5. QED
    BY <2>1, <2>2, <2>3, <2>4
<1>10. CASE OpenVap(p)
  <2>1. ControlType'
    BY <1>1, <1>10, ContinueType, ReturnType DEF OpenVap, Steps, ControlType
  <2>2. SocketType'
    BY <1>1, <1>10 DEF OpenVap, Exists, SocketType
  <2>3. SearchType' /\ HandleType' /\ CardType'
    BY <1>1, <1>10 DEF OpenVap, SearchType, HandleType, CardType
  <2>4. QED
    BY <2>1, <2>2, <2>3
<1>11. CASE Open(p)
  <2>1. ControlType'
    BY <1>1, <1>11 DEF Open, ControlType
  <2>2. SearchType' /\ HandleType' /\ SocketType' /\ CardType'
    BY <1>1, <1>11 DEF Open, SearchType, HandleType, SocketType, CardType
  <2>3. QED
    BY <2>1, <2>2
<1>12. CASE SelfAck(p)
  <2>1. ControlType'
    BY <1>1, <1>12, ContinueType, ReturnType DEF SelfAck, Steps, ControlType
  <2>2. HandleType'
    BY <1>1, <1>12 DEF SelfAck, Recorded, HandleType, CardType
  <2>3. SocketType'
    BY <1>1, <1>12 DEF SelfAck, CloseRaw, SocketType
  <2>4. SearchType' /\ CardType'
    BY <1>1, <1>12 DEF SelfAck, SearchType, CardType
  <2>5. QED
    BY <2>1, <2>2, <2>3, <2>4
<1>13. CASE SetCardDown(p)
  <2>1. ControlType'
    BY <1>1, <1>13, ContinueType, ReturnType DEF SetCardDown, Steps, ControlType
  <2>2. SearchType' /\ HandleType' /\ SocketType' /\ CardType'
    BY <1>1, <1>13 DEF SetCardDown, SearchType, HandleType, SocketType, CardType
  <2>3. QED
    BY <2>1, <2>2
<1>14. CASE \E mac \in Macs : SetCardAddress(p, mac)
  <2>1. ControlType'
    BY <1>1, <1>14, ContinueType, ReturnType DEF SetCardAddress, Steps, ControlType
  <2>2. CardType'
    BY <1>1, <1>14, Names DEF SetCardAddress, CardType
  <2>3. SearchType' /\ HandleType' /\ SocketType'
    BY <1>1, <1>14 DEF SetCardAddress, SearchType, HandleType, SocketType
  <2>4. QED
    BY <2>1, <2>2, <2>3
<1>15. CASE SetCardUp(p)
  <2>1. ControlType'
    BY <1>1, <1>15, ContinueType, ReturnType DEF SetCardUp, Steps, ControlType
  <2>2. SearchType' /\ HandleType' /\ SocketType' /\ CardType'
    BY <1>1, <1>15 DEF SetCardUp, SearchType, HandleType, SocketType, CardType
  <2>3. QED
    BY <2>1, <2>2
<1>16. CASE Close(p)
  <2>1. ControlType'
    BY <1>1, <1>16, ContinueType, ReturnType DEF Close, Steps, ControlType
  <2>2. SearchType' /\ HandleType' /\ SocketType' /\ CardType'
    BY <1>1, <1>16 DEF Close, SearchType, HandleType, SocketType, CardType
  <2>3. QED
    BY <2>1, <2>2
<1>17. CASE RestoreDown(p)
  <2>1. ControlType'
    BY <1>1, <1>17, ContinueType, ReturnType DEF RestoreDown, Steps, ControlType
  <2>2. SearchType' /\ HandleType' /\ SocketType' /\ CardType'
    BY <1>1, <1>17 DEF RestoreDown, SearchType, HandleType, SocketType, CardType
  <2>3. QED
    BY <2>1, <2>2
<1>18. CASE RestoreAddress(p)
  <2>1. ControlType'
    BY <1>1, <1>18, ContinueType, ReturnType DEF RestoreAddress, Steps, ControlType
  <2>2. CardType'
    BY <1>1, <1>18 DEF RestoreAddress, CardType, TypeInv, Where, At
  <2>3. SearchType' /\ HandleType' /\ SocketType'
    BY <1>1, <1>18 DEF RestoreAddress, SearchType, HandleType, SocketType
  <2>4. QED
    BY <2>1, <2>2, <2>3
<1>19. CASE RestoreUp(p)
  <2>1. ControlType'
    BY <1>1, <1>19, ContinueType, ReturnType DEF RestoreUp, Steps, ControlType
  <2>2. SearchType' /\ HandleType' /\ SocketType' /\ CardType'
    BY <1>1, <1>19 DEF RestoreUp, SearchType, HandleType, SocketType, CardType
  <2>3. QED
    BY <2>1, <2>2
<1>20. CASE MadwifingClose(p)
  <2>1. ControlType'
    BY <1>1, <1>20, ContinueType, ReturnType DEF MadwifingClose, Steps, ControlType
  <2>2. SearchType'
    BY <1>1, <1>20, Names DEF MadwifingClose, Mishap, SearchType
  <2>3. HandleType'
    BY <1>1, <1>20, Names DEF MadwifingClose, SetIfname, SetExtra, HandleType
  <2>4. SocketType'
    BY <1>1, <1>20 DEF MadwifingClose, CloseRaw, Exists, SocketType
  <2>5. CardType'
    BY <1>1, <1>20, Names DEF MadwifingClose, CardType
  <2>6. QED
    BY <2>1, <2>2, <2>3, <2>4, <2>5
<1>21. QED
  BY <1>2, <1>3, <1>4, <1>5, <1>6, <1>7, <1>8, <1>9, <1>10, <1>11, <1>12, <1>13,
     <1>14, <1>15, <1>16, <1>17, <1>18, <1>19, <1>20 DEF Call, Step
-----------------------------------------------------------------------------
(***************************************************************************)
(* What each process knows of its own.                                     *)
(***************************************************************************)

(* A handle remembers the card, but while setfuncmode builds a VAP: then   *)
(* whatever the handle was on, which fails unless it was the card.         *)
Remembers(p) ==
  IF pc[p] \in {"scan", "create"} /\ call[p] = "setfuncmode"
    THEN extra[p] = ifname[p] /\ ifname[p] \in Others \cup {Master}
    ELSE /\ extra[p] \in {Null, Master}
         /\ extra[p] = Null => ifname[p] \in Others \cup {Master}
         /\ pc[p] \in {"list", "destroy"} /\ call[p] = "setfuncmode" /\ extra[p] = Master
              => ifname[p] = Master
         /\ pc[p] = "retype" => extra[p] = Master
         /\ pc[p] = "retype" /\ call[p] = "setfuncmode" => ifname[p] = Master
         /\ pc[p] = "idle" /\ phase[p] = "closed" => extra[p] = Null

(* A handle opened after a setfuncmode that succeeded has a socket unless   *)
(* the call before failed and it has tried selfack; so it is until a close *)
(* gets to wtinj_close.                                                    *)
Held(p) ==
  /\ phase[p] \in {"ready", "open"} /\ (~macset[p] \/ reply[p])
  /\ pc[p] \in {"idle", "restdown", "restset", "restup", "shut"}
  => raw[p] = "held"

LEMMA LocalStep ==
  ASSUME TypeInv, NEW p \in Procs, Call(p) \/ Step(p), Remembers(p), Held(p)
  PROVE  Where(p)' /\ Remembers(p)' /\ Held(p)'
<1>1. /\ ControlType /\ SearchType /\ HandleType /\ SocketType /\ CardType
      /\ Where(p)
  BY TypeParts DEF TypeInv
<1> USE DEF local, handle, socket, card, At, Go, Continue, Return, SetIfname, SetExtra
<1>2. CASE SetFuncmode(p)
  <2>1. Where(p)'
    BY <1>1, <1>2 DEF SetFuncmode, Where, ControlType, HandleType, CardType
  <2>2. Remembers(p)'
    BY <1>1, <1>2 DEF SetFuncmode, Where, Remembers, ControlType, HandleType
  <2>3. Held(p)'
    BY <1>1, <1>2 DEF SetFuncmode, Where, Held, ControlType, HandleType, SocketType
  <2>4. QED
    BY <2>1, <2>2, <2>3
<1>3. CASE DevType(p)
  <2>1. Where(p)'
    BY <1>1, <1>3 DEF DevType, Where, ControlType, HandleType, CardType
  <2>2. Remembers(p)'
    BY <1>1, <1>3 DEF DevType, Where, Remembers, ControlType, HandleType, Null, Master
  <2>3. Held(p)'
    BY <1>1, <1>3 DEF DevType, Where, Held, ControlType, HandleType, SocketType
  <2>4. QED
    BY <2>1, <2>2, <2>3
<1>4. CASE ListVaps(p)
  <2>1. Where(p)'
    BY <1>1, <1>4 DEF ListVaps, Where, ControlType, HandleType, CardType
  <2>2. Remembers(p)'
    BY <1>1, <1>4 DEF ListVaps, Where, Remembers, ControlType, HandleType
  <2>3. Held(p)'
    BY <1>1, <1>4 DEF ListVaps, Where, Held, ControlType, HandleType, SocketType
  <2>4. QED
    BY <2>1, <2>2, <2>3
<1>5. CASE DestroyVaps(p)
  <2>1. Where(p)'
    BY <1>1, <1>5 DEF DestroyVaps, Where, ControlType, HandleType, CardType
  <2>2. Remembers(p)'
    BY <1>1, <1>5 DEF DestroyVaps, Where, Remembers, ControlType, HandleType
  <2>3. Held(p)'
    BY <1>1, <1>5 DEF DestroyVaps, Where, Held, ControlType, HandleType, SocketType
  <2>4. QED
    BY <2>1, <2>2, <2>3
<1>6. CASE Destroyed(p)
  <2>1. Where(p)'
    BY <1>1, <1>6 DEF Destroyed, Where, ControlType, HandleType, CardType
  <2>2. Remembers(p)'
    BY <1>1, <1>6 DEF Destroyed, Where, Remembers, ControlType, HandleType
  <2>3. Held(p)'
    BY <1>1, <1>6 DEF Destroyed, Where, Held, ControlType, HandleType, SocketType
  <2>4. QED
    BY <2>1, <2>2, <2>3
<1>7. CASE Scan(p)
  <2>1. Where(p)'
    BY <1>1, <1>7 DEF Scan, BuildFails, Where, ControlType, HandleType, CardType
  <2>2. Remembers(p)'
    BY <1>1, <1>7 DEF Scan, BuildFails, Where, Remembers, ControlType, HandleType
  <2>3. Held(p)'
    BY <1>1, <1>7 DEF Scan, BuildFails, Where, Held, ControlType, HandleType, SocketType
  <2>4. QED
    BY <2>1, <2>2, <2>3
<1>8. CASE CreateVap(p)
  <2>1. Where(p)'
    BY <1>1, <1>8 DEF CreateVap, BuildFails, Parent, Where, ControlType,
       HandleType, CardType
  <2>2. Remembers(p)'
    BY <1>1, <1>8 DEF CreateVap, BuildFails, Parent, Where, Remembers,
       ControlType, HandleType
  <2>3. Held(p)'
    BY <1>1, <1>8 DEF CreateVap, BuildFails, Parent, Where, Held, ControlType,
       HandleType, SocketType
  <2>4. QED
    BY <2>1, <2>2, <2>3
<1>9. CASE RetypeVap(p)
  <2>1. Where(p)'
    BY <1>1, <1>9 DEF RetypeVap, BuildFails, Where, ControlType, HandleType, CardType
  <2>2. Remembers(p)'
    BY <1>1, <1>9 DEF RetypeVap, BuildFails, Where, Remembers, ControlType, HandleType,
       Null, Master
  <2>3. Held(p)'
    BY <1>1, <1>9 DEF RetypeVap, BuildFails, Where, Held, ControlType,
       HandleType, SocketType
  <2>4. QED
    BY <2>1, <2>2, <2>3
<1>10. CASE OpenVap(p)
  <2>1. Where(p)'
    BY <1>1, <1>10 DEF OpenVap, Where, ControlType, HandleType, CardType
  <2>2. Remembers(p)'
    BY <1>1, <1>10 DEF OpenVap, Where, Remembers, ControlType, HandleType
  <2>3. Held(p)'
    BY <1>1, <1>10 DEF OpenVap, Where, Held, ControlType, HandleType, SocketType
  <2>4. QED
    BY <2>1, <2>2, <2>3
<1>11. CASE Open(p)
  <2>1. Where(p)'
    BY <1>1, <1>11 DEF Open, Where, ControlType, HandleType, CardType
  <2>2. Remembers(p)'
    BY <1>1, <1>11 DEF Open, Where, Remembers, ControlType, HandleType
  <2>3. Held(p)'
    BY <1>1, <1>11 DEF Open, Where, Held, ControlType, HandleType, SocketType
  <2>4. QED
    BY <2>1, <2>2, <2>3
<1>12. CASE SelfAck(p)
  <2>1. Where(p)'
    BY <1>1, <1>12 DEF SelfAck, Recorded, CloseRaw, Where, ControlType,
       HandleType, CardType
  <2>2. Remembers(p)'
    BY <1>1, <1>12 DEF SelfAck, Recorded, CloseRaw, Where, Remembers,
       ControlType, HandleType
  <2>3. Held(p)'
    BY <1>1, <1>12 DEF SelfAck, Recorded, CloseRaw, Where, Held, ControlType,
       HandleType, SocketType
  <2>4. QED
    BY <2>1, <2>2, <2>3
<1>13. CASE SetCardDown(p)
  <2>1. Where(p)'
    BY <1>1, <1>13 DEF SetCardDown, Where, ControlType, HandleType, CardType
  <2>2. Remembers(p)'
    BY <1>1, <1>13 DEF SetCardDown, Where, Remembers, ControlType, HandleType
  <2>3. Held(p)'
    BY <1>1, <1>13 DEF SetCardDown, Where, Held, ControlType, HandleType, SocketType
  <2>4. QED
    BY <2>1, <2>2, <2>3
<1>14. CASE \E mac \in Macs : SetCardAddress(p, mac)
  <2>1. Where(p)'
    BY <1>1, <1>14 DEF SetCardAddress, Where, ControlType, HandleType, CardType
  <2>2. Remembers(p)'
    BY <1>1, <1>14 DEF SetCardAddress, Where, Remembers, ControlType, HandleType
  <2>3. Held(p)'
    BY <1>1, <1>14 DEF SetCardAddress, Where, Held, ControlType, HandleType, SocketType
  <2>4. QED
    BY <2>1, <2>2, <2>3
<1>15. CASE SetCardUp(p)
  <2>1. Where(p)'
    BY <1>1, <1>15 DEF SetCardUp, Where, ControlType, HandleType, CardType
  <2>2. Remembers(p)'
    BY <1>1, <1>15 DEF SetCardUp, Where, Remembers, ControlType, HandleType
  <2>3. Held(p)'
    BY <1>1, <1>15 DEF SetCardUp, Where, Held, ControlType, HandleType, SocketType
  <2>4. QED
    BY <2>1, <2>2, <2>3
<1>16. CASE Close(p)
  <2>1. Where(p)'
    BY <1>1, <1>16 DEF Close, Where, ControlType, HandleType, CardType
  <2>2. Remembers(p)'
    BY <1>1, <1>16 DEF Close, Where, Remembers, ControlType, HandleType
  <2>3. Held(p)'
    BY <1>1, <1>16 DEF Close, Where, Held, ControlType, HandleType, SocketType
  <2>4. QED
    BY <2>1, <2>2, <2>3
<1>17. CASE RestoreDown(p)
  <2>1. Where(p)'
    BY <1>1, <1>17 DEF RestoreDown, Where, ControlType, HandleType, CardType
  <2>2. Remembers(p)'
    BY <1>1, <1>17 DEF RestoreDown, Where, Remembers, ControlType, HandleType
  <2>3. Held(p)'
    BY <1>1, <1>17 DEF RestoreDown, Where, Held, ControlType, HandleType, SocketType
  <2>4. QED
    BY <2>1, <2>2, <2>3
<1>18. CASE RestoreAddress(p)
  <2>1. Where(p)'
    BY <1>1, <1>18 DEF RestoreAddress, Where, ControlType, HandleType, CardType
  <2>2. Remembers(p)'
    BY <1>1, <1>18 DEF RestoreAddress, Where, Remembers, ControlType, HandleType
  <2>3. Held(p)'
    BY <1>1, <1>18 DEF RestoreAddress, Where, Held, ControlType, HandleType, SocketType
  <2>4. QED
    BY <2>1, <2>2, <2>3
<1>19. CASE RestoreUp(p)
  <2>1. Where(p)'
    BY <1>1, <1>19 DEF RestoreUp, Where, ControlType, HandleType, CardType
  <2>2. Remembers(p)'
    BY <1>1, <1>19 DEF RestoreUp, Where, Remembers, ControlType, HandleType
  <2>3. Held(p)'
    BY <1>1, <1>19 DEF RestoreUp, Where, Held, ControlType, HandleType, SocketType
  <2>4. QED
    BY <2>1, <2>2, <2>3
<1>20. CASE MadwifingClose(p)
  <2>1. Where(p)'
    BY <1>1, <1>20 DEF MadwifingClose, CloseRaw, Where, ControlType, HandleType,
       CardType
  <2>2. Remembers(p)'
    BY <1>1, <1>20 DEF MadwifingClose, CloseRaw, Where, Remembers, ControlType,
       HandleType
  <2>3. Held(p)'
    BY <1>1, <1>20 DEF MadwifingClose, CloseRaw, Where, Held, ControlType,
       HandleType, SocketType
  <2>4. QED
    BY <2>1, <2>2, <2>3
<1>21. QED
  BY <1>2, <1>3, <1>4, <1>5, <1>6, <1>7, <1>8, <1>9, <1>10, <1>11, <1>12, <1>13,
     <1>14, <1>15, <1>16, <1>17, <1>18, <1>19, <1>20 DEF Call, Step
-----------------------------------------------------------------------------
(***************************************************************************)
(* Who has which VAP.                                                      *)
(***************************************************************************)

(* The VAPs a process made are the one its handle is on; while they are    *)
(* being destroyed, those still listed; and the one it has just made.      *)
Tracks(p, v) ==
  \/ pc[p] = "list" /\ extra[p] = Master
  \/ pc[p] = "destroy" /\ v \in list[p]
  \/ pc[p] = "retype" /\ v = Lorcon[cand[p]]
  \/ /\ pc[p] \notin {"list", "destroy", "down", "sethw", "up", "scan", "create", "retype"}
     /\ extra[p] = Master /\ v = ifname[p]

Tracked(p) == ~mishap[p] => \A v \in Vaps : owner[v] = p => Tracks(p, v)

(* A process makes no VAP under the names the administrator uses, so a     *)
(* handle on one of those lists all of its own.                            *)
OwnNames(p) == \A v \in Others : owner[v] # p

LEMMA NobodyElse == \A p \in Procs : p # Nobody /\ p # Admin
BY MadwifingAssumption

LEMMA VapsAreNotCard == \A v \in Vaps : v # Master /\ v # Null /\ v # NoVap /\ v # Gone
BY MadwifingAssumption

(* A step gives VAPs to no process but the one that takes it, and under     *)
(* the names it builds them.                                               *)
LEMMA OwnerStep ==
  ASSUME TypeOK, NEW p \in Procs, Call(p) \/ Step(p), NEW v \in Vaps
  PROVE  /\ owner'[v] \in {owner[v], Nobody, p}
         /\ v \in Others => owner'[v] \in {owner[v], Nobody}
<1> USE DEF TypeOK, card
<1>1. CASE DestroyVaps(p)
  BY <1>1 DEF DestroyVaps, DestroyVap
<1>2. CASE CreateVap(p)
  <2>1. Lorcon[cand[p]] \in Vaps /\ Lorcon[cand[p]] \notin Others
    BY MadwifingAssumption DEF Vaps, Built
  <2>2. QED
    BY <1>2, <2>1 DEF CreateVap
<1>3. CASE MadwifingClose(p)
  BY <1>3 DEF MadwifingClose
<1>4. CASE UNCHANGED owner
  BY <1>4
<1>5. CASE Call(p)
  BY <1>4, <1>5 DEF Call, SetFuncmode, Open, SelfAck, Close
<1>6. CASE DevType(p) \/ ListVaps(p) \/ Destroyed(p) \/ Scan(p) \/ RetypeVap(p) \/ OpenVap(p)
  BY <1>4, <1>6 DEF DevType, ListVaps, Destroyed, Scan, RetypeVap, OpenVap
<1>7. CASE SetCardDown(p) \/ (\E mac \in Macs : SetCardAddress(p, mac)) \/ SetCardUp(p)
  BY <1>4, <1>7 DEF SetCardDown, SetCardAddress, SetCardUp
<1>8. CASE RestoreDown(p) \/ RestoreAddress(p) \/ RestoreUp(p)
  BY <1>4, <1>8 DEF RestoreDown, RestoreAddress, RestoreUp
<1>9. QED
  BY <1>1, <1>2, <1>3, <1>5, <1>6, <1>7, <1>8 DEF Step

LEMMA TrackedStep ==
  ASSUME TypeInv, NEW p \in Procs, Call(p) \/ Step(p), Remembers(p),
         OwnNames(p), Tracked(p)
  PROVE  Tracked(p)'
<1>1. /\ ControlType /\ SearchType /\ HandleType /\ SocketType /\ CardType
      /\ Where(p) /\ p # Nobody
  BY TypeParts, NobodyElse DEF TypeInv
<1> USE DEF local, handle, socket, card, At, Go, Continue, Return, SetIfname, SetExtra
<1> USE DEF Tracked, Tracks
<1>2. CASE SetFuncmode(p)
  BY <1>1, <1>2 DEF SetFuncmode, Where, Remembers, ControlType, SearchType,
     HandleType, CardType
<1>3. CASE DevType(p)
  BY <1>1, <1>3 DEF DevType, Where, Remembers, ControlType, SearchType,
     HandleType, CardType
<1>4. CASE ListVaps(p)
  <2>1. Parent(p) \in Others \cup {Master}
    BY <1>1, <1>4 DEF ListVaps, Parent, Where, Remembers, HandleType, Null, Master
  <2>2. \A v \in Vaps : owner[v] = p => Exists(v) /\ v # Parent(p)
    BY <1>1, <2>1, VapsAreNotCard DEF OwnNames, Exists
  <2>3. CASE mishap' = [mishap EXCEPT ![p] = TRUE]
    BY <1>1, <2>3 DEF SearchType
  <2>4. CASE list' = [list EXCEPT ![p] = {v \in Vaps : Exists(v)} \ {Parent(p)}]
    <3>1. pc'[p] = "destroy" /\ UNCHANGED owner
      BY <1>1, <1>4 DEF ListVaps, ControlType
    <3>2. \A v \in Vaps : owner'[v] = p => v \in list'[p]
      BY <1>1, <2>2, <2>4, <3>1 DEF SearchType
    <3>3. QED
      BY <3>1, <3>2
  <2>5. \/ mishap' = [mishap EXCEPT ![p] = TRUE]
        \/ list' = [list EXCEPT ![p] = {v \in Vaps : Exists(v)} \ {Parent(p)}]
    BY <1>4, Zenon DEF ListVaps, Mishap
  <2>6. QED
    BY <2>3, <2>4, <2>5, Zenon
<1>5. CASE DestroyVaps(p)
  <2>1. CASE mishap' = [mishap EXCEPT ![p] = TRUE]
    BY <1>1, <2>1 DEF SearchType
  <2>2. ASSUME NEW v \in list[p], DestroyVap(v), UNCHANGED mishap,
               list' = [list EXCEPT ![p] = @ \ {v}],
               pc' = [pc EXCEPT ![p] = "destroy"]
        PROVE  Tracked(p)'
    <3>1. pc[p] = "destroy" /\ pc'[p] = "destroy" /\ mishap'[p] = mishap[p]
      BY <1>1, <1>5, <2>2 DEF DestroyVaps, ControlType, SearchType
    <3>2. \A w \in Vaps : owner'[w] = p => w # v /\ owner[w] = p
      BY <1>1, <2>2 DEF DestroyVap, CardType
    <3>3. list'[p] = list[p] \ {v}
      BY <1>1, <2>2 DEF SearchType
    <3>4. QED
      BY <3>1, <3>2, <3>3
  <2>3. \/ mishap' = [mishap EXCEPT ![p] = TRUE]
        \/ \E v \in list[p] : /\ DestroyVap(v) /\ UNCHANGED mishap
                              /\ list' = [list EXCEPT ![p] = @ \ {v}]
                              /\ pc' = [pc EXCEPT ![p] = "destroy"]
    BY <1>5, Zenon DEF DestroyVaps, Mishap
  <2>4. QED
    BY <2>1, <2>2, <2>3
<1>6. CASE Destroyed(p)
  BY <1>1, <1>6 DEF Destroyed, Where, Remembers, ControlType, SearchType,
     HandleType, CardType
<1>7. CASE Scan(p)
  BY <1>1, <1>7 DEF Scan, BuildFails, Where, Remembers, ControlType, SearchType,
     HandleType, CardType
<1>8. CASE CreateVap(p)
  BY <1>1, <1>8, Names DEF CreateVap, BuildFails, Where, Remembers, ControlType,
     SearchType, HandleType, CardType
<1>9. CASE RetypeVap(p)
  BY <1>1, <1>9, Names DEF RetypeVap, BuildFails, Mishap, Where, Remembers,
     ControlType, SearchType, HandleType, CardType
<1>10. CASE OpenVap(p)
  BY <1>1, <1>10 DEF OpenVap, Where, Remembers, ControlType, SearchType,
     HandleType, CardType
<1>11. CASE Open(p)
  BY <1>1, <1>11 DEF Open, Where, Remembers, ControlType, SearchType,
     HandleType, CardType
<1>12. CASE SelfAck(p)
  BY <1>1, <1>12 DEF SelfAck, Where, Remembers, ControlType, SearchType,
     HandleType, CardType
<1>13. CASE SetCardDown(p)
  BY <1>1, <1>13 DEF SetCardDown, Where, Remembers, ControlType, SearchType,
     HandleType, CardType
<1>14. CASE \E mac \in Macs : SetCardAddress(p, mac)
  BY <1>1, <1>14 DEF SetCardAddress, Where, Remembers, ControlType, SearchType,
     HandleType, CardType
<1>15. CASE SetCardUp(p)
  BY <1>1, <1>15 DEF SetCardUp, Where, Remembers, ControlType, SearchType,
     HandleType, CardType
<1>16. CASE Close(p)
  BY <1>1, <1>16 DEF Close, Where, Remembers, ControlType, SearchType,
     HandleType, CardType
<1>17. CASE RestoreDown(p)
  BY <1>1, <1>17 DEF RestoreDown, Where, Remembers, ControlType, SearchType,
     HandleType, CardType
<1>18. CASE RestoreAddress(p)
  BY <1>1, <1>18 DEF RestoreAddress, Where, Remembers, ControlType, SearchType,
     HandleType, CardType
<1>19. CASE RestoreUp(p)
  BY <1>1, <1>19 DEF RestoreUp, Where, Remembers, ControlType, SearchType,
     HandleType, CardType
<1>20. CASE MadwifingClose(p)
  BY <1>1, <1>20 DEF MadwifingClose, Mishap, Where, Remembers, ControlType,
     SearchType, HandleType, CardType
<1>21. QED
  BY <1>2, <1>3, <1>4, <1>5, <1>6, <1>7, <1>8, <1>9, <1>10, <1>11, <1>12, <1>13,
     <1>14, <1>15, <1>16, <1>17, <1>18, <1>19, <1>20 DEF Call, Step
-----------------------------------------------------------------------------
(***************************************************************************)
(* The invariant of any number of processes, which may take each other's   *)
(* VAPs and change the card's address under each other.                    *)
(***************************************************************************)
Inv == TypeInv /\ \A p \in Procs : Remembers(p) /\ Held(p) /\ OwnNames(p) /\ Tracked(p)

LEMMA InvInit == Init => Inv
<1> SUFFICES ASSUME Init, NEW p \in Procs PROVE Remembers(p) /\ Held(p) /\ OwnNames(p) /\ Tracked(p)
  BY TypeInit DEF Inv
<1>1. Remembers(p) /\ Held(p)
  BY DEF Init, Remembers, Held
<1>2. Tracked(p)
  BY NobodyElse DEF Init, Tracked
<1>3. OwnNames(p)
  BY NobodyElse DEF Init, OwnNames, Vaps
<1>4. QED
  BY <1>1, <1>2, <1>3

LEMMA InvStep == Inv /\ [Next]_vars => Inv'
<1> SUFFICES ASSUME Inv, [Next]_vars PROVE Inv'
  OBVIOUS
<1>1. ASSUME NEW p \in Procs, Call(p) \/ Step(p) PROVE Inv'
  <2>0. ASSUME NEW q \in Procs PROVE OwnNames(q)'
    BY <1>1, OwnerStep, NobodyElse DEF Inv, TypeInv, OwnNames, Vaps
  <2>1. Where(p)' /\ Remembers(p)' /\ Held(p)' /\ Tracked(p)' /\ TypeOK'
    BY <1>1, TypeStep, LocalStep, TrackedStep DEF Inv
  <2>2. ASSUME NEW q \in Procs, q # p
        PROVE  Where(q)' /\ Remembers(q)' /\ Held(q)' /\ Tracked(q)'
    <3>1. Spared(q) /\ Where(q) /\ Remembers(q) /\ Held(q) /\ Tracked(q)
      BY <1>1, <2>2, SparedStep DEF Inv, TypeInv
    <3>2. \A v \in Vaps : owner'[v] = q => owner[v] = q
      BY <1>1, <2>2, OwnerStep, NobodyElse DEF Inv, TypeInv
    <3>3. Where(q)' /\ Remembers(q)' /\ Held(q)'
      BY <3>1 DEF Spared, Where, Remembers, Held
    <3>4. Tracked(q)'
      BY <3>1, <3>2 DEF Spared, Tracked, Tracks
    <3>5. QED
      BY <3>3, <3>4
  <2>3. QED
    BY <2>0, <2>1, <2>2 DEF Inv, TypeInv
<1>2. CASE UNCHANGED vars
  BY <1>2 DEF vars, card, local, handle, socket, Inv, TypeInv, TypeOK, Where, Remembers,
              Held, OwnNames, Tracked, Tracks
<1>3. QED
  BY <1>1, <1>2 DEF Next, AllDead

LEMMA Invariance == Spec => []Inv
BY InvInit, InvStep, PTL DEF Spec

(* Every variable keeps its type, however the calls of the processes       *)
(* interleave and fail.                                                    *)
THEOREM TypeCorrect == Spec => []TypeOK
<1>1. Inv => TypeOK
  BY DEF Inv, TypeInv
<1>2. QED
  BY Invariance, <1>1, PTL

(* Whatever other processes do to the card, a handle opened after a         *)
(* setfuncmode that succeeded closes only the socket it holds, unless it   *)
(* tried selfack and the call before failed (wtinj_close).                 *)
THEOREM OnlyOwnClosed == Spec => ClosesItsOwn
<1> DEFINE Own == \A p \in Procs :
      ClosesRaw(p) /\ raw[p] \in {"zero", "stale"} =>
        phase[p] = "bare" \/ (macset[p] /\ ~reply[p])
<1>1. Inv /\ [Next]_vars => [Own]_vars
  <2> SUFFICES ASSUME Inv, Next, NEW p \in Procs, ClosesRaw(p),
                      raw[p] \in {"zero", "stale"}, phase[p] # "bare"
               PROVE  macset[p] /\ ~reply[p]
    OBVIOUS
  <2>1. Held(p) /\ Where(p) /\ raw[p] # "held" /\ ControlType /\ HandleType
    BY TypeParts DEF Inv, TypeInv
  <2>2. CASE At(p, "shut")
    BY <2>1, <2>2 DEF Held, Where, At, ControlType, HandleType
  <2>3. CASE At(p, "idle") /\ At(p, "list")'
    <3>1. phase[p] \in {"open", "bare"}
      <4>1. PICK q \in Procs : Call(q) \/ Step(q)
        BY <2>3 DEF Next, AllDead, vars, At
      <4>2. q = p
        BY <2>3, <4>1, SparedStep DEF Inv, TypeInv, Spared, At
      <4>3. SelfAck(p)
        BY <2>1, <2>3, <4>1, <4>2
        DEF Call, Step, SetFuncmode, Open, Close, DevType, ListVaps, DestroyVaps,
            Destroyed, Scan, CreateVap, RetypeVap, OpenVap, SetCardDown,
            SetCardAddress, SetCardUp, RestoreDown, RestoreAddress, RestoreUp,
            MadwifingClose, At, Go, Continue, ControlType, local, handle, socket, card
      <4>4. QED
        BY <4>3 DEF SelfAck
    <3>2. QED
      BY <2>1, <2>3, <3>1 DEF Held, At, ControlType, HandleType
  <2>4. QED
    BY <2>2, <2>3 DEF ClosesRaw
<1>2. QED
  BY Invariance, <1>1, PTL DEF Spec, ClosesItsOwn

(* Between calls a process that has a VAP on the card has it under ifname,  *)
(* with the card's name at hand to destroy it by, and a closed handle has  *)
(* none, also where other processes destroyed its VAPs or took their names.*)
(* The VAPs that stay after a failed destruction or a failed setting of the*)
(* link type, which close or build_vap forget, and after a list that could *)
(* not be read are excepted until the next list that can.                  *)
THEOREM VapsNamed == Spec => []OwnVapNamed
<1>1. Inv => OwnVapNamed
  <2> SUFFICES ASSUME Inv, NEW p \in Procs, At(p, "idle"), ~mishap[p],
                      NEW v \in Vaps, owner[v] = p
               PROVE  v = ifname[p] /\ extra[p] = Master /\ phase[p] # "closed"
    BY DEF OwnVapNamed
  <2>1. extra[p] = Master /\ v = ifname[p]
    BY DEF Inv, Tracked, Tracks, At
  <2>2. phase[p] = "closed" => extra[p] = Null
    BY DEF Inv, Remembers, At
  <2>3. QED
    BY <2>1, <2>2 DEF Null, Master
<1>2. QED
  BY Invariance, <1>1, PTL
-----------------------------------------------------------------------------
(***************************************************************************)
(* One process that has the card to itself.                                *)
(***************************************************************************)

(* The address recorded is the card's own, and a close has put it back     *)
(* before the handle stops being open.                                     *)
Restores(p) ==
  /\ macset[p] => startmac[p] = HomeMac
  /\ ~macset[p] \/ phase[p] \notin {"open", "bare"} \/ pc[p] \in {"restup", "shut"} => hw = HomeMac

(* The handle is on a VAP of its own, or on none that is there; after a    *)
(* call that reports success its socket is bound to that VAP.              *)
OnOwn(p) ==
  /\ extra[p] = Master /\ Exists(ifname[p]) => owner[ifname[p]] = p
  /\ pc[p] = "retype" => owner[Lorcon[cand[p]]] = p
  /\ phase[p] = "ready" => reply[p]
  /\ pc[p] = "idle" /\ reply[p] /\ phase[p] \in {"ready", "open"} =>
       raw[p] = "held" /\ sock[p] = ifname[p] /\ Exists(ifname[p])

LEMMA RestoresStep ==
  ASSUME TypeInv, NEW p \in Procs, Call(p) \/ Step(p), Restores(p)
  PROVE  Restores(p)'
<1>1. /\ ControlType /\ SearchType /\ HandleType /\ SocketType /\ CardType
      /\ Where(p)
  BY TypeParts DEF TypeInv
<1> USE DEF local, handle, socket, card, At, Go, Continue, Return, Restores
<1>2. CASE SetFuncmode(p)
  BY <1>1, <1>2 DEF SetFuncmode, Where, ControlType, HandleType
<1>3. CASE DevType(p)
  BY <1>1, <1>3 DEF DevType, Where, ControlType, HandleType
<1>4. CASE ListVaps(p)
  BY <1>1, <1>4 DEF ListVaps, Where, ControlType, HandleType
<1>5. CASE DestroyVaps(p)
  BY <1>1, <1>5 DEF DestroyVaps, DestroyVap, Where, ControlType, HandleType
<1>6. CASE Destroyed(p)
  BY <1>1, <1>6 DEF Destroyed, Where, ControlType, HandleType
<1>7. CASE Scan(p)
  BY <1>1, <1>7 DEF Scan, BuildFails, Where, ControlType, HandleType
<1>8. CASE CreateVap(p)
  BY <1>1, <1>8 DEF CreateVap, BuildFails, Where, ControlType, HandleType
<1>9. CASE RetypeVap(p)
  BY <1>1, <1>9 DEF RetypeVap, BuildFails, Where, ControlType, HandleType
<1>10. CASE OpenVap(p)
  BY <1>1, <1>10 DEF OpenVap, Where, ControlType, HandleType
<1>11. CASE Open(p)
  BY <1>1, <1>11 DEF Open, Where, ControlType, HandleType
<1>12. CASE SelfAck(p)
  BY <1>1, <1>12 DEF SelfAck, Recorded, Where, ControlType, HandleType
<1>13. CASE SetCardDown(p)
  BY <1>1, <1>13 DEF SetCardDown, Where, ControlType, HandleType
<1>14. CASE \E mac \in Macs : SetCardAddress(p, mac)
  BY <1>1, <1>14 DEF SetCardAddress, Where, ControlType, HandleType
<1>15. CASE SetCardUp(p)
  BY <1>1, <1>15 DEF SetCardUp, Where, ControlType, HandleType
<1>16. CASE Close(p)
  BY <1>1, <1>16 DEF Close, Where, ControlType, HandleType
<1>17. CASE RestoreDown(p)
  BY <1>1, <1>17 DEF RestoreDown, Where, ControlType, HandleType
<1>18. CASE RestoreAddress(p)
  BY <1>1, <1>18 DEF RestoreAddress, Where, ControlType, HandleType
<1>19. CASE RestoreUp(p)
  BY <1>1, <1>19 DEF RestoreUp, Where, ControlType, HandleType
<1>20. CASE MadwifingClose(p)
  BY <1>1, <1>20 DEF MadwifingClose, Where, ControlType, HandleType
<1>21. QED
  BY <1>2, <1>3, <1>4, <1>5, <1>6, <1>7, <1>8, <1>9, <1>10, <1>11, <1>12, <1>13,
     <1>14, <1>15, <1>16, <1>17, <1>18, <1>19, <1>20 DEF Call, Step

LEMMA OnOwnStep ==
  ASSUME TypeInv, NEW p \in Procs, Call(p) \/ Step(p), Remembers(p), OnOwn(p)
  PROVE  OnOwn(p)'
<1>1. /\ ControlType /\ SearchType /\ HandleType /\ SocketType /\ CardType
      /\ Where(p)
  BY TypeParts DEF TypeInv
<1> USE DEF local, handle, socket, card, At, Go, Continue, Return, SetIfname, SetExtra
<1> USE DEF OnOwn, Exists
<1>2. CASE SetFuncmode(p)
  BY <1>1, <1>2, VapsAreNotCard, Names DEF SetFuncmode, Where, Remembers,
     ControlType, SearchType, HandleType, SocketType, CardType
<1>3. CASE DevType(p)
  BY <1>1, <1>3, VapsAreNotCard, Names DEF DevType, Where, Remembers,
     ControlType, SearchType, HandleType, SocketType, CardType
<1>4. CASE ListVaps(p)
  BY <1>1, <1>4, VapsAreNotCard, Names DEF ListVaps, Where, Remembers,
     ControlType, SearchType, HandleType, SocketType, CardType
<1>5. CASE DestroyVaps(p)
  BY <1>1, <1>5, VapsAreNotCard, Names DEF DestroyVaps, DestroyVap, Where,
     Remembers, ControlType, SearchType, HandleType, SocketType, CardType
<1>6. CASE Destroyed(p)
  BY <1>1, <1>6, VapsAreNotCard, Names DEF Destroyed, Where, Remembers,
     ControlType, SearchType, HandleType, SocketType, CardType
<1>7. CASE Scan(p)
  BY <1>1, <1>7, VapsAreNotCard, Names DEF Scan, BuildFails, Where, Remembers,
     ControlType, SearchType, HandleType, SocketType, CardType, Null, Master
<1>8. CASE CreateVap(p)
  BY <1>1, <1>8, VapsAreNotCard, Names DEF CreateVap, BuildFails, Where,
     Remembers, ControlType, SearchType, HandleType, SocketType, CardType, Null,
     Master
<1>9. CASE RetypeVap(p)
  BY <1>1, <1>9, VapsAreNotCard, Names DEF RetypeVap, BuildFails, Where,
     Remembers, ControlType, SearchType, HandleType, SocketType, CardType
<1>10. CASE OpenVap(p)
  BY <1>1, <1>10, VapsAreNotCard, Names DEF OpenVap, Where, Remembers,
     ControlType, SearchType, HandleType, SocketType, CardType
<1>11. CASE Open(p)
  BY <1>1, <1>11, VapsAreNotCard, Names DEF Open, Where, Remembers, ControlType,
     SearchType, HandleType, SocketType, CardType
<1>12. CASE SelfAck(p)
  BY <1>1, <1>12, VapsAreNotCard, Names DEF SelfAck, Recorded, CloseRaw, Where,
     Remembers, ControlType, SearchType, HandleType, SocketType, CardType
<1>13. CASE SetCardDown(p)
  BY <1>1, <1>13, VapsAreNotCard, Names DEF SetCardDown, Where, Remembers,
     ControlType, SearchType, HandleType, SocketType, CardType
<1>14. CASE \E mac \in Macs : SetCardAddress(p, mac)
  BY <1>1, <1>14, VapsAreNotCard, Names DEF SetCardAddress, Where, Remembers,
     ControlType, SearchType, HandleType, SocketType, CardType
<1>15. CASE SetCardUp(p)
  BY <1>1, <1>15, VapsAreNotCard, Names DEF SetCardUp, Where, Remembers,
     ControlType, SearchType, HandleType, SocketType, CardType
<1>16. CASE Close(p)
  BY <1>1, <1>16, VapsAreNotCard, Names DEF Close, Where, Remembers,
     ControlType, SearchType, HandleType, SocketType, CardType
<1>17. CASE RestoreDown(p)
  BY <1>1, <1>17, VapsAreNotCard, Names DEF RestoreDown, Where, Remembers,
     ControlType, SearchType, HandleType, SocketType, CardType
<1>18. CASE RestoreAddress(p)
  BY <1>1, <1>18, VapsAreNotCard, Names DEF RestoreAddress, Where, Remembers,
     ControlType, SearchType, HandleType, SocketType, CardType
<1>19. CASE RestoreUp(p)
  BY <1>1, <1>19, VapsAreNotCard, Names DEF RestoreUp, Where, Remembers,
     ControlType, SearchType, HandleType, SocketType, CardType
<1>20. CASE MadwifingClose(p)
  BY <1>1, <1>20, VapsAreNotCard, Names DEF MadwifingClose, CloseRaw, Where,
     Remembers, ControlType, SearchType, HandleType, SocketType, CardType
<1>21. QED
  BY <1>2, <1>3, <1>4, <1>5, <1>6, <1>7, <1>8, <1>9, <1>10, <1>11, <1>12, <1>13,
     <1>14, <1>15, <1>16, <1>17, <1>18, <1>19, <1>20 DEF Call, Step

LEMMA AloneInit ==
  ASSUME NEW p \in Procs, Init
  PROVE  Restores(p) /\ OnOwn(p)
<1>1. Restores(p)
  BY DEF Init, Restores
<1>2. OnOwn(p)
  BY DEF Init, OnOwn, Null, Master
<1>3. QED
  BY <1>1, <1>2

(* The two go with the invariant of all if there is no other process.      *)
LEMMA AloneStep ==
  ASSUME NEW p, Procs = {p}, Inv, [Next]_vars, Restores(p), OnOwn(p)
  PROVE  Restores(p)' /\ OnOwn(p)'
<1>1. CASE Call(p) \/ Step(p)
  BY <1>1, RestoresStep, OnOwnStep DEF Inv
<1>2. CASE UNCHANGED vars
  BY <1>2 DEF vars, card, local, handle, socket, Restores, OnOwn, Exists
<1>3. QED
  BY <1>1, <1>2 DEF Next, AllDead

LEMMA Alone ==
  ASSUME NEW p, Procs = {p}
  PROVE  Spec => [](Inv /\ Restores(p) /\ OnOwn(p))
<1> DEFINE I == Inv /\ Restores(p) /\ OnOwn(p)
<1>1. Init => I
  BY InvInit, AloneInit
<1>2. I /\ [Next]_vars => I'
  BY InvStep, AloneStep
<1>3. QED
  BY <1>1, <1>2, PTL DEF Spec

(* With any VAPs on the card before, after any attempts that failed, a call *)
(* that reports success leaves the socket bound to the handle's VAP        *)
(* (madwifing_setfuncmode, madwifing_selfack).                             *)
THEOREM OnItsOwnVap ==
  ASSUME NEW p, Procs = {p}
  PROVE  Spec => []OpenOnOwnVap
<1>1. Inv /\ Restores(p) /\ OnOwn(p) => OpenOnOwnVap
  <2> SUFFICES ASSUME Inv, OnOwn(p), At(p, "idle"), reply[p], phase[p] \in {"ready", "open"}
               PROVE  /\ raw[p] = "held" /\ sock[p] = ifname[p] /\ Exists(ifname[p])
                      /\ extra[p] # Null => owner[ifname[p]] = p
    BY DEF OpenOnOwnVap
  <2>1. Remembers(p)
    BY DEF Inv
  <2>2. QED
    BY <2>1 DEF OnOwn, Remembers, At
<1>2. QED
  BY Alone, <1>1, PTL

(* However many selfacks there were and whichever of them failed half way, *)
(* the card has its address back once the handle is closed (tx80211_close). *)
THEOREM AddressIsRestored ==
  ASSUME NEW p, Procs = {p}
  PROVE  Spec => []AddressRestored
<1>1. Inv /\ Restores(p) /\ OnOwn(p) => AddressRestored
  BY DEF Restores, AddressRestored
<1>2. QED
  BY Alone, <1>1, PTL
=============================================================================
