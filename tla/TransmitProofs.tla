---------------------------- MODULE TransmitProofs ----------------------------
(***************************************************************************)
(* What holds of module Transmit for any names, channels, numbers of       *)
(* frames and frequencies.                                                 *)
(***************************************************************************)
EXTENDS Transmit, WextProofs

(***************************************************************************)
(* The tables of tx80211.c.                                                *)
(***************************************************************************)

(* What is particular to the handlers a driver installs.                   *)
Row(n, h) ==
  /\ h.open = "madwifing" => n = Inj.MADWIFING
  /\ h.open = "airpcap" => n = Inj.AIRPCAP
  /\ h.send = "ajinj" => n = Inj.AIRJACK
  /\ n \in {Inj.WLANNG, Inj.AIRJACK} => h.funcmode = Null
  /\ n = Inj.MADWIFING => h.open = "madwifing" /\ h.send = "radiotap"
  /\ n = Inj.AIRPCAP => h.open = "airpcap" /\ h.send = "airpcap"

(* Every line of the switch of tx80211_init is like that.                  *)
LEMMA Rows ==
  ASSUME NEW os \in Platforms, NEW d \in Dispatch(os)
  PROVE  Row(d[1], d[2])
<1> USE DEF Row, Inj, Driver, Null
<1>1. CASE d = <<Inj.WLANNG, WlanngInit>> \/ d = <<Inj.AIRJACK, AirjackInit>>
  BY <1>1 DEF WlanngInit, AirjackInit
<1>2. CASE d = <<Inj.PRISM54, Prism54Init>> \/ d = <<Inj.MADWIFIOLD, MadwifioldInit>>
  BY <1>2 DEF Prism54Init, MadwifioldInit
<1>3. CASE d = <<Inj.MADWIFING, MadwifingInit>> \/ d = <<Inj.HOSTAP, HostapInit>>
  BY <1>3 DEF MadwifingInit, HostapInit
<1>4. CASE d = <<Inj.RT2500, Rt2500Init>> \/ d = <<Inj.RT2570, Rt2570Init>>
  BY <1>4 DEF Rt2500Init, Rt2570Init
<1>5. CASE d = <<Inj.RT73, Rt73Init>> \/ d = <<Inj.RTL8180, Rtl8180Init>>
  BY <1>5 DEF Rt73Init, Rtl8180Init
<1>6. CASE d = <<Inj.ZD1211RW, Zd1211rwInit>> \/ d = <<Inj.BCM43XX, Bcm43xxInit>>
  BY <1>6 DEF Zd1211rwInit, Bcm43xxInit
<1>7. CASE d = <<Inj.MAC80211, Mac80211Init>> \/ d = <<Inj.AIRPCAP, AirpcapInit>>
  BY <1>7 DEF Mac80211Init, AirpcapInit
<1>8. QED
  <2> HIDE DEF Row, Inj, Driver, Null
  <2>1. QED
    BY <1>1, <1>2, <1>3, <1>4, <1>5, <1>6, <1>7 DEF Dispatch

(* So is what a handle with a driver has installed.                        *)
LEMMA Handlers ==
  ASSUME NEW os \in Platforms, NEW n \in Dispatched(os)
  PROVE  Row(n, Installed(os, n))
<1>1. PICK d \in Dispatch(os) : d[1] = n
  BY DEF Dispatched
<1> DEFINE e == CHOOSE f \in Dispatch(os) : f[1] = n
<1>2. e \in Dispatch(os) /\ e[1] = n
  BY <1>1
<1>3. QED
  BY <1>2, Rows DEF Installed
-----------------------------------------------------------------------------
(* The lines of the table that a name can be on.                           *)
Lines(s) == {n \in DOMAIN LinuxNames : s \in LinuxNames[n].strs}

(* The lines that have a name decide, if they agree.                       *)
LEMMA LineResolves ==
  ASSUME NEW s, NEW i,
         Lines(s) # {}, \A n \in Lines(s) : LinuxNames[n].inj = i
  PROVE  Resolvecard("linux", s) = i
<1>1. DOMAIN LinuxNames = 1 .. 14
  BY DEF LinuxNames
<1>2. Lines(s) \in SUBSET Nat
  BY <1>1 DEF Lines
<1>3. Min(Lines(s)) \in Lines(s)
  BY <1>2, MinIsLeast
<1>4. Resolvecard("linux", s) = LinuxNames[Min(Lines(s))].inj
  BY DEF Resolvecard, Lines
<1>5. QED
  BY <1>3, <1>4

LEMMA OneLine ==
  ASSUME NEW s, NEW k, Lines(s) = {k}
  PROVE  Resolvecard("linux", s) = LinuxNames[k].inj
<1> DEFINE i == LinuxNames[k].inj
<1>1. Lines(s) # {} /\ \A n \in Lines(s) : LinuxNames[n].inj = i
  OBVIOUS
<1> HIDE DEF i
<1>2. Resolvecard("linux", s) = i
  BY <1>1, LineResolves, Zenon
<1>3. QED
  BY <1>2 DEF i

(* The names of each line, and its driver.                                 *)
LEMMA TableLines ==
  \A n \in DOMAIN LinuxNames : \A s :
    s \in LinuxNames[n].strs <=>
      \/ n = 1 /\ s \in {"wlan-ng", "wlanng"}
      \/ n = 2 /\ s \in {"host-ap", "hostap"}
      \/ n = 3 /\ s = "airjack"
      \/ n = 4 /\ s \in {"prism54", "prismgt"}
      \/ n = 5 /\ s \in {"madwifiold", "madwifi"}
      \/ n = 6 /\ s \in {"madwifing", "madwifi-ng"}
      \/ n = 7 /\ s \in {"madwifiold", "madwifi-old"}
      \/ n = 8 /\ s \in {"rtl8180", "rt8180"}
      \/ n = 9 /\ s \in {"rt2500", "rtl2500", "rt25k", "rtl25k"}
      \/ n = 10 /\ s \in {"rt2570", "rtl2570"}
      \/ n = 11 /\ s \in {"rt73", "rtl73", "rt2571"}
      \/ n = 12 /\ s \in {"rt61", "rt2561"}
      \/ n = 13 /\ s \in {"zd1211", "zd1211rw"}
      \/ n = 14 /\ s = "bcm43xx"
BY DEF LinuxNames, Names
LEMMA TableDrivers ==
  /\ LinuxNames[1].inj = Inj.WLANNG
  /\ LinuxNames[2].inj = Inj.HOSTAP
  /\ LinuxNames[3].inj = Inj.AIRJACK
  /\ LinuxNames[4].inj = Inj.PRISM54
  /\ LinuxNames[5].inj = Inj.MADWIFIOLD
  /\ LinuxNames[6].inj = Inj.MADWIFING
  /\ LinuxNames[7].inj = Inj.MADWIFIOLD
  /\ LinuxNames[8].inj = Inj.RTL8180
  /\ LinuxNames[9].inj = Inj.RT2500
  /\ LinuxNames[10].inj = Inj.RT2570
  /\ LinuxNames[11].inj = Inj.RT73
  /\ LinuxNames[12].inj = Inj.RT61
  /\ LinuxNames[13].inj = Inj.ZD1211RW
  /\ LinuxNames[14].inj = Inj.BCM43XX
BY DEF LinuxNames, Names

(* The names that the manual or the card list gives and a line has.        *)
DriverNamed(s, i) ==
  \/ s \in {"wlan-ng", "wlanng"} /\ i = Inj.WLANNG
  \/ s \in {"host-ap", "hostap"} /\ i = Inj.HOSTAP
  \/ s \in {"airjack"} /\ i = Inj.AIRJACK
  \/ s \in {"prism54", "prismgt"} /\ i = Inj.PRISM54
  \/ s \in {"madwifing", "madwifi-ng"} /\ i = Inj.MADWIFING
  \/ s \in {"madwifiold", "madwifi-old"} /\ i = Inj.MADWIFIOLD
  \/ s \in {"rtl8180", "rt8180"} /\ i = Inj.RTL8180
  \/ s \in {"rt2500", "rtl2500", "rt25k", "rtl25k"} /\ i = Inj.RT2500
  \/ s \in {"rt2570", "rtl2570"} /\ i = Inj.RT2570
  \/ s \in {"rt73"} /\ i = Inj.RT73
  \/ s \in {"rt61", "rt2561"} /\ i = Inj.RT61
  \/ s \in {"zd1211rw"} /\ i = Inj.ZD1211RW
  \/ s \in {"bcm43xx"} /\ i = Inj.BCM43XX
  \/ s \in {"mac80211", "ath5k", "iwlwifi"} /\ i = Inj.MAC80211

(* These are the lines of tx80211_getcardlist but the first, nodriver.     *)
LEMMA CardNames ==
  \A n \in DOMAIN CardList : n > 1 => DriverNamed(CardList[n].name, CardList[n].inj)
<1> SUFFICES ASSUME NEW n \in DOMAIN CardList, n > 1
             PROVE  DriverNamed(CardList[n].name, CardList[n].inj)
  OBVIOUS
<1>1. DOMAIN CardList = 1 .. 15
  BY DEF CardList
<1>2. n \in {2, 3, 4, 5, 6, 7, 8, 9, 10, 11, 12, 13, 14, 15}
  BY <1>1
<1>3. QED
  BY <1>2 DEF CardList, Card, DriverNamed

(* The manual has two names besides that no line has, and AirPcap's.       *)
LEMMA ManualsNames ==
  ASSUME NEW m \in ManualNames, NEW s \in m[1]
  PROVE  \/ DriverNamed(s, m[2])
         \/ s \in {"rt2750", "rtl2571"}
         \/ s = "airpcap" /\ m[2] = Inj.AIRPCAP
BY DEF ManualNames, DriverNamed

(* No such name but mac80211's is resolved by a line that is not its       *)
(* driver's: madwifiold is on two, of the same driver.                     *)
LEMMA NamedResolves ==
  ASSUME NEW s, NEW i, DriverNamed(s, i)
  PROVE  Resolvecard("linux", s) = i
<1>1. DOMAIN LinuxNames = 1 .. 14
  BY DEF LinuxNames
<1>2. CASE s \in {"wlan-ng", "wlanng"} /\ i = Inj.WLANNG
  <2>1. Lines(s) = {1}
    BY <1>1, <1>2, TableLines DEF Lines
  <2>2. Resolvecard("linux", s) = LinuxNames[1].inj
    BY <2>1, OneLine
  <2>3. QED
    BY <1>2, <2>2, TableDrivers
<1>3. CASE s \in {"host-ap", "hostap"} /\ i = Inj.HOSTAP
  <2>1. Lines(s) = {2}
    BY <1>1, <1>3, TableLines DEF Lines
  <2>2. Resolvecard("linux", s) = LinuxNames[2].inj
    BY <2>1, OneLine
  <2>3. QED
    BY <1>3, <2>2, TableDrivers
<1>4. CASE s \in {"airjack"} /\ i = Inj.AIRJACK
  <2>1. Lines(s) = {3}
    BY <1>1, <1>4, TableLines DEF Lines
  <2>2. Resolvecard("linux", s) = LinuxNames[3].inj
    BY <2>1, OneLine
  <2>3. QED
    BY <1>4, <2>2, TableDrivers
<1>5. CASE s \in {"prism54", "prismgt"} /\ i = Inj.PRISM54
  <2>1. Lines(s) = {4}
    BY <1>1, <1>5, TableLines DEF Lines
  <2>2. Resolvecard("linux", s) = LinuxNames[4].inj
    BY <2>1, OneLine
  <2>3. QED
    BY <1>5, <2>2, TableDrivers
<1>6. CASE s \in {"madwifing", "madwifi-ng"} /\ i = Inj.MADWIFING
  <2>1. Lines(s) = {6}
    BY <1>1, <1>6, TableLines DEF Lines
  <2>2. Resolvecard("linux", s) = LinuxNames[6].inj
    BY <2>1, OneLine
  <2>3. QED
    BY <1>6, <2>2, TableDrivers
<1>7. CASE s \in {"madwifiold", "madwifi-old"} /\ i = Inj.MADWIFIOLD
  <2>1. Lines(s) \subseteq {5, 7} /\ 7 \in Lines(s)
    BY <1>1, <1>7, TableLines DEF Lines
  <2>2. \A n \in Lines(s) : LinuxNames[n].inj = Inj.MADWIFIOLD
    BY <2>1, TableDrivers
  <2> DEFINE old == Inj.MADWIFIOLD
  <2> HIDE DEF old
  <2>3. Resolvecard("linux", s) = old
    BY <2>1, <2>2, LineResolves, Zenon DEF old
  <2>4. QED
    BY <1>7, <2>3 DEF old
<1>8. CASE s \in {"rtl8180", "rt8180"} /\ i = Inj.RTL8180
  <2>1. Lines(s) = {8}
    BY <1>1, <1>8, TableLines DEF Lines
  <2>2. Resolvecard("linux", s) = LinuxNames[8].inj
    BY <2>1, OneLine
  <2>3. QED
    BY <1>8, <2>2, TableDrivers
<1>9. CASE s \in {"rt2500", "rtl2500", "rt25k", "rtl25k"} /\ i = Inj.RT2500
  <2>1. Lines(s) = {9}
    BY <1>1, <1>9, TableLines DEF Lines
  <2>2. Resolvecard("linux", s) = LinuxNames[9].inj
    BY <2>1, OneLine
  <2>3. QED
    BY <1>9, <2>2, TableDrivers
<1>10. CASE s \in {"rt2570", "rtl2570"} /\ i = Inj.RT2570
  <2>1. Lines(s) = {10}
    BY <1>1, <1>10, TableLines DEF Lines
  <2>2. Resolvecard("linux", s) = LinuxNames[10].inj
    BY <2>1, OneLine
  <2>3. QED
    BY <1>10, <2>2, TableDrivers
<1>11. CASE s \in {"rt73"} /\ i = Inj.RT73
  <2>1. Lines(s) = {11}
    BY <1>1, <1>11, TableLines DEF Lines
  <2>2. Resolvecard("linux", s) = LinuxNames[11].inj
    BY <2>1, OneLine
  <2>3. QED
    BY <1>11, <2>2, TableDrivers
<1>12. CASE s \in {"rt61", "rt2561"} /\ i = Inj.RT61
  <2>1. Lines(s) = {12}
    BY <1>1, <1>12, TableLines DEF Lines
  <2>2. Resolvecard("linux", s) = LinuxNames[12].inj
    BY <2>1, OneLine
  <2>3. QED
    BY <1>12, <2>2, TableDrivers
<1>13. CASE s \in {"zd1211rw"} /\ i = Inj.ZD1211RW
  <2>1. Lines(s) = {13}
    BY <1>1, <1>13, TableLines DEF Lines
  <2>2. Resolvecard("linux", s) = LinuxNames[13].inj
    BY <2>1, OneLine
  <2>3. QED
    BY <1>13, <2>2, TableDrivers
<1>14. CASE s \in {"bcm43xx"} /\ i = Inj.BCM43XX
  <2>1. Lines(s) = {14}
    BY <1>1, <1>14, TableLines DEF Lines
  <2>2. Resolvecard("linux", s) = LinuxNames[14].inj
    BY <2>1, OneLine
  <2>3. QED
    BY <1>14, <2>2, TableDrivers
<1>15. CASE s \in {"mac80211", "ath5k", "iwlwifi"} /\ i = Inj.MAC80211
  <2>1. Lines(s) = {}
    BY <1>1, <1>15, TableLines DEF Lines
  <2>2. QED
    BY <1>15, <2>1 DEF Resolvecard, Lines, Mac80211Names
<1>16. QED
  BY <1>2, <1>3, <1>4, <1>5, <1>6, <1>7, <1>8,
     <1>9, <1>10, <1>11, <1>12, <1>13, <1>14, <1>15 DEF DriverNamed

(* The two names of the manual that no line has are not known at all, nor  *)
(* is AirPcap's on Linux or no name at all.                                *)
LEMMA NotKnown ==
  ASSUME NEW s \in {"rt2750", "rtl2571", "airpcap", Null}
  PROVE  s \notin KnownNames("linux")
<1> DEFINE U == UNION {LinuxNames[n].strs : n \in DOMAIN LinuxNames}
<1>1. s \notin U
  BY TableLines DEF Null
<1>2. s \notin Mac80211Names \cup {"rt2500usb", "rt73usb"}
  BY DEF Mac80211Names, Null
<1>3. KnownNames("linux") = (U \cup Mac80211Names) \cup {"rt2500usb", "rt73usb"}
  BY Zenon DEF KnownNames
<1> HIDE DEF U
<1>4. QED
  BY <1>1, <1>2, <1>3
-----------------------------------------------------------------------------
(***************************************************************************)
(* The inductive invariant.                                                *)
(***************************************************************************)
Starting == {"args", "init"}
Setting  == {"tun", "mode", "channel", "open", "pcap"}
Sending  == {"loop", "send", "getchan", "write", "nonblock", "select", "ajwrite"}

TypeInv ==
  /\ prog \in {"tx", "tuntx", "l2ping"} /\ platform \in Platforms
  /\ pc \in Starting \cup Setting \cup Sending \cup {"close", "done"}
  /\ channel \in Nat /\ channel <= IntMax
  /\ mhz \in Nat /\ mhz <= IntMax
  /\ accepted \in Nat /\ whole \in Nat /\ partial \in Nat /\ junk \in Nat
  /\ lost \in Nat /\ socks \in Nat

(* A program that is past its init has a handle with a driver, the one its *)
(* name stands for; before the init it has opened nothing.                 *)
Driven ==
  /\ pc \notin Starting \cup {"done"} =>
       prog \in {"tx", "tuntx"} /\ inj \in Dispatched(platform)
  /\ prog \in {"tx", "tuntx"} => name # Null
  /\ pc \notin {"args", "done"} /\ name # Null =>
       inj = Resolvecard(platform, name) /\ inj # Inj.NODRIVER
  /\ pc \in Starting => adapters = 0
  /\ exit = "crash" => pc = "done" /\ prog = "l2ping" /\ adapters = 0

(* The drivers that leave raw_fd as the init made it.                      *)
Socketless == inj = Inj.AIRPCAP \/ (prog = "tuntx" /\ inj = Inj.MADWIFING)

(* What raw_fd is on the way to the send loop and in it.                   *)
Ready ==
  /\ pc \in {"args", "init", "tun", "mode"} => raw = "zero"
  /\ pc \in {"channel", "open"} =>
       raw = IF prog = "tx" /\ inj = Inj.MADWIFING THEN "held" ELSE "zero"
  /\ pc \in Sending \cup {"pcap", "close"} =>
       raw = IF Socketless THEN "zero" ELSE "held"
  /\ pc \in Sending \cup {"channel", "open", "pcap", "close"} /\ prog = "tx" =>
       inj \notin {Inj.WLANNG, Inj.AIRJACK}

(* The accounts of frames, whatever the driver, and who keeps them.        *)
Balanced ==
  /\ pc \in Starting \cup Setting =>
       accepted = 0 /\ whole = 0 /\ partial = 0 /\ junk = 0
  /\ whole <= accepted /\ accepted <= whole + partial + junk
  /\ accepted > whole => Handler.send \in {"wtinj", "ajinj"}
  /\ pc \in {"getchan", "write"} => Handler.send \in {"radiotap", "airpcap"}
  /\ pc \in {"nonblock", "select", "ajwrite"} => Handler.send = "ajinj"

(* The buffers, sockets, blocks and the standard input at each place.      *)
BufferKept ==
  /\ pc \in Starting \cup Setting => lost = 0
  /\ pc \in Sending \cup {"pcap"} /\ prog = "tx" => modulation \in Supported
  /\ lost > 0 => prog = "tuntx" /\ modulation \notin Supported

SocketKept ==
  /\ pc \in {"nonblock", "select", "ajwrite"} => socks = 1
  /\ pc \in Starting \cup Setting \cup {"loop", "send", "getchan", "write"} => socks = 0
  /\ socks > 0 => socks = 1 /\ inj = Inj.AIRJACK
  /\ socks > 0 /\ prog = "tx" => pc # "close" /\ (pc = "done" => exit = "error")

Kept ==
  /\ BufferKept /\ SocketKept
  /\ prog = "l2ping" => cards \subseteq {"injnum"}
  /\ pc # "done" => stdin = TRUE
  /\ pc = "done" /\ stdin # TRUE => Socketless

Inv == TypeInv /\ Driven /\ Ready /\ Balanced /\ HeaderIsTheCards /\ Kept
-----------------------------------------------------------------------------
(* Past the arguments the handlers stay the same. *)
LEMMA DriverStays ==
  ASSUME [Next]_vars, pc # "args"
  PROVE  UNCHANGED <<args, inj>> /\ Handler' = Handler
<1>1. UNCHANGED <<args, inj>>
  BY DEF Next, Step, vars, Arguments, TxInit, SetupTun, SetMode, SetChannel,
     Open, OpenTap, NextFrame, SendPlain, SendRadiotap, FillHeader,
     WriteRadiotap, AjSocket, AjGetnonblock, AjWrite, Close, AjSelectAgain,
     AjSelectReady, AjSelectError, Retune, startup
<1>2. QED
  BY <1>1 DEF Handler, args

LEMMA TuningIsInt ==
  \A f \in Tuning : f \in Nat /\ f <= IntMax
<1>1. IntMax \in Int
  BY SMT DEF IntMax
<1>2. QED
  BY <1>1, TransmitAssumption

(* Each part of the invariant is kept by every step. The number of         *)
(* sockets stays a natural number because AjWrite has one to close.        *)
LEMMA TypeStep ==
  ASSUME TypeInv, Kept, [Next]_vars
  PROVE  TypeInv'
<1>1. CASE Arguments
  BY <1>1
     DEF Arguments, Usage, Getdrivername, Exit, Go, startup, args, packet,
        written, TypeInv, Starting, Setting, Sending
<1>2. CASE TxInit
  BY <1>2
     DEF TxInit, Exit, Go, startup, args, packet, written, TypeInv,
        Starting, Setting, Sending
<1>3. CASE SetupTun
  BY <1>3
     DEF SetupTun, Exit, Go, startup, args, packet, written, TypeInv,
        Starting, Setting, Sending
<1>4. CASE SetMode
  BY <1>4
     DEF SetMode, Exit, Go, startup, args, packet, written, TypeInv,
        Starting, Setting, Sending
<1>5. CASE SetChannel
  <2>1. Tuned(ChannelRequest(channel)) \in Nat /\ Tuned(ChannelRequest(channel)) <= IntMax
    BY TunedIsInt DEF TypeInv
  <2>2. QED
    BY <1>5, <2>1
       DEF SetChannel, Exit, Go, args, packet, written, ledger, TypeInv,
       Starting, Setting, Sending
<1>6. CASE Open
  BY <1>6
     DEF Open, Exit, Go, args, written, TypeInv, Starting, Setting, Sending
<1>7. CASE OpenTap
  BY <1>7
     DEF OpenTap, Exit, Go, startup, args, packet, written, TypeInv,
        Starting, Setting, Sending
<1>8. CASE NextFrame
  BY <1>8
     DEF NextFrame, Go, args, packet, written, ledger, TypeInv, Starting,
        Setting, Sending
<1>9. CASE SendPlain
  BY <1>9
     DEF SendPlain, WtinjSend, Rt2570Send, WginjSend, Accept, Refuse, Go,
        Exit, ClearFrame, WriteWhole, WritePartial, WriteNothing, args,
        written, ledger, TypeInv, Starting, Setting, Sending
<1>10. CASE SendRadiotap
  BY <1>10
     DEF SendRadiotap, Refuse, Go, Exit, ClearFrame, args, written, ledger,
        frame, TypeInv, Starting, Setting, Sending
<1>11. CASE FillHeader
  BY <1>11
     DEF FillHeader, Refuse, Go, Exit, ClearFrame, args, written, TypeInv,
        Starting, Setting, Sending
<1>12. CASE WriteRadiotap
  BY <1>12
     DEF WriteRadiotap, Accept, Refuse, Go, Exit, ClearFrame, WriteWhole,
        WritePartial, WriteNothing, args, written, ledger, TypeInv,
        Starting, Setting, Sending
<1>13. CASE AjSocket
  BY <1>13
     DEF AjSocket, Refuse, Go, Exit, ClearFrame, args, written, frame,
        TypeInv, Starting, Setting, Sending
<1>14. CASE AjGetnonblock
  BY <1>14
     DEF AjGetnonblock, Go, args, packet, written, ledger, TypeInv,
        Starting, Setting, Sending
<1>15. CASE AjWrite
  BY <1>15
     DEF Kept, SocketKept, AjWrite, Accept, Refuse, Go, Exit, ClearFrame,
        WriteNothing, args,
        written, TypeInv, Starting, Setting, Sending
<1>16. CASE Close
  BY <1>16
     DEF Close, Exit, args, packet, written, TypeInv, Starting, Setting,
        Sending
<1>17. CASE AjSelectAgain
  BY <1>17
     DEF AjSelectAgain, args, packet, written, ledger, TypeInv, Starting,
        Setting, Sending
<1>18. CASE AjSelectReady
  BY <1>18
     DEF AjSelectReady, Go, args, packet, written, ledger, TypeInv,
        Starting, Setting, Sending
<1>19. CASE AjSelectError
  BY <1>19
     DEF AjSelectError, Refuse, Exit, Go, ClearFrame, args, written, ledger,
        TypeInv, Starting, Setting, Sending
<1>20. CASE Retune
  BY <1>20, TuningIsInt
     DEF Retune, args, packet, written, ledger, TypeInv, Starting, Setting,
        Sending
<1>21. CASE UNCHANGED vars
  BY <1>21
     DEF vars, args, packet, written, ledger, Handler, TypeInv, Starting,
        Setting, Sending
<1>22. QED
  BY <1>1, <1>2, <1>3, <1>4, <1>5, <1>6, <1>7, <1>8, <1>9, <1>10, <1>11,
     <1>12, <1>13, <1>14, <1>15, <1>16, <1>17, <1>18, <1>19, <1>20, <1>21 DEF Next, Step

LEMMA DrivenStep ==
  ASSUME TypeInv, Driven, [Next]_vars
  PROVE  Driven'
<1>1. CASE Arguments
  BY <1>1
     DEF Arguments, Usage, Getdrivername, Exit, Go, startup, args, packet,
        written, TypeInv, Driven, Starting, Setting, Sending
<1>2. CASE TxInit
  BY <1>2
     DEF TxInit, Exit, Go, startup, args, packet, written, TypeInv, Driven,
        Starting, Setting, Sending
<1>3. CASE SetupTun
  BY <1>3
     DEF SetupTun, Exit, Go, startup, args, packet, written, TypeInv,
        Driven, Starting, Setting, Sending
<1>4. CASE SetMode
  BY <1>4
     DEF SetMode, Exit, Go, startup, args, packet, written, TypeInv, Driven,
        Starting, Setting, Sending
<1>5. CASE SetChannel
  BY <1>5
     DEF SetChannel, Exit, Go, args, packet, written, ledger, TypeInv,
        Driven, Starting, Setting, Sending
<1>6. CASE Open
  BY <1>6
     DEF Open, Exit, Go, args, written, TypeInv, Driven, Starting, Setting,
        Sending
<1>7. CASE OpenTap
  BY <1>7
     DEF OpenTap, Exit, Go, startup, args, packet, written, TypeInv, Driven,
        Starting, Setting, Sending
<1>8. CASE NextFrame
  BY <1>8
     DEF NextFrame, Go, args, packet, written, ledger, TypeInv, Driven,
        Starting, Setting, Sending
<1>9. CASE SendPlain
  BY <1>9
     DEF SendPlain, WtinjSend, Rt2570Send, WginjSend, Accept, Refuse, Go,
        Exit, ClearFrame, WriteWhole, WritePartial, WriteNothing, args,
        written, ledger, TypeInv, Driven, Starting, Setting, Sending
<1>10. CASE SendRadiotap
  BY <1>10
     DEF SendRadiotap, Refuse, Go, Exit, ClearFrame, args, written, ledger,
        frame, TypeInv, Driven, Starting, Setting, Sending
<1>11. CASE FillHeader
  BY <1>11
     DEF FillHeader, Refuse, Go, Exit, ClearFrame, args, written, TypeInv,
        Driven, Starting, Setting, Sending
<1>12. CASE WriteRadiotap
  BY <1>12
     DEF WriteRadiotap, Accept, Refuse, Go, Exit, ClearFrame, WriteWhole,
        WritePartial, WriteNothing, args, written, ledger, TypeInv, Driven,
        Starting, Setting, Sending
<1>13. CASE AjSocket
  BY <1>13
     DEF AjSocket, Refuse, Go, Exit, ClearFrame, args, written, frame,
        TypeInv, Driven, Starting, Setting, Sending
<1>14. CASE AjGetnonblock
  BY <1>14
     DEF AjGetnonblock, Go, args, packet, written, ledger, TypeInv, Driven,
        Starting, Setting, Sending
<1>15. CASE AjWrite
  BY <1>15
     DEF AjWrite, Accept, Refuse, Go, Exit, ClearFrame, WriteNothing, args,
        written, TypeInv, Driven, Starting, Setting, Sending
<1>16. CASE Close
  BY <1>16
     DEF Close, Exit, args, packet, written, TypeInv, Driven, Starting,
        Setting, Sending
<1>17. CASE AjSelectAgain
  BY <1>17
     DEF AjSelectAgain, args, packet, written, ledger, TypeInv, Driven,
        Starting, Setting, Sending
<1>18. CASE AjSelectReady
  BY <1>18
     DEF AjSelectReady, Go, args, packet, written, ledger, TypeInv, Driven,
        Starting, Setting, Sending
<1>19. CASE AjSelectError
  BY <1>19
     DEF AjSelectError, Refuse, Exit, Go, ClearFrame, args, written, ledger,
        TypeInv, Driven, Starting, Setting, Sending
<1>20. CASE Retune
  BY <1>20
     DEF Retune, args, packet, written, ledger, TypeInv, Driven, Starting,
        Setting, Sending
<1>21. CASE UNCHANGED vars
  BY <1>21
     DEF vars, args, packet, written, ledger, Handler, TypeInv, Driven,
        Starting, Setting, Sending
<1>22. QED
  BY <1>1, <1>2, <1>3, <1>4, <1>5, <1>6, <1>7, <1>8, <1>9, <1>10, <1>11,
     <1>12, <1>13, <1>14, <1>15, <1>16, <1>17, <1>18, <1>19, <1>20, <1>21 DEF Next, Step

(* In the program, between its init and its end.                           *)
LEMMA RowHere ==
  ASSUME TypeInv, Driven, pc \notin Starting \cup {"done"}
  PROVE  Row(inj, Handler)
BY Handlers DEF TypeInv, Driven, Handler

(* Only an open that is not madwifi-ng's or AirPcap's makes a socket.      *)
LEMMA ReadyStep ==
  ASSUME TypeInv, Driven, Ready, [Next]_vars
  PROVE  Ready'
<1>1. pc \notin Starting \cup {"done"} => Row(inj, Handler)
  BY RowHere
<1>2. CASE Arguments
  BY <1>2
     DEF Arguments, Usage, Getdrivername, Exit, Go, startup, args, packet,
        written, Ready, Socketless, Starting, Setting, Sending
<1>3. CASE TxInit
  BY <1>3
     DEF TxInit, Exit, Go, startup, args, packet, written, Ready,
        Socketless, Starting, Setting, Sending, Driven
<1>4. CASE SetupTun
  BY <1>4
     DEF SetupTun, Exit, Go, startup, args, packet, written, Ready,
        Socketless, Starting, Setting, Sending
<1>5. CASE SetMode
  BY <1>5, <1>1
     DEF SetMode, Exit, Go, startup, args, packet, written, Ready,
        Socketless, Starting, Setting, Sending, Row, Driven
<1>6. CASE SetChannel
  BY <1>6
     DEF SetChannel, Exit, Go, args, packet, written, ledger, Ready,
        Socketless, Starting, Setting, Sending
<1>7. CASE Open
  BY <1>7, <1>1
     DEF Open, Exit, Go, args, written, Ready, Socketless, Starting,
        Setting, Sending, Row, Driven
<1>8. CASE OpenTap
  BY <1>8
     DEF OpenTap, Exit, Go, startup, args, packet, written, Ready,
        Socketless, Starting, Setting, Sending
<1>9. CASE NextFrame
  BY <1>9
     DEF NextFrame, Go, args, packet, written, ledger, Ready, Socketless,
        Starting, Setting, Sending
<1>10. CASE SendPlain
  BY <1>10
     DEF SendPlain, WtinjSend, Rt2570Send, WginjSend, Accept, Refuse, Go,
        Exit, ClearFrame, WriteWhole, WritePartial, WriteNothing, args,
        written, ledger, Ready, Socketless, Starting, Setting, Sending
<1>11. CASE SendRadiotap
  BY <1>11
     DEF SendRadiotap, Refuse, Go, Exit, ClearFrame, args, written, ledger,
        frame, Ready, Socketless, Starting, Setting, Sending
<1>12. CASE FillHeader
  BY <1>12
     DEF FillHeader, Refuse, Go, Exit, ClearFrame, args, written, Ready,
        Socketless, Starting, Setting, Sending
<1>13. CASE WriteRadiotap
  BY <1>13
     DEF WriteRadiotap, Accept, Refuse, Go, Exit, ClearFrame, WriteWhole,
        WritePartial, WriteNothing, args, written, ledger, Ready,
        Socketless, Starting, Setting, Sending
<1>14. CASE AjSocket
  BY <1>14
     DEF AjSocket, Refuse, Go, Exit, ClearFrame, args, written, frame,
        Ready, Socketless, Starting, Setting, Sending
<1>15. CASE AjGetnonblock
  BY <1>15
     DEF AjGetnonblock, Go, args, packet, written, ledger, Ready,
        Socketless, Starting, Setting, Sending
<1>16. CASE AjWrite
  BY <1>16
     DEF AjWrite, Accept, Refuse, Go, Exit, ClearFrame, WriteNothing, args,
        written, Ready, Socketless, Starting, Setting, Sending
<1>17. CASE Close
  BY <1>17
     DEF Close, Exit, args, packet, written, Ready, Socketless, Starting,
        Setting, Sending
<1>18. CASE AjSelectAgain
  BY <1>18
     DEF AjSelectAgain, args, packet, written, ledger, Ready, Socketless,
        Starting, Setting, Sending
<1>19. CASE AjSelectReady
  BY <1>19
     DEF AjSelectReady, Go, args, packet, written, ledger, Ready,
        Socketless, Starting, Setting, Sending
<1>20. CASE AjSelectError
  BY <1>20
     DEF AjSelectError, Refuse, Exit, Go, ClearFrame, args, written, ledger,
        Ready, Socketless, Starting, Setting, Sending
<1>21. CASE Retune
  BY <1>21
     DEF Retune, args, packet, written, ledger, Ready, Socketless, Starting,
        Setting, Sending
<1>22. CASE UNCHANGED vars
  BY <1>22
     DEF vars, args, packet, written, ledger, Handler, Ready, Socketless,
        Starting, Setting, Sending
<1>23. QED
  BY <1>2, <1>3, <1>4, <1>5, <1>6, <1>7, <1>8, <1>9, <1>10, <1>11, <1>12,
     <1>13, <1>14, <1>15, <1>16, <1>17, <1>18, <1>19, <1>20, <1>21, <1>22 DEF Next, Step

(* A driver that calls a part of a frame an error leaves the loop; the     *)
(* writes to descriptor 0 that would count as sent need an rt2570          *)
(* without a socket.                                                       *)
LEMMA BalancedStep ==
  ASSUME TypeInv, Driven, Ready, Balanced, [Next]_vars
  PROVE  Balanced'
<1>1. pc # "args" => UNCHANGED <<args, inj>> /\ Handler' = Handler
  BY DriverStays
<1>2. pc \notin Starting \cup {"done"} => Row(inj, Handler)
  BY RowHere
<1>3. CASE Arguments
  BY <1>3
     DEF Arguments, Usage, Getdrivername, Exit, Go, startup, args, packet,
        written, Balanced, Starting, Setting, Sending
<1>4. CASE TxInit
  BY <1>4, <1>1
     DEF TxInit, Exit, Go, startup, args, packet, written, Balanced,
        Starting, Setting, Sending
<1>5. CASE SetupTun
  BY <1>5, <1>1
     DEF SetupTun, Exit, Go, startup, args, packet, written, Balanced,
        Starting, Setting, Sending
<1>6. CASE SetMode
  BY <1>6, <1>1
     DEF SetMode, Exit, Go, startup, args, packet, written, Balanced,
        Starting, Setting, Sending
<1>7. CASE SetChannel
  BY <1>7, <1>1
     DEF SetChannel, Exit, Go, args, packet, written, ledger, Balanced,
        Starting, Setting, Sending
<1>8. CASE Open
  BY <1>8, <1>1
     DEF Open, Exit, Go, args, written, Balanced, Starting, Setting, Sending
<1>9. CASE OpenTap
  BY <1>9, <1>1
     DEF OpenTap, Exit, Go, startup, args, packet, written, Balanced,
        Starting, Setting, Sending
<1>10. CASE NextFrame
  BY <1>10, <1>1
     DEF NextFrame, Go, args, packet, written, ledger, Balanced, Starting,
        Setting, Sending
<1>11. CASE SendPlain
  <2>1. /\ pc = "send" /\ pc' \in {"loop", "close", "done"}
        /\ UNCHANGED <<args, inj>> /\ Handler' = Handler /\ UNCHANGED junk
        /\ Handler.send \in {"wtinj", "rt2570", "wginj"}
    BY <1>1, <1>11
       DEF SendPlain, WtinjSend, Rt2570Send, WginjSend, Accept, Refuse, Go, Exit,
       WriteWhole, WritePartial, WriteNothing, written
  <2>2. raw # "zero"
    BY <1>2, <2>1 DEF Row, Ready, Socketless, Starting, Sending
  <2>3. /\ whole' <= accepted' /\ accepted' <= whole' + partial' + junk'
        /\ accepted' > whole' => Handler.send = "wtinj" \/ accepted > whole
    BY <1>11, <2>1, <2>2
       DEF SendPlain, WtinjSend, Rt2570Send, WginjSend, Accept, Refuse, Go, Exit,
       WriteWhole, WritePartial, WriteNothing, written, Balanced, Sending, TypeInv
  <2>4. QED
    BY <2>1, <2>3 DEF Balanced, Starting, Setting
<1>12. CASE SendRadiotap
  BY <1>12, <1>1
     DEF SendRadiotap, Refuse, Go, Exit, ClearFrame, args, written, ledger,
        frame, Balanced, Starting, Setting, Sending
<1>13. CASE FillHeader
  BY <1>13, <1>1
     DEF FillHeader, Refuse, Go, Exit, ClearFrame, args, written, Balanced,
        Starting, Setting, Sending
<1>14. CASE WriteRadiotap
  BY <1>14, <1>1
     DEF Inj, WriteRadiotap, Accept, Refuse, Go, Exit, ClearFrame, WriteWhole,
        WritePartial, WriteNothing, args, written, ledger, Balanced,
        Starting, Setting, Sending, Row, Ready, Socketless, TypeInv
<1>15. CASE AjSocket
  BY <1>15, <1>1
     DEF AjSocket, Refuse, Go, Exit, ClearFrame, args, written, frame,
        Balanced, Starting, Setting, Sending
<1>16. CASE AjGetnonblock
  BY <1>16, <1>1
     DEF AjGetnonblock, Go, args, packet, written, ledger, Balanced,
        Starting, Setting, Sending
<1>17. CASE AjWrite
  BY <1>17, <1>1, <1>2
     DEF AjWrite, Accept, Refuse, Go, Exit, ClearFrame, WriteNothing, args,
        written, Balanced, Starting, Setting, Sending, Row, Ready,
        Socketless, TypeInv
<1>18. CASE Close
  BY <1>18, <1>1
     DEF Close, Exit, args, packet, written, Balanced, Starting, Setting,
        Sending
<1>19. CASE AjSelectAgain
  BY <1>19, <1>1
     DEF AjSelectAgain, args, packet, written, ledger, Balanced, Starting,
        Setting, Sending
<1>20. CASE AjSelectReady
  BY <1>20, <1>1
     DEF AjSelectReady, Go, args, packet, written, ledger, Balanced,
        Starting, Setting, Sending
<1>21. CASE AjSelectError
  BY <1>21, <1>1
     DEF AjSelectError, Refuse, Exit, Go, ClearFrame, args, written, ledger,
        Balanced, Starting, Setting, Sending
<1>22. CASE Retune
  BY <1>22, <1>1
     DEF Retune, args, packet, written, ledger, Balanced, Starting, Setting,
        Sending
<1>23. CASE UNCHANGED vars
  BY <1>23
     DEF vars, args, packet, written, ledger, Handler, Balanced, Starting,
        Setting, Sending
<1>24. QED
  BY <1>3, <1>4, <1>5, <1>6, <1>7, <1>8, <1>9, <1>10, <1>11, <1>12, <1>13,
     <1>14, <1>15, <1>16, <1>17, <1>18, <1>19, <1>20, <1>21, <1>22, <1>23 DEF Next, Step

(* Of a list that is used up, or could not be had, the numbers stay.       *)
LEMMA CardBlocks ==
  ASSUME NEW k \in 1 .. 6
  PROVE  /\ k < 6 => Getcardlist(k) = {}
         /\ Freecardlist(Getcardlist(k)) \subseteq {"injnum"}
<1>1. Len(Blocks) = 5 /\ Blocks[1] = "list" /\ Blocks[2] = "cardnames" /\ Blocks[3] = "descriptions"
      /\ Blocks[4] = "capabilities" /\ Blocks[5] = "injnum"
  BY DEF Blocks
<1>2. Block(1 .. 0) = {} /\ Block(1 .. 1) = {Blocks[1]} /\ Block(1 .. 2) = {Blocks[1], Blocks[2]}
  BY DEF Block
<1>3. Block(1 .. 3) = {Blocks[1], Blocks[2], Blocks[3]}
  BY DEF Block
<1>4. Block(1 .. 4) = {Blocks[1], Blocks[2], Blocks[3], Blocks[4]}
  BY DEF Block
<1>5. Block(1 .. 5) = {Blocks[1], Blocks[2], Blocks[3], Blocks[4], Blocks[5]}
  BY DEF Block
<1>6. k - 1 = 0 \/ k - 1 = 1 \/ k - 1 = 2 \/ k - 1 = 3 \/ k - 1 = 4 \/ k - 1 = 5
  OBVIOUS
<1>7. k < 6 => Getcardlist(k) = {}
  <2>1. k = 1 => Getcardlist(k) = {}
    BY <1>2 DEF Getcardlist, FreedAfter
  <2>2. k = 2 => Getcardlist(k) = {}
    BY <1>1, <1>2 DEF Getcardlist, FreedAfter
  <2>3. k = 3 => Getcardlist(k) = {}
    BY <1>1, <1>2 DEF Getcardlist, FreedAfter
  <2>4. k = 4 => Getcardlist(k) = {}
    BY <1>1, <1>3 DEF Getcardlist, FreedAfter
  <2>5. k = 5 => Getcardlist(k) = {}
    BY <1>1, <1>4 DEF Getcardlist, FreedAfter
  <2>6. QED
    BY <1>6, <2>1, <2>2, <2>3, <2>4, <2>5
<1>8. k = 6 => Freecardlist(Getcardlist(k)) \subseteq {"injnum"}
  BY <1>1, <1>5 DEF Getcardlist, FreedAfter, Freecardlist
<1>9. QED
  BY <1>7, <1>8 DEF Freecardlist

(* tx has a modulation its driver can send, so its buffers are freed.      *)
LEMMA KeptStep ==
  ASSUME TypeInv, Driven, Ready, Balanced, Kept, [Next]_vars
  PROVE  Kept'
<1>1. pc \notin Starting \cup {"done"} => Row(inj, Handler)
  BY RowHere
<1>2. CASE Arguments
  BY <1>2, CardBlocks
     DEF Arguments, Usage, Getdrivername, Exit, Go, startup, args, packet,
        written, Kept, BufferKept, SocketKept, Starting, Setting, Sending
<1>3. CASE TxInit
  BY <1>3
     DEF TxInit, Exit, Go, startup, args, packet, written, Kept, BufferKept,
        SocketKept, Starting, Setting, Sending
<1>4. CASE SetupTun
  BY <1>4
     DEF SetupTun, Exit, Go, startup, args, packet, written, Kept,
        BufferKept, SocketKept, Starting, Setting, Sending
<1>5. CASE SetMode
  BY <1>5
     DEF SetMode, Exit, Go, startup, args, packet, written, Kept,
        BufferKept, SocketKept, Starting, Setting, Sending
<1>6. CASE SetChannel
  BY <1>6
     DEF SetChannel, Exit, Go, args, packet, written, ledger, Kept,
        BufferKept, SocketKept, Starting, Setting, Sending
<1>7. CASE Open
  BY <1>7
     DEF Open, Exit, Go, args, written, Kept, BufferKept, SocketKept,
        Starting, Setting, Sending, Supported, Ready
<1>8. CASE OpenTap
  BY <1>8
     DEF OpenTap, Exit, Go, startup, args, packet, written, Kept,
        BufferKept, SocketKept, Starting, Setting, Sending
<1>9. CASE NextFrame
  BY <1>9
     DEF NextFrame, Go, args, packet, written, ledger, Kept, BufferKept,
        SocketKept, Starting, Setting, Sending
<1>10. CASE SendPlain
  BY <1>10
     DEF SendPlain, WtinjSend, Rt2570Send, WginjSend, Accept, Refuse, Go,
        Exit, ClearFrame, WriteWhole, WritePartial, WriteNothing, args,
        written, ledger, Kept, BufferKept, SocketKept, Starting, Setting,
        Sending
<1>11. CASE SendRadiotap
  BY <1>11
     DEF SendRadiotap, Refuse, Go, Exit, ClearFrame, args, written, ledger,
        frame, Kept, BufferKept, SocketKept, Starting, Setting, Sending
<1>12. CASE FillHeader
  BY <1>12
     DEF Driven, FillHeader, Refuse, Go, Exit, ClearFrame, args, written, Kept,
        BufferKept, SocketKept, Starting, Setting, Sending, TypeInv
<1>13. CASE WriteRadiotap
  BY <1>13
     DEF WriteRadiotap, Accept, Refuse, Go, Exit, ClearFrame, WriteWhole,
        WritePartial, WriteNothing, args, written, ledger, Kept, BufferKept,
        SocketKept, Starting, Setting, Sending
<1>14. CASE AjSocket
  BY <1>14, <1>1
     DEF AjSocket, Refuse, Go, Exit, ClearFrame, args, written, frame, Kept,
        BufferKept, SocketKept, Starting, Setting, Sending, Row, TypeInv
<1>15. CASE AjGetnonblock
  BY <1>15
     DEF AjGetnonblock, Go, args, packet, written, ledger, Kept, BufferKept,
        SocketKept, Starting, Setting, Sending
<1>16. CASE AjWrite
  BY <1>16
     DEF AjWrite, Accept, Refuse, Go, Exit, ClearFrame, WriteNothing, args,
        written, Kept, BufferKept, SocketKept, Starting, Setting, Sending,
        TypeInv
<1>17. CASE Close
  <2>1. /\ prog \in {"tx", "tuntx"} /\ UNCHANGED <<prog, inj, lost, socks, cards, modulation>>
        /\ pc = "close" /\ pc' = "done" /\ stdin' = (raw # "zero")
    BY <1>17 DEF Close, Exit, args, packet, Kept, Driven, Starting
  <2>2. stdin' # TRUE => Socketless'
    BY <2>1 DEF Ready, Socketless
  <2>3. BufferKept' /\ SocketKept'
    BY <2>1 DEF Kept, BufferKept, SocketKept, Starting, Setting, Sending
  <2>4. QED
    BY <2>1, <2>2, <2>3 DEF Kept
<1>18. CASE AjSelectAgain
  BY <1>18
     DEF AjSelectAgain, args, packet, written, ledger, Kept, BufferKept,
        SocketKept, Starting, Setting, Sending
<1>19. CASE AjSelectReady
  BY <1>19
     DEF AjSelectReady, Go, args, packet, written, ledger, Kept, BufferKept,
        SocketKept, Starting, Setting, Sending
<1>20. CASE AjSelectError
  BY <1>20
     DEF AjSelectError, Refuse, Exit, Go, ClearFrame, args, written, ledger,
        Kept, BufferKept, SocketKept, Starting, Setting, Sending, TypeInv
<1>21. CASE Retune
  BY <1>21
     DEF Retune, args, packet, written, ledger, Kept, BufferKept,
        SocketKept, Starting, Setting, Sending
<1>22. CASE UNCHANGED vars
  BY <1>22
     DEF Socketless, vars, args, packet, written, ledger, Handler, Kept, BufferKept,
        SocketKept, Starting, Setting, Sending
<1>23. QED
  BY <1>2, <1>3, <1>4, <1>5, <1>6, <1>7, <1>8, <1>9, <1>10, <1>11, <1>12,
     <1>13, <1>14, <1>15, <1>16, <1>17, <1>18, <1>19, <1>20, <1>21, <1>22 DEF Next, Step

(* Every number get_channel can give stands for the card's frequency.      *)
LEMMA ChannelRead ==
  ASSUME TypeInv, NEW c \in Getchannel
  PROVE  c \in Int /\ (c > 0 => Chan2mhz(c) = mhz)
<1>1. CASE inj = Inj.AIRPCAP
  BY <1>1, SMT DEF Getchannel
<1>2. CASE inj # Inj.AIRPCAP
  <2>1. c = -1 \/ \E f \in Reports(mhz) : c = Floatchan2int(Megahertz(f))
    BY <1>2 DEF Getchannel
  <2>2. QED
    BY <2>1, ReportsStand, SMT DEF TypeInv, Stands
<1>3. QED
  BY <1>1, <1>2

(* Numbers above 14 are the 5 GHz channels.                                *)
LEMMA Bands ==
  ASSUME NEW c \in Int, c > 0
  PROVE  /\ Chan2mhz(c) \in Nat
         /\ IF c <= 14 THEN Chan2mhz(c) < 5000 ELSE Chan2mhz(c) >= 5000
BY SMT DEF Chan2mhz

(* The header is filled with the frequency the channel read stands for.    *)
LEMMA HeaderStep ==
  ASSUME TypeInv, HeaderIsTheCards, [Next]_vars
  PROVE  HeaderIsTheCards'
<1>1. CASE Arguments
  BY <1>1
     DEF Arguments, Usage, Getdrivername, Exit, Go, startup, args, packet,
        written, HeaderIsTheCards
<1>2. CASE TxInit
  BY <1>2
     DEF TxInit, Exit, Go, startup, args, packet, written, HeaderIsTheCards
<1>3. CASE SetupTun
  BY <1>3
     DEF SetupTun, Exit, Go, startup, args, packet, written,
        HeaderIsTheCards
<1>4. CASE SetMode
  BY <1>4
     DEF SetMode, Exit, Go, startup, args, packet, written, HeaderIsTheCards
<1>5. CASE SetChannel
  BY <1>5
     DEF SetChannel, Exit, Go, args, packet, written, ledger,
        HeaderIsTheCards
<1>6. CASE Open
  BY <1>6
     DEF Open, Exit, Go, args, written, HeaderIsTheCards
<1>7. CASE OpenTap
  BY <1>7
     DEF OpenTap, Exit, Go, startup, args, packet, written, HeaderIsTheCards
<1>8. CASE NextFrame
  BY <1>8
     DEF NextFrame, Go, args, packet, written, ledger, HeaderIsTheCards
<1>9. CASE SendPlain
  BY <1>9
     DEF SendPlain, WtinjSend, Rt2570Send, WginjSend, Accept, Refuse, Go,
        Exit, ClearFrame, WriteWhole, WritePartial, WriteNothing, args,
        written, ledger, HeaderIsTheCards
<1>10. CASE SendRadiotap
  BY <1>10
     DEF SendRadiotap, Refuse, Go, Exit, ClearFrame, args, written, ledger,
        frame, HeaderIsTheCards
<1>11. CASE FillHeader
  <2>1. CASE pc' # "write"
    BY <2>1 DEF HeaderIsTheCards
  <2>2. CASE pc' = "write"
    <3>1. PICK c \in Getchannel : /\ modulation \in Supported
                                  /\ chan' = c /\ freq' = Chan2mhz(c)
                                  /\ band' = RtapChan(modulation, c) /\ mhz' = mhz
      BY <1>11, <2>2 DEF FillHeader, Refuse, Exit, Go
    <3>2. c \in Int /\ (c > 0 => Chan2mhz(c) = mhz)
      BY ChannelRead
    <3>3. c > 0 => IF c <= 14 THEN Chan2mhz(c) < 5000 ELSE Chan2mhz(c) >= 5000
      BY <3>2, Bands
    <3>4. band' \in {"A", "TA"} => ~(c <= 14)
      BY <3>1 DEF RtapChan, Supported
    <3>5. band' \in {"G", "TG"} => c <= 14
      BY <3>1 DEF RtapChan, Supported
    <3>6. QED
      BY <3>1, <3>2, <3>3, <3>4, <3>5 DEF HeaderIsTheCards
  <2>3. QED
    BY <2>1, <2>2
<1>12. CASE WriteRadiotap
  BY <1>12
     DEF WriteRadiotap, Accept, Refuse, Go, Exit, ClearFrame, WriteWhole,
        WritePartial, WriteNothing, args, written, ledger, HeaderIsTheCards
<1>13. CASE AjSocket
  BY <1>13
     DEF AjSocket, Refuse, Go, Exit, ClearFrame, args, written, frame,
        HeaderIsTheCards
<1>14. CASE AjGetnonblock
  BY <1>14
     DEF AjGetnonblock, Go, args, packet, written, ledger, HeaderIsTheCards
<1>15. CASE AjWrite
  BY <1>15
     DEF AjWrite, Accept, Refuse, Go, Exit, ClearFrame, WriteNothing, args,
        written, HeaderIsTheCards
<1>16. CASE Close
  BY <1>16
     DEF Close, Exit, args, packet, written, HeaderIsTheCards
<1>17. CASE AjSelectAgain
  BY <1>17
     DEF AjSelectAgain, args, packet, written, ledger, HeaderIsTheCards
<1>18. CASE AjSelectReady
  BY <1>18
     DEF AjSelectReady, Go, args, packet, written, ledger, HeaderIsTheCards
<1>19. CASE AjSelectError
  BY <1>19
     DEF AjSelectError, Refuse, Exit, Go, ClearFrame, args, written, ledger,
        HeaderIsTheCards
<1>20. CASE Retune
  <2>1. CASE pc # "write"
    BY <1>20, <2>1 DEF Retune, HeaderIsTheCards
  <2>2. CASE pc = "write"
    <3>1. raced' = TRUE
      BY <1>20, <2>2 DEF Retune
    <3>2. QED
      BY <3>1 DEF HeaderIsTheCards
  <2>3. QED
    BY <2>1, <2>2
<1>21. CASE UNCHANGED vars
  BY <1>21
     DEF vars, args, packet, written, ledger, Handler, HeaderIsTheCards
<1>22. QED
  BY <1>1, <1>2, <1>3, <1>4, <1>5, <1>6, <1>7, <1>8, <1>9, <1>10, <1>11,
     <1>12, <1>13, <1>14, <1>15, <1>16, <1>17, <1>18, <1>19, <1>20, <1>21 DEF Next, Step

-----------------------------------------------------------------------------
LEMMA Initially == Init => Inv
<1> SUFFICES ASSUME Init PROVE Inv
  OBVIOUS
<1>1. Min(Tuning) \in Tuning
  <2>1. Tuning \in SUBSET Nat /\ Tuning # {}
    BY TransmitAssumption
  <2>2. QED
    BY <2>1, MinIsLeast
<1>2. channel \in Nat /\ channel <= IntMax
  <2>1. IntMax \in Int
    BY SMT DEF IntMax
  <2>2. QED
    BY <2>1, TransmitAssumption DEF Init
<1>3. prog \in {"tx", "tuntx", "l2ping"}
  BY TransmitAssumption DEF Init
<1>4. TypeInv
  BY <1>1, <1>2, <1>3, TuningIsInt DEF Init, TypeInv, Starting
<1>5. Driven /\ Ready /\ HeaderIsTheCards
  BY <1>3 DEF Init, Driven, Ready, HeaderIsTheCards, Starting, Setting, Sending, Null
<1>6. Balanced /\ Kept
  BY DEF Init, Balanced, Kept, BufferKept, SocketKept, Starting, Setting, Sending
<1>7. QED
  BY <1>4, <1>5, <1>6 DEF Inv

LEMMA Inductive == Inv /\ [Next]_vars => Inv'
<1> SUFFICES ASSUME Inv, [Next]_vars PROVE Inv'
  OBVIOUS
<1> USE DEF Inv
<1>1. TypeInv' /\ Driven' /\ Ready'
  BY TypeStep, DrivenStep, ReadyStep
<1>2. Balanced' /\ HeaderIsTheCards' /\ Kept'
  BY BalancedStep, HeaderStep, KeptStep
<1>3. QED
  BY <1>1, <1>2

LEMMA Invariance == Spec => []Inv
BY Initially, Inductive, PTL DEF Spec
-----------------------------------------------------------------------------
(***************************************************************************)
(* What follows from it.                                                   *)
(***************************************************************************)

(* No frame that was written whole is reported as an error, and a send that *)
(* is reported as successful wrote the whole frame, whatever the kernel     *)
(* refuses and whatever the driver but for those that SentIsWritten names   *)
(* (wtinj_send, rt2570_send, wginj_send, the radiotap senders,              *)
(* aj_xmitframe).                                                           *)
THEOREM SendsFaithful == Spec => []SentIsWritten
<1>1. Inv => SentIsWritten
  BY DEF Inv, Balanced, SentIsWritten
<1>2. QED
  BY <1>1, Invariance, PTL

(* The header of a frame names the card's frequency, for any channel asked *)
(* for and any frequency others tune to, unless they tune it in between    *)
(* (madwifing_send, tx80211_mac80211_send, tx80211_zd1211rw_send,          *)
(* airpcap_send).                                                          *)
THEOREM HeaderFaithful == Spec => []HeaderIsTheCards
<1>1. Inv => HeaderIsTheCards
  BY DEF Inv
<1>2. QED
  BY <1>1, Invariance, PTL

(* What a program that has ended left allocated, open or closed.           *)
THEOREM EndsCleanly == Spec => []LeftBehind
<1>1. Inv => LeftBehind
  BY DEF Inv, Kept, BufferKept, SocketKept, Socketless, LeftBehind
<1>2. QED
  BY <1>1, Invariance, PTL

(* A name of the manual or of the card list that the library knows gets    *)
(* the driver that goes with it (tx80211_resolvecard); past its init a     *)
(* program has a driver with an init of its own, and none crashes there.   *)
THEOREM DriverOfItsName == Spec => []NameGetsItsDriver
<1>1. Inv => NameGetsItsDriver
  <2> SUFFICES ASSUME Inv PROVE NameGetsItsDriver
    OBVIOUS
  <2>1. exit = "crash" => prog = "l2ping" /\ adapters = 0
    BY DEF Inv, Driven
  <2>2. pc \notin {"args", "init", "done"} => inj \in Dispatched(platform)
    BY DEF Inv, Driven, Starting
  <2>3. ASSUME pc \notin {"args", "done"}, name \in KnownNames(platform)
        PROVE  /\ \A m \in ManualNames : name \in m[1] => inj = m[2]
               /\ \A n \in DOMAIN CardList :
                    name = CardList[n].name /\ n > 1 => inj = CardList[n].inj
    <3>1. CASE platform = "linux"
      <4>1. name \notin {"rt2750", "rtl2571", "airpcap", Null}
        BY <2>3, <3>1, NotKnown
      <4>2. name # Null
        BY <4>1
      <4>3. inj = Resolvecard("linux", name)
        BY <2>3, <3>1, <4>2 DEF Inv, Driven
      <4>4. \A i : DriverNamed(name, i) => inj = i
        BY <4>3, NamedResolves
      <4>5. \A m \in ManualNames : name \in m[1] => inj = m[2]
        BY <4>1, <4>4, ManualsNames
      <4>6. QED
        BY <4>4, <4>5, CardNames
    <3>2. CASE platform = "cygwin"
      <4>1. name = "airpcap" /\ name # Null
        BY <2>3, <3>2 DEF KnownNames, Null
      <4>2. inj = Inj.AIRPCAP
        BY <2>3, <3>2, <4>1 DEF Inv, Driven, Resolvecard
      <4>3. \A i : ~DriverNamed(name, i)
        BY <4>1 DEF DriverNamed
      <4>4. \A m \in ManualNames : name \in m[1] => inj = m[2]
        BY <4>1, <4>2, <4>3, ManualsNames
      <4>5. QED
        BY <4>3, <4>4, CardNames
    <3>3. QED
      BY <3>1, <3>2 DEF Inv, TypeInv, Platforms
  <2>4. QED
    BY <2>1, <2>2, <2>3 DEF NameGetsItsDriver
<1>2. QED
  BY <1>1, Invariance, PTL
=============================================================================
