------------------------------- MODULE Session -------------------------------
(***************************************************************************)
(* One process that uses the library: its tx80211 handles, the calls       *)
(* tx80211.c dispatches to the driver modules, and the rest of the program *)
(* opening and closing descriptors of its own in between.  Every kernel    *)
(* call may fail.  The madwifi-ng driver, whose handles own interfaces as  *)
(* well as descriptors, is in module Madwifing; the AirJack and radiotap   *)
(* transmit paths are not in this one.                                     *)
(*                                                                         *)
(* The calls follow the order lorcon.3 gives: init, mode, open, then       *)
(* traffic, then one close for each successful open; CloseAnyway also lets *)
(* the client close a handle that is not open, as l2ping80211 does.  A     *)
(* frame may be sent on any handle that was initialised, also on one whose *)
(* open failed or that was closed: whether it is open is for the send to   *)
(* find out.                                                               *)
(***************************************************************************)
EXTENDS Descriptors

CONSTANTS
  Handles,    \* struct tx80211 variables of the client
  Ifaces,     \* wireless interfaces of the host
  Macs,       \* hardware addresses
  Injectors,  \* the drivers in use: a subset of Dispatched
  Form,       \* interface -> the argument its driver's private ioctl "rfmontx"
              \* takes: an integer or a string
  CloseAnyway \* may the client close a handle that is not open

VARIABLES
  fd,       \* descriptor -> owner
  phase,    \* what the client knows of each handle
  drv,      \* injectortype, with the callthroughs tx80211_init installs
  ifn,      \* ifname
  raw,      \* raw_fd
  macset,   \* startingmacset
  startmac, \* startingmac
  up,       \* IFF_UP of each interface
  monitor,  \* is the interface in monitor mode
  rfmontx,  \* is the driver's raw transmission switched on
  hw,       \* hardware address of each interface
  reply,    \* what the handle's last txpacket or selfack call told the client;
            \* "strayed" stands for "sent" when the frame was written to a
            \* descriptor that was not opened for the handle
  alive     \* FALSE after a null pointer was dereferenced

handleVars == <<phase, drv, ifn, raw, macset, startmac>>
ifaceVars  == <<up, monitor, rfmontx, hw>>
vars       == <<fd, handleVars, ifaceVars, reply, alive>>

Client  == "client"      \* owner of the descriptors of the rest of the program
Lost    == "lost"        \* owner of a descriptor no variable holds any more
NoIface == "nowhere"
ZeroMac == "00:00:00:00:00:00"

(* The drivers by the way they open and close. *)
WtDrivers  == {"hostap", "prism54", "rtl8180", "mac80211", "zd1211rw"}
RtDrivers  == {"rt2500", "rt2570", "rt73"}
Dispatched == WtDrivers \cup RtDrivers
                \cup {"madwifiold", "wlanng", "airjack", "bcm43xx"}
NoDriver   == "nodriver"

ASSUME SessionAssumption ==
  /\ Handles \cap {Free, Client, Lost} = {}
  /\ NoIface \notin Ifaces
  /\ Macs \cap {"none", "sent", "strayed", "notopen", "error"} = {}
  /\ Injectors \subseteq Dispatched
  /\ Form \in [Ifaces -> {"int", "char"}]
  /\ CloseAnyway \in BOOLEAN

Phases  == {"none", "init", "ready", "open", "closed"}
Replies == {"none", "sent", "strayed", "notopen", "error"} \cup Macs

TypeOK ==
  /\ fd \in [Fds -> Handles \cup {Free, Client, Lost}]
  /\ phase \in [Handles -> Phases]
  /\ drv \in [Handles -> Injectors \cup {NoDriver}]
  /\ ifn \in [Handles -> Ifaces \cup {NoIface}]
  /\ raw \in [Handles -> Fds \cup {NoFd}]
  /\ macset \in [Handles -> BOOLEAN]
  /\ startmac \in [Handles -> Macs \cup {ZeroMac}]
  /\ up \in [Ifaces -> BOOLEAN]
  /\ monitor \in [Ifaces -> BOOLEAN]
  /\ rfmontx \in [Ifaces -> BOOLEAN]
  /\ hw \in [Ifaces -> Macs]
  /\ reply \in [Handles -> Replies]
  /\ alive \in BOOLEAN

(* Descriptor 0 stands for the standard streams, which the client holds. *)
Init ==
  /\ fd = [d \in Fds |-> IF d = 0 THEN Client ELSE Free]
  /\ phase = [h \in Handles |-> "none"]
  /\ drv = [h \in Handles |-> NoDriver]
  /\ ifn = [h \in Handles |-> NoIface]
  /\ raw = [h \in Handles |-> 0]
  /\ macset = [h \in Handles |-> FALSE]
  /\ startmac = [h \in Handles |-> ZeroMac]
  /\ up = [i \in Ifaces |-> FALSE]
  /\ monitor = [i \in Ifaces |-> FALSE]
  /\ rfmontx = [i \in Ifaces |-> FALSE]
  /\ hw \in [Ifaces -> Macs]
  /\ reply = [h \in Handles |-> "none"]
  /\ alive = TRUE

SetPhase(h, p) == phase' = [phase EXCEPT ![h] = p]
SetRaw(h, d)   == raw' = [raw EXCEPT ![h] = d]
SetUp(h, b)    == up' = [up EXCEPT ![ifn[h]] = b]
Answer(h, r)   == reply' = [reply EXCEPT ![h] = r]
-----------------------------------------------------------------------------
(***************************************************************************)
(* tx80211_init: the structure is zeroed, so raw_fd is 0, a valid          *)
(* descriptor.  One handle to an interface.                                *)
(***************************************************************************)
InitHandle(h, d, i) ==
  /\ phase[h] = "none"
  /\ \A g \in Handles : ifn[g] # i
  /\ SetPhase(h, "init")
  /\ drv' = [drv EXCEPT ![h] = d]
  /\ ifn' = [ifn EXCEPT ![h] = i]
  /\ SetRaw(h, 0)
  /\ macset' = [macset EXCEPT ![h] = FALSE]
  /\ startmac' = [startmac EXCEPT ![h] = ZeroMac]
  /\ Answer(h, "none")
  /\ UNCHANGED <<fd, ifaceVars, alive>>

(* iwconfig_set_mode(MONITOR), tried again with the interface down if the   *)
(* first attempt fails; nothing brings the interface up again.              *)
WtinjSetFuncmode(h) ==
  \/ /\ monitor' = [monitor EXCEPT ![ifn[h]] = TRUE]
     /\ SetPhase(h, "ready")
     /\ \/ UNCHANGED up
        \/ SetUp(h, FALSE)
  \/ /\ UNCHANGED <<monitor, phase>>
     /\ \/ UNCHANGED up
        \/ SetUp(h, FALSE)

(* Without a handler, as with wlan-ng and AirJack, the call only fails.     *)
SetFuncmode(h) ==
  /\ phase[h] \in {"init", "ready", "closed"}
  /\ drv[h] \notin {"wlanng", "airjack"}
  /\ WtinjSetFuncmode(h)
  /\ UNCHANGED <<fd, drv, ifn, raw, macset, startmac, rfmontx, hw, reply, alive>>

(* iwconfig_set_mode, once.                                                 *)
WtinjSetmode(h) ==
  \/ monitor' = [monitor EXCEPT ![ifn[h]] = TRUE] /\ SetPhase(h, "ready")
  \/ UNCHANGED <<monitor, phase>>

(* The status system() returns: 0, a positive one of wlanctl-ng, which a    *)
(* client that looks for a negative number takes for success, or -1.        *)
WginjSetmode(h) ==
  \/ monitor' = [monitor EXCEPT ![ifn[h]] = TRUE] /\ SetPhase(h, "ready")
  \/ UNCHANGED monitor /\ SetPhase(h, "ready")
  \/ UNCHANGED <<monitor, phase>>

(* The mode goes into the field "mode" of the card's configuration; its     *)
(* field "monitor" is left as it is.                                        *)
AjSetmode(h) ==
  /\ SetPhase(h, "ready") \/ UNCHANGED phase
  /\ UNCHANGED monitor

(* tx80211_setmode(MONITOR), the older call, which tuntx makes.             *)
SetMode(h) ==
  /\ phase[h] \in {"init", "ready", "closed"}
  /\ \/ drv[h] = "wlanng" /\ WginjSetmode(h)
     \/ drv[h] = "airjack" /\ AjSetmode(h)
     \/ drv[h] \notin {"wlanng", "airjack"} /\ WtinjSetmode(h)
  /\ UNCHANGED <<fd, drv, ifn, raw, macset, startmac, up, rfmontx, hw, reply,
                 alive>>
-----------------------------------------------------------------------------
(***************************************************************************)
(* Opening.  The tail every driver with a packet socket shares: socket(),  *)
(* then SIOCGIFINDEX and bind(), which close the socket when they fail but *)
(* leave its number in raw_fd.                                             *)
(***************************************************************************)
BoundSocket(h) ==
  /\ Lowest(fd) # {}
  /\ \E d \in Lowest(fd) : SetRaw(h, d) /\ fd' = [fd EXCEPT ![d] = h]

(* Fault variants of OpenSocket: no call's result is looked at; the socket  *)
(* that could not be bound is not closed; the code of the failed call is    *)
(* stored in raw_fd.                                                        *)
OpenSocketUnchecked(h) ==
  /\ \/ SetRaw(h, NoFd) /\ UNCHANGED fd
     \/ (\E d \in Lowest(fd) : SetRaw(h, d)) /\ UNCHANGED fd
     \/ BoundSocket(h)
  /\ SetPhase(h, "open")

OpenSocketKeepsUnbound(h) ==
  /\ BoundSocket(h)
  /\ SetPhase(h, "open") \/ UNCHANGED phase

OpenSocketKeepsCode(h) ==
  \/ SetRaw(h, -3) /\ UNCHANGED <<fd, phase>>
  \/ BoundSocket(h) /\ SetPhase(h, "open")

OpenSocket(h) ==
  \/ /\ SetRaw(h, NoFd)
     /\ UNCHANGED <<fd, phase>>
  \/ /\ \E d \in Lowest(fd) : SetRaw(h, d)
     /\ UNCHANGED <<fd, phase>>
  \/ /\ BoundSocket(h)
     /\ SetPhase(h, "open")

(* Fault variant of WtinjOpen: the interface is left down.                  *)
WtinjOpenDown(h) ==
  \/ UNCHANGED <<fd, raw, phase, up>>
  \/ HasRoom(fd) /\ OpenSocket(h) /\ UNCHANGED up

(* The interface is brought up first; reading its flags takes a socket.    *)
WtinjOpen(h) ==
  \/ UNCHANGED <<fd, raw, phase, up>>
  \/ /\ HasRoom(fd)
     /\ SetUp(h, TRUE)
     /\ OpenSocket(h)

(* The forms of the "rfmontx" ioctl each Ralink driver module tries.       *)
EnableForms(d) ==
  CASE d = "rt2500" -> {"char"}
    [] d = "rt2570" -> {"char", "int"}
    [] d = "rt73"   -> {"int", "char"}

RtOpen(h) ==
  \/ UNCHANGED <<fd, raw, phase, up, rfmontx>>
  \/ /\ Form[ifn[h]] \in EnableForms(drv[h])
     /\ rfmontx' = [rfmontx EXCEPT ![ifn[h]] = TRUE]
     /\ WtinjOpen(h)

(* aj_getsocket closes the socket it could not bind and returns -1.        *)
AirjackOpen(h) ==
  \/ /\ SetRaw(h, NoFd)
     /\ UNCHANGED <<fd, phase>>
  \/ /\ BoundSocket(h)
     /\ SetPhase(h, "open")

(* bcm43xx writes frames to a file in sysfs and keeps raw_fd if that cannot *)
(* be opened.                                                               *)
Bcm43xxOpen(h) ==
  \/ UNCHANGED <<fd, raw, phase>>
  \/ /\ BoundSocket(h)
     /\ SetPhase(h, "open")

(* madwifi-old: a failed write to the rawdev file does not close it, and a  *)
(* socket that is bound is kept when the athXraw interface does not come up.*)
MadwifioldOpen(h) ==
  \/ UNCHANGED <<fd, raw, phase>>
  \/ /\ \E d \in Lowest(fd) : fd' = [fd EXCEPT ![d] = Lost]
     /\ UNCHANGED <<raw, phase>>
  \/ /\ HasRoom(fd)
     /\ \/ OpenSocket(h)
        \/ BoundSocket(h) /\ UNCHANGED phase

Open(h) ==
  /\ phase[h] = "ready"
  /\ \/ /\ drv[h] \in WtDrivers
        /\ WtinjOpen(h)
        /\ UNCHANGED rfmontx
     \/ /\ drv[h] \in RtDrivers
        /\ RtOpen(h)
     \/ /\ \/ drv[h] = "wlanng" /\ OpenSocket(h)
           \/ drv[h] = "airjack" /\ AirjackOpen(h)
           \/ drv[h] = "bcm43xx" /\ Bcm43xxOpen(h)
           \/ drv[h] = "madwifiold" /\ MadwifioldOpen(h)
        /\ UNCHANGED <<up, rfmontx>>
  /\ UNCHANGED <<drv, ifn, macset, startmac, monitor, hw, reply, alive>>
-----------------------------------------------------------------------------
(***************************************************************************)
(* Closing.                                                                *)
(***************************************************************************)

(* close(raw_fd): the descriptor's number stays in raw_fd.                 *)
WtinjClose(h) ==
  /\ fd' = AfterClose(fd, raw[h])
  /\ IF IsOpen(fd, raw[h]) THEN SetPhase(h, "closed") ELSE UNCHANGED phase
  /\ UNCHANGED raw

(* Fault variant of RtClose: the ioctl's failure is not looked at.          *)
RtCloseUnchecked(h) ==
  /\ \/ UNCHANGED rfmontx
     \/ rfmontx' = [rfmontx EXCEPT ![ifn[h]] = FALSE]
  /\ WtinjClose(h)

(* rt2500 and rt73 switch raw transmission off with the string form and     *)
(* leave the socket open if that fails.                                     *)
RtClose(h) ==
  \/ UNCHANGED <<fd, raw, phase, rfmontx>>
  \/ /\ Form[ifn[h]] = "char"
     /\ rfmontx' = [rfmontx EXCEPT ![ifn[h]] = FALSE]
     /\ WtinjClose(h)

(* Fault variant of Bcm43xxClose: raw_fd is left as the other drivers do.   *)
Bcm43xxCloseKeeps(h) ==
  /\ fd' = AfterClose(fd, raw[h])
  /\ SetPhase(h, "closed")
  /\ UNCHANGED raw

(* bcm43xx alone puts -1 back.                                              *)
Bcm43xxClose(h) ==
  /\ fd' = AfterClose(fd, raw[h])
  /\ SetPhase(h, "closed")
  /\ SetRaw(h, NoFd)

DriverClose(h) ==
  \/ /\ drv[h] \in {"rt2500", "rt73"}
     /\ RtClose(h)
  \/ /\ drv[h] = "bcm43xx"
     /\ Bcm43xxClose(h)
     /\ UNCHANGED rfmontx
  \/ /\ drv[h] \notin {"rt2500", "rt73", "bcm43xx"}
     /\ WtinjClose(h)
     /\ UNCHANGED rfmontx

(* The address is put back on the interface named by in_tx->extra, which    *)
(* no driver of this module ever sets: copying that name ends the process,  *)
(* unless the socket for setting the address could not be had.              *)
RestoreMac(h) ==
  /\ \/ UNCHANGED <<up, alive>>
     \/ SetUp(h, FALSE) /\ alive' \in BOOLEAN
  /\ UNCHANGED <<fd, raw, phase, rfmontx>>

Close(h) ==
  /\ phase[h] = "open" \/ (CloseAnyway /\ phase[h] # "none")
  /\ IF macset[h] THEN RestoreMac(h)
                  ELSE DriverClose(h) /\ UNCHANGED <<up, alive>>
  /\ Answer(h, "none")
  /\ UNCHANGED <<drv, ifn, macset, startmac, monitor, hw>>
-----------------------------------------------------------------------------
(***************************************************************************)
(* Traffic.  A send takes any raw_fd above 0 for an open one, whatever the *)
(* handle went through.                                                    *)
(***************************************************************************)
TxPacket(h) ==
  /\ phase[h] # "none"
  /\ drv[h] # "airjack"
  /\ \/ ~(raw[h] > 0) /\ Answer(h, "notopen")
     \/ raw[h] > 0 /\ Answer(h, "error")
     \/ /\ raw[h] > 0
        /\ IsOpen(fd, raw[h])
        /\ Answer(h, IF fd[raw[h]] = h THEN "sent" ELSE "strayed")
  /\ UNCHANGED <<fd, handleVars, ifaceVars, alive>>

(* Down, set the address, up; a step that fails leaves the interface as the *)
(* steps before it put it.  The address written is the recorded one.        *)
WtinjSelfack(h, addr, mac) ==
  \/ UNCHANGED <<up, hw>> /\ Answer(h, "error")
  \/ SetUp(h, FALSE) /\ UNCHANGED hw /\ Answer(h, "error")
  \/ /\ hw' = [hw EXCEPT ![ifn[h]] = mac]
     /\ \/ SetUp(h, FALSE) /\ Answer(h, "error")
        \/ SetUp(h, TRUE) /\ Answer(h, addr)

(* tx80211_selfack records the interface's address the first time, before   *)
(* the driver's handler runs.                                               *)
SelfAck(h, addr) ==
  /\ phase[h] = "open"
  /\ drv[h] \in {"hostap", "prism54"}
  /\ \/ /\ ~macset[h]                       \* get_hwaddr failed
        /\ Answer(h, "error")
        /\ UNCHANGED <<macset, startmac, up, hw>>
     \/ LET mac == IF macset[h] THEN startmac[h] ELSE hw[ifn[h]]
        IN  /\ macset' = [macset EXCEPT ![h] = TRUE]
            /\ startmac' = [startmac EXCEPT ![h] = mac]
            /\ WtinjSelfack(h, addr, mac)
  /\ UNCHANGED <<fd, phase, drv, ifn, raw, monitor, rfmontx, alive>>
-----------------------------------------------------------------------------
(***************************************************************************)
(* The rest of the program.                                                *)
(***************************************************************************)
ClientOpen ==
  /\ \E d \in Lowest(fd) : fd' = [fd EXCEPT ![d] = Client]
  /\ UNCHANGED <<handleVars, ifaceVars, reply, alive>>

ClientClose(d) ==
  /\ fd[d] = Client
  /\ d # 0
  /\ fd' = [fd EXCEPT ![d] = Free]
  /\ UNCHANGED <<handleVars, ifaceVars, reply, alive>>

Running ==
  \/ \E h \in Handles :
       \/ \E d \in Injectors, i \in Ifaces : InitHandle(h, d, i)
       \/ SetFuncmode(h)
       \/ SetMode(h)
       \/ Open(h)
       \/ Close(h)
       \/ TxPacket(h)
       \/ \E addr \in Macs : SelfAck(h, addr)
  \/ ClientOpen
  \/ \E d \in Fds : ClientClose(d)

Dead == ~alive /\ UNCHANGED vars

Next == (alive /\ Running) \/ Dead

Spec == Init /\ [][Next]_vars
-----------------------------------------------------------------------------
(***************************************************************************)
(* Safety.                                                                 *)
(***************************************************************************)

(* As long as the client holds a handle open, raw_fd is a descriptor that is*)
(* open and was opened for this handle, through every failed open, every    *)
(* reuse of descriptor numbers by the rest of the program (wtinject.c       *)
(* wtinj_open and wtinj_close never reset raw_fd).                          *)
OpenOwnsSocket ==
  \A h \in Handles : phase[h] = "open" => IsOpen(fd, raw[h]) /\ fd[raw[h]] = h

(* No descriptor outlives the call that lost track of it: each one a handle *)
(* owns is the raw_fd of a handle that is open, so a failed open leaves none*)
(* behind and one close per open releases them all.  Not so for madwifi-old *)
(* (mwoldinject.c madwifiold_open).                                         *)
NoSocketStranded ==
  \A d \in Fds, h \in Handles : fd[d] = h /\ drv[h] # "madwifiold" =>
    phase[h] = "open" /\ raw[h] = d

(* What a send that tells an open handle by raw_fd > 0 can be trusted with: *)
(* on an open handle it is not refused as not open, and the frame goes to a *)
(* socket of the handle.  On another handle the number left by a failed     *)
(* open or by a close may be that of a descriptor opened since, which the   *)
(* frame is then written to, although wginject.c:98 says "Error check to    *)
(* ensure socket is open"; except with bcm43xx, whose open writes raw_fd    *)
(* only on success and whose close puts -1 back.                            *)
SendKnowsItsSocket ==
  [][\A h \in Handles : reply'[h] # reply[h] =>
       /\ reply'[h] = "notopen" => phase[h] # "open"
       /\ reply'[h] = "strayed" => phase[h] # "open" /\ drv[h] # "bcm43xx"
    ]_vars

(* A card that is open for injection is in monitor mode, has the driver's   *)
(* raw transmission on if the driver has such a switch and, if wtinj_open   *)
(* opened it and no selfack took it down since, is up: whatever mode calls  *)
(* and failed opens did to it before.  Not so the mode of wlan-ng and       *)
(* AirJack: "on success, < 0 on error" says lorcon.3:480 of                 *)
(* tx80211_setmode, but wginj_setmode returns a positive number, and        *)
(* aj_setmode does not write what makes the card a monitor.                 *)
OpenCardIsReady ==
  \A h \in Handles : phase[h] = "open" =>
    /\ drv[h] \notin {"wlanng", "airjack"} => monitor[ifn[h]]
    /\ drv[h] \in RtDrivers => rfmontx[ifn[h]]
    /\ drv[h] \in WtDrivers \cup RtDrivers /\ ~macset[h] => up[ifn[h]]

(* After a successful close of rt2500 or rt73 the driver's raw transmission *)
(* is off, however many opens failed after switching it on.                 *)
ClosedCardIsQuiet ==
  \A h \in Handles :
    phase[h] = "closed" /\ drv[h] \in {"rt2500", "rt73"} => ~rfmontx[ifn[h]]

(* A call of the library closes no descriptor but the one it opened for the *)
(* handle it was called on.                                                 *)
ClosesOnlyItsOwn ==
  [][\A d \in Fds : IsOpen(fd, d) /\ fd'[d] # fd[d] =>
       \/ ClientClose(d)
       \/ \E h \in Handles : fd[d] = h /\ phase[h] = "open" /\ phase'[h] = "closed"
    ]_vars

(* No call of the library dereferences a null pointer.                      *)
NoNullDereference == alive

(* A selfack that reports success has given the interface the address it was*)
(* asked for.                                                               *)
SelfackTakesAddress ==
  \A h \in Handles : reply[h] \in Macs => hw[ifn[h]] = reply[h]
=============================================================================
