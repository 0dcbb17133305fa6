-------------------------------- MODULE Cards --------------------------------
(***************************************************************************)
(* tx80211.c's tables: the numbers of the drivers, the names that resolve  *)
(* to them, what tx80211_init installs for each, and the card list.        *)
(***************************************************************************)
EXTENDS Naturals, Sequences, FiniteSetsExt

Inj == [NODRIVER |-> 0, WLANNG |-> 1, HOSTAP |-> 2, AIRJACK |-> 3,
        PRISM54 |-> 4, MADWIFIOLD |-> 5, MADWIFING |-> 6, RTL8180 |-> 7,
        RT2500 |-> 8, RT2570 |-> 9, RT73 |-> 10, AIRPCAP |-> 11, RT61 |-> 12,
        ZD1211RW |-> 13, BCM43XX |-> 14, MAC80211 |-> 15]

Platforms == {"linux", "cygwin"}
Null      == "NULL"
-----------------------------------------------------------------------------
(***************************************************************************)
(* The init function of each driver: the handlers in which they differ and *)
(* the capabilities.  A handler "NULL" was not installed.                  *)
(***************************************************************************)
Driver(open, close, send, funcmode, selfack, caps) ==
  [open |-> open, close |-> close, send |-> send, funcmode |-> funcmode,
   selfack |-> selfack, caps |-> caps]

Basic == {"SNIFF", "TRANSMIT"}

HostapInit  == Driver("wtinj", "wtinj", "wtinj", "wtinj", "wtinj",
                 Basic \cup {"SELFACK", "DSSSTX"})
Prism54Init == Driver("wtinj", "wtinj", "wtinj", "wtinj", "wtinj",
                 Basic \cup {"SEQ", "BSSTIME", "FRAG", "DURID", "SNIFFACK",
                             "DSSSTX", "SELFACK", "CTRL"})
Rtl8180Init == Driver("wtinj", "wtinj", "wtinj", "wtinj", Null, {})
Rt2500Init  == Driver("rt2500", "rt2500", "wtinj", "wtinj", Null,
                 Basic \cup {"SEQ", "BSSTIME", "FRAG", "CTRL", "DURID", "DSSSTX"})
Rt2570Init  == Driver("rt2570", "wtinj", "rt2570", "wtinj", Null,
                 Basic \cup {"BSSTIME", "FRAG", "CTRL", "DURID"})
Rt73Init    == Driver("rt73", "rt73", "wtinj", "wtinj", Null,
                 Basic \cup {"SEQ", "BSSTIME", "FRAG", "CTRL", "DURID",
                             "SNIFFACK", "DSSSTX", "OFDMTX"})
Rt61Init    == Driver("rt61", "wtinj", "wtinj", "wtinj", Null,
                 Basic \cup {"BSSTIME", "FRAG", "CTRL", "DURID"})
Bcm43xxInit == Driver("bcm43xx", "bcm43xx", "wtinj", "wtinj", Null,
                 Basic \cup {"SEQ", "BSSTIME", "CTRL", "DURID", "SNIFFACK",
                             "DSSSTX", "OFDMTX"})
MadwifioldInit == Driver("madwifiold", "wtinj", "wtinj", "wtinj", Null,
                 Basic \cup {"SEQ", "BSSTIME", "FRAG", "CTRL", "DURID",
                             "SNIFFACK", "DSSSTX", "OFDMTX", "SELFACK", "SETRATE"})
MadwifingInit == Driver("madwifing", "madwifing", "radiotap", "madwifing", "madwifing",
                 Basic \cup {"BSSTIME", "FRAG", "CTRL", "DURID", "SNIFFACK",
                             "DSSSTX", "OFDMTX", "SELFACK", "SETRATE", "SETMODULATION"})
Zd1211rwInit == Driver("wtinj", "wtinj", "radiotap", "wtinj", Null,
                 Basic \cup {"SEQ", "BSSTIME", "FRAG", "DURID", "SNIFFACK", "DSSSTX"})
Mac80211Init == Driver("wtinj", "wtinj", "radiotap", "wtinj", Null,
                 Basic \cup {"SEQ", "BSSTIME", "FRAG", "DURID", "SNIFFACK", "DSSSTX"})
WlanngInit  == Driver("wginj", "wginj", "wginj", Null, Null, Basic \cup {"DSSSTX"})
AirjackInit == Driver("ajinj", "ajinj", "ajinj", Null, Null, Basic \cup {"DSSSTX"})
AirpcapInit == Driver("airpcap", "airpcap", "airpcap", "airpcap", Null,
                 Basic \cup {"SETMODULATION", "SETRATE"})

(* The switch of tx80211_init; for every other number it is ENOSUCHINJ.    *)
Dispatch(platform) ==
  IF platform = "linux"
    THEN {<<Inj.WLANNG, WlanngInit>>, <<Inj.AIRJACK, AirjackInit>>,
          <<Inj.PRISM54, Prism54Init>>, <<Inj.MADWIFIOLD, MadwifioldInit>>,
          <<Inj.MADWIFING, MadwifingInit>>, <<Inj.HOSTAP, HostapInit>>,
          <<Inj.RT2500, Rt2500Init>>, <<Inj.RT2570, Rt2570Init>>,
          <<Inj.RT73, Rt73Init>>, <<Inj.RTL8180, Rtl8180Init>>,
          <<Inj.ZD1211RW, Zd1211rwInit>>, <<Inj.BCM43XX, Bcm43xxInit>>,
          <<Inj.MAC80211, Mac80211Init>>}
    ELSE {<<Inj.AIRPCAP, AirpcapInit>>}

Dispatched(platform)   == {d[1] : d \in Dispatch(platform)}
Installed(platform, n) == (CHOOSE d \in Dispatch(platform) : d[1] = n)[2]
-----------------------------------------------------------------------------
(***************************************************************************)
(* Names, compared without regard to case: the first line that has it.     *)
(***************************************************************************)
Names(strs, n) == [strs |-> strs, inj |-> n]

LinuxNames ==
  <<Names({"wlan-ng", "wlanng"}, Inj.WLANNG),
    Names({"host-ap", "hostap"}, Inj.HOSTAP),
    Names({"airjack"}, Inj.AIRJACK),
    Names({"prism54", "prismgt"}, Inj.PRISM54),
    Names({"madwifiold", "madwifi"}, Inj.MADWIFIOLD),
    Names({"madwifing", "madwifi-ng"}, Inj.MADWIFING),
    Names({"madwifiold", "madwifi-old"}, Inj.MADWIFIOLD),
    Names({"rtl8180", "rt8180"}, Inj.RTL8180),
    Names({"rt2500", "rtl2500", "rt25k", "rtl25k"}, Inj.RT2500),
    Names({"rt2570", "rtl2570"}, Inj.RT2570),
    Names({"rt73", "rtl73", "rt2571"}, Inj.RT73),
    Names({"rt61", "rt2561"}, Inj.RT61),
    Names({"zd1211", "zd1211rw"}, Inj.ZD1211RW),
    Names({"bcm43xx"}, Inj.BCM43XX)>>

Mac80211Names ==
  {"ath5k", "ath9k", "ath5k_pci", "ath9k_pci", "iwlwifi", "iwlagn", "iwl-agn",
   "iwl3945", "iwl4965", "iwl5000", "mac80211", "d80211", "rt2x00",
   "rt2400pci", "rt2500pci", "rt61pci", "b43", "b43legacy", "rtl8180", "rtl8187"}

(* The names it compares with; whatever else it is given it does not know. *)
KnownNames(platform) ==
  IF platform = "linux"
    THEN (UNION {LinuxNames[n].strs : n \in DOMAIN LinuxNames})
           \cup Mac80211Names \cup {"rt2500usb", "rt73usb"}
    ELSE {"airpcap"}

(* Fault variant of Resolvecard: a later line wins.                        *)
ResolvecardLast(platform, s) ==
  LET L == {n \in DOMAIN LinuxNames : s \in LinuxNames[n].strs}
  IN IF platform = "cygwin" THEN IF s = "airpcap" THEN Inj.AIRPCAP ELSE Inj.NODRIVER
     ELSE IF L # {} /\ s \notin Mac80211Names THEN LinuxNames[Max(L)].inj
     ELSE Inj.MAC80211

(* Two of the comparisons in the line of mac80211 are not negated: a name  *)
(* differs from one of the two at least.                                   *)
Resolvecard(platform, s) ==
  LET L == {n \in DOMAIN LinuxNames : s \in LinuxNames[n].strs}
  IN CASE platform = "cygwin" -> IF s = "airpcap" THEN Inj.AIRPCAP ELSE Inj.NODRIVER
       [] platform = "linux" /\ L # {} -> LinuxNames[Min(L)].inj
       [] OTHER -> IF s \in Mac80211Names \/ s # "rt2500usb" \/ s # "rt73usb"
                     THEN Inj.MAC80211 ELSE Inj.NODRIVER

(* sysdriver is what the link /sys/class/net/.../driver names, or NULL.    *)
Resolveinterface(platform, sysdriver, phy80211) ==
  CASE platform = "cygwin" \/ sysdriver = Null      -> Inj.NODRIVER
    [] sysdriver # Null /\ phy80211                 -> Inj.MAC80211
    [] sysdriver = "hostap"                         -> Inj.HOSTAP
    [] sysdriver = "prism54"                        -> Inj.PRISM54
    [] sysdriver \in {"madwifing", "madwifi-ng"}    -> Inj.MADWIFING
    [] OTHER                                        -> Inj.NODRIVER
-----------------------------------------------------------------------------
(***************************************************************************)
(* The card list: its entries, and the five blocks it is made of.          *)
(***************************************************************************)
Card(n, i, c) == [name |-> n, inj |-> i, caps |-> c]

CardList ==
  <<Card("nodriver", Inj.NODRIVER, {}),
    Card("wlan-ng", Inj.WLANNG, WlanngInit.caps),
    Card("hostap", Inj.HOSTAP, HostapInit.caps),
    Card("airjack", Inj.AIRJACK, AirjackInit.caps),
    Card("prism54", Inj.PRISM54, Prism54Init.caps),
    Card("madwifing", Inj.MADWIFING, MadwifioldInit.caps),
    Card("madwifiold", Inj.MADWIFIOLD, MadwifioldInit.caps),
    Card("rtl8180", Inj.RTL8180, Rtl8180Init.caps),
    Card("rt2570", Inj.RT2570, Rt2570Init.caps),
    Card("rt2500", Inj.RT2500, Rt2500Init.caps),
    Card("rt73", Inj.RT73, Rt73Init.caps),
    Card("rt61", Inj.RT61, Rt61Init.caps),
    Card("zd1211rw", Inj.ZD1211RW, Zd1211rwInit.caps),
    Card("bcm43xx", Inj.BCM43XX, Bcm43xxInit.caps),
    Card("mac80211", Inj.MAC80211, Mac80211Init.caps)>>

Blocks == <<"list", "cardnames", "descriptions", "capabilities", "injnum">>
Block(S) == {Blocks[n] : n \in S}

(* What the error path behind the k-th allocation frees.                   *)
FreedAfter(k) ==
  CASE k = 1 -> {}
    [] k = 2 -> {"list"}
    [] k = 3 -> {"cardnames", "list"}
    [] k = 4 -> {"cardnames", "descriptions", "list"}
    [] k = 5 -> {"cardnames", "descriptions", "capabilities", "list"}
    [] OTHER -> {}

(* The k-th allocation fails, or none if k = 6: what stays allocated.      *)
Getcardlist(k) == Block(1 .. (k - 1)) \ FreedAfter(k)

(* Fault variant of Freecardlist: the names stay.                          *)
FreecardlistShallow(held) == held \ {"list", "injnum"}

Freecardlist(held) == held \ {"list", "cardnames", "descriptions", "capabilities"}
=============================================================================
