----------------------------- MODULE MCIfControl -----------------------------
EXTENDS IfControl

(* Two processes that change what is written together, in every pairing of *)
(* these sequences; every channel; every private ioctl of the table.       *)
Up    == IfconfigIfupdown(1)
Down  == IfconfigIfupdown(0)
Prom  == IfconfigDeltaFlags("promisc")

Pair(s, t) == [p \in {"p", "q"} |-> IF p = "p" THEN s ELSE t]

FlagWork == {<<Up, IfconfigGetFlags>>, <<Prom, Down>>, <<Down, IwconfigSetMode(6), Up>>}
MacWork  == {<<IfconfigSetHwaddr(1), IfconfigGetHwaddr>>, <<Down, IfconfigSetHwaddr(2)>>}
AjWork   == {<<AjSetmonitor(1), AjSetchannel(6)>>, <<AjSetmode(3), AjSetmac(1)>>,
             <<AjSetessid(1), AjSetmonitor(0)>>, <<AjSetmonitor(1), AjSetmonitor(0), AjSetchannel(1)>>}
Tuning   == {<<IwconfigSetChannel(c), IwconfigGetChannel>> :
               c \in {IEEE80211Ch[x] : x \in DOMAIN IEEE80211Ch}
                       \cup {IEEE80211Freq[x] : x \in DOMAIN IEEE80211Freq}
                       \cup {0, 34, 1024, 1025, 9999, 10000, 12345678, IntMax}}
Other    == {<<IfconfigSetMtu(2346), IwconfigSetSsid(1), IwconfigGetSsid>>,
             <<IwconfigGetName, IwconfigGetLevels, IwconfigGetMode>>}

(* Direct and sub-commands, integers and strings, with and without FIXED.  *)
Ints(k)   == Args("int", k, TRUE)
IntOut   == Args("int", 1, FALSE)
Char     == Args("char", 1024, FALSE)
CharIn   == Args("char", 16, TRUE)
MCTable ==
  <<Entry("rfmontx", 101, Ints(1), NoArgs), Entry("forceprism", 102, Char, NoArgs),
    Entry("reset", 103, NoArgs, NoArgs),   Entry("three", 104, Ints(3), NoArgs),
    Entry("", 105, Ints(1), NoArgs),        Entry("mode", 1, Ints(1), NoArgs),
    Entry("abolt", 2, Ints(1), NoArgs),     Entry("", 106, NoArgs, Ints(1)),
    Entry("get_mode", 1, NoArgs, Ints(1)),  Entry("lone", 3, Ints(2), NoArgs),
    Entry("", 107, IntOut, NoArgs),        Entry("out", 4, IntOut, NoArgs),
    Entry("", 108, CharIn, NoArgs),        Entry("name", 5, CharIn, NoArgs),
    Entry("get_out", 109, NoArgs, IntOut)>>
Names == {MCTable[i].name : i \in DOMAIN MCTable} \cup {"absent"}
PrivWork == {<<Intpriv(d, c)>> : d \in {"iwconfig_set_intpriv", "iwconfig_get_intpriv"},
                                 c \in Names}
              \cup {<<Charpriv(c, len)>> : c \in Names, len \in {1, 11, 12, 15, 16}}

MCAgendas ==
  {Pair(s, t) : s, t \in FlagWork} \cup {Pair(s, t) : s, t \in MacWork}
    \cup {Pair(s, t) : s, t \in AjWork}
    \cup {Pair(s, <<>>) : s \in Tuning \cup Other \cup PrivWork}
    \cup {Pair(s, <<IwconfigSetChannel(5180)>>) : s \in {<<IwconfigSetChannel(6), IwconfigGetChannel>>}}
=============================================================================
