--------------------------------- MODULE Wext ---------------------------------
(***************************************************************************)
(* The arithmetic of iwcontrol.c: channel numbers, frequencies and struct  *)
(* iw_freq, a mantissa m and an exponent e of ten; and how the three       *)
(* private ioctl functions find a command by name in the table a wireless  *)
(* driver hands out.                                                       *)
(***************************************************************************)
EXTENDS Integers, Sequences, FiniteSetsExt

(* IEEE80211Freq and IEEE80211Ch, position by position.                    *)
IEEE80211Freq == <<2412, 2417, 2422, 2427, 2432, 2437, 2442, 2447, 2452, 2457,
                   2462, 2467, 2472, 2484, 5180, 5200, 5210, 5220, 5240, 5250,
                   5260, 5280, 5290, 5300, 5320, 5745, 5760, 5765, 5785, 5800,
                   5805, 5825>>
IEEE80211Ch   == <<1, 2, 3, 4, 5, 6, 7, 8, 9, 10, 11, 12, 13, 14, 36, 40, 42,
                   44, 48, 50, 52, 56, 58, 60, 64, 149, 152, 153, 157, 160,
                   161, 165>>

IwFreq(mant, exp) == [m |-> mant, e |-> exp]

(* The largest int.                                                        *)
IntMax == 2147483647

(* The integer part of the logarithm of an int.                            *)
Log10(n) == CHOOSE d \in 0 .. 9 : 10^d <= n /\ n \div 10^d < 10

(* floor(v * 10^k)                                                         *)
Shifted(v, k) == IF k >= 0 THEN v * 10^k ELSE v \div 10^(0 - k)

(* iwfloat2freq of v * 10^scale: above 10^8 the mantissa keeps seven digits *)
(* and two zeros.                                                          *)
Iwfloat2freq(v, scale) ==
  IF v = 0 THEN IwFreq(0, 0)
  ELSE LET e == Log10(v) + scale
       IN IF e > 8 THEN IwFreq(Shifted(v, scale + 6 - e) * 100, e - 8)
                   ELSE IwFreq(v * 10^scale, 0)

(* iwfreq2float, in MHz as floatchan2int rounds it.                        *)
Megahertz(f) == IF f.e >= 6 THEN f.m * 10^(f.e - 6)
                ELSE (f.m + 10^(6 - f.e) \div 2) \div 10^(6 - f.e)

(* Fault variant of Floatchan2int: the tables read side by side, one off.  *)
Floatchan2intShifted(mhz) ==
  LET X == {x \in 1 .. Len(IEEE80211Freq) : IEEE80211Freq[x] = mhz}
  IN IF X = {} THEN 0 ELSE IEEE80211Ch[Max({1, Min(X) - 1})]

Floatchan2int(mhz) ==
  LET X == {x \in DOMAIN IEEE80211Freq : IEEE80211Freq[x] = mhz}
  IN IF X = {} THEN 0 ELSE IEEE80211Ch[Min(X)]

Chan2mhz(c) == CASE c = 14 -> 2484
                 [] c < 14 -> 2407 + 5 * c
                 [] OTHER  -> 5000 + 5 * c

(* The request of iwconfig_set_channel: numbers above 1024 are MHz.        *)
ChannelRequest(in_ch) == Iwfloat2freq(in_ch, IF in_ch > 1024 THEN 6 ELSE 0)

(* What the card makes of a request: a small plain number is a channel.    *)
Tuned(f) == IF f.e = 0 /\ f.m <= 1000 THEN Chan2mhz(f.m) ELSE Megahertz(f)

(* The form in which a driver reports its frequency is its own: in Hz, as  *)
(* iwfloat2freq would write it, or as the number of a channel.             *)
Reports(mhz) == {IwFreq(mhz, 6), ChannelRequest(mhz)}
                  \cup {IwFreq(c, 0) : c \in {d \in 1 .. 14 : Chan2mhz(d) = mhz}}
-----------------------------------------------------------------------------
(***************************************************************************)
(* The table of SIOCGIWPRIV.  An entry has a name, a command and the       *)
(* arguments it sets and gets.  A command below SiocDevPrivate is not one  *)
(* the kernel takes but a sub-command of the nameless entry with the same  *)
(* arguments; 4 bytes of the 16 in the request then hold its number.       *)
(***************************************************************************)
SiocDevPrivate == 100
IfNamSiz       == 16

Args(t, k, f) == [type |-> t, n |-> k, fixed |-> f]
NoArgs        == Args("none", 0, FALSE)
Entry(nm, c, s, g) == [name |-> nm, cmd |-> c, set |-> s, get |-> g]

Named(table, cmdname) == {i \in DOMAIN table : table[i].name = cmdname}

(* The nameless entry for the sub-command at i.                            *)
Wrappers(table, i) ==
  {j \in DOMAIN table : table[j].name = "" /\ table[j].set = table[i].set
                                           /\ table[j].get = table[i].get}

IsSub(entry) == entry.cmd < SiocDevPrivate

PrivRet(r)       == [ret |-> r, cmd |-> 0, sub |-> 0]
PrivRun(c, s)    == [ret |-> 0, cmd |-> c, sub |-> s]

(* Do the arguments travel in the request itself?                          *)
Inline(entry, args, size) ==
  args.fixed /\ size + (IF IsSub(entry) THEN 4 ELSE 0) <= IfNamSiz

(* Fault variant of Issue: no sub-command's number gets into the request.  *)
IssueUnnumbered(table, i, args, size) ==
  PrivRun(IF IsSub(table[i]) THEN table[Min(Wrappers(table, i))].cmd
                             ELSE table[i].cmd, 0)

(* The command issued for the entry at i: outside the request the driver   *)
(* gets flags 0 where a sub-command's number would be.                     *)
Issue(table, i, args, size) ==
  IF IsSub(table[i])
    THEN PrivRun(table[Min(Wrappers(table, i))].cmd,
                 IF Inline(table[i], args, size) THEN table[i].cmd ELSE 0)
    ELSE PrivRun(table[i].cmd, 0)

(* The part the functions share: -2 if there is no such command, -1 if its *)
(* arguments are not of the type or number asked for.                      *)
Privctl(table, cmdname, dir, type, most, size) ==
  IF Named(table, cmdname) = {} THEN PrivRet(-2)
  ELSE LET i    == Min(Named(table, cmdname))
           args == table[i][dir]
       IN IF IsSub(table[i]) /\ Wrappers(table, i) = {} THEN PrivRet(-2)
          ELSE IF args.type # type \/ args.n \notin 1 .. most THEN PrivRet(-1)
          ELSE Issue(table, i, args, IF type = "int" THEN 4 * args.n ELSE size)

IwconfigSetIntpriv(table, cmdname) == Privctl(table, cmdname, "set", "int", 2, 0)
IwconfigGetIntpriv(table, cmdname) == Privctl(table, cmdname, "get", "int", 1, 0)

(* The size of a string is its length and the zero behind it.              *)
IwconfigSetCharpriv(table, cmdname, len) ==
  Privctl(table, cmdname, "set", "char", 2047, len + 1)
=============================================================================
