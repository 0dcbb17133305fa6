------------------------------ MODULE IfControl ------------------------------
(***************************************************************************)
(* Processes that control one interface through ifcontrol_linux.c,         *)
(* iwcontrol.c and the aj_ functions of ajinject.c.  Each call opens a     *)
(* socket, makes one or two requests to the kernel on it and closes it; a  *)
(* call that changes one thing of several the kernel writes together reads *)
(* them first.  One action per request, so that calls of different         *)
(* processes interleave; each request may fail.                            *)
(***************************************************************************)
EXTENDS Wext

CONSTANTS
  Procs,
  Agendas,   \* the calls of a run: for each process, one after the other
  Table,     \* the private ioctls of the interface's driver
  MaxSocks   \* sockets a process can have

(* What the kernel keeps for the interface, and writes together.           *)
Flags   == {"up", "promisc"}                            \* ifr_flags
Hwaddr  == {"family", "address"}                        \* ifr_hwaddr
Ajconf  == {"monitor", "mode", "channel", "essid", "ownmac"}  \* struct aj_config
Singles == {"mtu", "ssid", "iwmode", "freq"}
Fields  == Flags \cup Hwaddr \cup Ajconf \cup Singles

Group(f) == CASE f \in Flags  -> Flags
              [] f \in Hwaddr -> Hwaddr
              [] f \in Ajconf -> Ajconf
              [] OTHER        -> {f}
-----------------------------------------------------------------------------
(***************************************************************************)
(* The calls: a function's name, the field it reads or writes, the value,  *)
(* and for the private ioctls a command's name.                            *)
(***************************************************************************)
Call(o, f, v, c) == [op |-> o, field |-> f, val |-> v, cmdname |-> c]

IfconfigDeltaFlags(flag) == Call("ifconfig_delta_flags", flag, 1, "")
IfconfigIfupdown(devup)  == Call("ifconfig_ifupdown", "up", devup, "")
IfconfigGetFlags         == Call("ifconfig_get_flags", "up", 0, "")
IfconfigGetHwaddr        == Call("ifconfig_get_hwaddr", "address", 0, "")
IfconfigSetHwaddr(mac)   == Call("ifconfig_set_hwaddr", "address", mac, "")
IfconfigSetMtu(n)        == Call("ifconfig_set_mtu", "mtu", n, "")
IwconfigSetSsid(s)       == Call("iwconfig_set_ssid", "ssid", s, "")
IwconfigGetSsid          == Call("iwconfig_get_ssid", "ssid", 0, "")
IwconfigGetName          == Call("iwconfig_get_name", "none", 0, "")
IwconfigGetLevels        == Call("iwconfig_get_levels", "none", 0, "")
IwconfigSetMode(m)       == Call("iwconfig_set_mode", "iwmode", m, "")
IwconfigGetMode          == Call("iwconfig_get_mode", "iwmode", 0, "")
IwconfigSetChannel(c)    == Call("iwconfig_set_channel", "freq", c, "")
IwconfigGetChannel       == Call("iwconfig_get_channel", "freq", 0, "")
AjSetmonitor(b)          == Call("aj_setmonitor", "monitor", b, "")
AjSetmode(m)             == Call("aj_setmode", "mode", m, "")
AjSetchannel(c)          == Call("aj_setchannel", "channel", c, "")
AjSetessid(s)            == Call("aj_setessid", "essid", s, "")
AjSetmac(mac)            == Call("aj_setmac", "ownmac", mac, "")
Intpriv(dir, c)          == Call(dir, "none", 0, c)
Charpriv(c, len)         == Call("iwconfig_set_charpriv", "none", len, c)

Privs   == {"iwconfig_set_intpriv", "iwconfig_get_intpriv", "iwconfig_set_charpriv"}
AjOps   == {"aj_setmode", "aj_setchannel", "aj_setessid", "aj_setmac"}
Reading == {"ifconfig_get_flags", "ifconfig_get_hwaddr", "iwconfig_get_ssid",
            "iwconfig_get_name", "iwconfig_get_mode", "iwconfig_get_channel"}

(* The steps of each function when nothing fails.  delta_flags and         *)
(* ifupdown read and write through two functions with a socket each;       *)
(* aj_setmonitor does not close its socket.                                *)
Path(op) ==
  CASE op \in Reading                  -> <<"socket", "get", "close">>
    [] op = "iwconfig_get_levels"      -> <<"socket", "get", "get", "close">>
    [] op = "aj_setmonitor"            -> <<"socket", "get", "set">>
    [] op \in AjOps                    -> <<"socket", "get", "set", "close">>
    [] op = "ifconfig_set_hwaddr"      -> <<"socket", "get", "set", "close">>
    [] op \in {"ifconfig_delta_flags", "ifconfig_ifupdown"} ->
         <<"socket", "get", "close", "socket", "set", "close">>
    [] op \in Privs                    -> <<"socket", "list", "run", "close">>
    [] OTHER                           -> <<"socket", "set", "close">>

Nothing == Call("none", "none", 0, "")

Calls == UNION {UNION {{agd[p][n] : n \in DOMAIN agd[p]} : p \in Procs} : agd \in Agendas}

(* A client may call anything in any order.  The arguments are ints, and   *)
(* only iwconfig_set_channel writes a channel; an entry without a name is  *)
(* the kernel's ioctl behind sub-commands, never one itself (wireless.h).  *)
ASSUME IfControlAssumption ==
  /\ MaxSocks \in Nat \ {0}
  /\ Agendas \subseteq [Procs -> Seq(Calls)]
  /\ \A c \in Calls : /\ c.field \in Fields \cup {"none"}
                      /\ c.val \in 0 .. IntMax
                      /\ c.op = "iwconfig_set_channel" => c.field = "freq"
  /\ DOMAIN Table = 1 .. Len(Table) /\ Len(Table) \in Nat
  /\ \A i \in DOMAIN Table : Table[i].name = "" => ~IsSub(Table[i])
-----------------------------------------------------------------------------
VARIABLES
  agenda,  \* calls a process has still to make
  call,    \* the call it makes, or made last
  at,      \* the step of the call, 0 between calls
  tries,   \* failed attempts of iwconfig_set_channel
  image,   \* ifr, ajconf: what the call has read
  ret,     \* what the last call returned
  socks,   \* sockets open
  reg      \* the interface: field -> value; "freq" is in MHz

VARIABLES  \* history
  fresh,   \* has nobody written to what a call read since it did
  asked,   \* the value last asked for each field
  torn,    \* fields written with an old value since they were last asked for
  heard,   \* what the card was tuned to when get_channel asked
  ran,     \* the command the driver ran for the last private ioctl
  monset   \* successful calls of aj_setmonitor

local == <<agenda, call, at, tries, image, ret>>
ghost == <<fresh, asked, torn, heard, ran, monset>>
vars  == <<local, socks, reg, ghost>>

Blank  == [f \in Fields |-> 0]
NotRun == PrivRet(0)

TypeOK ==
  /\ call \in [Procs -> Calls \cup {Nothing}]
  /\ \A p \in Procs : at[p] \in 0 .. Len(Path(call[p].op))
  /\ tries \in [Procs -> 0 .. 1]
  /\ ret \in [Procs -> Int]
  /\ socks \in [Procs -> 0 .. MaxSocks]
  /\ reg \in [Fields -> Nat] /\ asked \in [Fields -> Nat]
  /\ image \in [Procs -> [Fields -> Nat]]
  /\ fresh \in [Procs -> BOOLEAN]
  /\ torn \in SUBSET Fields
  /\ heard \in [Procs -> Nat]
  /\ monset \in [Procs -> Nat]

Init ==
  /\ agenda \in Agendas
  /\ call = [p \in Procs |-> Nothing]
  /\ at = [p \in Procs |-> 0]
  /\ tries = [p \in Procs |-> 0]
  /\ image = [p \in Procs |-> Blank]
  /\ ret = [p \in Procs |-> 0]
  /\ socks = [p \in Procs |-> 0]
  /\ reg = [Blank EXCEPT !["freq"] = 2412]
  /\ fresh = [p \in Procs |-> FALSE]
  /\ asked = reg
  /\ torn = {}
  /\ heard = [p \in Procs |-> 0]
  /\ ran = [p \in Procs |-> NotRun]
  /\ monset = [p \in Procs |-> 0]

At(p, step) == at[p] > 0 /\ Path(call[p].op)[at[p]] = step

Return(p, r) ==
  /\ at' = [at EXCEPT ![p] = 0]
  /\ ret' = [ret EXCEPT ![p] = r]
  /\ tries' = [tries EXCEPT ![p] = 0]
  /\ image' = [image EXCEPT ![p] = Blank]
  /\ fresh' = [fresh EXCEPT ![p] = FALSE]

CloseSocket(p) == socks' = [socks EXCEPT ![p] = @ - 1]

(* Fault variant of GiveUp: only the error is returned.                    *)
GiveUpOpen(p, r) ==
  /\ Return(p, r)
  /\ UNCHANGED <<agenda, call, socks, reg, asked, torn, heard, ran, monset>>

(* A request failed: the socket is closed and the call returns r.          *)
GiveUp(p, r) ==
  /\ CloseSocket(p)
  /\ Return(p, r)
  /\ UNCHANGED <<agenda, call, reg, asked, torn, heard, ran, monset>>
-----------------------------------------------------------------------------
Begin(p) ==
  /\ at[p] = 0 /\ agenda[p] # <<>>
  /\ agenda' = [agenda EXCEPT ![p] = Tail(@)]
  /\ call' = [call EXCEPT ![p] = Head(agenda[p])]
  /\ at' = [at EXCEPT ![p] = 1]
  /\ ret' = [ret EXCEPT ![p] = 0]
  /\ heard' = [heard EXCEPT ![p] = 0]
  /\ ran' = [ran EXCEPT ![p] = NotRun]
  /\ UNCHANGED <<tries, image, socks, reg, fresh, asked, torn, monset>>

Forth(p) == at' = [at EXCEPT ![p] = @ + 1]

(* Fault variant of Socket: the process has any number of sockets.         *)
SocketUnlimited(p) ==
  /\ At(p, "socket")
  /\ socks' = [socks EXCEPT ![p] = @ + 1]
  /\ Forth(p)
  /\ UNCHANGED <<agenda, call, tries, image, ret, reg, ghost>>

Socket(p) ==
  /\ At(p, "socket")
  /\ \/ /\ socks[p] < MaxSocks
        /\ socks' = [socks EXCEPT ![p] = @ + 1]
        /\ Forth(p)
        /\ UNCHANGED <<tries, image, ret, fresh>>
     \/ /\ Return(p, -1)
        /\ UNCHANGED socks
  /\ UNCHANGED <<agenda, call, reg, asked, torn, heard, ran, monset>>

(* Fault variant of Get: the structure is not filled in.                   *)
GetNothing(p) ==
  /\ At(p, "get")
  /\ Forth(p)
  /\ fresh' = [fresh EXCEPT ![p] = TRUE]
  /\ UNCHANGED <<agenda, call, tries, image, ret, socks, reg, asked, torn,
                 heard, ran, monset>>

Get(p) ==
  /\ At(p, "get")
  /\ \/ /\ Forth(p)
        /\ image' = [image EXCEPT ![p] =
             [f \in Fields |-> IF f \in Group(call[p].field) THEN reg[f] ELSE @[f]]]
        /\ fresh' = [fresh EXCEPT ![p] = TRUE]
        /\ IF call[p].op = "iwconfig_get_channel"
             THEN /\ heard' = [heard EXCEPT ![p] = reg["freq"]]
                  /\ \E f \in Reports(reg["freq"]) :
                       ret' = [ret EXCEPT ![p] = Floatchan2int(Megahertz(f))]
             ELSE UNCHANGED <<heard, ret>>
        /\ UNCHANGED <<agenda, call, tries, socks, reg, asked, torn, ran, monset>>
     \/ GiveUp(p, -1)

(* What the kernel makes of the value, and what the caller meant by it.    *)
Written(c) == IF c.op = "iwconfig_set_channel" THEN Tuned(ChannelRequest(c.val))
                                               ELSE c.val
Meant(c) == IF c.op = "iwconfig_set_channel" /\ c.val <= 1024 THEN Chan2mhz(c.val)
                                                              ELSE c.val

(* The frequencies a card can be tuned to; it refuses others.              *)
Band == 2412 .. 2484 \cup 5000 .. 5900

Set(p) ==
  LET f   == call[p].field
      old == IF fresh[p] THEN {} ELSE Group(f) \ {f}
  IN
  /\ At(p, "set")
  /\ f = "freq" => Written(call[p]) \in Band
  /\ reg' = [x \in Fields |-> IF x = f THEN Written(call[p])
                              ELSE IF x \in Group(f) THEN image[p][x] ELSE reg[x]]
  /\ asked' = [asked EXCEPT ![f] = Meant(call[p])]
  /\ torn' = (torn \ {f}) \cup old
  /\ IF at[p] = Len(Path(call[p].op))
       THEN /\ monset' = [monset EXCEPT ![p] = @ + 1]
            /\ at' = [at EXCEPT ![p] = 0]
            /\ image' = [image EXCEPT ![p] = Blank]
       ELSE Forth(p) /\ UNCHANGED <<monset, image>>
  /\ fresh' = [q \in Procs |-> fresh[q] /\ Group(call[q].field) # Group(f)]
  /\ UNCHANGED <<agenda, call, tries, ret, socks, heard, ran>>

(* iwconfig_set_channel waits 5 ms and tries once more.                    *)
SetFails(p) ==
  /\ At(p, "set")
  /\ IF call[p].op = "iwconfig_set_channel" /\ tries[p] = 0
       THEN /\ tries' = [tries EXCEPT ![p] = 1]
            /\ UNCHANGED <<agenda, call, at, image, ret, socks, reg, ghost>>
       ELSE GiveUp(p, -1)

Priv(c) ==
  CASE c.op = "iwconfig_set_intpriv"  -> IwconfigSetIntpriv(Table, c.cmdname)
    [] c.op = "iwconfig_get_intpriv"  -> IwconfigGetIntpriv(Table, c.cmdname)
    [] c.op = "iwconfig_set_charpriv" -> IwconfigSetCharpriv(Table, c.cmdname, c.val)

(* SIOCGIWPRIV, and the search in what it returns.                         *)
List(p) ==
  /\ At(p, "list")
  /\ \/ /\ Priv(call[p]).ret = 0
        /\ Forth(p)
        /\ UNCHANGED <<agenda, call, tries, image, ret, socks, reg, ghost>>
     \/ /\ Priv(call[p]).ret < 0
        /\ GiveUp(p, Priv(call[p]).ret)
     \/ GiveUp(p, -1)

Run(p) ==
  /\ At(p, "run")
  /\ \/ /\ ran' = [ran EXCEPT ![p] = Priv(call[p])]
        /\ Forth(p)
        /\ UNCHANGED <<agenda, call, tries, image, ret, socks, reg, fresh,
                       asked, torn, heard, monset>>
     \/ GiveUp(p, -1)

(* close(skfd): the end of the call, or of the function it read with.      *)
Close(p) ==
  /\ At(p, "close")
  /\ CloseSocket(p)
  /\ IF at[p] = Len(Path(call[p].op)) THEN Return(p, ret[p])
     ELSE Forth(p) /\ UNCHANGED <<tries, image, ret, fresh>>
  /\ UNCHANGED <<agenda, call, reg, asked, torn, heard, ran, monset>>
-----------------------------------------------------------------------------
Step(p) == Socket(p) \/ Get(p) \/ Set(p) \/ SetFails(p) \/ List(p) \/ Run(p) \/ Close(p)

Next == \E p \in Procs : Begin(p) \/ Step(p)

Spec == Init /\ [][Next]_vars
-----------------------------------------------------------------------------
(* Every field of the interface has the value the last caller asked for,   *)
(* the conversions of channel numbers and frequencies included, unless     *)
(* another process wrote the fields that are written with it between a     *)
(* read and a write of this one: nothing but that race loses a change      *)
(* (ifconfig_delta_flags, ifconfig_ifupdown, ifconfig_set_hwaddr, aj_setmac).*)
FieldsAsAsked == \A f \in Fields \ torn : reg[f] = asked[f]

(* Whatever failed, no process is left with a socket of a call that has    *)
(* returned, and none closes one too many; except that each successful     *)
(* aj_setmonitor leaves one behind (ajinject.c aj_setmonitor).             *)
SocketsAccounted == \A p \in Procs : at[p] = 0 => socks[p] = monset[p]

(* A channel number that iwconfig_get_channel returns stands for the       *)
(* frequency the card had when asked; it returns 0 for a known frequency   *)
(* only if the driver reports channel numbers (floatchan2int).             *)
ChannelIsTheCards ==
  \A p \in Procs :
    at[p] = 0 /\ heard[p] # 0 /\ ret[p] >= 0 =>
      \/ ret[p] > 0 /\ Chan2mhz(ret[p]) = heard[p]
      \/ ret[p] = 0 /\ (heard[p] \notin {IEEE80211Freq[x] : x \in DOMAIN IEEE80211Freq}
                          \/ \E c \in 1 .. 14 : Chan2mhz(c) = heard[p])

(* The arguments of the entry at i that a call sets or gets, and the bytes *)
(* they take: four for an int, one for a character and for the zero behind.*)
ArgsOf(c, i)  == IF c.op = "iwconfig_get_intpriv" THEN Table[i].get ELSE Table[i].set
BytesOf(c, i) == IF c.op = "iwconfig_set_charpriv" THEN c.val + 1 ELSE 4 * ArgsOf(c, i).n

(* A private ioctl that succeeds has run the command it was given: the one *)
(* of that name or, for a sub-command, the nameless one with its arguments *)
(* and the sub-command's number.  The number may be missing only where     *)
(* there is no room for it: the arguments that this call passes are not of *)
(* a fixed size, or they and the number exceed the 16 bytes of the request *)
(* (iwconfig_set_intpriv, _get_intpriv and _set_charpriv, where they send  *)
(* a pointer and clear the flags).                                         *)
PrivRunsNamed ==
  \A p \in Procs :
    at[p] = 0 /\ call[p].op \in Privs /\ ret[p] = 0 =>
      \E i \in Named(Table, call[p].cmdname) :
        \/ ran[p] = PrivRun(Table[i].cmd, 0) /\ ~IsSub(Table[i])
        \/ \E j \in Wrappers(Table, i) :
             /\ IsSub(Table[i]) /\ ~IsSub(Table[j])
             /\ ran[p].cmd = Table[j].cmd
             /\ \/ ran[p].sub = Table[i].cmd
                \/ /\ ran[p].sub = 0
                   /\ \/ ~ArgsOf(call[p], i).fixed
                      \/ BytesOf(call[p], i) + 4 > IfNamSiz
=============================================================================
