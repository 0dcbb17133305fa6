--------------------------- MODULE IfControlProofs ---------------------------
(***************************************************************************)
(* What holds of module IfControl for any processes, any calls in any      *)
(* order, any table of private ioctls and any number of sockets.           *)
(***************************************************************************)
EXTENDS IfControl, WextProofs

-----------------------------------------------------------------------------
(* The arguments of a call are those a client can give. *)
LEMMA CallArgs ==
  ASSUME NEW c \in Calls
  PROVE  /\ c.val \in Nat /\ c.val <= IntMax
         /\ c.field \in Fields \cup {"none"}
         /\ c.op = "iwconfig_set_channel" => c.field = "freq"
<1> DEFINE n == c.val
<1>1. n \in 0 .. IntMax
  BY IfControlAssumption
<1> HIDE DEF n
<1>2. IntMax \in Int
  BY SMT DEF IntMax
<1>3. n \in Nat /\ n <= IntMax
  BY <1>1, <1>2, SMT
<1>4. QED
  BY <1>3, IfControlAssumption DEF n

LEMMA BandIsInt ==
  ASSUME NEW mhz \in Band
  PROVE  mhz \in Nat /\ mhz <= IntMax
BY SMT DEF Band, IntMax

(* What set_channel writes is what its caller meant: a number up to 1000   *)
(* is a channel, one above 1024 a frequency, others no card takes.         *)
LEMMA WrittenIsMeant ==
  ASSUME NEW c \in Calls, c.field = "freq" => Written(c) \in Band
  PROVE  Written(c) = Meant(c) /\ Meant(c) \in Nat
<1> DEFINE n == c.val
<1>1. n \in Nat /\ n <= IntMax /\ (c.op = "iwconfig_set_channel" => c.field = "freq")
  BY CallArgs
<1> HIDE DEF n
<1>2. CASE c.op # "iwconfig_set_channel"
  BY <1>1, <1>2 DEF Written, Meant, n
<1> SUFFICES ASSUME c.op = "iwconfig_set_channel" PROVE Written(c) = Meant(c) /\ Meant(c) \in Nat
  BY <1>2
<1>3. Written(c) = Tuned(ChannelRequest(n)) /\ Written(c) \in Band
  BY <1>1 DEF Written, n
<1>4. Meant(c) = IF n <= 1024 THEN Chan2mhz(n) ELSE n
  BY DEF Meant, n
<1>5. CASE n > 1024
  BY <1>1, <1>3, <1>4, <1>5, TunedToMegahertz, SMT DEF Band
<1>6. CASE n <= 1024
  <2>1. ChannelRequest(n) = IwFreq(n, 0)
    BY <1>1, <1>6, SmallRequest
  <2>2. CASE n <= 1000
    BY <1>1, <1>3, <1>4, <1>6, <2>1, <2>2, SMT DEF Tuned, IwFreq, Band, Chan2mhz
  <2>3. CASE n > 1000
    <3>2. Megahertz(IwFreq(n, 0)) = 0
      BY <1>1, <1>6, PlainMegahertz
    <3>3. Written(c) = 0
      BY <1>1, <1>3, <2>1, <2>3, <3>2, SMT DEF Tuned, IwFreq
    <3>4. QED
      BY <1>3, <3>3, SMT DEF Band
  <2>4. QED
    BY <1>1, <2>2, <2>3
<1>7. QED
  BY <1>1, <1>5, <1>6

-----------------------------------------------------------------------------
(***************************************************************************)
(* The private ioctls.                                                     *)
(***************************************************************************)

(* The command that runs for a name (PrivRunsNamed says it of a state). *)
RunsNamed(c, r) ==
  \E i \in Named(Table, c.cmdname) :
    \/ r = PrivRun(Table[i].cmd, 0) /\ ~IsSub(Table[i])
    \/ \E j \in Wrappers(Table, i) :
         /\ IsSub(Table[i]) /\ ~IsSub(Table[j])
         /\ r.cmd = Table[j].cmd
         /\ \/ r.sub = Table[i].cmd
            \/ /\ r.sub = 0
               /\ ~ArgsOf(c, i).fixed \/ BytesOf(c, i) + 4 > IfNamSiz

Finds(c, r) == r.ret \in {-2, -1, 0} /\ (r.ret = 0 => RunsNamed(c, r))

LEMMA FirstEntry ==
  ASSUME NEW S \in SUBSET DOMAIN Table, S # {}
  PROVE  Min(S) \in S
<1>1. PICK n \in Nat : DOMAIN Table = 1 .. n
  BY IfControlAssumption, Zenon
<1>2. S \in SUBSET Nat
  BY <1>1
<1>3. QED
  BY <1>2, MinIsLeast

(* The search returns one of three results, and 0 only with a command; the *)
(* number is missing only where the arguments leave no room for it.        *)
LEMMA PrivctlRuns ==
  ASSUME NEW c, NEW dir \in {"set", "get"}, NEW type, NEW most, NEW size,
         \A i \in DOMAIN Table : ArgsOf(c, i) = Table[i][dir],
         \A i \in DOMAIN Table :
           BytesOf(c, i) = IF type = "int" THEN 4 * ArgsOf(c, i).n ELSE size,
         \A i \in DOMAIN Table : ArgsOf(c, i).n \in 1 .. most => BytesOf(c, i) \in Int
  PROVE  Finds(c, Privctl(Table, c.cmdname, dir, type, most, size))
<1> DEFINE N    == Named(Table, c.cmdname)
           i    == Min(N)
           args == Table[i][dir]
           sz   == IF type = "int" THEN 4 * args.n ELSE size
           r    == Privctl(Table, c.cmdname, dir, type, most, size)
<1> SUFFICES r.ret \in {-2, -1, 0} /\ (r.ret = 0 => RunsNamed(c, r))
  BY DEF Finds
<1>1. CASE r = PrivRet(-2) \/ r = PrivRet(-1)
  BY <1>1 DEF PrivRet
<1>2. CASE /\ N # {} /\ ~(IsSub(Table[i]) /\ Wrappers(Table, i) = {})
           /\ args.type = type /\ args.n \in 1 .. most
           /\ r = Issue(Table, i, args, sz)
  <2>1. i \in N /\ i \in DOMAIN Table
    BY <1>2, FirstEntry DEF Named
  <2>2. CASE ~IsSub(Table[i])
    BY <1>2, <2>1, <2>2 DEF Issue, PrivRun, RunsNamed
  <2>3. CASE IsSub(Table[i])
    <3> DEFINE j == Min(Wrappers(Table, i))
    <3>1. j \in Wrappers(Table, i)
      BY <1>2, <2>3, FirstEntry DEF Wrappers
    <3>2. ~IsSub(Table[j])
      BY <3>1, IfControlAssumption DEF Wrappers
    <3>3. r = PrivRun(Table[j].cmd, IF Inline(Table[i], args, sz) THEN Table[i].cmd ELSE 0)
      BY <1>2, <2>3 DEF Issue
    <3>4. CASE Inline(Table[i], args, sz)
      BY <2>1, <2>3, <3>1, <3>2, <3>3, <3>4 DEF PrivRun, RunsNamed
    <3>5. CASE ~Inline(Table[i], args, sz)
      <4>1. ~args.fixed \/ ~(sz + 4 <= IfNamSiz)
        BY <2>3, <3>5, Zenon DEF Inline
      <4>2. args = ArgsOf(c, i) /\ sz = BytesOf(c, i)
        BY <2>1
      <4>3. BytesOf(c, i) \in Int
        BY <1>2, <2>1, <4>2
      <4>4. ~ArgsOf(c, i).fixed \/ BytesOf(c, i) + 4 > IfNamSiz
        <5> DEFINE b == BytesOf(c, i)
                   x == ArgsOf(c, i).fixed
        <5>1. (~x \/ ~(b + 4 <= IfNamSiz)) /\ b \in Int
          BY <4>1, <4>2, <4>3, Zenon
        <5> HIDE DEF b, x
        <5>2. ~x \/ b + 4 > IfNamSiz
          BY <5>1, SMT DEF IfNamSiz
        <5>3. QED
          BY <5>2 DEF b, x
      <4>5. r.ret = 0 /\ r.sub = 0 /\ r.cmd = Table[j].cmd
        BY <3>3, <3>5 DEF PrivRun
      <4>6. r.ret \in {-2, -1, 0}
        BY <4>5
      <4> HIDE DEF i, j, r, N, args, sz
      <4>7. RunsNamed(c, r)
        BY <2>1, <2>3, <3>1, <3>2, <4>4, <4>5, Zenon DEF RunsNamed, N
      <4>8. QED
        BY <4>6, <4>7
    <3>6. QED
      BY <3>4, <3>5
  <2>4. QED
    BY <2>2, <2>3
<1>3. QED
  BY <1>1, <1>2 DEF Privctl

LEMMA PrivRuns ==
  ASSUME NEW c \in Calls, c.op \in Privs
  PROVE  Finds(c, Priv(c))
<1>1. c.val \in Int /\ c.val + 1 \in Int
  BY CallArgs
<1>2. CASE c.op = "iwconfig_set_intpriv"
  <2>1. Priv(c) = Privctl(Table, c.cmdname, "set", "int", 2, 0)
    BY <1>2 DEF Priv, IwconfigSetIntpriv
  <2>2. \A i \in DOMAIN Table : ArgsOf(c, i) = Table[i]["set"]
                               /\ BytesOf(c, i) = 4 * ArgsOf(c, i).n
    BY <1>2 DEF ArgsOf, BytesOf
  <2>3. \A i \in DOMAIN Table : ArgsOf(c, i).n \in 1 .. 2 => BytesOf(c, i) \in Int
    BY <2>2
  <2>4. QED
    BY <2>1, <2>2, <2>3, PrivctlRuns
<1>3. CASE c.op = "iwconfig_get_intpriv"
  <2>1. Priv(c) = Privctl(Table, c.cmdname, "get", "int", 1, 0)
    BY <1>3 DEF Priv, IwconfigGetIntpriv
  <2>2. \A i \in DOMAIN Table : ArgsOf(c, i) = Table[i]["get"]
                               /\ BytesOf(c, i) = 4 * ArgsOf(c, i).n
    BY <1>3 DEF ArgsOf, BytesOf
  <2>3. \A i \in DOMAIN Table : ArgsOf(c, i).n \in 1 .. 1 => BytesOf(c, i) \in Int
    BY <2>2
  <2>4. QED
    BY <2>1, <2>2, <2>3, PrivctlRuns
<1>4. CASE c.op = "iwconfig_set_charpriv"
  <2>1. Priv(c) = Privctl(Table, c.cmdname, "set", "char", 2047, c.val + 1)
    BY <1>4 DEF Priv, IwconfigSetCharpriv
  <2>2. \A i \in DOMAIN Table : ArgsOf(c, i) = Table[i]["set"]
                               /\ BytesOf(c, i) = c.val + 1
    BY <1>4 DEF ArgsOf, BytesOf
  <2>3. \A i \in DOMAIN Table : ArgsOf(c, i).n \in 1 .. 2047 => BytesOf(c, i) \in Int
    BY <1>1, <2>2
  <2> DEFINE v == c.val + 1
             t == "char"
             m == 2047
  <2>4. \A i \in DOMAIN Table : ArgsOf(c, i) = Table[i]["set"]
    BY <2>2
  <2>5. \A i \in DOMAIN Table : BytesOf(c, i) = IF t = "int" THEN 4 * ArgsOf(c, i).n ELSE v
    BY <2>2
  <2>6. \A i \in DOMAIN Table : ArgsOf(c, i).n \in 1 .. m => BytesOf(c, i) \in Int
    BY <2>3
  <2> HIDE DEF v, t, m
  <2>7. Finds(c, Privctl(Table, c.cmdname, "set", t, m, v))
    BY <2>4, <2>5, <2>6, PrivctlRuns, Zenon
  <2>8. QED
    BY <2>1, <2>7 DEF v, t, m
<1>5. QED
  BY <1>2, <1>3, <1>4 DEF Privs
-----------------------------------------------------------------------------
(***************************************************************************)
(* The steps of a call.                                                    *)
(***************************************************************************)

(* A call opens a socket first, ends with a close or, in aj_setmonitor,    *)
(* with the write; and opens a socket again only when it has closed one.   *)
LEMMA PathSteps ==
  ASSUME NEW op
  PROVE  LET P == Path(op)
         IN /\ Len(P) \in 3 .. 6 /\ P[1] = "socket"
            /\ \A n \in 1 .. Len(P) :
                 /\ P[n] \in {"socket", "get", "list", "run"} => n < Len(P)
                 /\ n < Len(P) => (P[n + 1] = "socket" <=> P[n] = "close")
                 /\ P[n] \in {"list", "run"} => op \in Privs
<1> DEFINE P == Path(op)
<1>1. \/ P = <<"socket", "get", "close">>
      \/ P = <<"socket", "get", "get", "close">>
      \/ P = <<"socket", "get", "set">>
      \/ P = <<"socket", "get", "set", "close">>
      \/ P = <<"socket", "get", "close", "socket", "set", "close">>
      \/ P = <<"socket", "list", "run", "close">> /\ op \in Privs
      \/ P = <<"socket", "set", "close">>
  BY DEF Path
<1> HIDE DEF P
<1> DEFINE Steps == /\ Len(P) \in 3 .. 6 /\ P[1] = "socket"
                    /\ \A n \in 1 .. Len(P) :
                         /\ P[n] \in {"socket", "get", "list", "run"} => n < Len(P)
                         /\ n < Len(P) => (P[n + 1] = "socket" <=> P[n] = "close")
                         /\ P[n] \in {"list", "run"} => op \in Privs
<1> SUFFICES Steps
  BY DEF P
<1>2. CASE P = <<"socket", "get", "close">>
  BY <1>2
<1>3. CASE P = <<"socket", "get", "get", "close">>
  BY <1>3
<1>4. CASE P = <<"socket", "get", "set">>
  BY <1>4
<1>5. CASE P = <<"socket", "get", "set", "close">>
  BY <1>5
<1>6. CASE P = <<"socket", "get", "close", "socket", "set", "close">>
  BY <1>6
<1>7. CASE P = <<"socket", "list", "run", "close">> /\ op \in Privs
  BY <1>7
<1>8. CASE P = <<"socket", "set", "close">>
  BY <1>8
<1>9. QED
  BY <1>1, <1>2, <1>3, <1>4, <1>5, <1>6, <1>7, <1>8, Zenon

LEMMA PrivPath ==
  ASSUME NEW op \in Privs
  PROVE  Path(op) = <<"socket", "list", "run", "close">>
BY DEF Path, Privs, Reading, AjOps

(* Before its first call a process is in none. *)
LEMMA NothingCalled ==
  /\ Nothing.field = "none" /\ Nothing.op \notin Privs
  /\ Written(Nothing) = 0 /\ Meant(Nothing) = 0
<1>1. Nothing.op = "none" /\ Nothing.field = "none" /\ Nothing.val = 0
  BY DEF Nothing, Call
<1>2. QED
  BY <1>1 DEF Privs, Written, Meant

(* The groups of fields do not overlap. *)
LEMMA Groups ==
  /\ \A f \in Fields \cup {"none"} : f \in Group(f) /\ Group(f) \subseteq Fields \cup {"none"}
  /\ \A f \in Fields : Group(f) \subseteq Fields
  /\ \A f, g \in Fields \cup {"none"} : g \in Group(f) => Group(g) = Group(f)
  /\ Group("none") = {"none"} /\ Group("freq") = {"freq"}
BY DEF Group, Fields, Flags, Hwaddr, Ajconf, Singles
-----------------------------------------------------------------------------
(* Between calls a process has a socket only of aj_setmonitor; in a call   *)
(* it has one more from each socket() to the close() after it.             *)
HasSocket(p) == at[p] > 0 /\ Path(call[p].op)[at[p]] # "socket"

SocketsHeld ==
  \A p \in Procs : socks[p] = monset[p] + (IF HasSocket(p) THEN 1 ELSE 0)

Shape ==
  /\ agenda \in [Procs -> Seq(Calls)]
  /\ at \in [Procs -> Nat]
  /\ ran = [p \in Procs |-> ran[p]]

(* While nobody has written to what a call read, it is what it was. *)
FreshImage ==
  \A p \in Procs : fresh[p] =>
    at[p] > 0 /\ \A f \in Fields : f \in Group(call[p].field) => image[p][f] = reg[f]

(* The card is always tuned, and get_channel tells to what. *)
CardTuned ==
  /\ reg["freq"] \in Band
  /\ \A p \in Procs : heard[p] # 0 /\ ret[p] >= 0 => Stands(ret[p], heard[p])

(* From the search on a private ioctl has a command, from its end on it    *)
(* has run it.                                                             *)
FoundAndRan ==
  \A p \in Procs : call[p].op \in Privs =>
    /\ at[p] = 3 => Priv(call[p]).ret = 0
    /\ at[p] = 4 \/ (at[p] = 0 /\ ret[p] = 0) =>
         Priv(call[p]).ret = 0 /\ ran[p] = Priv(call[p])

(* Types need the sockets counted: a close takes one away.                 *)
TypeInv == TypeOK /\ Shape /\ SocketsHeld
-----------------------------------------------------------------------------
(* What the guard of a step says of the process that takes it. *)
LEMMA StepFacts ==
  ASSUME TypeInv, NEW p \in Procs, at[p] > 0
  PROVE  /\ at[p] \in Nat /\ at[p] <= Len(Path(call[p].op)) /\ Len(Path(call[p].op)) \in Nat
         /\ At(p, "socket") => ~HasSocket(p)
         /\ At(p, "socket") \/ At(p, "get") \/ At(p, "list") \/ At(p, "run") =>
              at[p] < Len(Path(call[p].op))
         /\ at[p] < Len(Path(call[p].op)) =>
              (Path(call[p].op)[at[p] + 1] = "socket" <=> Path(call[p].op)[at[p]] = "close")
         /\ At(p, "list") \/ At(p, "run") => call[p].op \in Privs
<1>1. at[p] \in 0 .. Len(Path(call[p].op)) /\ at[p] \in Nat
  BY DEF TypeInv, TypeOK, Shape
<1> DEFINE op == call[p].op
           n  == at[p]
<1>2. n \in 1 .. Len(Path(op)) /\ Len(Path(op)) \in Nat
  BY <1>1, PathSteps
<1>3. QED
  BY <1>2, PathSteps DEF At, HasSocket

(* A process that goes to the next step of its call. *)
Advanced(p) ==
  /\ \A q \in Procs : at'[q] \in 0 .. Len(Path(call'[q].op))
  /\ at' \in [Procs -> Nat]
  /\ HasSocket(p)' <=> ~At(p, "close")
  /\ \A q \in Procs \ {p} : HasSocket(q)' <=> HasSocket(q)

LEMMA ForthType ==
  ASSUME TypeInv, NEW p \in Procs, at[p] > 0, at[p] < Len(Path(call[p].op)), Forth(p),
         UNCHANGED call
  PROVE  Advanced(p)
<1>1. /\ at \in [Procs -> Nat]
      /\ \A q \in Procs : at[q] \in 0 .. Len(Path(call[q].op))
      /\ Len(Path(call[p].op)) \in Nat
  BY StepFacts DEF TypeInv, TypeOK, Shape
<1>2. at'[p] = at[p] + 1 /\ at' \in [Procs -> Nat] /\ \A q \in Procs \ {p} : at'[q] = at[q]
  BY <1>1 DEF Forth
<1>3. QED
  BY <1>1, <1>2, StepFacts DEF Advanced, HasSocket, At

(* A call that returns leaves its process between calls. *)
Returned(p) ==
  /\ \A q \in Procs : at'[q] \in 0 .. Len(Path(call'[q].op))
  /\ at' \in [Procs -> Nat]
  /\ tries' \in [Procs -> 0 .. 1]
  /\ ret' \in [Procs -> Int]
  /\ image' \in [Procs -> [Fields -> Nat]]
  /\ fresh' \in [Procs -> BOOLEAN]
  /\ ~HasSocket(p)'
  /\ \A q \in Procs \ {p} : HasSocket(q)' <=> HasSocket(q)

LEMMA ReturnType ==
  ASSUME TypeInv, NEW p \in Procs, NEW r \in Int, Return(p, r), UNCHANGED call
  PROVE  Returned(p)
<1>1. /\ at \in [Procs -> Nat]
      /\ \A q \in Procs : at[q] \in 0 .. Len(Path(call[q].op))
      /\ Len(Path(call[p].op)) \in Nat
  BY PathSteps DEF TypeInv, TypeOK, Shape
<1>2. at'[p] = 0 /\ at' \in [Procs -> Nat] /\ \A q \in Procs \ {p} : at'[q] = at[q]
  BY <1>1 DEF Return
<1>3. Blank \in [Fields -> Nat]
  BY DEF Blank
<1>4. /\ tries' \in [Procs -> 0 .. 1]
      /\ ret' \in [Procs -> Int]
      /\ image' \in [Procs -> [Fields -> Nat]]
      /\ fresh' \in [Procs -> BOOLEAN]
  BY <1>3 DEF Return, TypeInv, TypeOK
<1>5. \A q \in Procs : at'[q] \in 0 .. Len(Path(call'[q].op))
  BY <1>1, <1>2
<1>6. ~HasSocket(p)' /\ \A q \in Procs \ {p} : HasSocket(q)' <=> HasSocket(q)
  BY <1>2 DEF HasSocket
<1>7. QED
  BY <1>2, <1>4, <1>5, <1>6 DEF Returned

LEMMA TypeAfterReturn ==
  ASSUME TypeInv, NEW p \in Procs, Returned(p), socks' \in [Procs -> 0 .. MaxSocks],
         UNCHANGED <<agenda, call, reg, asked, torn, heard, ran, monset>>
  PROVE  TypeOK' /\ Shape'
<1>1. TypeOK'
  BY DEF Returned, TypeInv, TypeOK
<1>2. Shape'
  BY DEF Returned, TypeInv, Shape
<1>3. QED
  BY <1>1, <1>2

(* The sockets of a process, counted. *)
LEMMA SocketCount ==
  ASSUME TypeInv, NEW p \in Procs
  PROVE  /\ MaxSocks \in Nat
         /\ socks \in [Procs -> 0 .. MaxSocks] /\ monset \in [Procs -> Nat]
         /\ HasSocket(p) => socks[p] = monset[p] + 1
         /\ ~HasSocket(p) => socks[p] = monset[p]
<1>1. MaxSocks \in Nat
  BY IfControlAssumption
<1>2. socks \in [Procs -> 0 .. MaxSocks] /\ monset \in [Procs -> Nat]
  BY DEF TypeInv, TypeOK
<1>3. QED
  BY <1>1, <1>2 DEF TypeInv, SocketsHeld

LEMMA GiveUpType ==
  ASSUME TypeInv, NEW p \in Procs, NEW r \in Int, HasSocket(p), GiveUp(p, r)
  PROVE  TypeInv'
<1>1. /\ Return(p, r)
      /\ UNCHANGED <<agenda, call, reg, asked, torn, heard, ran, monset>>
      /\ socks' = [socks EXCEPT ![p] = @ - 1]
  BY DEF GiveUp, CloseSocket
<1>2. /\ socks \in [Procs -> 0 .. MaxSocks] /\ MaxSocks \in Nat
      /\ monset \in [Procs -> Nat] /\ socks[p] = monset[p] + 1
  BY SocketCount
<1>3. socks' \in [Procs -> 0 .. MaxSocks] /\ socks'[p] = monset[p]
  BY <1>1, <1>2
<1>4. Returned(p)
  BY <1>1, ReturnType
<1>5. TypeOK' /\ Shape'
  BY <1>1, <1>3, <1>4, TypeAfterReturn
<1>6. SocketsHeld'
  BY <1>1, <1>2, <1>3, <1>4 DEF Returned, TypeInv, SocketsHeld
<1>7. QED
  BY <1>5, <1>6 DEF TypeInv

(* What a process is about to write. *)
LEMMA CallField ==
  ASSUME TypeInv, NEW p \in Procs
  PROVE  call[p].field \in Fields \cup {"none"}
<1>1. call[p] \in Calls \cup {Nothing}
  BY DEF TypeInv, TypeOK
<1>2. QED
  BY <1>1, CallArgs, NothingCalled

LEMMA WrittenField ==
  ASSUME TypeInv, NEW p \in Procs, call[p].field = "freq" => Written(call[p]) \in Band
  PROVE  Written(call[p]) = Meant(call[p]) /\ Meant(call[p]) \in Nat
<1>1. call[p] \in Calls \cup {Nothing}
  BY DEF TypeInv, TypeOK
<1>2. QED
  BY <1>1, WrittenIsMeant, NothingCalled

(* The search of a private ioctl. *)
LEMMA FoundType ==
  ASSUME TypeInv, NEW p \in Procs, At(p, "list")
  PROVE  Priv(call[p]).ret \in Int /\ Finds(call[p], Priv(call[p]))
<1>1. call[p].op \in Privs /\ call[p] \in Calls \cup {Nothing}
  BY StepFacts DEF TypeInv, TypeOK, At
<1>2. Finds(call[p], Priv(call[p]))
  BY <1>1, PrivRuns, NothingCalled
<1>3. QED
  BY <1>2 DEF Finds

LEMMA TypeInit == Init => TypeInv
<1> SUFFICES ASSUME Init PROVE TypeInv
  OBVIOUS
<1>1. Len(Path(Nothing.op)) \in Nat
  BY PathSteps
<1>2. Blank \in [Fields -> Nat]
  BY DEF Blank
<1>3. reg \in [Fields -> Nat]
  <2>1. reg = [f \in Fields |-> IF f = "freq" THEN 2412 ELSE 0]
    BY DEF Init, Blank
  <2>2. QED
    BY <2>1
<1>4. MaxSocks \in Nat /\ agenda \in [Procs -> Seq(Calls)]
  BY IfControlAssumption DEF Init
<1>5. \A p \in Procs : at[p] = 0 /\ call[p] = Nothing
  BY DEF Init
<1>6. \A p \in Procs : at[p] \in 0 .. Len(Path(call[p].op))
  BY <1>1, <1>5
<1>7. TypeOK
  BY <1>2, <1>3, <1>4, <1>6 DEF Init, TypeOK
<1>8. Shape
  BY <1>4 DEF Init, Shape
<1>9. SocketsHeld
  BY <1>5 DEF Init, SocketsHeld, HasSocket
<1>10. QED
  BY <1>7, <1>8, <1>9 DEF TypeInv

LEMMA TypeStep == TypeInv /\ CardTuned /\ [Next]_vars => TypeInv'
<1> SUFFICES ASSUME TypeInv, CardTuned, [Next]_vars PROVE TypeInv'
  OBVIOUS
<1>1. ASSUME NEW p \in Procs, Begin(p)
      PROVE  TypeInv'
  <2>1. /\ Head(agenda[p]) \in Calls /\ Tail(agenda[p]) \in Seq(Calls)
        /\ agenda' \in [Procs -> Seq(Calls)]
        /\ call' \in [Procs -> Calls \cup {Nothing}]
        /\ at' \in [Procs -> Nat] /\ at'[p] = 1
        /\ \A q \in Procs \ {p} : at'[q] = at[q] /\ call'[q] = call[q]
    <3>1. agenda[p] \in Seq(Calls) /\ agenda[p] # <<>>
      BY <1>1 DEF Begin, TypeInv, Shape
    <3>2. Head(agenda[p]) \in Calls /\ Tail(agenda[p]) \in Seq(Calls)
      BY <3>1
    <3>3. QED
      BY <1>1, <3>2 DEF Begin, TypeInv, TypeOK, Shape
  <2>2. \A q \in Procs : at'[q] \in 0 .. Len(Path(call'[q].op))
    <3>1. \A q \in Procs : at[q] \in 0 .. Len(Path(call[q].op))
      BY DEF TypeInv, TypeOK
    <3>2. 1 \in 0 .. Len(Path(call'[p].op))
      BY PathSteps
    <3>3. QED
      BY <2>1, <3>1, <3>2
  <2>3. TypeOK' /\ Shape'
    <3>1. /\ ret' = [ret EXCEPT ![p] = 0] /\ heard' = [heard EXCEPT ![p] = 0]
          /\ ran' = [ran EXCEPT ![p] = NotRun]
          /\ UNCHANGED <<tries, image, socks, reg, fresh, asked, torn, monset>>
      BY <1>1 DEF Begin
    <3>2. ret' \in [Procs -> Int] /\ heard' \in [Procs -> Nat]
      BY <3>1 DEF TypeInv, TypeOK
    <3>3. TypeOK'
      BY <2>1, <2>2, <3>1, <3>2 DEF TypeInv, TypeOK
    <3>4. Shape'
      BY <2>1, <3>1 DEF TypeInv, Shape
    <3>5. QED
      BY <3>3, <3>4
  <2>4. SocketsHeld'
    <3>1. at[p] = 0 /\ UNCHANGED <<socks, monset>>
      BY <1>1 DEF Begin
    <3>2. ~HasSocket(p) /\ ~HasSocket(p)'
      BY <2>1, <3>1, PathSteps DEF HasSocket
    <3>3. QED
      BY <2>1, <3>1, <3>2 DEF TypeInv, SocketsHeld, HasSocket
  <2>5. QED
    BY <2>3, <2>4 DEF TypeInv
<1>2. ASSUME NEW p \in Procs, Socket(p)
      PROVE  TypeInv'
  <2>1. at[p] > 0 /\ At(p, "socket") /\ ~HasSocket(p)
        /\ UNCHANGED <<agenda, call, reg, asked, torn, heard, ran, monset>>
    BY <1>2, StepFacts DEF Socket, At
  <2>2. CASE Return(p, -1) /\ UNCHANGED socks
    <3>1. Returned(p)
      BY <2>1, <2>2, ReturnType
    <3>2. TypeOK' /\ Shape'
      BY <2>1, <2>2, <3>1, TypeAfterReturn DEF TypeInv, TypeOK
    <3>3. SocketsHeld'
      BY <2>1, <2>2, <3>1 DEF Returned, TypeInv, SocketsHeld
    <3>4. QED
      BY <3>2, <3>3 DEF TypeInv
  <2>3. CASE /\ socks[p] < MaxSocks /\ socks' = [socks EXCEPT ![p] = @ + 1]
             /\ Forth(p) /\ UNCHANGED <<tries, image, ret, fresh>>
    <3>1. Advanced(p) /\ HasSocket(p)'
      BY <2>1, <2>3, ForthType, StepFacts DEF Advanced, At
    <3>2. socks' \in [Procs -> 0 .. MaxSocks] /\ socks'[p] = monset[p] + 1
      BY <2>1, <2>3, SocketCount
    <3>3. TypeOK' /\ Shape'
      BY <2>1, <2>3, <3>1, <3>2 DEF Advanced, TypeInv, TypeOK, Shape
    <3>4. SocketsHeld'
      BY <2>1, <2>3, <3>1, <3>2 DEF Advanced, TypeInv, SocketsHeld
    <3>5. QED
      BY <3>3, <3>4 DEF TypeInv
  <2>4. QED
    BY <1>2, <2>2, <2>3 DEF Socket
<1>3. ASSUME NEW p \in Procs, Get(p)
      PROVE  TypeInv'
  <2>1. at[p] > 0 /\ At(p, "get") /\ HasSocket(p)
    BY <1>3 DEF Get, At, HasSocket
  <2>2. CASE GiveUp(p, -1)
    BY <2>1, <2>2, GiveUpType
  <2>3. CASE ~GiveUp(p, -1)
    <3>1. /\ Forth(p)
          /\ image' = [image EXCEPT ![p] =
               [f \in Fields |-> IF f \in Group(call[p].field) THEN reg[f] ELSE @[f]]]
          /\ fresh' = [fresh EXCEPT ![p] = TRUE]
          /\ UNCHANGED <<agenda, call, tries, socks, reg, asked, torn, ran, monset>>
          /\ \/ UNCHANGED <<heard, ret>>
             \/ /\ heard' = [heard EXCEPT ![p] = reg["freq"]]
                /\ \E f \in Reports(reg["freq"]) :
                     ret' = [ret EXCEPT ![p] = Floatchan2int(Megahertz(f))]
      BY <1>3, <2>3 DEF Get
    <3>2. Advanced(p) /\ HasSocket(p)'
      BY <2>1, <3>1, ForthType, StepFacts DEF Advanced, At
    <3>3. image' \in [Procs -> [Fields -> Nat]] /\ fresh' \in [Procs -> BOOLEAN]
      BY <3>1 DEF TypeInv, TypeOK
    <3>4. heard' \in [Procs -> Nat]
      <4>1. reg["freq"] \in Nat
        BY DEF TypeInv, TypeOK, Fields, Singles
      <4>2. QED
        BY <3>1, <4>1 DEF TypeInv, TypeOK
    <3>5. ret' \in [Procs -> Int]
      <4>1. \A f \in Reports(reg["freq"]) : Floatchan2int(Megahertz(f)) \in Int
        BY ReportsStand, BandIsInt DEF CardTuned
      <4>2. QED
        BY <3>1, <4>1 DEF TypeInv, TypeOK
    <3>6. TypeOK' /\ Shape'
      BY <3>1, <3>2, <3>3, <3>4, <3>5 DEF Advanced, TypeInv, TypeOK, Shape
    <3>7. SocketsHeld'
      BY <2>1, <3>1, <3>2 DEF Advanced, TypeInv, SocketsHeld
    <3>8. QED
      BY <3>6, <3>7 DEF TypeInv
  <2>4. QED
    BY <2>2, <2>3
<1>4. ASSUME NEW p \in Procs, Set(p)
      PROVE  TypeInv'
  <2> DEFINE f == call[p].field
  <2>1. /\ at[p] > 0 /\ At(p, "set") /\ HasSocket(p)
        /\ f = "freq" => Written(call[p]) \in Band
        /\ UNCHANGED <<agenda, call, tries, ret, socks, heard, ran>>
    BY <1>4 DEF Set, At, HasSocket
  <2>2. f \in Fields \cup {"none"} /\ Written(call[p]) \in Nat /\ Meant(call[p]) \in Nat
    BY <2>1, CallField, WrittenField
  <2>3. reg' \in [Fields -> Nat] /\ asked' \in [Fields -> Nat]
    <3>1. \A x \in Fields : image[p][x] \in Nat /\ reg[x] \in Nat
      BY DEF TypeInv, TypeOK
    <3>2. reg' \in [Fields -> Nat]
      BY <1>4, <2>2, <3>1 DEF Set
    <3>3. asked' = [asked EXCEPT ![f] = Meant(call[p])]
      BY <1>4 DEF Set
    <3>4. QED
      BY <2>2, <3>2, <3>3 DEF TypeInv, TypeOK
  <2>4. torn' \in SUBSET Fields
    <3>1. Group(f) \ {f} \subseteq Fields
      BY <2>2, Groups
    <3>2. torn' \subseteq torn \cup (Group(f) \ {f})
      BY <1>4 DEF Set
    <3>3. QED
      BY <3>1, <3>2 DEF TypeInv, TypeOK
  <2>5. fresh' \in [Procs -> BOOLEAN]
    BY <1>4 DEF Set
  <2>6. CASE at[p] = Len(Path(call[p].op))
    <3>1. /\ monset' = [monset EXCEPT ![p] = @ + 1]
          /\ at' = [at EXCEPT ![p] = 0]
          /\ image' = [image EXCEPT ![p] = Blank]
      BY <1>4, <2>6 DEF Set
    <3>2. monset' \in [Procs -> Nat] /\ monset'[p] = monset[p] + 1
      BY <3>1 DEF TypeInv, TypeOK
    <3>3. image' \in [Procs -> [Fields -> Nat]]
      BY <3>1 DEF Blank, TypeInv, TypeOK
    <3>4. /\ \A q \in Procs : at'[q] \in 0 .. Len(Path(call'[q].op))
          /\ at' \in [Procs -> Nat] /\ at'[p] = 0
          /\ \A q \in Procs \ {p} : at'[q] = at[q]
      <4>1. at \in [Procs -> Nat] /\ \A q \in Procs : at[q] \in 0 .. Len(Path(call[q].op))
        BY DEF TypeInv, TypeOK, Shape
      <4>2. at' \in [Procs -> Nat] /\ at'[p] = 0 /\ \A q \in Procs \ {p} : at'[q] = at[q]
        BY <3>1, <4>1
      <4>3. Len(Path(call[p].op)) \in Nat
        BY PathSteps
      <4>4. \A q \in Procs : at'[q] \in 0 .. Len(Path(call[q].op))
        BY <4>1, <4>2, <4>3
      <4>5. QED
        BY <2>1, <4>2, <4>4
    <3>5. TypeOK' /\ Shape'
      BY <2>1, <2>3, <2>4, <2>5, <3>2, <3>3, <3>4 DEF TypeInv, TypeOK, Shape
    <3>6. SocketsHeld'
      BY <2>1, <3>1, <3>2, <3>4, SocketCount DEF TypeInv, SocketsHeld, HasSocket
    <3>7. QED
      BY <3>5, <3>6 DEF TypeInv
  <2>7. CASE at[p] # Len(Path(call[p].op))
    <3>1. Forth(p) /\ UNCHANGED <<monset, image>>
      BY <1>4, <2>7 DEF Set
    <3>2. Advanced(p) /\ HasSocket(p)'
      BY <2>1, <2>7, <3>1, ForthType, StepFacts DEF Advanced, At
    <3>3. TypeOK' /\ Shape'
      BY <2>1, <2>3, <2>4, <2>5, <3>1, <3>2 DEF Advanced, TypeInv, TypeOK, Shape
    <3>4. SocketsHeld'
      BY <2>1, <3>1, <3>2 DEF Advanced, TypeInv, SocketsHeld
    <3>5. QED
      BY <3>3, <3>4 DEF TypeInv
  <2>8. QED
    BY <2>6, <2>7
<1>5. ASSUME NEW p \in Procs, SetFails(p)
      PROVE  TypeInv'
  <2>1. at[p] > 0 /\ HasSocket(p)
    BY <1>5 DEF SetFails, At, HasSocket
  <2>2. CASE GiveUp(p, -1)
    BY <2>1, <2>2, GiveUpType
  <2>3. CASE ~GiveUp(p, -1)
    <3>1. /\ tries' = [tries EXCEPT ![p] = 1]
          /\ UNCHANGED <<agenda, call, at, image, ret, socks, reg, fresh,
                         asked, torn, heard, ran, monset>>
      BY <1>5, <2>3 DEF SetFails, ghost
    <3>2. TypeOK' /\ Shape'
      BY <3>1 DEF TypeInv, TypeOK, Shape
    <3>3. SocketsHeld'
      BY <3>1 DEF TypeInv, SocketsHeld, HasSocket
    <3>4. QED
      BY <3>2, <3>3 DEF TypeInv
  <2>4. QED
    BY <2>2, <2>3
<1>6. ASSUME NEW p \in Procs, List(p)
      PROVE  TypeInv'
  <2>1. at[p] > 0 /\ At(p, "list") /\ HasSocket(p)
    BY <1>6 DEF List, At, HasSocket
  <2>2. Priv(call[p]).ret \in Int
    BY <2>1, FoundType
  <2>3. CASE \E r \in Int : GiveUp(p, r)
    BY <2>1, <2>3, GiveUpType
  <2>4. CASE Forth(p) /\ UNCHANGED <<agenda, call, tries, image, ret, socks, reg, ghost>>
    <3>1. Advanced(p) /\ HasSocket(p)'
      BY <2>1, <2>4, ForthType, StepFacts DEF Advanced, At
    <3>2. TypeOK' /\ Shape'
      BY <2>4, <3>1 DEF ghost, Advanced, TypeInv, TypeOK, Shape
    <3>3. SocketsHeld'
      BY <2>1, <2>4, <3>1 DEF ghost, Advanced, TypeInv, SocketsHeld
    <3>4. QED
      BY <3>2, <3>3 DEF TypeInv
  <2>5. QED
    BY <1>6, <2>2, <2>3, <2>4 DEF List
<1>7. ASSUME NEW p \in Procs, Run(p)
      PROVE  TypeInv'
  <2>1. at[p] > 0 /\ At(p, "run") /\ HasSocket(p)
    BY <1>7 DEF Run, At, HasSocket
  <2>2. CASE GiveUp(p, -1)
    BY <2>1, <2>2, GiveUpType
  <2>3. CASE /\ ran' = [ran EXCEPT ![p] = Priv(call[p])]
             /\ Forth(p)
             /\ UNCHANGED <<agenda, call, tries, image, ret, socks, reg, fresh,
                            asked, torn, heard, monset>>
    <3>1. Advanced(p) /\ HasSocket(p)'
      BY <2>1, <2>3, ForthType, StepFacts DEF Advanced, At
    <3>2. TypeOK' /\ Shape'
      BY <2>3, <3>1 DEF Advanced, TypeInv, TypeOK, Shape
    <3>3. SocketsHeld'
      BY <2>1, <2>3, <3>1 DEF Advanced, TypeInv, SocketsHeld
    <3>4. QED
      BY <3>2, <3>3 DEF TypeInv
  <2>4. QED
    BY <1>7, <2>2, <2>3 DEF Run
<1>8. ASSUME NEW p \in Procs, Close(p)
      PROVE  TypeInv'
  <2>1. /\ at[p] > 0 /\ At(p, "close") /\ HasSocket(p)
        /\ socks' = [socks EXCEPT ![p] = @ - 1]
        /\ UNCHANGED <<agenda, call, reg, asked, torn, heard, ran, monset>>
    BY <1>8 DEF Close, CloseSocket, At, HasSocket
  <2>2. socks' \in [Procs -> 0 .. MaxSocks] /\ socks'[p] = monset[p]
    BY <2>1, SocketCount
  <2>3. CASE at[p] = Len(Path(call[p].op)) /\ Return(p, ret[p])
    <3>1. Returned(p)
      BY <2>1, <2>3, ReturnType DEF TypeInv, TypeOK
    <3>2. TypeOK' /\ Shape'
      BY <2>1, <2>2, <3>1, TypeAfterReturn
    <3>3. SocketsHeld'
      BY <2>1, <2>2, <3>1 DEF Returned, TypeInv, SocketsHeld
    <3>4. QED
      BY <3>2, <3>3 DEF TypeInv
  <2>4. CASE /\ at[p] # Len(Path(call[p].op)) /\ Forth(p)
             /\ UNCHANGED <<tries, image, ret, fresh>>
    <3>1. Advanced(p) /\ ~HasSocket(p)'
      BY <2>1, <2>4, ForthType, StepFacts DEF Advanced
    <3>2. TypeOK' /\ Shape'
      BY <2>1, <2>2, <2>4, <3>1 DEF Advanced, TypeInv, TypeOK, Shape
    <3>3. SocketsHeld'
      BY <2>1, <2>2, <3>1 DEF Advanced, TypeInv, SocketsHeld
    <3>4. QED
      BY <3>2, <3>3 DEF TypeInv
  <2>5. QED
    BY <1>8, <2>3, <2>4 DEF Close
<1>9. CASE UNCHANGED vars
  BY <1>9 DEF vars, local, ghost, TypeInv, TypeOK, Shape, SocketsHeld, HasSocket
<1>10. QED
  BY <1>1, <1>2, <1>3, <1>4, <1>5, <1>6, <1>7, <1>8, <1>9 DEF Next, Step
-----------------------------------------------------------------------------
(* A step that writes nothing and reads nothing. *)
LEMMA Unread ==
  ASSUME TypeInv, FreshImage, FieldsAsAsked, UNCHANGED <<reg, asked, torn>>,
         \A q \in Procs : fresh'[q] => /\ fresh[q] /\ at'[q] > 0
                                       /\ call'[q] = call[q] /\ image'[q] = image[q]
  PROVE  FreshImage' /\ FieldsAsAsked'
BY DEF FreshImage, FieldsAsAsked

LEMMA UnreadReturn ==
  ASSUME TypeInv, FreshImage, FieldsAsAsked, NEW p \in Procs, NEW r, Return(p, r),
         UNCHANGED <<call, reg, asked, torn>>
  PROVE  FreshImage' /\ FieldsAsAsked'
<1>1. /\ \A q \in Procs \ {p} : /\ fresh'[q] = fresh[q] /\ at'[q] = at[q]
                                /\ image'[q] = image[q]
      /\ fresh'[p] = FALSE
  BY DEF Return, TypeInv, TypeOK, Shape
<1>2. QED
  BY <1>1, Unread DEF FreshImage

LEMMA UnreadForth ==
  ASSUME TypeInv, FreshImage, FieldsAsAsked, NEW p \in Procs, Forth(p),
         UNCHANGED <<call, image, fresh, reg, asked, torn>>
  PROVE  FreshImage' /\ FieldsAsAsked'
<1>1. \A q \in Procs : at[q] > 0 => at'[q] > 0
  BY DEF Forth, TypeInv, Shape
<1>2. QED
  BY <1>1, Unread DEF FreshImage

LEMMA FieldsInit == Init => FreshImage /\ FieldsAsAsked
BY DEF Init, FreshImage, FieldsAsAsked

LEMMA FieldsStep ==
  TypeInv /\ FreshImage /\ FieldsAsAsked /\ [Next]_vars => FreshImage' /\ FieldsAsAsked'
<1> SUFFICES ASSUME TypeInv, FreshImage, FieldsAsAsked, [Next]_vars
             PROVE  FreshImage' /\ FieldsAsAsked'
  OBVIOUS
<1>1. ASSUME NEW p \in Procs, Begin(p)
      PROVE  FreshImage' /\ FieldsAsAsked'
  <2>1. ~fresh[p] /\ UNCHANGED <<image, fresh, reg, asked, torn>>
    BY <1>1 DEF Begin, FreshImage
  <2>2. \A q \in Procs \ {p} : call'[q] = call[q] /\ at'[q] = at[q]
    BY <1>1 DEF Begin, TypeInv, TypeOK, Shape
  <2>3. QED
    BY <2>1, <2>2, Unread DEF FreshImage
<1>2. ASSUME NEW p \in Procs, Socket(p)
      PROVE  FreshImage' /\ FieldsAsAsked'
  BY <1>2, UnreadReturn, UnreadForth DEF Socket
<1>3. ASSUME NEW p \in Procs, NEW r, GiveUp(p, r)
      PROVE  FreshImage' /\ FieldsAsAsked'
  BY <1>3, UnreadReturn DEF GiveUp
<1>4. ASSUME NEW p \in Procs, Get(p)
      PROVE  FreshImage' /\ FieldsAsAsked'
  <2>1. CASE GiveUp(p, -1)
    BY <2>1, <1>3
  <2>2. CASE ~GiveUp(p, -1)
    <3>1. /\ Forth(p) /\ at[p] > 0
          /\ image' = [image EXCEPT ![p] =
               [f \in Fields |-> IF f \in Group(call[p].field) THEN reg[f] ELSE @[f]]]
          /\ fresh' = [fresh EXCEPT ![p] = TRUE]
          /\ UNCHANGED <<call, reg, asked, torn>>
      BY <1>4, <2>2 DEF Get, At
    <3>2. /\ at'[p] > 0
          /\ \A f \in Fields : f \in Group(call[p].field) => image'[p][f] = reg[f]
          /\ \A q \in Procs \ {p} : /\ at'[q] = at[q] /\ image'[q] = image[q]
                                    /\ fresh'[q] = fresh[q]
      BY <3>1 DEF Forth, TypeInv, TypeOK, Shape
    <3>3. QED
      BY <3>1, <3>2 DEF FreshImage, FieldsAsAsked
  <2>3. QED
    BY <2>1, <2>2
<1>5. ASSUME NEW p \in Procs, Set(p)
      PROVE  FreshImage' /\ FieldsAsAsked'
  <2> DEFINE f == call[p].field
  <2>1. FreshImage'
    <3> SUFFICES ASSUME NEW q \in Procs, fresh'[q]
                 PROVE  /\ at'[q] > 0
                        /\ \A x \in Fields : x \in Group(call'[q].field) => image'[q][x] = reg'[x]
      BY DEF FreshImage
    <3>1. fresh[q] /\ Group(call[q].field) # Group(f) /\ UNCHANGED call
      BY <1>5 DEF Set
    <3>2. q # p
      BY <3>1
    <3>3. at'[q] = at[q] /\ image'[q] = image[q]
      BY <1>5, <3>2 DEF Set, Forth, TypeInv, TypeOK, Shape
    <3>4. \A r \in Procs : call[r].field \in Fields \cup {"none"}
      BY CallField
    <3>5. \A x \in Fields : x \in Group(call[q].field) => x \notin Group(f) /\ x # f
      BY <3>1, <3>4, Groups
    <3>6. \A x \in Fields : x \in Group(call[q].field) => reg'[x] = reg[x]
      BY <1>5, <3>5 DEF Set
    <3>7. QED
      BY <3>1, <3>3, <3>6 DEF FreshImage
  <2>2. ASSUME NEW x \in Fields, x \notin torn'
        PROVE  reg'[x] = asked'[x]
    <3>1. /\ reg' = [y \in Fields |-> IF y = f THEN Written(call[p])
                              ELSE IF y \in Group(f) THEN image[p][y] ELSE reg[y]]
          /\ asked' = [asked EXCEPT ![f] = Meant(call[p])]
          /\ torn' = (torn \ {f}) \cup (IF fresh[p] THEN {} ELSE Group(f) \ {f})
          /\ f = "freq" => Written(call[p]) \in Band
      BY <1>5 DEF Set
    <3>2. asked \in [Fields -> Nat]
      BY DEF TypeInv, TypeOK
    <3>3. CASE x = f
      BY <3>1, <3>2, <3>3, WrittenField DEF TypeInv
    <3>4. CASE x # f
      <4>1. x \notin torn /\ (x \in Group(f) => fresh[p])
        BY <2>2, <3>1, <3>4
      <4>2. reg'[x] = reg[x]
        BY <3>1, <3>4, <4>1 DEF FreshImage
      <4>3. asked'[x] = asked[x]
        BY <3>1, <3>2, <3>4
      <4>4. QED
        BY <4>1, <4>2, <4>3 DEF FieldsAsAsked
    <3>5. QED
      BY <3>3, <3>4
  <2>3. QED
    BY <2>1, <2>2 DEF FieldsAsAsked
<1>6. ASSUME NEW p \in Procs, SetFails(p)
      PROVE  FreshImage' /\ FieldsAsAsked'
  BY <1>3, <1>6, Unread DEF SetFails, ghost, FreshImage
<1>7. ASSUME NEW p \in Procs, List(p)
      PROVE  FreshImage' /\ FieldsAsAsked'
  BY <1>3, <1>7, UnreadForth DEF List, ghost
<1>8. ASSUME NEW p \in Procs, Run(p)
      PROVE  FreshImage' /\ FieldsAsAsked'
  BY <1>3, <1>8, UnreadForth DEF Run
<1>9. ASSUME NEW p \in Procs, Close(p)
      PROVE  FreshImage' /\ FieldsAsAsked'
  BY <1>9, UnreadReturn, UnreadForth DEF Close
<1>10. CASE UNCHANGED vars
  BY <1>10 DEF vars, local, ghost, FreshImage, FieldsAsAsked
<1>11. QED
  BY <1>1, <1>2, <1>4, <1>5, <1>6, <1>7, <1>8, <1>9, <1>10 DEF Next, Step
-----------------------------------------------------------------------------
LEMMA CardInit == Init => CardTuned
<1> SUFFICES ASSUME Init PROVE CardTuned
  OBVIOUS
<1>1. reg["freq"] = 2412
  <2>1. reg = [f \in Fields |-> IF f = "freq" THEN 2412 ELSE 0]
    BY DEF Init, Blank
  <2>2. QED
    BY <2>1 DEF Fields, Singles
<1>2. \A p \in Procs : heard[p] = 0
  BY DEF Init
<1>3. QED
  BY <1>1, <1>2 DEF CardTuned, Band

(* A call that fails returns no channel, one that goes on or ends leaves   *)
(* what it will return.                                                    *)
LEMMA HeardKept ==
  ASSUME TypeInv, CardTuned, NEW p \in Procs, UNCHANGED <<reg, heard>>,
         \/ UNCHANGED ret
         \/ \E r \in Int : ret' = [ret EXCEPT ![p] = r] /\ (r < 0 \/ r = ret[p])
  PROVE  CardTuned'
<1>1. \A q \in Procs : ret'[q] < 0 \/ ret'[q] = ret[q]
  BY DEF TypeInv, TypeOK
<1>2. \A q \in Procs : ret[q] \in Int /\ (ret'[q] < 0 => ret'[q] \in Int)
  BY DEF TypeInv, TypeOK
<1>3. QED
  BY <1>1, <1>2 DEF CardTuned

LEMMA CardStep == TypeInv /\ CardTuned /\ [Next]_vars => CardTuned'
<1> SUFFICES ASSUME TypeInv, CardTuned, [Next]_vars PROVE CardTuned'
  OBVIOUS
<1>1. ASSUME NEW p \in Procs, Begin(p)
      PROVE  CardTuned'
  <2>1. /\ ret' = [ret EXCEPT ![p] = 0] /\ heard' = [heard EXCEPT ![p] = 0]
        /\ UNCHANGED reg
    BY <1>1 DEF Begin
  <2>2. \A q \in Procs : heard'[q] = 0 \/ (heard'[q] = heard[q] /\ ret'[q] = ret[q])
    BY <2>1 DEF TypeInv, TypeOK
  <2>3. QED
    BY <2>1, <2>2 DEF CardTuned
<1>2. ASSUME NEW p \in Procs, Socket(p)
      PROVE  CardTuned'
  BY <1>2, HeardKept DEF Socket, Return
<1>3. ASSUME NEW p \in Procs, GiveUp(p, -1)
      PROVE  CardTuned'
  <2>1. -1 \in Int /\ -1 < 0
    OBVIOUS
  <2>2. ret' = [ret EXCEPT ![p] = -1] /\ UNCHANGED <<reg, heard>>
    BY <1>3 DEF GiveUp, Return
  <2>3. QED
    BY <2>1, <2>2, HeardKept
<1>4. ASSUME NEW p \in Procs, Get(p)
      PROVE  CardTuned'
  <2>1. CASE GiveUp(p, -1)
    BY <2>1, <1>3
  <2>2. CASE UNCHANGED <<reg, heard, ret>>
    BY <2>2, HeardKept
  <2>3. CASE /\ UNCHANGED reg
             /\ heard' = [heard EXCEPT ![p] = reg["freq"]]
             /\ \E f \in Reports(reg["freq"]) :
                  ret' = [ret EXCEPT ![p] = Floatchan2int(Megahertz(f))]
    <3>1. Stands(ret'[p], heard'[p])
      BY <2>3, ReportsStand, BandIsInt DEF CardTuned, TypeInv, TypeOK
    <3>2. \A q \in Procs \ {p} : heard'[q] = heard[q] /\ ret'[q] = ret[q]
      BY <2>3 DEF TypeInv, TypeOK
    <3>3. QED
      BY <2>3, <3>1, <3>2 DEF CardTuned
  <2>4. QED
    BY <1>4, <2>1, <2>2, <2>3 DEF Get
<1>5. ASSUME NEW p \in Procs, Set(p)
      PROVE  CardTuned'
  <2> DEFINE f == call[p].field
  <2>1. /\ f = "freq" => Written(call[p]) \in Band
        /\ reg' = [x \in Fields |-> IF x = f THEN Written(call[p])
                              ELSE IF x \in Group(f) THEN image[p][x] ELSE reg[x]]
        /\ UNCHANGED <<heard, ret>>
    BY <1>5 DEF Set
  <2>2. "freq" \in Group(f) => f = "freq"
    BY CallField, Groups
  <2>3. "freq" \in Fields
    BY DEF Fields, Singles
  <2>4. reg'["freq"] \in Band
    BY <2>1, <2>2, <2>3 DEF CardTuned
  <2>5. QED
    BY <2>1, <2>4 DEF CardTuned
<1>6. ASSUME NEW p \in Procs, SetFails(p)
      PROVE  CardTuned'
  BY <1>3, <1>6, HeardKept DEF SetFails, ghost
<1>7. ASSUME NEW p \in Procs, List(p)
      PROVE  CardTuned'
  <2>1. CASE /\ Priv(call[p]).ret < 0 /\ GiveUp(p, Priv(call[p]).ret) /\ At(p, "list")
    <3>1. Priv(call[p]).ret \in Int
      BY <2>1, FoundType
    <3>2. QED
      BY <2>1, <3>1, HeardKept DEF GiveUp, Return
  <2>2. QED
    BY <1>3, <1>7, <2>1, HeardKept DEF List, ghost
<1>8. ASSUME NEW p \in Procs, Run(p)
      PROVE  CardTuned'
  BY <1>3, <1>8, HeardKept DEF Run
<1>9. ASSUME NEW p \in Procs, Close(p)
      PROVE  CardTuned'
  <2>1. ret[p] \in Int
    BY DEF TypeInv, TypeOK
  <2>2. QED
    BY <1>9, <2>1, HeardKept DEF Close, Return
<1>10. CASE UNCHANGED vars
  BY <1>10 DEF vars, local, ghost, CardTuned
<1>11. QED
  BY <1>1, <1>2, <1>4, <1>5, <1>6, <1>7, <1>8, <1>9, <1>10 DEF Next, Step
-----------------------------------------------------------------------------
LEMMA RanInit == Init => FoundAndRan
<1> SUFFICES ASSUME Init PROVE FoundAndRan
  OBVIOUS
<1>1. \A p \in Procs : call[p] = Nothing
  BY DEF Init
<1>2. QED
  BY <1>1, NothingCalled DEF FoundAndRan

(* A private ioctl that gives up returns an error. *)
LEMMA RanGiveUp ==
  ASSUME TypeInv, FoundAndRan, NEW p \in Procs, NEW r \in Int, r < 0, Return(p, r),
         UNCHANGED <<call, ran>>
  PROVE  FoundAndRan'
<1>1. at'[p] = 0 /\ ret'[p] = r
  BY DEF Return, TypeInv, TypeOK, Shape
<1>2. \A q \in Procs \ {p} : at'[q] = at[q] /\ ret'[q] = ret[q]
  BY DEF Return, TypeInv, TypeOK, Shape
<1>3. QED
  BY <1>1, <1>2 DEF FoundAndRan

(* The step a private ioctl is at tells where it is. *)
LEMMA PrivSteps ==
  ASSUME TypeInv, NEW p \in Procs, call[p].op \in Privs
  PROVE  /\ Len(Path(call[p].op)) = 4 /\ at[p] \in 0 .. 4
         /\ At(p, "socket") <=> at[p] = 1
         /\ At(p, "list") <=> at[p] = 2
         /\ At(p, "run") <=> at[p] = 3
         /\ At(p, "close") <=> at[p] = 4
         /\ ~At(p, "get") /\ ~At(p, "set")
<1>1. Path(call[p].op) = <<"socket", "list", "run", "close">>
  BY PrivPath
<1>2. at[p] \in 0 .. Len(Path(call[p].op))
  BY DEF TypeInv, TypeOK
<1>3. at[p] \in 0 .. 4 /\ Len(Path(call[p].op)) = 4
  BY <1>1, <1>2
<1>4. QED
  BY <1>1, <1>3 DEF At

LEMMA RanStep == TypeInv /\ FoundAndRan /\ [Next]_vars => FoundAndRan'
<1> SUFFICES ASSUME TypeInv, FoundAndRan, [Next]_vars PROVE FoundAndRan'
  OBVIOUS
<1>1. ASSUME NEW p \in Procs, Begin(p)
      PROVE  FoundAndRan'
  <2>1. at'[p] = 1
    BY <1>1 DEF Begin, TypeInv, Shape
  <2>2. \A q \in Procs \ {p} : /\ at'[q] = at[q] /\ ret'[q] = ret[q]
                               /\ call'[q] = call[q] /\ ran'[q] = ran[q]
    BY <1>1 DEF Begin, TypeInv, TypeOK, Shape
  <2>3. QED
    BY <2>1, <2>2 DEF FoundAndRan
<1>2. ASSUME NEW p \in Procs, Forth(p), at[p] # 0, UNCHANGED <<call, ret, ran>>,
             call[p].op \in Privs => at[p] = 1 \/ (at[p] = 2 /\ Priv(call[p]).ret = 0)
      PROVE  FoundAndRan'
  <2>1. at'[p] = at[p] + 1 /\ \A q \in Procs \ {p} : at'[q] = at[q]
    BY <1>2 DEF Forth, TypeInv, Shape
  <2>2. at[p] \in Nat
    BY DEF TypeInv, Shape
  <2>3. QED
    BY <1>2, <2>1, <2>2 DEF FoundAndRan
<1>3. ASSUME NEW p \in Procs, Socket(p)
      PROVE  FoundAndRan'
  <2>1. CASE Return(p, -1)
    BY <1>3, <2>1, RanGiveUp DEF Socket
  <2>2. CASE Forth(p) /\ UNCHANGED ret
    <3>1. At(p, "socket") /\ at[p] # 0 /\ UNCHANGED <<call, ran>>
      BY <1>3 DEF Socket, At, TypeInv, Shape
    <3>2. call[p].op \in Privs => at[p] = 1
      BY <3>1, PrivSteps
    <3>3. QED
      BY <1>2, <2>2, <3>1, <3>2
  <2>3. QED
    BY <1>3, <2>1, <2>2 DEF Socket
<1>4. ASSUME NEW p \in Procs, NEW r \in Int, r < 0, GiveUp(p, r)
      PROVE  FoundAndRan'
  BY <1>4, RanGiveUp DEF GiveUp
<1>5. ASSUME NEW p \in Procs, call[p].op \notin Privs, UNCHANGED <<call, ran>>,
             \A q \in Procs \ {p} : at'[q] = at[q] /\ ret'[q] = ret[q]
      PROVE  FoundAndRan'
  BY <1>5 DEF FoundAndRan
<1>6. ASSUME NEW p \in Procs, Get(p)
      PROVE  FoundAndRan'
  <2>1. call[p].op \notin Privs
    BY <1>6, PrivSteps DEF Get
  <2>2. CASE GiveUp(p, -1)
    BY <1>4, <2>2
  <2>3. CASE Forth(p) /\ UNCHANGED <<call, ran>>
    <3>1. UNCHANGED ret \/ \E r : ret' = [ret EXCEPT ![p] = r]
      BY <1>6 DEF Get, GiveUp, Return
    <3>2. \A q \in Procs \ {p} : at'[q] = at[q] /\ ret'[q] = ret[q]
      BY <2>3, <3>1 DEF Forth, TypeInv, TypeOK, Shape
    <3>3. QED
      BY <1>5, <2>1, <2>3, <3>2
  <2>4. QED
    BY <1>6, <2>2, <2>3 DEF Get
<1>7. ASSUME NEW p \in Procs, Set(p)
      PROVE  FoundAndRan'
  <2>1. call[p].op \notin Privs
    BY <1>7, PrivSteps DEF Set
  <2>2. UNCHANGED <<call, ret, ran>> /\ \E n : at' = [at EXCEPT ![p] = n]
    BY <1>7 DEF Set, Forth
  <2>3. \A q \in Procs \ {p} : at'[q] = at[q]
    BY <2>2 DEF TypeInv, Shape
  <2>4. QED
    BY <1>5, <2>1, <2>2, <2>3
<1>8. ASSUME NEW p \in Procs, SetFails(p)
      PROVE  FoundAndRan'
  <2>1. call[p].op \notin Privs
    BY <1>8, PrivSteps DEF SetFails
  <2>2. CASE GiveUp(p, -1)
    BY <1>4, <2>2
  <2>3. CASE UNCHANGED <<call, at, ret, ran>>
    BY <2>3 DEF FoundAndRan
  <2>4. QED
    BY <1>8, <2>2, <2>3 DEF SetFails, ghost
<1>9. ASSUME NEW p \in Procs, List(p)
      PROVE  FoundAndRan'
  <2>1. call[p].op \in Privs /\ at[p] = 2 /\ Priv(call[p]).ret \in Int
    BY <1>9, StepFacts, FoundType, PrivSteps DEF List, At
  <2>2. CASE Priv(call[p]).ret = 0 /\ Forth(p) /\ UNCHANGED <<call, ret, ran>>
    BY <1>2, <2>1, <2>2
  <2>3. QED
    BY <1>4, <1>9, <2>1, <2>2 DEF List, ghost
<1>10. ASSUME NEW p \in Procs, Run(p)
      PROVE  FoundAndRan'
  <2>1. call[p].op \in Privs /\ at[p] = 3
    BY <1>10, StepFacts, PrivSteps DEF Run, At
  <2>2. CASE /\ ran' = [ran EXCEPT ![p] = Priv(call[p])]
             /\ Forth(p) /\ UNCHANGED <<call, ret>>
    <3>1. at'[p] = 4 /\ ran'[p] = Priv(call[p]) /\ Priv(call[p]).ret = 0
      BY <2>1, <2>2 DEF Forth, TypeInv, Shape, FoundAndRan
    <3>2. \A q \in Procs \ {p} : at'[q] = at[q] /\ ran'[q] = ran[q]
      BY <2>2 DEF Forth, TypeInv, Shape
    <3>3. QED
      BY <2>2, <3>1, <3>2 DEF FoundAndRan
  <2>3. QED
    BY <1>4, <1>10, <2>2 DEF Run
<1>11. ASSUME NEW p \in Procs, Close(p)
      PROVE  FoundAndRan'
  <2>1. CASE call[p].op \notin Privs
    <3>1. /\ UNCHANGED <<call, ran>>
          /\ \E n : at' = [at EXCEPT ![p] = n]
          /\ UNCHANGED ret \/ \E r : ret' = [ret EXCEPT ![p] = r]
      BY <1>11 DEF Close, Return, Forth
    <3>2. \A q \in Procs \ {p} : at'[q] = at[q] /\ ret'[q] = ret[q]
      BY <3>1 DEF TypeInv, TypeOK, Shape
    <3>3. QED
      BY <1>5, <2>1, <3>1, <3>2
  <2>2. CASE call[p].op \in Privs
    <3>1. at[p] = 4 /\ Return(p, ret[p]) /\ UNCHANGED <<call, ran>>
      BY <1>11, <2>2, PrivSteps DEF Close
    <3>2. at'[p] = 0 /\ ret'[p] = ret[p]
      BY <3>1 DEF Return, TypeInv, TypeOK, Shape
    <3>3. \A q \in Procs \ {p} : at'[q] = at[q] /\ ret'[q] = ret[q]
      BY <3>1 DEF Return, TypeInv, TypeOK, Shape
    <3>4. QED
      BY <3>1, <3>2, <3>3 DEF FoundAndRan
  <2>3. QED
    BY <2>1, <2>2
<1>12. CASE UNCHANGED vars
  BY <1>12 DEF vars, local, ghost, FoundAndRan
<1>13. QED
  BY <1>1, <1>3, <1>6, <1>7, <1>8, <1>9, <1>10, <1>11, <1>12 DEF Next, Step
-----------------------------------------------------------------------------
(* None of the properties is inductive alone: the fields need what the     *)
(* images hold, what is returned needs what was found on the way, and all  *)
(* need the types.                                                         *)
Inv == TypeInv /\ FreshImage /\ FieldsAsAsked /\ CardTuned /\ FoundAndRan

LEMMA Invariance == Spec => []Inv
<1>1. Init => Inv
  BY TypeInit, FieldsInit, CardInit, RanInit DEF Inv
<1>2. Inv /\ [Next]_vars => Inv'
  BY TypeStep, FieldsStep, CardStep, RanStep DEF Inv
<1>3. QED
  BY <1>1, <1>2, PTL DEF Spec

(* Every variable keeps its type; in particular a process never has a      *)
(* negative number of sockets, nor more than it may (ifcontrol_linux.c,    *)
(* iwcontrol.c, ajinject.c).                                               *)
THEOREM TypeCorrect == Spec => []TypeOK
<1>1. Inv => TypeOK
  BY DEF Inv, TypeInv
<1>2. QED
  BY <1>1, Invariance, PTL

(* However many processes call whatever functions in whatever order, and   *)
(* whatever fails, only a write between another's read and write loses a   *)
(* change of the interface (ifconfig_delta_flags, aj_setmac and the like). *)
THEOREM ChangesLostInARaceOnly == Spec => []FieldsAsAsked
<1>1. Inv => FieldsAsAsked
  BY DEF Inv
<1>2. QED
  BY <1>1, Invariance, PTL

(* On every way out of a call the sockets it opened are closed, but for    *)
(* the one each successful aj_setmonitor leaves behind (ajinject.c).       *)
THEOREM SocketsClosed == Spec => []SocketsAccounted
<1>1. Inv => SocketsAccounted
  <2> SUFFICES ASSUME Inv, NEW p \in Procs, at[p] = 0 PROVE socks[p] = monset[p]
    BY DEF SocketsAccounted
  <2>1. ~HasSocket(p)
    BY DEF HasSocket
  <2>2. QED
    BY <2>1, SocketCount DEF Inv
<1>2. QED
  BY <1>1, Invariance, PTL

(* For every frequency of a card and every form in which a driver may      *)
(* report it, iwconfig_get_channel returns its channel, or 0 where it      *)
(* knows none or was given a plain channel number (floatchan2int).         *)
THEOREM ChannelFaithful == Spec => []ChannelIsTheCards
<1>1. Inv => ChannelIsTheCards
  BY DEF Inv, CardTuned, Stands, ChannelIsTheCards
<1>2. QED
  BY <1>1, Invariance, PTL

(* For every table of private ioctls and every name and length of string,  *)
(* one that succeeds has run the command of the name it was given, with    *)
(* its number wherever the arguments leave room for it in the request      *)
(* (iwconfig_set_intpriv and its like).                                    *)
THEOREM PrivFaithful == Spec => []PrivRunsNamed
<1>1. Inv => PrivRunsNamed
  <2> SUFFICES ASSUME Inv, NEW p \in Procs, at[p] = 0, call[p].op \in Privs, ret[p] = 0
               PROVE  RunsNamed(call[p], ran[p])
    BY DEF PrivRunsNamed, RunsNamed
  <2>1. call[p] \in Calls
    BY NothingCalled DEF Inv, TypeInv, TypeOK
  <2>2. Priv(call[p]).ret = 0 /\ ran[p] = Priv(call[p])
    BY DEF Inv, FoundAndRan
  <2>3. QED
    BY <2>1, <2>2, PrivRuns DEF Finds
<1>2. QED
  BY <1>1, Invariance, PTL
=============================================================================
