-------------------------------- MODULE L2ping --------------------------------
(***************************************************************************)
(* l2ping80211: send a probe, watch the capture for the frame it should    *)
(* provoke, print which came, sleep, and again.  The air loses, delays and *)
(* repeats answers; the clock is gettimeofday in microseconds, held in 32  *)
(* bits; a signal can come between any two calls, and another while the    *)
(* handler of the first runs.  A call of the library is one step here: its *)
(* steps are those of Session and Madwifing.                               *)
(***************************************************************************)
EXTENDS Integers, Sequences

CONSTANTS
  TimeMod,   \* the clock counts modulo this: 2^32 in the code
  Timeout,   \* usectimeout
  NPacks,    \* npacks, the probes to send
  MaxSignals, \* signals that can come: SIGINT, SIGTERM and SIGQUIT in the code;
             \* a handler masks its own signal only
  MaxFrames, \* bound: frames captured in a run, after which the air is quiet
  MaxBuffer, \* bound: frames waiting in the capture, more are dropped
  MaxWatch   \* bound: time that passes in one watch

ASSUME L2pingAssumption ==
  /\ TimeMod \in Nat \ {0}
  /\ Timeout \in 1..(TimeMod - 1)
  /\ NPacks \in Nat
  /\ MaxSignals \in Nat /\ MaxFrames \in Nat /\ MaxBuffer \in Nat /\ MaxWatch \in Nat

VARIABLES
  pc,       \* the call the program makes next
  sig,      \* the call the signal handler makes next, "none" outside it
  raised,   \* number of signals delivered
  test,     \* the test case of the command line
  tx,       \* the library's handle
  p,        \* the capture: "null", "open", or closed and still pointed to
  offset,   \* where the 802.11 header starts: "zero", behind a "header", or,
            \* for a link type the program does not know, "wrong"
  packet,   \* what packet points to: the last frame read, or nothing
  num,      \* number of the probe
  exitval, status,
  clock,    \* 0 outside a watch, where nobody looks at it
  starttime, finishtime, now,
  air       \* captured frames not yet read

VARIABLES   \* history
  passed,   \* time since the watch began
  asked,    \* passed when the deadline was last compared
  tried,    \* has this watch read the capture
  skipped,  \* has it skipped a frame shorter than offset
  arrived,  \* frames captured
  printed,  \* responses printed
  foreign,  \* was a response printed for a frame no probe provoked
  refreed   \* was the capture closed when closed already

setup   == <<test, tx, p, offset>>
outcome == <<exitval, status>>
times   == <<starttime, finishtime, now>>
watch   == <<passed, asked, tried, skipped>>
ledger  == <<arrived, printed, foreign, refreed>>
vars    == <<pc, sig, raised, setup, packet, num, outcome, clock, times, air,
             watch, ledger>>

Null == "null"
Any  == "any"
-----------------------------------------------------------------------------
(***************************************************************************)
(* The test cases: the frame each waits for.  "randmac" is the address     *)
(* made up for this run, which nobody else has.  Every test passes 0 for   *)
(* the flags.                                                              *)
(***************************************************************************)
Awaited(k, a1, a2, a3) == [kind |-> k, addr1 |-> a1, addr2 |-> a2, addr3 |-> a3]

NullDataMcast          == Awaited("null", "randmac", "target", "source")
(* Fault variant of RtsCts: an ACK is awaited, as in the test before it.    *)
RtsAck                 == Awaited("ack", "randmac", Any, Any)
RtsCts                 == Awaited("cts", "randmac", Any, Any)
DataInvalidBssid       == Awaited("ack", "randmac", Any, Any)
DataInvalidBssidDeauth == Awaited("deauth", "randmac", "target", Any)
DataValidBssid         == Awaited("ack", "bssid", Any, Any)
NullDataInvalidSrc     == Awaited("deauth", "randmac", "target", "target")

Tests == {"mcast", "rtscts", "badbssid", "badbssiddeauth", "goodbssid", "badsrc"}

Want(t) == CASE t = "mcast"          -> NullDataMcast
             [] t = "rtscts"         -> RtsCts
             [] t = "badbssid"       -> DataInvalidBssid
             [] t = "badbssiddeauth" -> DataInvalidBssidDeauth
             [] t = "goodbssid"      -> DataValidBssid
             [] t = "badsrc"         -> NullDataInvalidSrc

(* The addresses of testcases[] the command line must give.                 *)
Needs(t) == CASE t = "mcast"     -> {"source"}
              [] t = "goodbssid" -> {"bssid"}
              [] OTHER           -> {}

Frame(k, a1, a2, a3, fl, sh, o) ==
  [kind |-> k, addr1 |-> a1, addr2 |-> a2, addr3 |-> a3,
   flags |-> fl, short |-> sh, ours |-> o]

(* What the target sends on a probe, by the description of the test case:   *)
(* an access point forwards the multicast with FromDS; a deauthentication   *)
(* that is not acknowledged is sent again.                                  *)
Answers(t) ==
  LET Ack(k, a)  == {Frame(k, a, Null, Null, "0", sh, TRUE) : sh \in BOOLEAN}
      Deauth(a3) == {Frame("deauth", "randmac", "target", a3, fl, sh, TRUE) :
                       fl \in {"0", "retry"}, sh \in BOOLEAN}
  IN CASE t = "mcast"    -> {Frame("null", "randmac", "target", "source",
                                   "fromds", sh, TRUE) : sh \in BOOLEAN}
       [] t = "rtscts"         -> Ack("cts", "randmac")
       [] t = "badbssid"       -> Ack("ack", "randmac")
       [] t = "badbssiddeauth" -> Deauth("other")
       [] t = "goodbssid"      -> Ack("ack", "bssid")
       [] t = "badsrc"         -> Deauth("target")

(* Traffic of others that the test must tell from it: an acknowledgement    *)
(* the access point gets from another station, a CTS to another, the target *)
(* throwing somebody else out, multicasts to another group.                 *)
Noise(t) ==
  CASE t = "mcast"  -> {Frame("null", "other", "target", "source", "0", FALSE, FALSE)}
    [] t = "rtscts" -> {Frame("cts", "other", Null, Null, "0", FALSE, FALSE)}
    [] t \in {"badbssid", "goodbssid"} ->
         {Frame("ack", "bssid", Null, Null, "0", sh, FALSE) : sh \in BOOLEAN}
    [] t \in {"badbssiddeauth", "badsrc"} ->
         {Frame("deauth", "other", "target", "target", "0", FALSE, FALSE)}

NoPacket == Frame(Null, Null, Null, Null, "0", FALSE, FALSE)

Frames == UNION {Noise(t) \cup Answers(t) : t \in Tests}
-----------------------------------------------------------------------------
Times == 0..(TimeMod - 1)
Stages == {"args", "init", "funcmode", "channel", "open", "pcap", "datalink",
           "radiotap", "badheader", "return-1", "send", "start", "watch",
           "loop", "response", "silent", "sleep", "return", "exited", "crashed"}

TypeOK ==
  /\ pc \in Stages
  /\ sig \in {"none", "close", "pcap_close", "exit"}
  /\ raised \in 0..MaxSignals
  /\ test \in Tests
  /\ tx \in {"zero", "init", "open", "closed"}
  /\ p \in {Null, "open", "closed"}
  /\ offset \in {"zero", "header", "wrong"}
  /\ packet \in Frames \cup {NoPacket}
  /\ num \in 1..(NPacks + 1)
  /\ exitval \in {0, 1} /\ status \in {-1, 0, 1}
  /\ clock \in Times /\ starttime \in Times /\ finishtime \in Times /\ now \in Times
  /\ air \in Seq(Frames) /\ Len(air) <= MaxBuffer
  /\ passed \in 0..MaxWatch /\ asked \in 0..MaxWatch
  /\ tried \in BOOLEAN /\ skipped \in BOOLEAN
  /\ arrived \in 0..MaxFrames /\ printed \in Nat
  /\ foreign \in BOOLEAN /\ refreed \in BOOLEAN

Init ==
  /\ pc = "args" /\ sig = "none" /\ raised = 0
  /\ test \in Tests
  /\ tx = "zero" /\ p = Null /\ offset = "zero" /\ packet = NoPacket
  /\ num = 1 /\ exitval = 1 /\ status = 1
  /\ clock = 0 /\ starttime = 0 /\ finishtime = 0 /\ now = 0
  /\ air = <<>>
  /\ passed = 0 /\ asked = 0 /\ tried = FALSE /\ skipped = FALSE
  /\ arrived = 0 /\ printed = 0 /\ foreign = FALSE /\ refreed = FALSE

(* The program does not run while a handler does.                           *)
At(s)   == sig = "none" /\ pc = s
Goto(s) == pc' = s /\ UNCHANGED <<sig, raised>>
Exit(v) == status' = v /\ Goto("exited") /\ UNCHANGED exitval
-----------------------------------------------------------------------------
(***************************************************************************)
(* main, up to the test: each failure has its own way out.                 *)
(***************************************************************************)
Untimed == UNCHANGED <<num, clock, times, watch>>
Unheard == UNCHANGED <<packet, air, ledger>>

(* The command line: an option may be wrong, a driver not be found, or an   *)
(* address the test needs not be given.                                     *)
Args(given) ==
  /\ At("args")
  /\ \/ Needs(test) \subseteq given /\ Goto("init") /\ UNCHANGED outcome
     \/ Exit(-1)
  /\ UNCHANGED setup /\ Untimed /\ Unheard

TxInit ==
  /\ At("init")
  /\ \/ tx' = "init" /\ Goto("funcmode") /\ UNCHANGED outcome
     \/ Exit(1) /\ UNCHANGED tx
  /\ UNCHANGED <<test, p, offset>> /\ Untimed /\ Unheard

(* The close tells main nothing it looks at; it may fail.                   *)
TxClose == tx' \in IF tx = "zero" THEN {tx} ELSE {"closed", tx}

(* setfunctionalmode, setchannel if one was given, open: on failure the     *)
(* handle is closed, open or not.                                           *)
TxStep(s, next, after) ==
  /\ At(s)
  /\ \/ tx' = after /\ Goto(next) /\ UNCHANGED outcome
     \/ TxClose /\ Exit(1)
  /\ UNCHANGED <<test, p, offset>> /\ Untimed /\ Unheard

Configure ==
  \/ TxStep("funcmode", "channel", "init")
  \/ TxStep("channel", "open", "init")
  \/ TxStep("open", "pcap", "open")

(* Without a capture the program ends with the handle open.                 *)
PcapOpen ==
  /\ At("pcap")
  /\ \/ p' = "open" /\ Goto("datalink") /\ UNCHANGED outcome
     \/ Exit(-1) /\ UNCHANGED p
  /\ UNCHANGED <<test, tx, offset>> /\ Untimed /\ Unheard

FirstProbe == IF NPacks = 0 THEN "return" ELSE "send"

(* An unsupported link type is reported, and the test done all the same.    *)
Datalink ==
  /\ At("datalink")
  /\ \/ offset' \in {"zero", "header", "wrong"} /\ Goto(FirstProbe)
     \/ UNCHANGED offset /\ Goto("radiotap")
  /\ UNCHANGED <<test, tx, p, outcome>> /\ Untimed /\ Unheard

(* A capture time-out is no error here, but has set packet to nothing.      *)
RadiotapOffset ==
  /\ At("radiotap")
  /\ \/ /\ air # <<>>
        /\ packet' = Head(air) /\ air' = Tail(air)
        /\ \/ offset' = "header" /\ Goto(FirstProbe)
           \/ UNCHANGED offset /\ Goto("badheader")
     \/ air = <<>> /\ packet = NoPacket /\ Goto("crashed") /\ UNCHANGED <<packet, air, offset>>
     \/ Goto("badheader") /\ UNCHANGED <<packet, air, offset>>
  /\ UNCHANGED <<test, tx, p, outcome, ledger>> /\ Untimed

(* tx80211_close and pcap_close; p still points to the capture until main   *)
(* has returned.                                                            *)
BadHeader ==
  /\ At("badheader")
  /\ TxClose /\ p' = "closed" /\ Goto("return-1")
  /\ UNCHANGED <<test, offset, outcome>> /\ Untimed /\ Unheard

ReturnError ==
  /\ At("return-1") /\ Exit(-1)
  /\ UNCHANGED setup /\ Untimed /\ Unheard
-----------------------------------------------------------------------------
(***************************************************************************)
(* The loop of the six l2ping_test functions, and watchfor.                *)
(***************************************************************************)

(* txpacket; a failed send ends the test.                                   *)
Send ==
  /\ At("send")
  /\ Goto("start") \/ Goto("return")
  /\ UNCHANGED <<setup, outcome>> /\ Untimed /\ Unheard

(* watchfor's variables, gone when it has returned or never will.           *)
Forget ==
  /\ clock' = 0 /\ starttime' = 0 /\ finishtime' = 0 /\ now' = 0
  /\ passed' = 0 /\ asked' = 0 /\ tried' = FALSE /\ skipped' = FALSE

(* Fault variant of StartWatch: the time-out is not added.                  *)
StartWatchNow ==
  /\ At("start")
  /\ clock' \in Times /\ starttime' = clock' /\ finishtime' = clock'
  /\ Goto("watch")
  /\ UNCHANGED <<setup, num, outcome, now, watch>> /\ Unheard

(* The deadline is an unsigned int; the sum wraps.                          *)
StartWatch ==
  /\ At("start")
  /\ clock' \in Times
  /\ starttime' = clock' /\ finishtime' = (clock' + Timeout) % TimeMod
  /\ Goto("watch")
  /\ UNCHANGED <<setup, num, outcome, now, watch>> /\ Unheard

FirstNow ==
  /\ At("watch")
  /\ now' = clock /\ asked' = passed
  /\ Goto("loop")
  /\ UNCHANGED <<setup, num, outcome, clock, starttime, finishtime,
                 passed, tried, skipped>> /\ Unheard

(* The delta, unsigned in watchfor, signed in its caller.                   *)
Duration ==
  LET elapsed == (clock - starttime) % TimeMod
  IN IF 2 * elapsed < TimeMod THEN elapsed ELSE elapsed - TimeMod

Fits(a, b) == a = Any \/ a = b

(* Fault variant of Matches: the addresses are not compared.                *)
MatchesKind(f) == f.kind = Want(test).kind /\ f.flags = "0"

Matches(f) ==
  /\ f.kind = Want(test).kind
  /\ f.flags = "0"
  /\ Fits(Want(test).addr1, f.addr1)
  /\ Fits(Want(test).addr2, f.addr2)
  /\ Fits(Want(test).addr3, f.addr3)

(* Read from the wrong place a header holds anything.                       *)
Verdicts(f) == IF offset = "wrong" THEN BOOLEAN ELSE {Matches(f)}

TooShort(f) == offset = "header" /\ f.short

Judge(f) ==
  \E match \in Verdicts(f) :
    IF match THEN /\ Goto(IF Duration > 0 THEN "response" ELSE "silent")
                  /\ foreign' = (foreign \/ (Duration > 0 /\ ~f.ours))
             ELSE Goto("loop") /\ UNCHANGED foreign

(* pcap_next_ex timed out or failed.                                        *)
NoFrame == Goto("silent") /\ UNCHANGED <<packet, air, now, asked, skipped, foreign>>

(* One frame, with the time taken after it; the time is not taken for a     *)
(* frame that is too short.                                                 *)
NextFrame(time) ==
  /\ air # <<>>
  /\ packet' = Head(air) /\ air' = Tail(air)
  /\ asked' = passed
  /\ \/ /\ TooShort(Head(air)) /\ skipped' = TRUE
        /\ Goto("loop") /\ UNCHANGED <<now, foreign>>
     \/ /\ ~TooShort(Head(air)) /\ UNCHANGED skipped
        /\ now' = time /\ Judge(Head(air))

LastFrame ==
  /\ air = <<>> /\ packet # NoPacket
  /\ now' = clock /\ asked' = passed /\ Judge(packet)
  /\ UNCHANGED <<packet, air, skipped>>

Round(step) ==
  /\ At("loop") /\ now < finishtime
  /\ tried' = TRUE
  /\ step
  /\ UNCHANGED <<setup, num, outcome, clock, starttime, finishtime, passed,
                 arrived, printed, refreed>>

(* Fault variants of Read: after a time-out the loop goes on with what      *)
(* packet points to; the time is kept of frames that match only.            *)
ReadAgain == Round(NextFrame(clock) \/ LastFrame \/ NoFrame)
ReadStale == Round(NextFrame(IF Matches(Head(air)) THEN clock ELSE now) \/ NoFrame)

Read == Round(NextFrame(clock) \/ NoFrame)

LoopEnds ==
  /\ At("loop") /\ now >= finishtime
  /\ Goto("silent")
  /\ UNCHANGED <<setup, outcome>> /\ Untimed /\ Unheard

PrintResponse ==
  /\ At("response")
  /\ exitval' = 0 /\ printed' = printed + 1
  /\ Goto("sleep") /\ Forget
  /\ UNCHANGED <<setup, packet, num, air, status, arrived, foreign, refreed>>

(* Fault variant of PrintNoResponse: the probe is sent again at once.       *)
ResendOnSilence ==
  /\ At("silent")
  /\ Goto("send") /\ Forget
  /\ UNCHANGED <<setup, outcome, num>> /\ Unheard

PrintNoResponse ==
  /\ At("silent")
  /\ Goto("sleep") /\ Forget
  /\ UNCHANGED <<setup, outcome, num>> /\ Unheard

(* Fault variant of More: i <= npacks.                                      *)
MoreThanAll(n) == n <= NPacks + 1

More(n) == n <= NPacks

(* sleep(1), and the i++ of the loop.                                       *)
Sleep ==
  /\ At("sleep")
  /\ num' = num + 1
  /\ Goto(IF More(num + 1) THEN "send" ELSE "return")
  /\ UNCHANGED <<setup, outcome, clock, times, watch>> /\ Unheard

(* Fault variant of Return: the capture is closed, p not cleared.           *)
CloseAndReturn ==
  /\ At("return")
  /\ \/ p = "open" /\ p' = "closed" /\ Goto("return") /\ UNCHANGED outcome
     \/ p = "closed" /\ Exit(exitval) /\ UNCHANGED p
  /\ UNCHANGED <<test, tx, offset>> /\ Untimed /\ Unheard

(* main returns; neither the handle nor the capture is closed.              *)
Return ==
  /\ At("return") /\ Exit(exitval)
  /\ UNCHANGED setup /\ Untimed /\ Unheard
-----------------------------------------------------------------------------
(***************************************************************************)
(* sigexit.  It never returns, so a second signal's handler, which does    *)
(* the same, takes the place of the first's.                               *)
(***************************************************************************)
Ended == pc \in {"exited", "crashed"}

(* The handlers are installed once the command line has been checked.       *)
Raise ==
  /\ ~Ended /\ pc # "args" /\ raised < MaxSignals
  /\ raised' = raised + 1 /\ sig' = "close"
  /\ Forget
  /\ UNCHANGED <<pc, setup, num, outcome>> /\ Unheard

HandlerStep(s, next) == sig = s /\ sig' = next /\ UNCHANGED raised

(* pcap_close of a closed capture frees freed memory: the program may go on *)
(* or be ended by it.                                                       *)
SigExit ==
  \/ /\ HandlerStep("close", "pcap_close")
     /\ TxClose
     /\ UNCHANGED <<pc, test, p, offset, outcome, ledger>>
     /\ Untimed /\ UNCHANGED <<packet, air>>
  \/ /\ HandlerStep("pcap_close", "exit")
     /\ p' = IF p = Null THEN Null ELSE "closed"
     /\ refreed' = (refreed \/ p = "closed")
     /\ pc' \in IF p = "closed" THEN {pc, "crashed"} ELSE {pc}
     /\ UNCHANGED <<test, tx, offset, outcome, packet, air, arrived, printed, foreign>>
     /\ Untimed
  \/ /\ HandlerStep("exit", "exit") /\ ~Ended
     /\ pc' = "exited" /\ status' = exitval
     /\ UNCHANGED <<setup, exitval>> /\ Untimed /\ Unheard
-----------------------------------------------------------------------------
(***************************************************************************)
(* The air and the clock.                                                  *)
(***************************************************************************)

(* A frame reaches the capture; the target answers probes it got, late or   *)
(* more than once, or never.  A program that is being ended by a signal     *)
(* looks at neither frames nor the clock.                                   *)
Arrive(f) ==
  /\ ~Ended /\ sig = "none" /\ p = "open"
  /\ arrived < MaxFrames /\ Len(air) < MaxBuffer
  /\ f.short => offset = "header"
  /\ f.ours => num > 1 \/ pc \in {"start", "watch", "loop", "response", "silent", "sleep"}
  /\ air' = Append(air, f) /\ arrived' = arrived + 1
  /\ UNCHANGED <<pc, sig, raised, setup, packet, outcome, printed, foreign, refreed>>
  /\ Untimed

Tick ==
  /\ At("watch") \/ At("loop")
  /\ passed < MaxWatch
  /\ clock' = (clock + 1) % TimeMod /\ passed' = passed + 1
  /\ UNCHANGED <<pc, sig, raised, setup, num, outcome, times, asked, tried, skipped>>
  /\ Unheard
-----------------------------------------------------------------------------
Main ==
  \/ (\E given \in SUBSET {"source", "bssid"} : Args(given))
  \/ TxInit \/ Configure \/ PcapOpen \/ Datalink
  \/ RadiotapOffset \/ BadHeader \/ ReturnError
  \/ Send \/ StartWatch \/ FirstNow \/ Read \/ LoopEnds
  \/ PrintResponse \/ PrintNoResponse \/ Sleep \/ Return

Program == Main \/ SigExit

Next ==
  \/ Program
  \/ Raise
  \/ (\E f \in Noise(test) \cup Answers(test) : Arrive(f))
  \/ Tick

Spec == Init /\ [][Next]_vars

(* The program is scheduled, and pcap_next_ex returns after its time-out;   *)
(* neither signals, nor frames, nor the passing of time are relied on.      *)
FairSpec == Spec /\ WF_vars(Program)
-----------------------------------------------------------------------------
(* A response is printed only for a frame that one of this run's probes     *)
(* provoked, but for the test case whose description warns of false         *)
(* positives and link types the program does not know (l2ping80211.c        *)
(* watchfor, l2ping80211.h testcases).                                      *)
AnswersAreOurs == foreign => test = "goodbssid" \/ offset = "wrong"

(* No captured frame is taken for the answer to two probes, whatever read   *)
(* times out in between: packet keeps the last one (watchfor).              *)
AnswersCountOnce ==
  printed + (IF pc = "response" THEN 1 ELSE 0) <= arrived

(* An answer that is read in a watch is reported, unless it is one sent     *)
(* again, shorter than the header, or timed at no microsecond or at more    *)
(* than half the clock's range.  Not so of the multicast test: it says      *)
(* "Watch for the multicast data frame response with FromDS set that         *)
(* follows" (l2ping80211.c:377) and passes 0 for the flags, so it takes none.        *)
Overheard ==
  /\ At("loop") /\ Len(air') < Len(air)
  /\ LET f == Head(air)
     IN f.ours /\ f.flags # "retry" /\ ~TooShort(f) /\ offset # "wrong" /\ Duration > 0
  /\ pc' # "response"

AnswersHeard == [][test # "mcast" => ~Overheard]_vars

(* A watch that reads on after its time has passed has skipped a frame      *)
(* without looking at the clock, or the clock has wrapped (watchfor).       *)
DeadlineKept ==
  At("loop") /\ now < finishtime /\ asked >= Timeout
    => skipped \/ starttime + asked >= TimeMod

(* A watch gives up without reading the capture only if its deadline        *)
(* wrapped or the program was held up for the whole time-out before.        *)
BlindOnlyAtWrap ==
  At("silent") /\ ~tried
    => starttime + Timeout >= TimeMod \/ asked >= Timeout

(* The capture is closed twice only when two signals come or one comes      *)
(* while main leaves over an unreadable radiotap header (sigexit, main).    *)
ClosedTwiceInARace ==
  [][refreed' /\ ~refreed => raised' >= 2 \/ pc = "return-1"]_vars

(* The program ends, once the air is quiet: no way round its loops takes    *)
(* neither a frame nor a probe.                                             *)
Terminates == <>Ended
=============================================================================
