---------------------------- MODULE L2pingProofs ----------------------------
(***************************************************************************)
(* What holds of module L2ping for a clock of any size, any time-out and   *)
(* any numbers of probes, signals and captured frames.                     *)
(***************************************************************************)
EXTENDS L2ping, TLAPS

(***************************************************************************)
(* Arithmetic modulo the clock.                                            *)
(***************************************************************************)
LEMMA ModRange ==
  ASSUME NEW a \in Int, NEW m \in Nat \ {0}
  PROVE  a % m \in 0 .. (m - 1) /\ a % m \in Nat
OBVIOUS

LEMMA ModSmall ==
  ASSUME NEW a \in Nat, NEW m \in Nat \ {0}, a < m
  PROVE  a % m = a
OBVIOUS

LEMMA ModLess ==
  ASSUME NEW a \in Nat, NEW m \in Nat \ {0}
  PROVE  a % m <= a
OBVIOUS

(* The remainder is the only one. *)
LEMMA ModUnique ==
  ASSUME NEW a \in Int, NEW m \in Nat \ {0}, NEW q \in Int, NEW r \in 0 .. (m - 1),
         a = m * q + r
  PROVE  a % m = r
<1> DEFINE k == a \div m
           s == a % m
<1>1. k \in Int /\ s \in Nat /\ s < m /\ a = m * k + s
  OBVIOUS
<1> HIDE DEF k, s
<1>2. r \in Nat /\ r < m
  OBVIOUS
<1>3. ASSUME NEW d \in Int, d >= 1 PROVE m * d >= m
  BY <1>3
<1>4. m * (q - k) = s - r /\ m * (k - q) = r - s
  BY <1>1, <1>2
<1>5. ~(q - k >= 1) /\ ~(k - q >= 1)
  BY <1>1, <1>2, <1>3, <1>4
<1>6. q = k
  BY <1>1, <1>5
<1>7. s = r
  BY <1>1, <1>2, <1>6
<1>8. QED
  BY <1>7 DEF s

(* A clock that ticks goes on from what it was. *)
LEMMA ModStep ==
  ASSUME NEW a \in Nat, NEW m \in Nat \ {0}
  PROVE  ((a % m) + 1) % m = (a + 1) % m
<1> DEFINE q == a \div m
           r == a % m
<1>1. q \in Int /\ r \in Nat /\ r < m /\ a = m * q + r
  OBVIOUS
<1> HIDE DEF q, r
<1>2. CASE r + 1 < m
  <2>1. a + 1 = m * q + (r + 1) /\ r + 1 \in 0 .. (m - 1)
    BY <1>1, <1>2
  <2>2. (a + 1) % m = r + 1
    BY <1>1, <2>1, ModUnique
  <2>3. (r + 1) % m = r + 1
    BY <1>1, <1>2, ModSmall
  <2>4. QED
    BY <2>2, <2>3 DEF r
<1>3. CASE r + 1 = m
  <2>1. a + 1 = m * (q + 1) + 0 /\ m = m * 1 + 0 /\ 0 \in 0 .. (m - 1)
    BY <1>1, <1>3
  <2>2. (a + 1) % m = 0
    BY <1>1, <2>1, ModUnique
  <2>3. m % m = 0
    BY <2>1, ModUnique
  <2>4. QED
    BY <1>3, <2>2, <2>3 DEF r
<1>4. QED
  BY <1>1, <1>2, <1>3
-----------------------------------------------------------------------------
Before   == {"args", "init", "funcmode", "channel", "open", "pcap", "datalink",
             "radiotap"}
Watching == {"watch", "loop", "response", "silent"}
Probing  == Watching \cup {"send", "start", "sleep"}

(* Where the program is. *)
PlaceType ==
  /\ pc \in Stages /\ sig \in {"none", "close", "pcap_close", "exit"}
  /\ raised \in 0 .. MaxSignals
  /\ tx \in {"zero", "init", "open", "closed"} /\ p \in {Null, "open", "closed"}
  /\ offset \in {"zero", "header", "wrong"}
  /\ exitval \in {0, 1} /\ status \in {-1, 0, 1}

(* The variables of the watch. *)
WatchType ==
  /\ clock \in Times /\ starttime \in Times /\ finishtime \in Times /\ now \in Times
  /\ passed \in 0 .. MaxWatch /\ asked \in 0 .. MaxWatch
  /\ tried \in BOOLEAN /\ skipped \in BOOLEAN

(* What the capture has delivered, traffic of the test only. *)
HeardType ==
  /\ packet \in Frames \cup {NoPacket}
  /\ air \in Seq(Noise(test) \cup Answers(test)) /\ Len(air) <= MaxBuffer
  /\ arrived \in 0 .. MaxFrames /\ printed \in Nat
  /\ foreign \in BOOLEAN /\ refreed \in BOOLEAN

(* The probe in hand is one of NPacks. *)
Counted == /\ pc \in Before => num = 1
           /\ pc \in Probing => num <= NPacks

(* The types alone are not inductive: a probe is counted when it has been  *)
(* watched, and a frame read is one of the test's.                         *)
TypeInv ==
  /\ test \in Tests /\ num \in 1 .. (NPacks + 1)
  /\ PlaceType /\ WatchType /\ HeardType /\ Counted

(* A frame in the capture, one that makes a response and those that made   *)
(* one are all different.                                                  *)
EachOnce == printed + Len(air) + (IF pc = "response" THEN 1 ELSE 0) <= arrived

(* Two readings of the clock: the time of the last one that a frame was    *)
(* long enough to cause, and the present.                                  *)
Timed ==
  /\ ~(sig = "none" /\ pc \in Watching) =>
       passed = 0 /\ asked = 0 /\ ~tried /\ ~skipped
  /\ At("watch") \/ At("loop") => /\ clock = (starttime + passed) % TimeMod
                                  /\ finishtime = (starttime + Timeout) % TimeMod
  /\ At("watch") => ~tried /\ ~skipped
  /\ At("loop") => /\ skipped => tried
                   /\ ~skipped => now = (starttime + asked) % TimeMod
  /\ BlindOnlyAtWrap

(* The capture is closed by a signal's handler on the way out, or by main. *)
ClosedOnTheWayOut ==
  /\ sig = "none" => raised = 0
  /\ sig # "none" => raised >= 1
  /\ pc \in {"exited", "crashed"} => sig \in {"none", "exit"}
  /\ p = "closed" => \/ pc = "return-1"
                     \/ sig = "none" /\ pc = "exited"
                     \/ sig = "exit"
                     \/ raised >= 2
-----------------------------------------------------------------------------
LEMMA Sizes ==
  /\ TimeMod \in Nat \ {0} /\ Timeout \in Nat /\ 0 < Timeout /\ Timeout < TimeMod
  /\ NPacks \in Nat /\ MaxSignals \in Nat /\ MaxFrames \in Nat /\ MaxBuffer \in Nat
  /\ MaxWatch \in Nat
BY L2pingAssumption

LEMMA TrafficIsFrames ==
  ASSUME NEW t \in Tests
  PROVE  Noise(t) \cup Answers(t) \subseteq Frames
BY DEF Frames

LEMMA TypeInvIsType == TypeInv => TypeOK
<1> SUFFICES ASSUME TypeInv PROVE TypeOK
  OBVIOUS
<1>1. air \in Seq(Frames)
  <2>1. Noise(test) \cup Answers(test) \subseteq Frames
    BY TrafficIsFrames DEF TypeInv
  <2> DEFINE N == Noise(test) \cup Answers(test)
  <2> HIDE DEF N
  <2>2. air \in Seq(N) => air \in Seq(Frames)
    BY <2>1 DEF N
  <2>3. QED
    BY <2>2 DEF N, TypeInv, HeardType
<1>2. QED
  BY <1>1 DEF TypeInv, TypeOK, PlaceType, WatchType, HeardType

(* Reading the capture leaves the rest of it, which is well typed. *)
LEMMA ReadFrame ==
  ASSUME TypeInv, air # <<>>
  PROVE  /\ Head(air) \in Noise(test) \cup Answers(test) /\ Head(air) \in Frames
         /\ Tail(air) \in Seq(Noise(test) \cup Answers(test))
         /\ Len(Tail(air)) = Len(air) - 1 /\ Len(air) \in Nat /\ Len(air) <= MaxBuffer
<1> DEFINE N == Noise(test) \cup Answers(test)
<1>1. air \in Seq(N) /\ Len(air) <= MaxBuffer /\ N \subseteq Frames
  BY TrafficIsFrames DEF TypeInv, HeardType
<1> HIDE DEF N
<1>2. Head(air) \in N /\ Tail(air) \in Seq(N) /\ Len(Tail(air)) = Len(air) - 1 /\ Len(air) \in Nat
  BY <1>1
<1>3. QED
  BY <1>1, <1>2 DEF N

LEMMA ReadType ==
  ASSUME TypeInv, air # <<>>, packet' = Head(air), air' = Tail(air), foreign' \in BOOLEAN,
         UNCHANGED <<test, arrived, printed, refreed>>
  PROVE  HeardType'
<1> DEFINE N == Noise(test) \cup Answers(test)
<1>1. Head(air) \in Frames /\ Tail(air) \in Seq(N) /\ N' = N
  BY ReadFrame
<1>2. Len(Tail(air)) <= MaxBuffer
  BY ReadFrame, Sizes
<1>3. air' \in Seq(N')
  BY <1>1
<1>4. /\ packet' \in Frames \cup {NoPacket} /\ Len(air') <= MaxBuffer
      /\ arrived' \in 0 .. MaxFrames /\ printed' \in Nat /\ refreed' \in BOOLEAN
  <2>1. arrived \in 0 .. MaxFrames /\ printed \in Nat /\ refreed \in BOOLEAN
    BY DEF TypeInv, HeardType
  <2>2. QED
    BY <1>1, <1>2, <2>1
<1>5. QED
  BY <1>3, <1>4 DEF HeardType

LEMMA ForgetType == Forget => WatchType'
<1> SUFFICES ASSUME Forget PROVE WatchType'
  OBVIOUS
<1>1. 0 \in Times /\ 0 \in 0 .. MaxWatch
  BY Sizes DEF Times
<1>2. QED
  BY <1>1, Zenon DEF Forget, WatchType

LEMMA TypeInit == Init => TypeInv
<1> SUFFICES ASSUME Init PROVE TypeInv
  OBVIOUS
<1>1. test \in Tests /\ num \in 1 .. (NPacks + 1) /\ PlaceType /\ Counted
  BY Sizes DEF Init, PlaceType, Counted, Stages, Before, Probing, Watching, Null
<1>2. WatchType
  <2>1. 0 \in Times /\ 0 \in 0 .. MaxWatch
    BY Sizes DEF Times
  <2>2. QED
    BY <2>1, Zenon DEF Init, WatchType
<1>3. HeardType
  <2>1. /\ Len(<<>>) <= MaxBuffer
        /\ <<>> \in Seq(Noise(test) \cup Answers(test))
        /\ 0 \in 0 .. MaxFrames /\ 0 \in Nat
    BY Sizes
  <2>2. QED
    BY <2>1, Zenon DEF Init, HeardType
<1>4. QED
  BY <1>1, <1>2, <1>3 DEF TypeInv

(* Steps that touch one part only leave the types of the others.           *)
LEMMA UntimedType == WatchType /\ Untimed => WatchType' /\ num' = num
BY DEF WatchType, Untimed, times, watch

LEMMA UnheardType == HeardType /\ Unheard /\ UNCHANGED test => HeardType'
BY DEF HeardType, Unheard, ledger

LEMMA TypeStep == TypeInv /\ [Next]_vars => TypeInv'
<1> SUFFICES ASSUME TypeInv, [Next]_vars PROVE TypeInv'
  OBVIOUS
<1> USE DEF TypeInv
<1>1. ASSUME Untimed, Unheard, UNCHANGED test, PlaceType', Counted'
      PROVE  TypeInv'
  BY <1>1, UntimedType, UnheardType
<1> USE DEF At, Goto, Exit
<1>2. ASSUME NEW given, Args(given)
      PROVE  TypeInv'
  <2>1. PlaceType' /\ Counted'
    BY <1>2, Sizes DEF Args, setup, outcome, Untimed, PlaceType, Counted,
       Stages, Before, Probing, Watching
  <2>2. QED
    BY <1>1, <1>2, <2>1 DEF Args, setup
<1>3. ASSUME TxInit
      PROVE  TypeInv'
  <2>1. PlaceType' /\ Counted'
    BY <1>3, Sizes DEF TxInit, setup, outcome, Untimed, PlaceType, Counted,
       Stages, Before, Probing, Watching
  <2>2. QED
    BY <1>1, <1>3, <2>1 DEF TxInit, setup
<1>4. ASSUME Configure
      PROVE  TypeInv'
  <2>1. PlaceType' /\ Counted'
    BY <1>4, Sizes DEF Configure, TxStep, TxClose, setup, outcome, Untimed,
       PlaceType, Counted, Stages, Before, Probing, Watching
  <2>2. QED
    BY <1>1, <1>4, <2>1 DEF Configure, TxStep, setup
<1>5. ASSUME PcapOpen
      PROVE  TypeInv'
  <2>1. PlaceType' /\ Counted'
    BY <1>5, Sizes DEF PcapOpen, setup, outcome, Untimed, PlaceType, Counted,
       Stages, Before, Probing, Watching
  <2>2. QED
    BY <1>1, <1>5, <2>1 DEF PcapOpen, setup
<1>6. ASSUME Datalink
      PROVE  TypeInv'
  <2>1. PlaceType' /\ Counted'
    BY <1>6, Sizes DEF Datalink, FirstProbe, setup, outcome, Untimed, PlaceType,
       Counted, Stages, Before, Probing, Watching
  <2>2. QED
    BY <1>1, <1>6, <2>1 DEF Datalink, setup
<1>7. ASSUME RadiotapOffset
      PROVE  TypeInv'
  <2>1. PlaceType' /\ Counted'
    BY <1>7, Sizes DEF RadiotapOffset, FirstProbe, outcome, Untimed, PlaceType, Counted,
                       Stages, Before, Probing, Watching
  <2>2. HeardType'
    <3>1. UNCHANGED <<test, arrived, printed, foreign, refreed>>
      BY <1>7 DEF RadiotapOffset, ledger
    <3>2. CASE UNCHANGED <<packet, air>>
      BY <3>1, <3>2 DEF HeardType
    <3>3. CASE air # <<>> /\ packet' = Head(air) /\ air' = Tail(air)
      BY <3>1, <3>3, ReadType DEF HeardType
    <3>4. QED
      BY <1>7, <3>2, <3>3 DEF RadiotapOffset
  <2>3. QED
    BY <1>7, <2>1, <2>2, UntimedType DEF RadiotapOffset
<1>8. ASSUME BadHeader
      PROVE  TypeInv'
  <2>1. PlaceType' /\ Counted'
    BY <1>8, Sizes DEF BadHeader, TxClose, setup, outcome, Untimed, PlaceType,
       Counted, Stages, Before, Probing, Watching
  <2>2. QED
    BY <1>1, <1>8, <2>1 DEF BadHeader, setup
<1>9. ASSUME ReturnError
      PROVE  TypeInv'
  <2>1. PlaceType' /\ Counted'
    BY <1>9, Sizes DEF ReturnError, setup, outcome, Untimed, PlaceType, Counted,
       Stages, Before, Probing, Watching
  <2>2. QED
    BY <1>1, <1>9, <2>1 DEF ReturnError, setup
<1>10. ASSUME Send
      PROVE  TypeInv'
  <2>1. PlaceType' /\ Counted'
    BY <1>10, Sizes DEF Send, setup, outcome, Untimed, PlaceType, Counted,
       Stages, Before, Probing, Watching
  <2>2. QED
    BY <1>1, <1>10, <2>1 DEF Send, setup
<1>11. ASSUME Return
      PROVE  TypeInv'
  <2>1. PlaceType' /\ Counted'
    BY <1>11, Sizes DEF Return, setup, outcome, Untimed, PlaceType, Counted,
       Stages, Before, Probing, Watching
  <2>2. QED
    BY <1>1, <1>11, <2>1 DEF Return, setup
<1>12. ASSUME StartWatch
      PROVE  TypeInv'
  <2>1. PlaceType' /\ Counted' /\ UNCHANGED <<num, test>>
    BY <1>12 DEF StartWatch, setup, outcome, PlaceType, Counted, Stages, Before,
                 Probing, Watching
  <2>2. WatchType'
    <3>1. clock' \in Nat /\ clock' + Timeout \in Int
      BY <1>12, Sizes DEF StartWatch, Times
    <3>2. (clock' + Timeout) % TimeMod \in Times
      BY <3>1, Sizes, ModRange DEF Times
    <3>3. QED
      BY <1>12, <3>2 DEF StartWatch, WatchType, watch
  <2>3. QED
    BY <1>12, <2>1, <2>2, UnheardType DEF StartWatch
<1>13. ASSUME FirstNow
      PROVE  TypeInv'
  <2>1. PlaceType' /\ Counted' /\ UNCHANGED <<num, test>>
    BY <1>13 DEF FirstNow, setup, outcome, PlaceType, Counted, Stages, Before,
                 Probing, Watching
  <2>2. WatchType'
    BY <1>13 DEF FirstNow, WatchType
  <2>3. QED
    BY <1>13, <2>1, <2>2, UnheardType DEF FirstNow
<1>14. ASSUME Read
      PROVE  TypeInv'
  <2>1. /\ pc = "loop" /\ sig = "none" /\ tried' = TRUE
        /\ UNCHANGED <<setup, num, outcome, clock, starttime, finishtime, passed,
                       arrived, printed, refreed>>
    BY <1>14 DEF Read, Round
  <2>2. CASE NoFrame
    <3>1. pc' = "silent" /\ UNCHANGED <<sig, raised, packet, air, now, asked, skipped, foreign>>
      BY <2>2 DEF NoFrame
    <3>2. PlaceType' /\ Counted'
      BY <2>1, <3>1 DEF setup, outcome, PlaceType, Counted, Stages, Before,
         Probing, Watching
    <3>3. WatchType' /\ HeardType' /\ UNCHANGED <<num, test>>
      BY <2>1, <3>1 DEF setup, WatchType, HeardType
    <3>4. QED
      BY <3>2, <3>3
  <2>3. CASE NextFrame(clock)
    <3>1. /\ air # <<>> /\ packet' = Head(air) /\ air' = Tail(air)
          /\ asked' = passed /\ (now' = clock \/ now' = now)
          /\ skipped' \in BOOLEAN /\ foreign' \in BOOLEAN
          /\ pc' \in {"loop", "response", "silent"} /\ UNCHANGED <<sig, raised>>
      BY <2>3 DEF NextFrame, Judge, WatchType, HeardType
    <3>2. PlaceType' /\ Counted'
      BY <2>1, <3>1 DEF setup, outcome, PlaceType, Counted, Stages, Before,
         Probing, Watching
    <3>3. WatchType' /\ UNCHANGED <<num, test>>
      BY <2>1, <3>1 DEF setup, WatchType
    <3>4. HeardType'
      BY <2>1, <3>1, ReadType DEF setup
    <3>5. QED
      BY <3>2, <3>3, <3>4
  <2>4. QED
    BY <1>14, <2>2, <2>3 DEF Read, Round
<1>15. ASSUME LoopEnds
      PROVE  TypeInv'
  <2>1. PlaceType' /\ Counted'
    BY <1>15, Sizes DEF LoopEnds, setup, outcome, Untimed, PlaceType, Counted,
       Stages, Before, Probing, Watching
  <2>2. QED
    BY <1>1, <1>15, <2>1 DEF LoopEnds, setup
<1>16. ASSUME PrintResponse
      PROVE  TypeInv'
  <2>1. PlaceType' /\ Counted' /\ UNCHANGED <<num, test>>
    BY <1>16 DEF PrintResponse, setup, PlaceType, Counted, Stages, Before,
       Probing, Watching
  <2>2. HeardType'
    BY <1>16 DEF PrintResponse, setup, HeardType
  <2>3. QED
    BY <1>16, <2>1, <2>2, ForgetType DEF PrintResponse
<1>17. ASSUME PrintNoResponse
      PROVE  TypeInv'
  <2>1. PlaceType' /\ Counted' /\ UNCHANGED <<num, test>>
    BY <1>17 DEF PrintNoResponse, setup, outcome, PlaceType, Counted, Stages, Before,
                 Probing, Watching
  <2>2. QED
    BY <1>17, <2>1, ForgetType, UnheardType DEF PrintNoResponse
<1>18. ASSUME Sleep
      PROVE  TypeInv'
  <2>1. PlaceType' /\ Counted' /\ num' \in 1 .. (NPacks + 1) /\ UNCHANGED test
    BY <1>18, Sizes DEF Sleep, More, setup, outcome, PlaceType, Counted, Stages, Before,
                        Probing, Watching
  <2>2. WatchType'
    BY <1>18 DEF Sleep, times, watch, WatchType
  <2>3. QED
    BY <1>18, <2>1, <2>2, UnheardType DEF Sleep
<1>19. ASSUME SigExit
      PROVE  TypeInv'
  <2>1. PlaceType' /\ Counted' /\ UNCHANGED test
    BY <1>19 DEF SigExit, HandlerStep, TxClose, Ended, setup, outcome, Untimed,
       PlaceType,
                 Counted, Stages, Before, Probing, Watching
  <2>2. WatchType' /\ UNCHANGED num
    BY <1>19, UntimedType DEF SigExit
  <2>3. HeardType'
    <3>1. UNCHANGED <<packet, air, arrived, printed, foreign, test>>
      BY <1>19 DEF SigExit, Unheard, ledger, setup
    <3>2. refreed' \in BOOLEAN
      BY <1>19 DEF SigExit, Unheard, ledger, HeardType
    <3>3. QED
      BY <3>1, <3>2 DEF HeardType
  <2>4. QED
    BY <2>1, <2>2, <2>3
<1>20. ASSUME Raise
      PROVE  TypeInv'
  <2>1. PlaceType' /\ Counted' /\ UNCHANGED <<num, test>>
    BY <1>20, Sizes DEF Raise, setup, outcome, PlaceType, Counted, Stages, Before,
                        Probing, Watching
  <2>2. QED
    BY <1>20, <2>1, ForgetType, UnheardType DEF Raise
<1>21. ASSUME NEW f \in Noise(test) \cup Answers(test), Arrive(f)
      PROVE  TypeInv'
  <2>1. PlaceType' /\ Counted' /\ UNCHANGED test
    BY <1>21 DEF Arrive, setup, outcome, Untimed, PlaceType, Counted
  <2>2. HeardType'
    <3> DEFINE N == Noise(test) \cup Answers(test)
    <3>1. /\ air \in Seq(N) /\ Len(air) < MaxBuffer /\ arrived < MaxFrames
          /\ arrived \in 0 .. MaxFrames /\ f \in N
      BY <1>21 DEF Arrive, HeardType
    <3> HIDE DEF N
    <3>2. Append(air, f) \in Seq(N) /\ Len(Append(air, f)) <= MaxBuffer
      BY <3>1, Sizes
    <3>3. air' = Append(air, f) /\ arrived' = arrived + 1
          /\ UNCHANGED <<test, packet, printed, foreign, refreed>>
      BY <1>21 DEF Arrive, setup
    <3>4. QED
      BY <3>1, <3>2, <3>3, Sizes DEF HeardType, N
  <2>3. QED
    BY <1>21, <2>1, <2>2, UntimedType DEF Arrive
<1>22. ASSUME Tick
      PROVE  TypeInv'
  <2>1. PlaceType' /\ Counted' /\ UNCHANGED <<num, test>>
    BY <1>22 DEF Tick, setup, outcome, PlaceType, Counted
  <2>2. WatchType'
    <3>1. (clock + 1) % TimeMod \in Times
      BY Sizes, ModRange DEF WatchType, Times
    <3>2. passed + 1 \in 0 .. MaxWatch
      BY <1>22, Sizes DEF Tick, WatchType
    <3>3. QED
      BY <1>22, <3>1, <3>2 DEF Tick, WatchType, times
  <2>3. QED
    BY <1>22, <2>1, <2>2, UnheardType DEF Tick
<1>23. CASE UNCHANGED vars
  BY <1>23 DEF vars, setup, outcome, times, watch, ledger, PlaceType, WatchType,
               HeardType, Counted
<1>24. QED
  BY <1>2, <1>3, <1>4, <1>5, <1>6, <1>7, <1>8, <1>9, <1>10, <1>11, <1>12, <1>13,
     <1>14, <1>15, <1>16, <1>17, <1>18, <1>19, <1>20, <1>21, <1>22, <1>23
  DEF Next, Program, Main
-----------------------------------------------------------------------------
(***************************************************************************)
(* Frames and responses.                                                   *)
(***************************************************************************)

(* A step that prints nothing, judges nothing and captures nothing. *)
Silently ==
  /\ UNCHANGED <<arrived, printed, foreign>>
  /\ air' = air \/ (air # <<>> /\ air' = Tail(air) /\ pc = "radiotap")
  /\ pc' = "response" => pc = "response"
  /\ sig = "none" /\ pc = "loop" => air' = air

(* The test is chosen once, the header length before the first probe. *)
Settled ==
  /\ UNCHANGED test
  /\ offset' = offset \/ pc \in Before
  /\ pc' \in Before => pc \in Before

(* All that the steps of the program and its surroundings do to frames and *)
(* responses is done by three of them.                                     *)
LEMMA HearingSteps ==
  [Next]_vars =>
    /\ Settled
    /\ \/ Read \/ PrintResponse
       \/ \E f \in Noise(test) \cup Answers(test) : Arrive(f)
       \/ Silently
<1> SUFFICES ASSUME [Next]_vars
             PROVE  /\ Settled
                    /\ \/ Read \/ PrintResponse
                       \/ \E f \in Noise(test) \cup Answers(test) : Arrive(f)
                       \/ Silently
  OBVIOUS
<1> USE DEF At, Goto, Exit, Silently, Settled, Before, setup, ledger, Unheard
<1>1. ASSUME NEW given, Args(given) PROVE Silently /\ Settled
  BY <1>1 DEF Args
<1>2. CASE TxInit \/ Configure \/ PcapOpen
  BY <1>2 DEF TxInit, Configure, TxStep, PcapOpen
<1>3. CASE Datalink
  BY <1>3 DEF Datalink, FirstProbe
<1>4. CASE RadiotapOffset
  BY <1>4 DEF RadiotapOffset, FirstProbe
<1>5. CASE BadHeader \/ ReturnError \/ Send \/ StartWatch \/ FirstNow \/ LoopEnds
  BY <1>5 DEF BadHeader, ReturnError, Send, StartWatch, FirstNow, LoopEnds
<1>6. CASE PrintNoResponse \/ Sleep \/ Return \/ Raise \/ Tick
  BY <1>6 DEF PrintNoResponse, Sleep, Return, Raise, Tick
<1>7. CASE Read
  BY <1>7 DEF Read, Round, NextFrame, NoFrame, Judge
<1>8. CASE PrintResponse
  BY <1>8 DEF PrintResponse
<1>9. CASE SigExit
  BY <1>9 DEF SigExit, HandlerStep, Ended
<1>10. ASSUME NEW f \in Noise(test) \cup Answers(test), Arrive(f) PROVE Settled
  BY <1>10 DEF Arrive
<1>11. CASE UNCHANGED vars
  BY <1>11 DEF vars
<1>12. QED
  BY <1>1, <1>2, <1>3, <1>4, <1>5, <1>6, <1>7, <1>8, <1>9, <1>10, <1>11
  DEF Next, Program, Main

LEMMA EachOnceStep == TypeInv /\ EachOnce /\ [Next]_vars => EachOnce'
<1> SUFFICES ASSUME TypeInv, EachOnce, [Next]_vars PROVE EachOnce'
  OBVIOUS
<1> DEFINE n == Len(air)
           waiting == IF pc = "response" THEN 1 ELSE 0
<1>1. n \in Nat /\ printed \in Nat /\ arrived \in Nat /\ printed + n + waiting <= arrived
  BY Sizes DEF TypeInv, HeardType, EachOnce
<1>2. ASSUME air # <<>>, air' = Tail(air) PROVE n' = n - 1 /\ n - 1 \in Nat
  BY <1>2, ReadFrame
<1> SUFFICES printed' + n' + waiting' <= arrived'
  BY DEF EachOnce
<1> HIDE DEF n
<1>3. CASE Read
  <2>1. UNCHANGED <<printed, arrived>> /\ pc = "loop"
    BY <1>3 DEF Read, Round, At
  <2>2. \/ n' = n - 1
        \/ n' = n /\ pc' # "response"
    BY <1>2, <1>3 DEF Read, Round, NextFrame, NoFrame, Goto, n
  <2>3. QED
    BY <1>1, <2>1, <2>2
<1>4. CASE PrintResponse
  <2>1. printed' = printed + 1 /\ arrived' = arrived /\ n' = n
        /\ pc = "response" /\ pc' = "sleep"
    BY <1>4 DEF PrintResponse, At, Goto, n
  <2>2. QED
    BY <1>1, <2>1
<1>5. ASSUME NEW f \in Noise(test) \cup Answers(test), Arrive(f)
      PROVE  printed' + n' + waiting' <= arrived'
  <2>1. n' = n + 1
    <3> DEFINE N == Noise(test) \cup Answers(test)
    <3>1. air \in Seq(N) /\ f \in N /\ air' = Append(air, f)
      BY <1>5 DEF TypeInv, HeardType, Arrive
    <3> HIDE DEF N
    <3>2. QED
      BY <3>1 DEF n
  <2>2. printed' = printed /\ arrived' = arrived + 1 /\ pc' = pc
    BY <1>5 DEF Arrive
  <2>3. QED
    BY <1>1, <2>1, <2>2
<1>6. CASE Silently
  <2>1. UNCHANGED <<printed, arrived>> /\ (n' = n \/ n' = n - 1)
    BY <1>2, <1>6 DEF Silently, n
  <2>2. pc' = "response" => pc = "response"
    BY <1>6 DEF Silently
  <2>3. QED
    BY <1>1, <2>1, <2>2
<1>7. QED
  BY <1>3, <1>4, <1>5, <1>6, HearingSteps

(* What matches what a test waits for is its own traffic, but for the test *)
(* that waits for an acknowledgement others get too.                       *)
LEMMA MatchesAreOurs ==
  ASSUME test \in Tests, NEW f \in Noise(test) \cup Answers(test), Matches(f)
  PROVE  f.ours \/ test = "goodbssid"
<1>1. CASE f \in Answers(test)
  BY <1>1 DEF Answers, Frame, Tests
<1>2. CASE f \in Noise(test)
  <2>1. CASE test = "mcast"
    BY <1>2, <2>1 DEF Noise, Frame, Matches, Want, Fits, NullDataMcast, Awaited, Any
  <2>2. CASE test = "rtscts"
    BY <1>2, <2>2 DEF Noise, Frame, Matches, Want, Fits, RtsCts, Awaited, Any
  <2>3. CASE test = "badbssid"
    BY <1>2, <2>3 DEF Noise, Frame, Matches, Want, Fits, DataInvalidBssid, Awaited, Any
  <2>4. CASE test = "badbssiddeauth"
    BY <1>2, <2>4 DEF Noise, Frame, Matches, Want, Fits, DataInvalidBssidDeauth,
       Awaited, Any
  <2>5. CASE test = "badsrc"
    BY <1>2, <2>5 DEF Noise, Frame, Matches, Want, Fits, NullDataInvalidSrc,
       Awaited, Any
  <2>6. QED
    BY <2>1, <2>2, <2>3, <2>4, <2>5 DEF Tests
<1>3. QED
  BY <1>1, <1>2

(* Nothing is judged before the header length is settled. *)
Ours == AnswersAreOurs /\ (pc \in Before => ~foreign)

LEMMA OursStep == TypeInv /\ Ours /\ [Next]_vars => Ours'
<1> SUFFICES ASSUME TypeInv, Ours, [Next]_vars PROVE Ours'
  OBVIOUS
<1>1. Settled
  BY HearingSteps
<1>2. CASE UNCHANGED foreign
  BY <1>1, <1>2 DEF Settled, Ours, AnswersAreOurs
<1>3. CASE Read /\ ~UNCHANGED foreign
  <2>1. air # <<>> /\ Judge(Head(air)) /\ UNCHANGED <<test, offset>> /\ pc = "loop"
    BY <1>3 DEF Read, Round, NextFrame, NoFrame, At, setup
  <2>2. pc' \notin Before
    BY <1>1, <2>1 DEF Settled, Before
  <2>3. Head(air) \in Noise(test) \cup Answers(test)
    BY <2>1, ReadFrame
  <2>4. PICK match \in Verdicts(Head(air)) :
          /\ match
          /\ foreign' = (foreign \/ (Duration > 0 /\ ~Head(air).ours))
    BY <1>3, <2>1 DEF Judge
  <2>5. offset = "wrong" \/ Matches(Head(air))
    BY <2>4 DEF Verdicts
  <2>6. CASE foreign
    BY <2>1, <2>2, <2>6 DEF Ours, AnswersAreOurs
  <2>7. CASE ~foreign /\ foreign'
    <3>1. ~Head(air).ours
      BY <2>4, <2>7
    <3>2. offset = "wrong" \/ test = "goodbssid"
      BY <2>3, <2>5, <3>1, MatchesAreOurs DEF TypeInv
    <3>3. QED
      BY <2>1, <2>2, <3>2 DEF Ours, AnswersAreOurs
  <2>8. QED
    BY <2>2, <2>6, <2>7 DEF Ours, AnswersAreOurs
<1>4. CASE PrintResponse
  BY <1>2, <1>4 DEF PrintResponse
<1>5. ASSUME NEW f \in Noise(test) \cup Answers(test), Arrive(f) PROVE Ours'
  BY <1>2, <1>5 DEF Arrive
<1>6. QED
  BY <1>2, <1>3, <1>4, <1>5, HearingSteps DEF Silently

(* What a test waits for comes as the test waits for it, if it is not sent *)
(* again, but for the multicast, which an access point forwards.           *)
LEMMA OursMatch ==
  ASSUME test \in Tests, test # "mcast", NEW f \in Noise(test) \cup Answers(test),
         f.ours, f.flags # "retry"
  PROVE  Matches(f)
<1>1. f \in Answers(test)
  BY DEF Noise, Frame, Tests
<1>2. CASE test = "rtscts"
  BY <1>1, <1>2 DEF Answers, Frame, Matches, Want, Fits, RtsCts, Awaited, Any
<1>3. CASE test = "badbssid"
  BY <1>1, <1>3 DEF Answers, Frame, Matches, Want, Fits, DataInvalidBssid, Awaited, Any
<1>4. CASE test = "badbssiddeauth"
  BY <1>1, <1>4 DEF Answers, Frame, Matches, Want, Fits, DataInvalidBssidDeauth,
     Awaited, Any
<1>5. CASE test = "goodbssid"
  BY <1>1, <1>5 DEF Answers, Frame, Matches, Want, Fits, DataValidBssid, Awaited, Any
<1>6. CASE test = "badsrc"
  BY <1>1, <1>6 DEF Answers, Frame, Matches, Want, Fits, NullDataInvalidSrc,
     Awaited, Any
<1>7. QED
  BY <1>2, <1>3, <1>4, <1>5, <1>6 DEF Tests

LEMMA HeardStep == TypeInv /\ [Next]_vars => (test # "mcast" => ~Overheard)
<1> SUFFICES ASSUME TypeInv, [Next]_vars, test # "mcast", Overheard PROVE FALSE
  OBVIOUS
<1> DEFINE f == Head(air)
<1>1. /\ sig = "none" /\ pc = "loop" /\ Len(air') < Len(air)
      /\ f.ours /\ f.flags # "retry" /\ ~TooShort(f) /\ offset # "wrong" /\ Duration > 0
      /\ pc' # "response"
  BY DEF Overheard, At
<1>2. air' # air
  <2>1. Len(air) \in Nat
    BY DEF TypeInv, HeardType
  <2>2. QED
    BY <1>1, <2>1
<1>3. CASE Read
  <2>1. air # <<>> /\ Judge(f)
    BY <1>1, <1>2, <1>3 DEF Read, Round, NextFrame, NoFrame
  <2>2. f \in Noise(test) \cup Answers(test)
    BY <2>1, ReadFrame
  <2>3. Matches(f)
    BY <1>1, <2>2, OursMatch DEF TypeInv
  <2>4. Verdicts(f) = {TRUE}
    BY <1>1, <2>3 DEF Verdicts
  <2>5. pc' = "response"
    BY <1>1, <2>1, <2>4 DEF Judge, Goto
  <2>6. QED
    BY <1>1, <2>5
<1>4. CASE \E g \in Noise(test) \cup Answers(test) : Arrive(g)
  <2>1. PICK g \in Noise(test) \cup Answers(test) : Arrive(g)
    BY <1>4
  <2> DEFINE N == Noise(test) \cup Answers(test)
  <2>2. air \in Seq(N) /\ g \in N /\ air' = Append(air, g)
    BY <2>1 DEF TypeInv, HeardType, Arrive
  <2> HIDE DEF N
  <2>3. Len(air') = Len(air) + 1 /\ Len(air) \in Nat
    BY <2>2
  <2>4. QED
    BY <1>1, <2>3
<1>5. QED
  BY <1>1, <1>2, <1>3, <1>4, HearingSteps DEF Silently, PrintResponse, At
-----------------------------------------------------------------------------
(***************************************************************************)
(* The deadline.                                                           *)
(***************************************************************************)
Watches == sig = "none" /\ pc \in Watching

(* Steps taken outside a watch, and those that leave it. *)
Elsewhere == ~Watches /\ ~Watches' /\ UNCHANGED <<clock, times, watch>>
Leaving   == ~Watches' /\ Forget

LEMMA ClockSteps ==
  [Next]_vars =>
    \/ StartWatch \/ FirstNow \/ Read \/ LoopEnds \/ Tick
    \/ Elsewhere \/ Leaving
    \/ UNCHANGED <<pc, sig, clock, times, watch>>
<1> SUFFICES ASSUME [Next]_vars
             PROVE  \/ StartWatch \/ FirstNow \/ Read \/ LoopEnds \/ Tick
                    \/ Elsewhere \/ Leaving
                    \/ UNCHANGED <<pc, sig, clock, times, watch>>
  OBVIOUS
<1> USE DEF At, Goto, Exit, Watches, Watching, Elsewhere, Leaving, Untimed
<1>1. ASSUME NEW given, Args(given) PROVE Elsewhere
  BY <1>1 DEF Args
<1>2. CASE TxInit \/ Configure \/ PcapOpen
  BY <1>2 DEF TxInit, Configure, TxStep, PcapOpen
<1>3. CASE Datalink \/ RadiotapOffset
  BY <1>3 DEF Datalink, RadiotapOffset, FirstProbe
<1>4. CASE BadHeader \/ ReturnError \/ Send \/ Sleep \/ Return
  BY <1>4 DEF BadHeader, ReturnError, Send, Sleep, Return
<1>5. CASE PrintResponse \/ PrintNoResponse \/ Raise
  BY <1>5 DEF PrintResponse, PrintNoResponse, Raise
<1>6. CASE SigExit
  BY <1>6 DEF SigExit, HandlerStep, Ended
<1>7. ASSUME NEW f, Arrive(f) PROVE UNCHANGED <<pc, sig, clock, times, watch>>
  BY <1>7 DEF Arrive
<1>8. CASE UNCHANGED vars
  BY <1>8 DEF vars
<1>9. QED
  BY <1>1, <1>2, <1>3, <1>4, <1>5, <1>6, <1>7, <1>8 DEF Next, Program, Main

(* The types of the clock, as numbers. *)
LEMMA ClockType ==
  TypeInv => /\ starttime \in Nat /\ starttime < TimeMod
             /\ clock \in Nat /\ clock < TimeMod
             /\ finishtime \in Nat /\ now \in Nat
             /\ passed \in Nat /\ asked \in Nat
             /\ tried \in BOOLEAN /\ skipped \in BOOLEAN
<1> SUFFICES ASSUME TypeInv
             PROVE  /\ starttime \in Nat /\ starttime < TimeMod
                    /\ clock \in Nat /\ clock < TimeMod
                    /\ finishtime \in Nat /\ now \in Nat
                    /\ passed \in Nat /\ asked \in Nat
                    /\ tried \in BOOLEAN /\ skipped \in BOOLEAN
  OBVIOUS
<1>1. \A n \in Times : n \in Nat /\ n < TimeMod
  BY Sizes DEF Times
<1>2. \A n \in 0 .. MaxWatch : n \in Nat
  BY Sizes
<1>3. QED
  BY <1>1, <1>2 DEF TypeInv, WatchType

(* As long as the clock does not wrap it shows the time-out's passing. *)
LEMMA DeadlineShows ==
  ASSUME NEW start \in Nat, NEW spent \in Nat, start + Timeout < TimeMod
  PROVE  /\ (start + spent) % TimeMod >= (start + Timeout) % TimeMod => spent >= Timeout
         /\ /\ start + spent < TimeMod
            /\ (start + spent) % TimeMod < (start + Timeout) % TimeMod
            => spent < Timeout
<1>1. (start + Timeout) % TimeMod = start + Timeout
  BY Sizes, ModSmall
<1>2. (start + spent) % TimeMod <= start + spent /\ (start + spent) % TimeMod \in Nat
  <2> DEFINE sum == start + spent
  <2>1. sum \in Nat
    OBVIOUS
  <2> HIDE DEF sum
  <2>2. sum % TimeMod <= sum
    BY <2>1, Sizes, ModLess
  <2>3. sum % TimeMod \in Nat
    <3>1. sum \in Int
      BY <2>1
    <3>2. QED
      BY <3>1, Sizes, ModRange
  <2>4. QED
    BY <2>2, <2>3 DEF sum
<1>3. start + spent < TimeMod => (start + spent) % TimeMod = start + spent
  BY Sizes, ModSmall
<1>4. QED
  BY <1>1, <1>2, <1>3, Sizes

LEMMA TimedStep == TypeInv /\ Timed /\ [Next]_vars => Timed'
<1> SUFFICES ASSUME TypeInv, Timed, [Next]_vars PROVE Timed'
  OBVIOUS
<1> USE DEF At, Goto, Watching
<1>1. CASE StartWatch
  <2>1. /\ sig' = "none" /\ pc' = "watch" /\ sig = "none" /\ pc = "start"
        /\ UNCHANGED <<passed, tried, skipped>>
        /\ starttime' = clock' /\ finishtime' = (clock' + Timeout) % TimeMod
        /\ clock' \in Times
    BY <1>1 DEF StartWatch, watch
  <2>2. passed = 0 /\ ~tried /\ ~skipped
    BY <2>1 DEF Timed
  <2>3. clock' = (starttime' + passed') % TimeMod
    <3>1. clock' \in Nat /\ clock' < TimeMod
      BY <2>1, Sizes DEF Times
    <3>2. passed' = 0 /\ starttime' = clock'
      BY <2>1, <2>2
    <3>3. \A c \in Nat : c < TimeMod => (c + 0) % TimeMod = c
      BY Sizes, ModSmall
    <3>4. QED
      BY <3>1, <3>2, <3>3
  <2>4. QED
    BY <2>1, <2>2, <2>3 DEF Timed, BlindOnlyAtWrap
<1>2. CASE FirstNow
  <2>1. /\ sig' = "none" /\ pc' = "loop" /\ sig = "none" /\ pc = "watch"
        /\ now' = clock /\ asked' = passed
        /\ UNCHANGED <<clock, starttime, finishtime, passed, tried, skipped>>
    BY <1>2 DEF FirstNow
  <2>2. QED
    BY <2>1 DEF Timed, BlindOnlyAtWrap
<1>3. CASE Read
  <2>1. /\ sig = "none" /\ pc = "loop" /\ tried' = TRUE
        /\ UNCHANGED <<clock, starttime, finishtime, passed>>
    BY <1>3 DEF Read, Round
  <2>2. CASE NoFrame
    BY <2>1, <2>2 DEF NoFrame, Timed, BlindOnlyAtWrap
  <2>3. CASE NextFrame(clock)
    <3>1. /\ asked' = passed /\ sig' = "none" /\ pc' \in {"loop", "response", "silent"}
          /\ \/ skipped' = TRUE
             \/ now' = clock
      BY <2>1, <2>3 DEF NextFrame, Judge
    <3>2. QED
      BY <2>1, <3>1 DEF Timed, BlindOnlyAtWrap
  <2>4. QED
    BY <1>3, <2>2, <2>3 DEF Read, Round
<1>4. CASE LoopEnds
  <2>1. /\ sig = "none" /\ pc = "loop" /\ sig' = "none" /\ pc' = "silent"
        /\ now >= finishtime
        /\ UNCHANGED <<clock, starttime, finishtime, now, passed, asked, tried, skipped>>
    BY <1>4 DEF LoopEnds, Untimed, times, watch
  <2>2. ~tried => starttime + Timeout >= TimeMod \/ asked >= Timeout
    <3>1. SUFFICES ASSUME ~tried, ~(starttime + Timeout >= TimeMod)
                   PROVE  asked >= Timeout
      OBVIOUS
    <3>2. now = (starttime + asked) % TimeMod /\ finishtime = (starttime + Timeout) % TimeMod
      BY <2>1, <3>1 DEF Timed
    <3>3. starttime + Timeout < TimeMod /\ starttime \in Nat /\ asked \in Nat
      BY <3>1, ClockType, Sizes
    <3>4. QED
      BY <2>1, <3>2, <3>3, DeadlineShows
  <2>3. QED
    BY <2>1, <2>2 DEF Timed, BlindOnlyAtWrap
<1>5. CASE Tick
  <2>1. /\ sig = "none" /\ pc \in {"watch", "loop"} /\ UNCHANGED <<sig, pc>>
        /\ clock' = (clock + 1) % TimeMod /\ passed' = passed + 1
        /\ UNCHANGED <<starttime, finishtime, now, asked, tried, skipped>>
    BY <1>5 DEF Tick, times
  <2>2. clock = (starttime + passed) % TimeMod
    BY <2>1 DEF Timed
  <2>3. clock' = (starttime' + passed') % TimeMod
    <3>1. starttime + passed \in Nat /\ starttime \in Nat /\ passed \in Nat
      BY ClockType
    <3>2. clock' = (starttime + passed + 1) % TimeMod
      BY <2>1, <2>2, <3>1, ModStep, Sizes
    <3>3. starttime + passed + 1 = starttime + (passed + 1)
      BY <3>1
    <3>4. QED
      BY <2>1, <3>2, <3>3
  <2>4. QED
    BY <2>1, <2>3 DEF Timed, BlindOnlyAtWrap
<1>6. CASE Elsewhere
  BY <1>6 DEF Elsewhere, Watches, times, watch, Timed, BlindOnlyAtWrap
<1>7. CASE Leaving
  BY <1>7 DEF Leaving, Forget, Watches, Timed, BlindOnlyAtWrap
<1>8. CASE UNCHANGED <<pc, sig, clock, times, watch>>
  BY <1>8 DEF times, watch, Timed, BlindOnlyAtWrap
<1>9. QED
  BY <1>1, <1>2, <1>3, <1>4, <1>5, <1>6, <1>7, <1>8, ClockSteps

LEMMA TimedKeeps == TypeInv /\ Timed => DeadlineKept
<1> SUFFICES ASSUME TypeInv, Timed, At("loop"), now < finishtime, asked >= Timeout,
                    ~skipped, ~(starttime + asked >= TimeMod)
             PROVE  FALSE
  BY DEF DeadlineKept
<1>1. now = (starttime + asked) % TimeMod /\ finishtime = (starttime + Timeout) % TimeMod
  BY DEF Timed
<1>2. starttime \in Nat /\ asked \in Nat /\ starttime + asked < TimeMod
      /\ starttime + Timeout < TimeMod
  BY ClockType, Sizes
<1>3. asked < Timeout
  BY <1>1, <1>2, DeadlineShows
<1>4. QED
  BY <1>2, <1>3, Sizes
-----------------------------------------------------------------------------
(***************************************************************************)
(* Signals.                                                                *)
(***************************************************************************)
LEMMA ClosingStep == TypeInv /\ ClosedOnTheWayOut /\ [Next]_vars => ClosedOnTheWayOut'
<1> SUFFICES ASSUME TypeInv, ClosedOnTheWayOut, [Next]_vars PROVE ClosedOnTheWayOut'
  OBVIOUS
<1> USE DEF At, Goto, Exit, setup
<1>1. raised \in Nat
  BY Sizes DEF TypeInv, PlaceType
<1>2. ASSUME UNCHANGED <<sig, raised, p>>, sig = "none",
             pc \notin {"return-1", "exited"}
      PROVE  ClosedOnTheWayOut'
  BY <1>1, <1>2 DEF ClosedOnTheWayOut, TypeInv, PlaceType
<1>3. ASSUME NEW given, Args(given) PROVE ClosedOnTheWayOut'
  BY <1>2, <1>3 DEF Args
<1>4. CASE TxInit \/ Configure \/ Datalink \/ RadiotapOffset
  BY <1>2, <1>4 DEF TxInit, Configure, TxStep, Datalink, RadiotapOffset
<1>5. CASE PcapOpen
  BY <1>5 DEF PcapOpen, ClosedOnTheWayOut
<1>6. CASE BadHeader
  BY <1>6 DEF BadHeader, ClosedOnTheWayOut
<1>7. CASE ReturnError
  BY <1>7 DEF ReturnError, ClosedOnTheWayOut
<1>8. CASE Send \/ StartWatch \/ FirstNow \/ LoopEnds \/ PrintResponse \/ PrintNoResponse
  BY <1>2, <1>8 DEF Send, StartWatch, FirstNow, LoopEnds, PrintResponse, PrintNoResponse
<1>9. CASE Sleep \/ Return
  BY <1>2, <1>9 DEF Sleep, Return
<1>10. CASE Read
  BY <1>2, <1>10 DEF Read, Round, NextFrame, NoFrame, Judge
<1>11. CASE Raise
  <2>1. sig' = "close" /\ raised' = raised + 1 /\ UNCHANGED <<pc, p>>
        /\ pc \notin {"exited", "crashed"}
    BY <1>11 DEF Raise, Ended
  <2>2. sig # "none" => raised' >= 2
    BY <1>1, <2>1 DEF ClosedOnTheWayOut
  <2>3. raised' >= 1
    BY <1>1, <2>1
  <2>4. p = "closed" => pc = "return-1" \/ raised' >= 2
    BY <1>1, <2>1, <2>2 DEF ClosedOnTheWayOut
  <2>5. QED
    BY <2>1, <2>3, <2>4 DEF ClosedOnTheWayOut
<1>12. CASE SigExit
  BY <1>1, <1>12 DEF SigExit, HandlerStep, Ended, ClosedOnTheWayOut
<1>13. ASSUME NEW f, Arrive(f) PROVE ClosedOnTheWayOut'
  BY <1>13 DEF Arrive, ClosedOnTheWayOut
<1>14. CASE Tick
  BY <1>14 DEF Tick, ClosedOnTheWayOut
<1>15. CASE UNCHANGED vars
  BY <1>15 DEF vars, ClosedOnTheWayOut
<1>16. QED
  BY <1>3, <1>4, <1>5, <1>6, <1>7, <1>8, <1>9, <1>10, <1>11, <1>12, <1>13, <1>14, <1>15
  DEF Next, Program, Main

(* Of the steps, only the handler's pcap_close can find the capture closed. *)
LEMMA TwiceStep ==
  TypeInv /\ ClosedOnTheWayOut /\ [Next]_vars
    => (refreed' /\ ~refreed => raised' >= 2 \/ pc = "return-1")
<1> SUFFICES ASSUME TypeInv, ClosedOnTheWayOut, [Next]_vars, refreed', ~refreed
             PROVE  raised' >= 2 \/ pc = "return-1"
  OBVIOUS
<1>1. ASSUME UNCHANGED refreed PROVE FALSE
  BY <1>1
<1>2. SigExit
  <2> USE DEF Unheard, ledger
  <2>1. ASSUME NEW given, Args(given) PROVE FALSE
    BY <1>1, <2>1 DEF Args
  <2>2. ~(TxInit \/ Configure \/ PcapOpen \/ Datalink \/ RadiotapOffset \/ BadHeader)
    BY <1>1 DEF TxInit, Configure, TxStep, PcapOpen, Datalink, RadiotapOffset, BadHeader
  <2>3. ~(ReturnError \/ Send \/ StartWatch \/ FirstNow \/ Read \/ LoopEnds)
    BY <1>1 DEF ReturnError, Send, StartWatch, FirstNow, Read, Round, LoopEnds
  <2>4. ~(PrintResponse \/ PrintNoResponse \/ Sleep \/ Return \/ Raise \/ Tick)
    BY <1>1 DEF PrintResponse, PrintNoResponse, Sleep, Return, Raise, Tick
  <2>5. ASSUME NEW f, Arrive(f) PROVE FALSE
    BY <1>1, <2>5 DEF Arrive
  <2>6. ~UNCHANGED vars
    BY <1>1 DEF vars
  <2>7. QED
    BY <2>1, <2>2, <2>3, <2>4, <2>5, <2>6 DEF Next, Program, Main
<1>3. sig = "pcap_close" /\ raised' = raised /\ p = "closed"
  BY <1>1, <1>2 DEF SigExit, HandlerStep, Unheard, ledger
<1>4. QED
  BY <1>3 DEF ClosedOnTheWayOut
-----------------------------------------------------------------------------
(***************************************************************************)
(* The inductive invariant, and what it is for.                            *)
(***************************************************************************)
Inv == TypeInv /\ EachOnce /\ Ours /\ Timed /\ ClosedOnTheWayOut

LEMMA InvInit == Init => Inv
<1> SUFFICES ASSUME Init PROVE Inv
  OBVIOUS
<1>1. EachOnce
  BY DEF Init, EachOnce
<1>2. Ours /\ Timed /\ ClosedOnTheWayOut
  BY DEF Init, Ours, AnswersAreOurs, Timed, BlindOnlyAtWrap, ClosedOnTheWayOut, At,
         Watching, Null
<1>3. QED
  BY <1>1, <1>2, TypeInit DEF Inv

LEMMA InvStep == Inv /\ [Next]_vars => Inv'
BY TypeStep, EachOnceStep, OursStep, TimedStep, ClosingStep DEF Inv

LEMMA Invariance == Spec => []Inv
BY InvInit, InvStep, PTL DEF Spec

(* Every variable keeps its type; the frames in the capture are those of   *)
(* the test that runs (main, watchfor).                                    *)
THEOREM TypeCorrect == Spec => []TypeOK
<1>1. Inv => TypeOK
  BY TypeInvIsType DEF Inv
<1>2. QED
  BY Invariance, <1>1, PTL

(* A response is printed for a frame that one of this run's probes         *)
(* provoked, but for the test of false positives and an unknown link type  *)
(* (watchfor, testcases).                                                  *)
THEOREM AnswersOurs == Spec => []AnswersAreOurs
<1>1. Inv => AnswersAreOurs
  BY DEF Inv, Ours
<1>2. QED
  BY Invariance, <1>1, PTL

(* However many probes are sent and frames lost, no frame is the answer to *)
(* two of them (watchfor).                                                 *)
THEOREM CountedOnce == Spec => []AnswersCountOnce
<1>1. Inv => AnswersCountOnce
  <2> SUFFICES ASSUME Inv PROVE AnswersCountOnce
    OBVIOUS
  <2>1. Len(air) \in Nat /\ printed \in Nat /\ arrived \in Nat
    BY Sizes DEF Inv, TypeInv, HeardType
  <2>2. QED
    BY <2>1 DEF Inv, EachOnce, AnswersCountOnce
<1>2. QED
  BY Invariance, <1>1, PTL

(* For every time-out and every size of the clock, a watch reads on after  *)
(* its time only over a frame too short or a clock that wrapped (watchfor). *)
THEOREM DeadlineHolds == Spec => []DeadlineKept
<1>1. Inv => DeadlineKept
  BY TimedKeeps DEF Inv
<1>2. QED
  BY Invariance, <1>1, PTL

(* ... and gives up unread only if its deadline wrapped or the program was *)
(* held up (watchfor).                                                     *)
THEOREM BlindAtWrap == Spec => []BlindOnlyAtWrap
<1>1. Inv => BlindOnlyAtWrap
  BY DEF Inv, Timed
<1>2. QED
  BY Invariance, <1>1, PTL

(* No step reads an answer and reports nothing, but for those that         *)
(* AnswersHeard names (watchfor).                                          *)
THEOREM AnswersReported == Spec => AnswersHeard
<1>1. Inv /\ [Next]_vars => [test # "mcast" => ~Overheard]_vars
  BY HeardStep DEF Inv
<1>2. QED
  BY Invariance, <1>1, PTL DEF Spec, AnswersHeard

(* With any number of signals, it takes two, or one while main closes the  *)
(* capture itself, to close it twice (sigexit, main).                      *)
THEOREM ClosedTwice == Spec => ClosedTwiceInARace
<1>1. Inv /\ [Next]_vars
        => [refreed' /\ ~refreed => raised' >= 2 \/ pc = "return-1"]_vars
  BY TwiceStep DEF Inv
<1>2. QED
  BY Invariance, <1>1, PTL DEF Spec, ClosedTwiceInARace
=============================================================================
