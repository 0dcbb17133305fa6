------------------------------- MODULE Transmit -------------------------------
(***************************************************************************)
(* The programs tx and tuntx from their arguments to their exit, and       *)
(* l2ping80211 up to its init: which driver a name gets, how the handle is *)
(* made ready, and what each driver's send does with a frame and tells the *)
(* program.  Another process may tune the card meanwhile.  Requests to the *)
(* kernel fail at will; what the calls do to descriptors and interfaces is *)
(* in Session and Madwifing, what l2ping80211 does with answers in L2ping. *)
(***************************************************************************)
EXTENDS Wext, Cards

CONSTANTS
  Programs,    \* of "tx", "tuntx", "l2ping"
  DriverNames, \* arguments of -d, Null if it is not given
  Channels,    \* arguments of -c, 0 if it is not given
  Counts,      \* arguments of -n
  Tuning,      \* frequencies in MHz others tune the card to
  MaxRetunes,  \* bound: how often they do
  MaxTap,      \* bound: frames the tap device delivers to tuntx
  SelectTime   \* the 250 ms of the select loop, in ticks

ASSUME TransmitAssumption ==
  /\ Programs \subseteq {"tx", "tuntx", "l2ping"}
  /\ Channels \subseteq 0 .. IntMax /\ Counts \subseteq Nat
  /\ Tuning \subseteq 0 .. IntMax /\ Tuning # {}
  /\ MaxRetunes \in Nat /\ MaxTap \in Nat /\ SelectTime \in Nat \ {0}

VARIABLES
  prog, platform, name, channel, count,  \* the program and its arguments; what
                                         \* is left of -n or of the tap's frames
  pc,
  inj,        \* injectortype
  raw,        \* raw_fd: the 0 of init, a held socket, or closed
  modulation, \* of in_packet
  mhz,        \* what the card is tuned to
  chan,       \* what getchannel returned for the frame
  freq, band, \* wr_chan_freq and wr_chan_flags of its radiotap header
  tv,         \* what is left of select's time
  exit        \* how the program ended

VARIABLES     \* history
  accepted,   \* sends that returned no error
  whole, partial, junk,  \* frames written: complete, in part, other bytes
  retunes, raced,        \* has the card been tuned anew since chan was read
  lost,       \* frame buffers nobody will free
  socks,      \* sockets of aj_xmitframe
  adapters,   \* AirPcap adapters opened
  cards,      \* blocks of card lists nobody will free
  stdin       \* is the program's descriptor 0 its own still

args    == <<prog, platform, name, channel>>
packet  == <<modulation, chan, freq, band>>
written == <<whole, partial, junk>>
ledger  == <<lost, socks, adapters, cards, stdin>>
vars    == <<args, count, pc, inj, raw, packet, mhz, tv, exit, accepted, written,
             retunes, raced, ledger>>

Modulations == {"default", "fhss", "dsss", "ofdm", "turbo", "mimo", "mimogf", "garbage"}

Init ==
  /\ prog \in Programs /\ platform \in Platforms /\ name \in DriverNames
  /\ channel \in Channels
  /\ prog = "l2ping" => channel = 0
  /\ prog # "l2ping" => name # Null
  /\ count \in IF prog = "tx" THEN Counts ELSE {IF prog = "tuntx" THEN MaxTap ELSE 0}
  /\ pc = "args" /\ inj = Inj.NODRIVER /\ raw = "zero"
  /\ modulation = "default" /\ chan = 0 /\ freq = 0 /\ band = "none"
  /\ mhz = Min(Tuning) /\ tv = 0 /\ exit = "none"
  /\ accepted = 0 /\ whole = 0 /\ partial = 0 /\ junk = 0
  /\ retunes = 0 /\ raced = FALSE
  /\ lost = 0 /\ socks = 0 /\ adapters = 0 /\ cards = {} /\ stdin = TRUE

Exit(e) == pc' = "done" /\ exit' = e
Go(l)   == pc' = l /\ UNCHANGED exit
Handler == Installed(platform, inj)

startup == <<args, count, packet, mhz, tv, accepted, written, retunes, raced, lost, socks, stdin>>
-----------------------------------------------------------------------------
(***************************************************************************)
(* The arguments.                                                          *)
(***************************************************************************)

(* usage() shows the card list; tx and tuntx never free it, l2ping80211    *)
(* frees it even if there was no memory for one.                           *)
Usage ==
  \E k \in 1 .. 6 :
    IF prog = "l2ping"
      THEN IF k < 6 THEN Exit("crash") /\ cards' = Getcardlist(k)
           ELSE Exit("error") /\ cards' = Freecardlist(Getcardlist(k))
      ELSE Exit("error") /\ cards' = Getcardlist(k)

(* tx80211_getdrivername does not look whether there is a list either.     *)
Getdrivername(l) ==
  \E k \in 1 .. 6 :
    IF k < 6 THEN Exit("crash") /\ cards' = Getcardlist(k)
             ELSE Go(l) /\ cards' = Freecardlist(Getcardlist(k))

SysDrivers == {Null, "hostap", "prism54", "madwifing", "ath_pci", "ath5k"}

Arguments ==
  /\ pc = "args"
  /\ IF name = Null
       THEN \E drv \in SysDrivers, phy \in BOOLEAN :
              /\ inj' = Resolveinterface(platform, drv, phy)
              /\ IF inj' = Inj.NODRIVER THEN Usage ELSE Getdrivername("init")
       ELSE /\ inj' = Resolvecard(platform, name)
            /\ IF inj' # Inj.NODRIVER THEN Go("init") /\ UNCHANGED cards
               ELSE Usage
  /\ UNCHANGED <<startup, raw, adapters>>

(* tx80211_init; from here on L2ping has l2ping80211's part.  The AirPcap  *)
(* driver opens an adapter.                                                *)
TxInit ==
  /\ pc = "init"
  /\ \/ /\ inj \in Dispatched(platform)
        /\ IF prog = "l2ping" THEN Exit("ok")
           ELSE Go(IF prog = "tx" THEN "mode" ELSE "tun")
        /\ adapters' = IF inj = Inj.AIRPCAP THEN 1 ELSE 0
     \/ /\ inj \notin Dispatched(platform) \/ inj = Inj.AIRPCAP
        /\ Exit("error")
        /\ UNCHANGED adapters
  /\ UNCHANGED <<startup, raw, inj, cards>>

(* tuntx makes its tap device: open, three ioctls and a socket.            *)
SetupTun ==
  /\ pc = "tun"
  /\ Go("mode") \/ Exit("error")
  /\ UNCHANGED <<startup, raw, inj, adapters, cards>>

(* tx sets the functional mode, which two drivers have no handler for,     *)
(* tuntx the plain mode.  madwifi-ng opens its socket here.                *)
SetMode ==
  /\ pc = "mode"
  /\ \/ Exit("error") /\ UNCHANGED raw
     \/ /\ prog = "tx" => Handler.funcmode # Null
        /\ Go("channel")
        /\ raw' = IF prog = "tx" /\ inj = Inj.MADWIFING THEN "held" ELSE raw
  /\ UNCHANGED <<startup, inj, adapters, cards>>

(* Not asked for in tx if it is 0; tuntx always asks, and a driver may take*)
(* 0 to leave the channel as it is.                                        *)
SetChannel ==
  /\ pc = "channel"
  /\ \/ /\ prog = "tuntx" \/ channel > 0
        /\ Exit("error")
        /\ UNCHANGED mhz
     \/ /\ Go("open")
        /\ mhz' = IF channel = 0 THEN mhz ELSE Tuned(ChannelRequest(channel))
  /\ UNCHANGED <<args, count, packet, tv, accepted, written, retunes, raced, raw, inj, ledger>>

(* madwifing_open does nothing; airpcap_open opens the adapter once more.  *)
(* tx clears its packet and asks for DSSS if the driver can set it; tuntx  *)
(* leaves its packet as the stack has it.                                  *)
Open ==
  /\ pc = "open"
  /\ \/ /\ Handler.open # "madwifing"
        /\ Exit("error")
        /\ adapters' \in {adapters, IF inj = Inj.AIRPCAP THEN 2 ELSE adapters}
        /\ UNCHANGED <<raw, modulation>>
     \/ /\ Go(IF prog = "tx" THEN "loop" ELSE "pcap")
        /\ raw' = IF Handler.open \in {"madwifing", "airpcap"} THEN raw ELSE "held"
        /\ adapters' = IF inj = Inj.AIRPCAP THEN 2 ELSE adapters
        /\ IF prog = "tx"
             THEN modulation' = IF "SETMODULATION" \in Handler.caps THEN "dsss" ELSE "default"
             ELSE modulation' \in Modulations
  /\ UNCHANGED <<args, count, chan, freq, band, mhz, tv, accepted, written, retunes,
                 raced, inj, lost, socks, cards, stdin>>

OpenTap ==
  /\ pc = "pcap"
  /\ Go("loop") \/ Exit("error")
  /\ UNCHANGED <<startup, raw, inj, adapters, cards>>
-----------------------------------------------------------------------------
(***************************************************************************)
(* The send loops.  chan, freq and band are those of the frame in hand.    *)
(***************************************************************************)
frame == <<chan, freq, band, tv, raced>>
ClearFrame ==
  /\ chan' = 0 /\ freq' = 0 /\ band' = "none"
  /\ tv' = 0 /\ raced' = FALSE

(* tx takes the next frame or is finished; the tap's next frame, or silence *)
(* for a second, which pcap_next reports as it does an error.              *)
NextFrame ==
  /\ pc = "loop"
  /\ \/ /\ count > 0
        /\ count' = count - 1
        /\ Go("send")
     \/ /\ count = 0 \/ prog = "tuntx"
        /\ Go("close")
        /\ UNCHANGED count
  /\ UNCHANGED <<args, inj, raw, packet, mhz, tv, accepted, written, retunes, raced, ledger>>

(* txpacket returned: an error ends tx at once and tuntx's loop.           *)
Accept == Go("loop") /\ accepted' = accepted + 1 /\ ClearFrame
Refuse ==
  /\ IF prog = "tx" THEN Exit("error") ELSE Go("close")
  /\ UNCHANGED accepted
  /\ ClearFrame

(* What the kernel does with the bytes of one write.                       *)
WriteWhole   == whole' = whole + 1 /\ UNCHANGED <<partial, junk>>
WritePartial == partial' = partial + 1 /\ UNCHANGED <<whole, junk>>
WriteNothing == UNCHANGED written

(* Fault variant of WtinjSend: an error is what write returned too.        *)
WtinjSendUnchecked ==
  \/ WriteWhole /\ Accept
  \/ WritePartial /\ Accept
  \/ WriteNothing /\ Accept

(* A part of the frame counts as sent: its length is returned.             *)
WtinjSend ==
  \/ raw # "zero" /\ WriteWhole /\ Accept
  \/ raw # "zero" /\ WritePartial /\ Accept
  \/ WriteNothing /\ Refuse

Rt2570Send ==
  \/ raw # "zero" /\ WriteWhole /\ Accept
  \/ raw # "zero" /\ WritePartial /\ Refuse
  \/ WriteNothing /\ IF raw = "zero" THEN Accept ELSE Refuse

(* wlan-ng refuses frames shorter than a header, which a tap's can be, and *)
(* puts the payload behind a structure of its own.                         *)
WginjSend ==
  \/ raw # "zero" /\ WriteWhole /\ Accept
  \/ raw # "zero" /\ WritePartial /\ Refuse
  \/ WriteNothing /\ Refuse

SendPlain ==
  /\ pc = "send"
  /\ \/ Handler.send = "wtinj"  /\ WtinjSend
     \/ Handler.send = "rt2570" /\ Rt2570Send
     \/ Handler.send = "wginj"  /\ WginjSend
  /\ UNCHANGED <<args, count, inj, raw, modulation, mhz, retunes, ledger>>
-----------------------------------------------------------------------------
(***************************************************************************)
(* madwifing_send, tx80211_mac80211_send, tx80211_zd1211rw_send and        *)
(* airpcap_send: a buffer, the channel, a radiotap header, the write.      *)
(***************************************************************************)
SendRadiotap ==
  /\ pc = "send" /\ Handler.send \in {"radiotap", "airpcap"}
  /\ \/ Refuse                                          \* no memory
     \/ Go("getchan") /\ UNCHANGED <<accepted, frame>>
  /\ UNCHANGED <<args, count, inj, raw, modulation, mhz, written, retunes, ledger>>

(* iwconfig_get_channel, or the number AirPcap has.                        *)
Getchannel ==
  IF inj = Inj.AIRPCAP
    THEN {-17} \cup {c \in 1 .. 200 : Chan2mhz(c) = mhz}
    ELSE {-1} \cup {Floatchan2int(Megahertz(f)) : f \in Reports(mhz)}

RtapChan(m, c) ==
  CASE m = "default" -> "none"
    [] m = "dsss"    -> "B"
    [] m = "ofdm"    -> IF c <= 14 THEN "G" ELSE "A"
    [] m = "turbo"   -> IF c <= 14 THEN "TG" ELSE "TA"

Supported == {"default", "dsss", "ofdm", "turbo"}

(* Fault variant of FillHeader: every channel is on the 2.4 GHz raster.     *)
FillHeaderStale ==
  /\ pc = "getchan"
  /\ \E c \in Getchannel :
       IF modulation \in Supported
         THEN /\ chan' = c
              /\ freq' = 2407 + 5 * c
              /\ band' = RtapChan(modulation, c)
              /\ Go("write")
              /\ UNCHANGED <<accepted, tv, raced, lost>>
         ELSE Refuse /\ UNCHANGED lost
  /\ UNCHANGED <<args, count, inj, raw, modulation, mhz, written, retunes,
                 socks, adapters, cards, stdin>>

(* Any other modulation is refused, and the buffer is not freed.           *)
FillHeader ==
  /\ pc = "getchan"
  /\ \E c \in Getchannel :
       IF modulation \in Supported
         THEN /\ chan' = c
              /\ freq' = Chan2mhz(c)
              /\ band' = RtapChan(modulation, c)
              /\ Go("write")
              /\ UNCHANGED <<accepted, tv, raced, lost>>
         ELSE Refuse /\ lost' = lost + 1
  /\ UNCHANGED <<args, count, inj, raw, modulation, mhz, written, retunes,
                 socks, adapters, cards, stdin>>

(* Through wtinj_send; AirPcap writes a frame or does not.                 *)
WriteRadiotap ==
  /\ pc = "write"
  /\ \/ /\ raw # "zero" \/ inj = Inj.AIRPCAP
        /\ WriteWhole
        /\ Accept
     \/ raw # "zero" /\ WritePartial /\ Refuse
     \/ WriteNothing /\ Refuse
  /\ UNCHANGED <<args, count, inj, raw, modulation, mhz, retunes, ledger>>
-----------------------------------------------------------------------------
(***************************************************************************)
(* aj_xmitframe: a socket for the frame, another to see whether sockets    *)
(* block, which new ones do; then a write, or a loop around select if that *)
(* could not be found out.  What is written is not the frame: the address  *)
(* of the argument is passed instead of the argument.                      *)
(***************************************************************************)
AjSocket ==
  /\ pc = "send" /\ Handler.send = "ajinj"
  /\ \/ Refuse /\ UNCHANGED socks
     \/ Go("nonblock") /\ socks' = socks + 1 /\ UNCHANGED <<accepted, frame>>
  /\ UNCHANGED <<args, count, inj, raw, modulation, mhz, written, retunes, lost,
                 adapters, cards, stdin>>

AjGetnonblock ==
  /\ pc = "nonblock"
  /\ \/ Go("ajwrite") /\ UNCHANGED tv
     \/ Go("select") /\ tv' = SelectTime
  /\ UNCHANGED <<args, count, inj, raw, packet, mhz, accepted, written, retunes,
                 raced, ledger>>

(* A time-out or a signal: select has taken what it slept off tv.          *)
AjSelectAgain ==
  /\ pc = "select"
  /\ tv' \in 0 .. tv
  /\ UNCHANGED <<args, count, pc, inj, raw, packet, mhz, exit, accepted, written,
                 retunes, raced, ledger>>

(* Fault variant of AjSelectReady: the loop is left only in its time.      *)
AjSelectReadyInTime ==
  /\ pc = "select" /\ tv > 0
  /\ Go("ajwrite")
  /\ UNCHANGED <<args, count, inj, raw, packet, mhz, tv, accepted, written,
                 retunes, raced, ledger>>

AjSelectReady ==
  /\ pc = "select"
  /\ Go("ajwrite")
  /\ UNCHANGED <<args, count, inj, raw, packet, mhz, tv, accepted, written,
                 retunes, raced, ledger>>

(* The error return leaves the socket open.                                *)
AjSelectError ==
  /\ pc = "select"
  /\ Refuse
  /\ UNCHANGED <<args, count, inj, raw, modulation, mhz, written, retunes, ledger>>

AjWrite ==
  /\ pc = "ajwrite"
  /\ socks' = socks - 1
  /\ \/ junk' = junk + 1 /\ UNCHANGED <<whole, partial>> /\ Accept
     \/ WriteNothing /\ Refuse
     \/ junk' = junk + 1 /\ UNCHANGED <<whole, partial>> /\ Refuse
  /\ UNCHANGED <<args, count, inj, raw, modulation, mhz, retunes, lost, adapters,
                 cards, stdin>>
-----------------------------------------------------------------------------
(* tx80211_close: close(raw_fd), which is 0 if nothing was opened.         *)
Close ==
  /\ pc = "close"
  /\ raw' = "closed"
  /\ stdin' = (stdin /\ raw # "zero")
  /\ Exit("ok")
  /\ UNCHANGED <<args, count, inj, packet, mhz, tv, accepted, written, retunes, raced, lost, socks, adapters, cards>>

(* Another process tunes the card.                                         *)
Retune ==
  /\ pc \in {"loop", "write"} /\ retunes < MaxRetunes
  /\ \E f \in Tuning \ {mhz} : mhz' = f
  /\ retunes' = retunes + 1
  /\ raced' = (pc = "write")
  /\ UNCHANGED <<args, count, pc, inj, raw, packet, tv, exit, accepted, written, ledger>>

Step ==
  \/ Arguments \/ TxInit \/ SetupTun \/ SetMode \/ SetChannel \/ Open \/ OpenTap
  \/ NextFrame \/ SendPlain \/ SendRadiotap \/ FillHeader \/ WriteRadiotap
  \/ AjSocket \/ AjGetnonblock \/ AjWrite \/ Close

Next == Step \/ AjSelectAgain \/ AjSelectReady \/ AjSelectError \/ Retune

Spec == Init /\ [][Next]_vars

(* The program runs, and a socket gets writable since the driver drains its *)
(* queue.  Going round the select loop is no progress.                     *)
FairSpec == Spec /\ WF_vars(Step) /\ WF_vars(AjSelectReady)
-----------------------------------------------------------------------------
(* A frame that was written whole is never reported as an error, and a send *)
(* that is reported as successful wrote the whole frame (wtinj_send,        *)
(* rt2570_send, wginj_send, the radiotap senders, aj_xmitframe).  Two       *)
(* drivers' ways of sending break that.  "TX80211_EPARTTX is returned if    *)
(* only a partial number of bytes were transmitted", says lorcon.3:727:     *)
(* wtinj_send, where nothing frames it, returns the positive number of      *)
(* bytes.  aj_xmitframe, which says it will "transmit the data", writes the *)
(* bytes of its pointer.                                                    *)
SentIsWritten ==
  /\ whole <= accepted /\ accepted <= whole + partial + junk
  /\ accepted > whole => Handler.send \in {"wtinj", "ajinj"}

(* A radiotap header names the frequency the card has when the frame is    *)
(* written, and OFDM or turbo are marked for its band, unless another      *)
(* process has tuned the card since the channel was read, or the read      *)
(* failed or gave a channel that is not in the table (madwifing_send,      *)
(* tx80211_mac80211_send, tx80211_zd1211rw_send, airpcap_send).            *)
HeaderIsTheCards ==
  pc = "write" /\ chan > 0 /\ ~raced =>
    /\ freq = mhz
    /\ band \in {"A", "TA"} => mhz >= 5000
    /\ band \in {"G", "TG"} => mhz < 5000

(* What a finished program has left behind: a frame buffer only if tuntx's *)
(* packet had a modulation the driver cannot send, one socket if select    *)
(* failed, of the card lists only the array of numbers l2ping80211 loses   *)
(* or what the other two print, and its own standard input is closed only  *)
(* by tuntx on madwifi-ng and by AirPcap, which have no socket.            *)
LeftBehind ==
  pc = "done" =>
    /\ lost > 0 => prog = "tuntx" /\ modulation \notin Supported
    /\ socks > 0 => socks = 1 /\ inj = Inj.AIRJACK
    /\ socks > 0 /\ prog = "tx" => exit = "error"
    /\ prog = "l2ping" => cards \subseteq {"injnum"}
    /\ ~stdin => inj = Inj.AIRPCAP \/ (prog = "tuntx" /\ inj = Inj.MADWIFING)

(* The strings that lorcon.3 gives for each driver, under                   *)
(* tx80211_resolvecard.                                                     *)
ManualNames ==
  {<<{"wlanng", "wlan-ng"}, Inj.WLANNG>>, <<{"host-ap", "hostap"}, Inj.HOSTAP>>,
   <<{"airjack"}, Inj.AIRJACK>>, <<{"prismgt", "prism54"}, Inj.PRISM54>>,
   <<{"madwifing", "madwifi-ng"}, Inj.MADWIFING>>,
   <<{"madwifiold", "madwifi-old"}, Inj.MADWIFIOLD>>,
   <<{"rtl8180", "rt8180"}, Inj.RTL8180>>,
   <<{"rt2500", "rtl2500", "rt25k", "rtl25k"}, Inj.RT2500>>,
   <<{"rt2750", "rtl2570"}, Inj.RT2570>>, <<{"rt73", "rtl2571"}, Inj.RT73>>,
   <<{"rt61", "rt2561"}, Inj.RT61>>, <<{"airpcap"}, Inj.AIRPCAP>>,
   <<{"zd1211rw"}, Inj.ZD1211RW>>, <<{"bcm43xx"}, Inj.BCM43XX>>,
   <<{"ath5k", "iwlwifi"}, Inj.MAC80211>>}

(* A name of the manual or of the card list that the library knows gets    *)
(* the driver that goes with it, although names are on several lines and a *)
(* line takes what it should not (tx80211_resolvecard); and a program gets *)
(* past its init only with a driver that has one.  Only l2ping80211 can    *)
(* crash, and only before it has a handle.  Nothing is said of names that  *)
(* the library does not know: for those lorcon.3:222 has INJ_NODRIVER, "not*)
(* recognized", which tx tests for, but on Linux the line without its "!"  *)
(* gives them mac80211, as it does to the manual's "rt2750" and "rtl2571". *)
NameGetsItsDriver ==
  /\ pc \notin {"args", "done"} /\ name \in KnownNames(platform) =>
       /\ \A m \in ManualNames : name \in m[1] => inj = m[2]
       /\ \A n \in DOMAIN CardList :
            name = CardList[n].name /\ n > 1 => inj = CardList[n].inj
  /\ pc \notin {"args", "init", "done"} => inj \in Dispatched(platform)
  /\ exit = "crash" => prog = "l2ping" /\ adapters = 0

(* A program that has its arguments ends, tuntx when the tap is quiet.     *)
Ends == <>(pc = "done")
=============================================================================
