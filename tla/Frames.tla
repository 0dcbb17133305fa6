-------------------------------- MODULE Frames --------------------------------
(***************************************************************************)
(* What lorcon_forge.c puts into a packet list, octet by octet, and what a *)
(* station that follows the structures of ieee80211.h reads from the       *)
(* frozen frame; and where lorcon_decode.c finds the frame when it is      *)
(* captured behind a header of the capture's own.  The host is little-     *)
(* endian.  Components are appended (Packasm), so a list is the sequence of*)
(* its components' octets, without the head.                               *)
(***************************************************************************)
EXTENDS Integers, SequencesExt

CONSTANTS
  Requests,  \* calls of the forging functions, see Forge
  Elements,  \* information elements to add: <<number, length>>
  Qos,       \* QoS headers to add: <<priority, eosp, ackpol>>
  Headers,   \* capture headers: [dlt, kind, hdrlen, field]
  Snaplens,  \* what a capture cuts packets to
  MaxElements \* how many elements a frame is given

(* Fields are below 2^24, so that the upper octets of timestamps are zero. *)
Octet(v, k)  == IF k > 3 THEN 0 ELSE (v \div 256^(k - 1)) % 256
Little(v, n) == [k \in 1 .. n |-> Octet(v, k)]
Fill(v, n)   == [k \in 1 .. n |-> v]

NoMac     == <<>>
Broadcast == Fill(255, 6)
-----------------------------------------------------------------------------
(***************************************************************************)
(* lcpf_randmac with the results r of rand(), one to choose from ouilist,  *)
(* whose entries but the last begin with 0: Tails has the rest of them.    *)
(***************************************************************************)
Tails ==
  <<259, 292, 557, 623, 677, 815, 1082, 1114, 1141, 1250, 1373, 1573,
    1806, 1872, 2081, 2371, 2395, 2428, 2450, 2536, 2625, 2698, 3137,
    3464, 12389, 12459, 12477, 16389, 16422, 16534, 20488, 20619, 20698,
    20722, 24577, 24605, 24685, 24755, 32823, 32966, 32968, 36939,
    37073, 40964, 41208, 57385>>

Ouilist == [k \in DOMAIN Tails |-> <<0, Tails[k] \div 256, Tails[k] % 256>>] \o <<<<8, 0, 70>>>>

Randmac(valid, r) ==
  IF valid THEN Ouilist[(r[1] % Len(Ouilist)) + 1]
                  \o [k \in 1 .. 3 |-> r[k + 3] % 255]
           ELSE [k \in 1 .. 6 |-> r[k] % 255]
-----------------------------------------------------------------------------
(***************************************************************************)
(* The headers: frame control, duration, addresses, sequence control.      *)
(***************************************************************************)
FrameControl(type, subtype, fcflags) ==
  <<(4 * type + 16 * subtype) % 256, fcflags % 256>>

(* In network order, unlike every other field.                             *)
Duration(d) == <<Octet(d, 2), Octet(d, 1)>>

Lcpf80211ctrlheaders(type, subtype, c, mac1) ==
  <<FrameControl(type, subtype, c.fcflags), Duration(c.duration), mac1>>

Given(mac)   == IF mac = NoMac THEN <<>> ELSE <<mac>>
Givens(macs) == Given(macs[1]) \o Given(macs[2]) \o Given(macs[3]) \o Given(macs[4])

(* The | of two octets, bit by bit.                                        *)
Bit(n, k)    == (n \div 2^k) % 2
Either(a, b) ==
  CHOOSE n \in 0 .. 255 : \A k \in 0 .. 7 : Bit(n, k) = 1 <=> 1 \in {Bit(a, k), Bit(b, k)}

(* Fault variant of Lcpf80211headers: adds the fragment's number.          *)
Lcpf80211headersAdded(type, subtype, c, macs) ==
  <<FrameControl(type, subtype, c.fcflags), Duration(c.duration)>>
    \o Givens(macs) \o <<Little(4096 * c.fragment + c.sequence, 2)>>

(* All the addresses that are not NULL come before the sequence control,   *)
(* (sequence << 4) | fragment.                                             *)
Lcpf80211headers(type, subtype, c, macs) ==
  <<FrameControl(type, subtype, c.fcflags), Duration(c.duration)>>
    \o Givens(macs)
    \o <<[k \in 1 .. 2 |-> Either(Octet(16 * c.sequence, k), Octet(c.fragment, k))]>>

(* Bits counted from the most significant one.                             *)
Lcpfqosheaders(q) == <<(32 * q[1] + 8 * q[2] + 2 * q[3]) % 256, 0>>

(* Fault variant of AddIe: the length is that of the whole element.        *)
AddIeWhole(num, len) == <<num, (len + 2) % 256>> \o Fill(num, len)

(* lcpf_add_ie, with data made of num.                                     *)
AddIe(num, len) == <<num, len>> \o Fill(num, len)
-----------------------------------------------------------------------------
(***************************************************************************)
(* The frames.  args are the parameters behind the header's.               *)
(***************************************************************************)
Fixed(c, widths) == [k \in DOMAIN widths |-> Little(c.args[k], widths[k])]

Mgmt(subtype, c, macs, widths) ==
  Lcpf80211headers(0, subtype, c, Append(macs, NoMac)) \o Fixed(c, widths)

Beacon(c)    == Mgmt(8, c, <<Broadcast, c.src, c.bssid>>, <<8, 2, 2>>)
Deauth(c)    == Mgmt(12, c, <<c.dst, c.src, c.bssid>>, <<2>>)
Disassoc(c)  == Mgmt(10, c, <<c.dst, c.src, c.bssid>>, <<2>>)
Probereq(c)  == Mgmt(4, c, <<Broadcast, c.src, Broadcast>>, <<>>)
Proberesp(c) == Mgmt(5, c, <<c.dst, c.src, c.bssid>>, <<8, 2, 2>>)
Authreq(c)   == Mgmt(11, c, <<c.dst, c.src, c.bssid>>, <<2, 2, 2>>)
Authresq(c)  == Authreq(c)
Assocreq(c)  == Mgmt(5, c, <<c.dst, c.src, c.bssid>>, <<2, 2>>)
Assocresp(c) == Mgmt(5, c, <<c.dst, c.src, c.bssid>>, <<2, 2, 2>>)
Rts(c)       == Lcpf80211ctrlheaders(1, 11, c, c.dst) \o <<c.src>>
Data(c)      == Lcpf80211headers(2, 0, c, <<c.dst, c.src, c.bssid, c.mac4>>)

Forge(c) ==
  CASE c.op = "beacon"    -> Beacon(c)    [] c.op = "deauth"    -> Deauth(c)
    [] c.op = "disassoc"  -> Disassoc(c)  [] c.op = "probereq"  -> Probereq(c)
    [] c.op = "proberesp" -> Proberesp(c) [] c.op = "authreq"   -> Authreq(c)
    [] c.op = "authresq"  -> Authresq(c)  [] c.op = "assocreq"  -> Assocreq(c)
    [] c.op = "assocresp" -> Assocresp(c) [] c.op = "rts"       -> Rts(c)
    [] c.op = "data"      -> Data(c)
-----------------------------------------------------------------------------
(***************************************************************************)
(* tx80211_decodepkt: the offset of the frame in a capture of which len    *)
(* octets are there, or NoFrame.  The wlan-ng link type has two headers;   *)
(* the AVS one has its number in front and, like PPI's and radiotap's, its *)
(* length in a field.                                                      *)
(***************************************************************************)
NoFrame == -1
SizeOf  == [avs |-> 64, prism2 |-> 144, ppi |-> 8, radiotap |-> 8]

Decoded(r, offset) == [ret |-> r, dot11 |-> offset]

Behind(cap, size) ==
  Decoded(1, IF cap.len > size /\ cap.field < cap.len THEN cap.field ELSE NoFrame)

(* Fault variant of Decodepkt: any packet long enough has the old header.  *)
DecodepktOld(cap) ==
  CASE cap.dlt = "PRISM_HEADER" /\ cap.len > SizeOf.prism2 -> Decoded(1, SizeOf.prism2)
    [] cap.dlt = "PRISM_HEADER" /\ cap.len <= SizeOf.prism2 -> Behind(cap, SizeOf.avs)
    [] cap.dlt = "PPI"               -> Behind(cap, SizeOf.ppi)
    [] cap.dlt = "IEEE802_11_RADIO"  -> Behind(cap, SizeOf.radiotap)
    [] cap.dlt = "IEEE802_11"        -> Decoded(1, 0)
    [] OTHER                         -> Decoded(0, NoFrame)

Decodepkt(cap) ==
  LET isAvs == cap.kind = "avs" /\ cap.len > SizeOf.avs
  IN CASE cap.dlt = "PRISM_HEADER" /\ isAvs -> Behind(cap, SizeOf.avs)
       [] cap.dlt = "PRISM_HEADER" /\ ~isAvs ->
            Decoded(1, IF cap.len > SizeOf.prism2 THEN SizeOf.prism2 ELSE NoFrame)
       [] cap.dlt = "PPI"               -> Behind(cap, SizeOf.ppi)
       [] cap.dlt = "IEEE802_11_RADIO"  -> Behind(cap, SizeOf.radiotap)
       [] cap.dlt = "IEEE802_11"        -> Decoded(1, 0)
       [] OTHER                         -> Decoded(0, NoFrame)
-----------------------------------------------------------------------------
(***************************************************************************)
(* A frame read by struct ieee80211_hdr, ieee80211_mgmt, ieee80211_qos and *)
(* the subtypes' numbers of ieee80211.h.                                   *)
(***************************************************************************)
Word(f, at) == f[at + 1] + 256 * f[at + 2]
Addr(f, n)  == SubSeq(f, 6 * n - 1, 6 * n + 4)

HdrLen == 24
Kind(f) == [type |-> (f[1] \div 4) % 4, subtype |-> f[1] \div 16]
SeqCtl(f)  == [fragment |-> Word(f, 22) % 16, sequence |-> Word(f, 22) \div 16]

Subtype == [assocreq |-> 0, assocresp |-> 1, probereq |-> 4, proberesp |-> 5,
            beacon |-> 8, disassoc |-> 10, authreq |-> 11, authresq |-> 11,
            deauth |-> 12, rts |-> 11, data |-> 0]

(* The fixed part of a management frame's body, by the frame's subtype.    *)
Layout(subtype) ==
  CASE subtype = 0        -> <<2, 2>>
    [] subtype = 1        -> <<2, 2, 2>>
    [] subtype = 4        -> <<>>
    [] subtype \in {5, 8} -> <<8, 2, 2>>
    [] subtype = 11       -> <<2, 2, 2>>
    [] subtype \in {10, 12} -> <<2>>

(* Only a timestamp, which comes first, is wider than two octets.          *)
Offset(widths, k) == HdrLen + IF k = 1 THEN 0 ELSE widths[1] + 2 * (k - 2)
FixedLen(widths)  == Offset(widths, Len(widths) + 1) - HdrLen

(* The elements from offset p on; <<>> among them is one cut short.        *)
ElementsAt(f, start) ==
  LET from[p \in 0 .. Len(f)] ==
        IF p = Len(f) THEN <<>>
        ELSE IF p + 2 > Len(f) \/ p + 2 + f[p + 2] > Len(f) THEN <<<<>>>>
        ELSE <<<<f[p + 1], f[p + 2]>>>> \o from[p + 2 + f[p + 2]]
  IN from[start]

QosRead(o) == <<o % 8, (o \div 16) % 2, (o \div 32) % 4>>
-----------------------------------------------------------------------------
Address == [1 .. 6 -> 0 .. 255]

Calls == [op : DOMAIN Subtype, valid : BOOLEAN, src : [1 .. 6 -> Nat],
          dst : Address, bssid : Address, mac4 : Address \cup {NoMac},
          fcflags : Nat, duration : Nat, fragment : Nat, sequence : Nat,
          args : [1 .. 3 -> 0 .. 256^3 - 1]]

(* The octets in front of a frame are those of the link type's header: none*)
(* if it has none, at least the fixed part if it tells its length.         *)
Proper(h) ==
  /\ h.hdrlen \in Nat /\ h.field \in Nat
  /\ h.dlt = "IEEE802_11" => h.hdrlen = 0
  /\ h.dlt = "PRISM_HEADER" /\ h.kind = "avs" => h.hdrlen >= SizeOf.avs
  /\ h.dlt = "PRISM_HEADER" /\ h.kind # "avs" => h.hdrlen = SizeOf.prism2
  /\ h.dlt = "PPI" => h.hdrlen >= SizeOf.ppi
  /\ h.dlt = "IEEE802_11_RADIO" => h.hdrlen >= SizeOf.radiotap

(* What the parameters' types and the bits of a QoS header can hold.       *)
ASSUME FramesAssumption ==
  /\ Requests \subseteq Calls
  /\ Elements \subseteq (0 .. 255) \X (0 .. 255)
  /\ Qos \subseteq Nat \X (0 .. 3) \X (0 .. 3)
  /\ \A h \in Headers : Proper(h)
  /\ Snaplens \subseteq Nat /\ MaxElements \in Nat
-----------------------------------------------------------------------------
VARIABLES
  phase,    \* "new", "forged", "frozen" or "captured"
  request,  \* the call, with the addresses it was made with
  extra,    \* elements or the QoS header added behind it
  pack,     \* the components
  frame,    \* the frozen frame
  cap,      \* the capture: its header, and how much of it there is
  decoded   \* what tx80211_decodepkt made of it

vars == <<phase, request, extra, pack, frame, cap, decoded>>

Blank  == [op |-> "none", valid |-> FALSE, src |-> NoMac]
NoCap  == [dlt |-> "none", kind |-> "none", hdrlen |-> 0, field |-> 0, len |-> 0]

Init ==
  /\ phase = "new" /\ request = Blank /\ extra = <<>> /\ pack = <<>>
  /\ frame = <<>> /\ cap = NoCap /\ decoded = Decoded(0, NoFrame)

(* A random source address, then one of the forging functions.             *)
MakeFrame(c) ==
  /\ phase = "new"
  /\ phase' = "forged"
  /\ request' = [c EXCEPT !.src = Randmac(c.valid, c.src)]
  /\ pack' = Forge(request')
  /\ UNCHANGED <<extra, frame, cap, decoded>>

AddElement(num, len) ==
  /\ phase = "forged" /\ request.op \in DOMAIN Subtype \ {"rts", "data"}
  /\ Len(extra) < MaxElements
  /\ extra' = Append(extra, <<num, len>>)
  /\ pack' = Append(pack, AddIe(num, len))
  /\ UNCHANGED <<phase, request, frame, cap, decoded>>

AddQos(q) ==
  /\ phase = "forged" /\ request.op = "data" /\ extra = <<>>
  /\ extra' = <<q>>
  /\ pack' = Append(pack, Lcpfqosheaders(q))
  /\ UNCHANGED <<phase, request, frame, cap, decoded>>

Freeze ==
  /\ phase = "forged"
  /\ phase' = "frozen"
  /\ frame' = FlattenSeq(pack)
  /\ UNCHANGED <<request, extra, pack, cap, decoded>>

Capture(h, snaplen) ==
  /\ phase = "frozen"
  /\ phase' = "captured"
  /\ cap' = [dlt |-> h.dlt, kind |-> h.kind, hdrlen |-> h.hdrlen, field |-> h.field,
             len |-> Min({h.hdrlen + Len(frame), snaplen})]
  /\ decoded' = Decodepkt(cap')
  /\ UNCHANGED <<request, extra, pack, frame>>

Next ==
  \/ \E c \in Requests : MakeFrame(c)
  \/ \E e \in Elements : AddElement(e[1], e[2])
  \/ \E q \in Qos : AddQos(q)
  \/ Freeze
  \/ \E h \in Headers, s \in Snaplens : Capture(h, s)

Spec == Init /\ [][Next]_vars
-----------------------------------------------------------------------------
Three == request.op # "rts" /\ (request.op = "data" => request.mac4 = NoMac)

(* A station finds in the header of a frozen frame the type, the subtype   *)
(* (SubtypeReadsBack is about that of an association frame), the addresses *)
(* and, unless the fragment's number runs over its four bits, the sequence *)
(* and fragment that were asked for (FourthAddressReadsBack is about frames*)
(* of four addresses), of the flags the lower octet (not the WLAN_FC_TODS  *)
(* of ieee80211.h), and the duration in one of the two orders of octets.   *)
(* The random source is never the broadcast address, and with a wireless   *)
(* OUI it is one station's (lcpf_80211headers, lcpf_80211ctrlheaders and   *)
(* the functions that call them, lcpf_randmac).                            *)
HeaderReadsBack ==
  phase = "frozen" =>
    /\ Kind(frame).type = CASE request.op = "data" -> 2
                             [] request.op = "rts"  -> 1
                             [] OTHER               -> 0
    /\ request.op \notin {"assocreq", "assocresp"} =>
         Kind(frame).subtype = Subtype[request.op]
    /\ frame[2] = request.fcflags % 256
    /\ request.duration % 65536 \in {frame[3] * 256 + frame[4], frame[3] + 256 * frame[4]}
    /\ Addr(frame, 1) = IF request.op \in {"beacon", "probereq"} THEN Broadcast
                                                                ELSE request.dst
    /\ Addr(frame, 2) = request.src
    /\ request.src # Broadcast /\ (request.valid => request.src[1] % 2 = 0)
    /\ request.op = "rts" \/ Addr(frame, 3) = IF request.op = "probereq"
                                                 THEN Broadcast ELSE request.bssid
    /\ Three /\ request.fragment < 16 =>
         SeqCtl(frame) = [fragment |-> request.fragment, sequence |-> request.sequence % 4096]

(* Laid out as ieee80211.h lays out what was asked for, a management frame *)
(* has the fixed fields it was asked to have and then the elements that    *)
(* were added, each whole, up to its end (lcpf_authreq and the like,       *)
(* lcpf_add_ie).                                                           *)
BodyReadsBack ==
  phase = "frozen" /\ request.op \notin {"rts", "data"} =>
    LET widths == Layout(Subtype[request.op])
    IN /\ \A k \in DOMAIN widths :
            Word(frame, Offset(widths, k)) = request.args[k] % 65536
       /\ ElementsAt(frame, HdrLen + FixedLen(widths)) = extra

(* The subtype is the one ieee80211.h has for what was asked for.  Not so: *)
(* association frames are forged as probe responses, by whose layout a     *)
(* station then reads their bodies (lcpf_assocreq, lcpf_assocresp).        *)
SubtypeReadsBack == phase = "frozen" => Kind(frame).subtype = Subtype[request.op]

(* A data frame of four addresses has the fourth behind the sequence       *)
(* control, as ieee80211.h says.  Not so: it is in front of it             *)
(* (lcpf_80211headers).                                                    *)
FourthAddressReadsBack ==
  phase = "frozen" /\ request.op = "data" /\ request.mac4 # NoMac /\ request.fragment < 16 =>
    /\ SeqCtl(frame) = [fragment |-> request.fragment, sequence |-> request.sequence % 4096]
    /\ SubSeq(frame, HdrLen + 1, HdrLen + 6) = request.mac4

(* struct ieee80211_qos reads from a QoS header behind a data frame of     *)
(* three addresses what was asked for.  Not so: its bits are counted from  *)
(* the other end (lcpf_qosheaders).                                        *)
QosReadsBack ==
  phase = "frozen" /\ request.op = "data" /\ Three =>
    \A q \in Qos : extra = <<q>> => QosRead(frame[HdrLen + 1]) = q

(* What ieee80211.h has a station read in a frame is what was asked for,   *)
(* the three places included that HeaderReadsBack and BodyReadsBack leave  *)
(* out.                                                                    *)
StandardReadsBack == SubtypeReadsBack /\ FourthAddressReadsBack /\ QosReadsBack

(* Whatever a capture's header says of its length, the frame that is       *)
(* reported begins inside the packet, but for one without a header, which  *)
(* is reported of an empty packet too.  Behind a header that tells its true*)
(* length the frame is found where it is, exactly if any of it was captured*)
(* (tx80211_decodepkt).                                                    *)
DecodeFindsFrame ==
  phase = "captured" /\ decoded.ret = 1 =>
    /\ decoded.dot11 < cap.len \/ (cap.dlt = "IEEE802_11" /\ decoded.dot11 = 0)
    /\ cap.field = cap.hdrlen =>
         decoded.dot11 = IF cap.len > cap.hdrlen \/ cap.dlt = "IEEE802_11"
                           THEN cap.hdrlen ELSE NoFrame
=============================================================================
