------------------------------- MODULE MCFrames -------------------------------
EXTENDS Frames

(* Every function with ordinary arguments, and one argument at a time at    *)
(* and beyond the edge of its field.                                       *)
Station == Fill(2, 6)
Bss     == Fill(4, 6)
Relay   == <<9, 8, 7, 6, 5, 4>>

Request(o) ==
  [op |-> o, valid |-> TRUE, src |-> <<46, 1, 2, 254, 255, 511>>, dst |-> Station,
   bssid |-> Bss, mac4 |-> NoMac, fcflags |-> 1, duration |-> 314,
   fragment |-> 0, sequence |-> 291, args |-> <<1025, 2, 770>>]

Ordinary == {Request(o) : o \in DOMAIN Subtype}

MCRequests ==
  Ordinary
    \cup UNION {{[c EXCEPT !.fcflags = x] : x \in {0, 255, 256}} : c \in Ordinary}
    \cup UNION {{[c EXCEPT !.duration = x] : x \in {0, 257, 65535, 65536}} : c \in Ordinary}
    \cup UNION {{[c EXCEPT !.fragment = x] : x \in {1, 15, 16, 17}} : c \in Ordinary}
    \cup UNION {{[c EXCEPT !.sequence = x] : x \in {0, 4095, 4096}} : c \in Ordinary}
    \cup UNION {{[c EXCEPT !.args = x] : x \in {<<0, 0, 0>>, <<65535, 65536, 4>>}} : c \in Ordinary}
    \cup UNION {{[c EXCEPT !.valid = v, !.src = x] :
                  v \in BOOLEAN,
                  x \in {Fill(0, 6), Fill(255, 6), Fill(511, 6), Fill(254, 6),
                         <<93, 255, 255, 255, 255, 255>>}} : c \in Ordinary}
    \cup {[Request("data") EXCEPT !.mac4 = Relay, !.fcflags = 3, !.fragment = x] : x \in {0, 15}}

MCElements == {<<0, 0>>, <<1, 8>>, <<221, 255>>}
MCQos      == (0 .. 7) \X (0 .. 1) \X (0 .. 3)

Header(d, k, n, x) == [dlt |-> d, kind |-> k, hdrlen |-> n, field |-> x]
True(d, k, n)      == Header(d, k, n, n)

(* Headers that tell their length, and ones that do not: too small, and up *)
(* to and beyond the end of the packet.                                    *)
MCHeaders ==
  {True("PRISM_HEADER", "avs", n) : n \in {64, 80}}
    \cup {True("PRISM_HEADER", "prism2", 144), True("IEEE802_11", "none", 0),
          True("IEEE802_11_RADIO_AVS", "avs", 64)}
    \cup {True("PPI", "none", n) : n \in {8, 32}}
    \cup {True("IEEE802_11_RADIO", "none", n) : n \in {8, 25}}
    \cup {Header(d, k, n, x) :
            <<d, k, n>> \in {<<"PRISM_HEADER", "avs", 64>>, <<"PPI", "none", 8>>,
                             <<"IEEE802_11_RADIO", "none", 8>>},
            x \in {0, 4, 63, 88, 89, 300, 65535}}
MCSnaplens == {0, 8, 25, 64, 65, 144, 145, 65535}
=============================================================================
