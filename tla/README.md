# LORCON in TLA+

LORCON ("Loss Of Radio CONnectivity", an 802.11 frame injection library in C)
hides a dozen Linux wireless drivers behind one set of `tx80211_*` calls. These
modules model what the library does to the things it shares with the rest of
the world: the process's descriptors, the host's wireless interfaces, the
virtual interfaces of a madwifi-ng card, and the heap, what it puts into frames
and makes of captures, and the programs `tx`, `tuntx` and `l2ping80211` that use it. TLC checks small
instances; TLAPS proves the safety properties of every component for all of them, and that the packet lists
implement what their header promises.

## The system

| Part | State | Operations | Interacts with |
|---|---|---|---|
| front end (`tx80211.c`) | `struct tx80211`: driver, `ifname`, `raw_fd`, `startingmac`, `extra`, call-throughs | init, setfunctionalmode, setmode, open, close, txpacket, selfack, setchannel ... | dispatches to one driver per handle |
| packet-socket drivers (`wtinject.c` and the hostap, prism54, rtl8180, mac80211, zd1211rw, Ralink modules) | none beyond the handle | open, close, send, setfuncmode, selfack | descriptors; interface flags, mode, address |
| wlan-ng, AirJack, bcm43xx, madwifi-old | none beyond the handle | own open, close, send | descriptors; sysfs and proc files |
| madwifi-ng (`mwnginject.c`, `madwifing_control.c`) | `ifname` and `extra`: the VAP in use and the card | setfuncmode and selfack destroy and build VAPs | one card shared by all processes |
| card list and names (`tx80211.c`) | none | list, free, resolve a name or an interface | what init dispatches to |
| interface control (`ifcontrol_linux.c`, `iwcontrol.c`) | none; what it reads of the interface before it writes | flags, address, channel, mode, private ioctls | kernel |
| packet lists (`lorcon_packasm.c`) | doubly linked components with copied or lent data | init, append, insert, replace, find, free, freeze | the user's memory |
| forging (`lorcon_forge.c`), decoding (`lorcon_decode.c`) | none | build and take apart frames | packet lists, captures |
| programs (`l2ping80211.c`, `tx.c`, `tuntx.c`) | global handle, capture | probe and wait, send loops | library, pcap, signals |

What is hard in this code is hardly ever one function. It is what a handle,
descriptor or card is left in when one request of a series fails and the
client tries again, or does something else first: every kernel request can
fail, nothing is rolled back, and `raw_fd`, `extra`, `startingmac` and
`ifname` survive. Around it, calls of two requests interleave with those of other processes, each
driver reports a partial write in its own way, and numbers from captures, tables and callers run up
to the edges of their fields. `PROJECT.json` lists these hazards, each at its line.

A handle is correct if an open one owns its socket and its card is ready, a
closed one leaves nothing behind, and neither touches what belongs to others. A
packet list is correct if it is the sequence of components its header promises
and frees exactly what is its own. A control call is correct if the interface ends up with what was
last asked for and no socket is left; a send if what it reports was written and the header tells the
truth about the card; a forged frame if a station reads from it what was asked for.

## Modules

| Module | Models | Proved in |
|---|---|---|
| `Descriptors` | the kernel's descriptor table (external) | |
| `Session` | one process, any number of handles over every driver but madwifi-ng, and the rest of the program | `SessionProofs` |
| `Madwifing` | madwifi-ng: processes with one handle each on one card | `MadwifingProofs` |
| `PacketSeq` | what `lorcon_packasm.h` promises: lists as sequences | |
| `Packasm` | `lorcon_packasm.c`: links, copies, lent memory, a heap that reuses addresses | `PackasmProofs` |
| `L2ping` | `l2ping80211.c`: main, the tests, `watchfor`, the signal handler | `L2pingProofs` |
| `Wext` | the arithmetic of `iwcontrol.c`, and its search for private ioctls (operators) | `WextProofs` |
| `IfControl` | `ifcontrol_linux.c`, `iwcontrol.c` and AirJack's configuration: processes on one interface, request by request | `IfControlProofs` |
| `Cards` | names, drivers, capabilities, `tx80211_init`'s dispatch, the card list (operators) | `TransmitProofs` |
| `Transmit` | `tx.c`, `tuntx.c`, the start of `l2ping80211.c` and every driver's send, over `Wext` and `Cards` | `TransmitProofs` |
| `Frames` | `lorcon_forge.c`, the structures of `ieee80211.h`, `lorcon_decode.c` | `FramesProofs` |
| `MC*` | the instances for TLC | |

**Session.** `raw`, `drv`, `ifn`, `macset` and `startmac` are the fields
`raw_fd`, `injectortype`, `ifname`, `startingmacset` and `startingmac`. `phase` is
what the client knows from return values; it decides which calls the client
makes next. `up`, `monitor`, `rfmontx` and `hw` are the interfaces' state in
the kernel. There is one action per `tx80211_*` call; each is a disjunction over the drivers,
and within a driver over the places where a kernel request can fail. The calls are atomic here,
since a process is single-threaded and each handle has an interface of its
own; the rest of the program acts between them. A frame may be sent on any initialised handle: the drivers
only ask whether `raw_fd` is positive, so a number left by a failed open or a close can by then stand for a descriptor of
another (the answer `strayed`). The client sets the mode by `SetFuncmode` or by `SetMode`, the older call, which is all that wlan-ng
and AirJack have: the first returns what `system()` does, the second writes the field `mode` of the card's configuration
and not its field `monitor`. `CloseAnyway` is the client that
closes handles it has not opened, as `l2ping80211.c` does on errors: it closes descriptor 0, which the
`memset` of init left in `raw_fd`. Descriptor 0
is the program's from the start and is not closed by it.

**Madwifing.** Here calls are not atomic: each request to the kernel is an action and
`pc` says where a process is, because several processes share the card. `setfuncmode` and
`selfack` share the steps from listing the VAPs to opening the new one (`call` says which it
is), as the code shares `madwifing_list_vaps`, `madwifing_destroy_vap` and
`madwifing_build_vap`. `raw` abstracts `raw_fd` to what its number stands for:
the held socket, one that was closed, -1, or the 0 of `tx80211_init`. A handle starts with
the card's name or a VAP the administrator made. `madwifing_open` does nothing and succeeds, so a client can open without a
functional mode, as tuntx does: the handle's `phase` is then `bare`, and a setfuncmode that succeeds makes it `open`. `reply` is
whether the last call reported success. `mishap` is history: since the VAPs were last listed, a listing or a destruction failed, or a new
VAP was given up half way. A VAP's address is the card's: `selfack` and `setfuncmode` destroy the other VAPs first.

**Packasm.** Addresses are model values, and `malloc` may return any that is free. The
loops that seek the ends of a list are the functions `ListHead`, `ListEnd` and
`Chain`. `lcpa_insert` does not write `freedata`, so the flag is a choice from
the constant `Junk`. What the user does with memory of its own is a step that changes no list. The user follows the header: lent data is not freed while a live list
refers to it. `RefinesSequences` maps the lists to those of `PacketSeq`.

**L2ping.** One step is one call of main, a test, `watchfor` or `sigexit`, in the order of the code;
the six tests differ in the frame they wait for (`Want`). `clock`, `starttime`, `finishtime` and `now` count modulo
`TimeMod`, 2^32 in the code; a watch may start at any of its values. Frames are records of what `watchfor` compares, and of
whether a probe provoked them (`ours`). Captures lose frames (they need not arrive), hold late ones for the next watch and repeat
retransmissions. A call of the library is one step: what it does to the handle is in Session and Madwifing. The handler never
returns, so a second signal starts it again. `pcap_close` of a closed capture is undefined: the program goes on or crashes.
For a link type the program does not know, what it compares is arbitrary.

**IfControl.** `Path` is the sequence of requests of each function: a socket, a read and a write, or
one of the two, a close; `at` says where in it a process is. `Group` is what the kernel writes with one request, so a
write takes back what another process changed since the read: `image` is what was read (`ifr`, `ajconf`).
`asked`, `torn` and `fresh` are history: the value last asked for, the fields that race has undone, and whether a read
is still up to date. `iwconfig_set_channel` tries twice. A private ioctl looks its command up in `Table` (`Privctl` in `Wext`); a
sub-command, whose number is below `SIOCDEVPRIVATE`, runs through the nameless entry with the same arguments.
Frequencies are mantissa and exponent, as in `struct iw_freq`.

**Transmit.** One step is one call of the program's main, or one request inside a send. `inj` and `platform` choose the
handlers from `Cards`. `raw` is only whether the handle has a socket: what calls do to descriptors is in Session. `mhz` is
the card's frequency, which another process may change (`Retune`) when the program takes a frame or between the reading of
the channel and the write. `accepted`, `whole`, `partial` and `junk` count what sends reported and what was written.
tuntx leaves its packet as the stack has it, so its modulation is any value.

**Frames.** A request is forged, given elements or a QoS header, frozen, and captured behind a header of
each link type; the properties read the octets back through `struct ieee80211_hdr` and `ieee80211_mgmt`. A component list is the
sequence of octets that `Packasm` shows it to be. The host is little-endian, and timestamps are below 2^24.
Field values are cut at the widths the code stores them with; the `|` of sequence and fragment is taken bit by bit (`Either`).
`MaxElements` bounds the elements a frame is given, which the code does not. `FramesAssumption` says what the parameters' C types
and a QoS header's bits can hold, and that a capture has in front of the frame at least the header its link type names.

## Runs

| Run | Instance | Shows |
|---|---|---|
| `session` | 2 handles, 2 interfaces, 2 descriptors beside 0; hostap, rt2500, rt2570, bcm43xx, wlan-ng, AirJack, madwifi-old | who owns which descriptor (OpenOwnsSocket, NoSocketStranded, ClosesOnlyItsOwn), where frames go (SendKnowsItsSocket), the state of cards (OpenCardIsReady, ClosedCardIsQuiet) |
| `session_restore` | hostap | violated: close after selfack copies a name from a null pointer |
| `session_selfack` | prism54 | violated: selfack succeeds and has not changed the address |
| `madwifing` | 1 process, 2 VAP names and `ath0` | the VAP a handle injects on and those it leaves (OpenOnOwnVap, OwnVapNamed), the card's address, which numbers are closed (ClosesItsOwn); every call returns |
| `madwifing_share` | 2 processes | violated: a close destroys another process's VAP |
| `packasm` | 4 components, 3 data blocks, 2 contents | refinement of `PacketSeq`, NoBadFree, CopyHasOneOwner, and that a freed list leaves its last component at most, with `Junk = {FALSE}` |
| `packasm_insert` | `Junk` = both | violated: the library frees lent memory |
| `l2ping` | every test, 2 probes, 2 frames, 2 signals, clock modulo 5, time-out 2 | which frames count as answers, when a watch ends, closing once, termination |
| `ifcontrol` | 2 processes with up to 3 calls each, 2 sockets, every channel and frequency of the table and some beside it, a table of 15 private ioctls | which changes a race loses, sockets, channel numbers, which ioctl is run |
| `transmit` | every driver name of the code and the manual and one nobody knows, on both platforms, 3 programs, 2 frames, 4 frequencies, 1 retuning | what sends report, the radiotap header, what is left behind, which driver a name gets, termination |
| `frames` | every forging function, one field at a time at and beyond its edge, up to 2 elements, 30 capture headers, 8 snapshot lengths | what a station reads from a frame, where the decoder finds it |
| `frames_standard` | as `frames` | violated: association frames have the subtype of a probe response (and the fourth address and the QoS bits are out of place) |

Each violated property is quoted from the code's documents in `PROJECT.json` ("findings").

Properties that hold, but less than the documents promise or a reader may expect; each exception is a fault of the code:

- `OnlyTheLastLeaks`: `lcpa_free` frees all of a list but its last component, which it should free too.
- `NoSocketStranded`: not so for madwifi-old, whose open loses descriptors.
- `SendKnowsItsSocket`: a frame sent on a handle that is not open can go to somebody else's descriptor, though "Error check to ensure socket
  is open" (`wginject.c:98`) is what the test of `raw_fd` is for.
- `OpenCardIsReady`: says nothing of the mode of a wlan-ng or AirJack card. `tx80211_setmode` should return "< 0 on error" (`lorcon.3:480`);
  wlan-ng's returns a positive number, and AirJack's does not write what makes the card a monitor.
- `ClosedCardIsQuiet`: is about handles that were closed. A failed open with no close after it leaves `rfmontx` on.
- `OpenOnOwnVap`: is about handles opened after a setfuncmode. `tx80211_open` "is used to open and bind a socket" (`lorcon.3:411`);
  madwifi-ng's does nothing.
- `OwnVapNamed`: excepts VAPs that escaped (`mishap`). `madwifing_close` says of "a self-made vap" that it will "destroy it too" (`mwnginject.c:78`),
  but one whose link type could not be set, or that could not be destroyed, stays.
- `ClosesItsOwn`: tuntx on madwifi-ng, and a close or selfack after a selfack that failed, close a number that is not the handle's socket.
- `SocketsAccounted`: `aj_setmonitor` does not close its socket when it succeeds.
- `PrivRunsNamed`: a sub-command whose arguments leave no room for its number in the request reaches the driver with number 0.
- `SentIsWritten`: excepts `wtinj_send`, which reports a part of a frame as sent where `lorcon.3:726` has `TX80211_EPARTTX`, and
  `aj_xmitframe`, which should "transmit the data" (`ajinject.c:303`) and writes the octets of a pointer (`&xmit`).
- `NameGetsItsDriver`: is about names the library knows. Others should get `INJ_NODRIVER` (`lorcon.3:222`, `tx.c:174`); on Linux they get
  mac80211, since two comparisons of `tx80211_resolvecard` lack their `!`. So do "rt2750" and "rtl2571", which `lorcon.3:197` and `:202` give
  for RT2570 and RT73.
- `AnswersHeard`: excepts the multicast test, which should "Watch for the multicast data frame response with FromDS set that follows"
  (`l2ping80211.c:377`) and discards it, since it passes 0 for the flags.
- `LeftBehind`: the usage text of `tx` and `tuntx` does not free the card list, `tx80211_freecardlist` does not free its array of
  driver numbers; a refused modulation leaves the frame's buffer; tuntx closes its own standard input on madwifi-ng.
- `HeaderReadsBack`: only the lower octet of the flags is used, and the duration may be in either order of octets: the code writes it
  in network order, and nothing in the repository says which it should be. The subtype of association frames and the sequence
  control of frames of four addresses are left to `frames_standard`.
- `BodyReadsBack`: reads each body in the layout of the frame asked for, not of the subtype forged. `lcpf_authresq` is the name in the code
  of the header's `lcpf_authresp`.

**Bounds.** Two handles are enough for one to get the number another lost. With two descriptors beside
0, both can have a socket, or one the other's or the program's old number, and the table fills up, so that opens fail with
it full. The drivers of the run stand for the ways of opening and closing:
prism54, rtl8180, mac80211 and zd1211rw open as hostap does, rt73 opens as rt2570 and closes
as rt2500. The proofs cover all of them. Two VAP names (the code tries ten) let the first
be taken, and both. Four components make lists with an insertion in the middle and a replaced,
appended or leaked component beside it, or two lists at once. Nothing else
is bounded in the runs of Session, Madwifing and Packasm, which have no counters. In `l2ping` a clock modulo 5 with a time-out of 2 lets
the deadline wrap, the clock wrap behind it, and a duration exceed half the range, as 2^32 does, within the 4 ticks of a watch; a
frame of the first probe can be read in the second's watch, and two frames in one. `DeadlineKept` and `BlindOnlyAtWrap` name the
cases in which a watch is too long or sees nothing; `AnswersHeard` those in which an answer is not reported.
In `ifcontrol` the agendas pair every two sequences of calls on the same group of fields; with two sockets a process that has leaked
them can make no more calls, which `aj_setmonitor` does. In `transmit` all the names are given, with one nobody knows, none at all, and those of drivers that are not dispatched to; the frequencies lie in both bands, on channel 14 and on no channel
of the table; `MaxRetunes`, `MaxTap` and the counts of `-n` bound the frames and retunings, two frames being enough for an
error after a success. In `frames` the snapshot lengths cut each header
below, at and above its size. Deadlock is checked
but for `packasm`, where the leak lets the heap run full, and `l2ping`, `ifcontrol`, `transmit` and `frames`, which end. `HandleSymmetry` and `HeapSymmetry` permute values that no definition
tells apart; the view of `packasm` hides fields of freed memory, which no action reads.

**Fairness.** `CallsReturn` needs weak fairness of each process's steps
inside a call, that is, the kernel answers each request. `Terminates` needs it of the program's steps: `pcap_next_ex` returns after the
500 ms the capture is opened with. Neither signals, frames nor the clock's advance are relied on; that the air is quiet in the end is the bound `MaxFrames`. No fairness is assumed
of clients: they need not make a call. `Ends` needs it of the program's steps and of `AjSelectReady`: the interface takes
frames, so a socket becomes writable in the end. Going round the select loop counts as no progress, so the
loop's time-out running down to zero does not help to end it. `IfControl` and `Frames` have safety properties only.

## Proofs

Every safety property of a passing run is a theorem. The theorems hold for
every value of the constants that the modules' `ASSUME`s allow; these only say that names are told
apart, that numbers are what the C types hold, that a set is not empty, and that sequences are sequences. Further
hypotheses are named below and in the theorems' `ASSUME`s. In each module a lemma per action shows that the action keeps a
part of the inductive invariant; the last step adds the temporal argument.

**Session** (`SessionProofs`), for any handles, interfaces, addresses, subset of the drivers and table size; TypeCorrect
also with `CloseAnyway`, all others for
clients that close only open handles (with it they are false: a handle that was never opened has 0 in `raw_fd`).

- `TypeInv` strengthens `TypeOK`: a handle in use has an interface of its own
  (`Named`), and the recorded address is one when `startingmacset` is set (`Recorded`). Without the
  first, `hw[ifn[h]]` need not be an address.
- `OwnInv` is the inductive invariant for the descriptors. `OpenEffect` and `CloseEffect` first reduce the twelve drivers to the few things an
  open or a close can do to the table, `raw_fd` and the phase.
- `HomeInv` says where the number in the `raw_fd` of a bcm43xx handle comes from: it is not positive unless the handle is open. That is
  why its frames stay at home whatever the client does, the second part of `SendKnowsItsSocket`; the first is from `OwnInv`, which also keeps
  descriptor 0 the program's.
- `StrandedInv` adds that a handle never initialised has no driver, so that the exception for
  madwifi-old in `NoSocketStranded` is about handles in use.
- `CardInv` says what is true of the card in each phase, and that only the handle's own calls touch
  its card (`Untouched`), since no two handles name the same interface.

**Packasm** (`PackasmProofs`), for any number of components, blocks and contents. The loops over a list are recursive
functions over the components of live lists, and what they compute needs no induction over data: the invariant `InLists`
says that there *are* sequences of which the links are the links (`Linked`: each component has a place in one sequence, `next` is
its right neighbour, `prev` some component further left, not always the neighbour), and `HeadFound`, `EndFound` and `ChainFound` show
from it that the loops find the ends and the whole list: of the components for which a loop's value were wrong, the one nearest
to the end would have a neighbour nearer still. `LinkNew`, `LinkEnd`, `LinkAfter` and `Unlink` give the sequences after each call.

- `HeapInv` (types, `InLists`, `OnlyTheLastLeaks`, and `Bodies`: only the first component may be without data, which
  `LcpaFreeze` needs) is inductive whatever an unwritten flag reads as.
- `OwnInv` adds who owns the data: of a component that frees it, the library, and that component alone (`Owned`); of one that does not, the user (`Borrowed`).
  It is inductive with `Junk = {FALSE}`, which is the hypothesis of the three theorems that need it; `packasm_insert` shows that
  they are false without. `NoBadFree` and `CopyHasOneOwner` follow, and with them what a step of the user's cannot change:
  the contents of a live list.
- `ListsAreSequences` is the refinement: under `OwnInv` each call is the call of `PacketSeq` on the whole list,
  whichever component it was given, and the user's own steps are stutters.

**IfControl** and **Wext**, for any processes, agendas, table of private ioctls and number of sockets. The parts of `Inv` need each other: what a
process holds at each step of its `Path` (`SocketsHeld`), that what it read is still so unless somebody wrote
(`FreshImage`), that the card's frequency is one that a request can give (`CardTuned`), and which command a search
has found (`FoundAndRan`). `WextProofs` has the arithmetic, for every int: which frequency a request tunes to,
and that the search by digits finds the channel of the table and no other. It begins with the fact that a set of naturals has
a least element, which other modules cite where they would use induction.

**L2ping**, for a clock of any size, any time-out below it and any traffic. `EachOnce` counts: frames printed, in the capture and in hand are
together no more than arrived. `Timed` relates the clock, the last reading of it and the time since the watch began
modulo the clock's size. `ClosedOnTheWayOut` says who has closed the capture at each point of leaving.

**Madwifing.** `Remembers`, `Held` and `Tracked` (each VAP of a process is one its handle is on, or one it is about to destroy or
has just made, unless `mishap` says that one has escaped) hold for any number of processes, which interfere: so do TypeOK, `OwnVapNamed` and `ClosesItsOwn`.
`OpenOnOwnVap` and `AddressRestored` are for a process that has the card to itself (`Procs = {p}`), and with
`Restores` and `OnOwn`; `madwifing_share` shows that another process can break them.

**Transmit** and **Cards**, for any driver names, channels, counts and frames. `Driven` ties the
driver to the name, `Ready` the socket to the driver and the place in the program, `Balanced` the counts of reported and written frames,
`Kept` what is allocated; a send is faithful because of all of these.

**Frames** (`FramesProofs`), for any requests, number of elements, QoS headers, capture headers and snapshot lengths. The invariant
`FramesInv` says that the octets of the components `Holds` what was asked for: each header field, fixed field and element is
*at* a place (`At`), which stays so when more is put behind it (`OneBehind`), and the elements end one where the next begins, the last at the
end (`Ends`, `Laid`). It is kept by freezing, since a frame is its components laid end to end. `HeaderReadsBack` and `BodyReadsBack` alone are about frozen frames
and say nothing of the components they are made of, so that no step before `Freeze` could be shown to lead to them.

- `FlattenAppend`: one more component is its octets behind the others'. `FlattenSeq` and `ElementsAt` are recursive functions; that
  each is what its definition says at every place is shown by the least place where it would not be.
- `LaidOut`: the widths of the fixed fields are those of the layout, so that the elements begin where the layout has them.
- `WrittenIsRead`: elements written up to the end are read there, each whole, and no more.
- `EitherIs` and `SeqOctetsIs`: `|` is `+` where no bit is common, hence the fragment below 16.
- `RandmacIs`, from the list of OUIs alone: no remainder modulo 255 is 255, and every OUI begins with an even octet.

**Only model-checked.** Liveness (`CallsReturn`, `Terminates`, `Ends`), which the provers do not cover under fairness.

## Not modelled

nl80211 control is compiled out, and no driver calls it. The kernel patches and build files are not part of the library. Of rt61 only the tables: `tx80211_init` has no
case for it. Within Session the frames' contents and the athXraw flags of madwifi-old are left out; within Madwifing the
descriptors that list and build lose; within Transmit how wlan-ng rearranges a frame and the parsing of arguments; within L2ping printing, the hex
dump and the parsing of numbers and addresses. The getters of the front end, which read one field, and all error messages are left out.

## Plan

1. Madwifing: a client that changes modes, descriptors shared with `Descriptors`, what several processes can rely on (which of a handle's VAP
   and address outlive another's calls), with its proof.
2. Session: a lemma that each call of `Transmit` and `L2ping` on their handle is one of Session's, so that the programs' `raw` is tied to its descriptors.
