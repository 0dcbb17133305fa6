------------------------------ MODULE Madwifing ------------------------------
(***************************************************************************)
(* The madwifi-ng driver: processes that each hold one tx80211 handle on   *)
(* the same Atheros card.  A handle does not inject on the card but on a   *)
(* virtual interface (VAP) that setfuncmode and selfack build, under a     *)
(* numbered name, after destroying every VAP the card has; the handle's    *)
(* "extra" pointer then keeps the card's own name.  One action per request *)
(* made to the kernel, each of which may fail, so that the calls of        *)
(* different processes interleave between them.                            *)
(***************************************************************************)
EXTENDS Naturals, Sequences

CONSTANTS
  Procs,    \* the processes
  Lorcon,   \* the VAP names tried, "lorcon0" to "lorcon9", in order
  Others,   \* names of the VAPs the administrator made, such as "ath0"
  Macs,     \* hardware addresses
  HomeMac   \* the address the card has at first

VARIABLES
  owner,    \* VAP name -> who built the VAP, or Nobody
  hw,       \* the card's address, which its VAPs share
  pc,       \* where each process is in the call it makes
  call,     \* which call that is
  list,     \* the names madwifing_list_vaps found, not yet destroyed
  cand,     \* the number of the name madwifing_build_vap tries
  phase,    \* what the client knows of its handle: "open" is opened with a
            \* functional mode set, "bare" opened without
  reply,    \* did its last call but tx80211_open report success
  ifname, extra, macset, startmac,    \* fields of the handle
  raw,      \* what raw_fd is: a held socket, a closed number, -1, or 0
  sock,     \* the VAP the held socket is bound to
  mishap    \* since the VAPs were last listed, may one have escaped the process:
            \* the listing or the destruction of a VAP failed, or a new VAP was
            \* given up half way

local  == <<call, list, cand>>
handle == <<ifname, extra, macset, startmac>>
socket == <<raw, sock>>
card   == <<owner, hw>>
vars   == <<card, pc, local, phase, reply, handle, socket, mishap>>

Master == "wifi0"
Nobody == "nobody"
Admin  == "admin"
Null   == "NULL"
NoMac  == "00:00:00:00:00:00"
NoVap  == "none"   \* no socket
Gone   == "gone"   \* the VAP under the socket was destroyed

Built == {Lorcon[n] : n \in 1 .. Len(Lorcon)}
Vaps  == Built \cup Others

ASSUME MadwifingAssumption ==
  /\ Lorcon \in Seq(Built) /\ Lorcon # <<>>
  /\ \A m, n \in 1 .. Len(Lorcon) : Lorcon[m] = Lorcon[n] => m = n
  /\ Built \cap Others = {}
  /\ Vaps \cap {Master, Null, NoVap, Gone} = {}
  /\ Procs \cap {Nobody, Admin} = {}
  /\ HomeMac \in Macs

Steps == {"idle", "devtype", "list", "destroy", "scan", "create", "retype",
          "open", "down", "sethw", "up", "restdown", "restset", "restup",
          "shut", "crashed"}

TypeOK ==
  /\ owner \in [Vaps -> Procs \cup {Nobody, Admin}]
  /\ hw \in Macs
  /\ pc \in [Procs -> Steps]
  /\ call \in [Procs -> {"setfuncmode", "selfack", "close"}]
  /\ list \in [Procs -> SUBSET Vaps]
  /\ cand \in [Procs -> 1 .. Len(Lorcon)]
  /\ phase \in [Procs -> {"init", "ready", "open", "bare", "closed"}]
  /\ reply \in [Procs -> BOOLEAN]
  /\ ifname \in [Procs -> Vaps \cup {Master}]
  /\ extra \in [Procs -> Vaps \cup {Master, Null}]
  /\ macset \in [Procs -> BOOLEAN]
  /\ startmac \in [Procs -> Macs \cup {NoMac}]
  /\ raw \in [Procs -> {"zero", "held", "stale", "bad"}]
  /\ sock \in [Procs -> Vaps \cup {NoVap, Gone}]
  /\ mishap \in [Procs -> BOOLEAN]

Exists(i)  == i \in Vaps /\ owner[i] # Nobody
Present(i) == i = Master \/ Exists(i)

(* tx80211_init with the name of the card, or of a VAP somebody made.       *)
Init ==
  /\ owner \in [Vaps -> {Nobody, Admin}]
  /\ \A v \in Built : owner[v] = Nobody
  /\ ifname \in [Procs -> Others \cup {Master}]
  /\ \A p \in Procs : ifname[p] = Master \/ Exists(ifname[p])
  /\ hw = HomeMac
  /\ pc = [p \in Procs |-> "idle"]
  /\ call = [p \in Procs |-> "close"]
  /\ list = [p \in Procs |-> {}]
  /\ cand = [p \in Procs |-> 1]
  /\ phase = [p \in Procs |-> "init"]
  /\ reply = [p \in Procs |-> TRUE]
  /\ extra = [p \in Procs |-> Null]
  /\ macset = [p \in Procs |-> FALSE]
  /\ startmac = [p \in Procs |-> NoMac]
  /\ raw = [p \in Procs |-> "zero"]
  /\ sock = [p \in Procs |-> NoVap]
  /\ mishap = [p \in Procs |-> FALSE]

At(p, l)        == pc[p] = l
Go(p, l)        == pc' = [pc EXCEPT ![p] = l]
SetIfname(p, i) == ifname' = [ifname EXCEPT ![p] = i]
SetExtra(p, i)  == extra' = [extra EXCEPT ![p] = i]
Mishap(p)       == mishap' = [mishap EXCEPT ![p] = TRUE]

(* The call goes on at step l, or returns.  A selfack or a close that fails *)
(* does not change what the client may do next.                            *)
Continue(p, l) == Go(p, l) /\ UNCHANGED <<phase, reply>>

Return(p, ok) ==
  /\ Go(p, "idle")
  /\ reply' = [reply EXCEPT ![p] = ok]
  /\ phase' = [phase EXCEPT ![p] =
       CASE call[p] = "setfuncmode" /\ @ = "bare" -> IF ok THEN "open" ELSE "bare"
         [] call[p] = "setfuncmode" /\ @ # "bare" -> IF ok THEN "ready" ELSE "init"
         [] call[p] = "close" /\ ok -> "closed"
         [] OTHER -> @]

(* The parent: the interface whose VAPs are listed and built.              *)
Parent(p) == IF call[p] = "selfack" THEN extra[p] ELSE ifname[p]

(* SIOC80211IFDESTROY: a socket bound to the VAP is left without one.      *)
DestroyVap(v) ==
  /\ Exists(v)
  /\ owner' = [owner EXCEPT ![v] = Nobody]
  /\ sock' = [q \in Procs |-> IF sock[q] = v THEN Gone ELSE sock[q]]

(* wtinj_close: close(raw_fd), whatever the number stands for by now.       *)
CloseRaw(p) == raw' = [raw EXCEPT ![p] = IF @ = "held" THEN "stale" ELSE @]
-----------------------------------------------------------------------------
(***************************************************************************)
(* madwifing_setfuncmode sets the link type, which only a VAP has.  On the *)
(* card itself it deletes all VAPs, builds one and opens that; selfack     *)
(* shares these steps.                                                     *)
(***************************************************************************)
SetFuncmode(p) ==
  /\ At(p, "idle") /\ phase[p] \in {"init", "bare", "closed"}
  /\ call' = [call EXCEPT ![p] = "setfuncmode"]
  /\ Continue(p, "devtype")
  /\ UNCHANGED <<card, list, cand, handle, socket, mishap>>

DevType(p) ==
  /\ At(p, "devtype")
  /\ \/ /\ Exists(ifname[p])
        /\ Continue(p, "open")
        /\ UNCHANGED ifname
     \/ /\ SetIfname(p, IF extra[p] = Null THEN ifname[p] ELSE extra[p])
        /\ Continue(p, "list")
  /\ UNCHANGED <<card, local, extra, macset, startmac, socket, mishap>>

(* If the parent's directory cannot be read the callers go on as if there   *)
(* was nothing to destroy.                                                  *)
ListVaps(p) ==
  /\ At(p, "list")
  /\ \/ /\ list' = [list EXCEPT ![p] = {v \in Vaps : Exists(v)} \ {Parent(p)}]
        /\ mishap' = [mishap EXCEPT ![p] = FALSE]
     \/ /\ UNCHANGED list
        /\ Mishap(p)
  /\ Continue(p, "destroy")
  /\ UNCHANGED <<card, call, cand, handle, socket>>

(* Fault variant of DestroyVaps: one failure has it list the VAPs again.   *)
DestroyVapsAgain(p) ==
  /\ At(p, "destroy") /\ list[p] # {}
  /\ list' = [list EXCEPT ![p] = {}]
  /\ Continue(p, "list")
  /\ UNCHANGED <<card, call, cand, handle, socket, mishap>>

DestroyVaps(p) ==
  /\ At(p, "destroy")
  /\ \E v \in list[p] :
       \/ /\ DestroyVap(v)
          /\ list' = [list EXCEPT ![p] = @ \ {v}]
          /\ Continue(p, "destroy")
          /\ UNCHANGED mishap
       \/ /\ list' = [list EXCEPT ![p] = {}]
          /\ Return(p, FALSE)
          /\ Mishap(p)
          /\ UNCHANGED <<owner, sock>>
  /\ UNCHANGED <<hw, call, cand, handle, raw>>

(* All destroyed: setfuncmode remembers the card's name if it had none.    *)
Destroyed(p) ==
  /\ At(p, "destroy") /\ list[p] = {}
  /\ IF call[p] = "selfack"
       THEN Continue(p, "down") /\ UNCHANGED extra
       ELSE /\ Continue(p, "scan")
            /\ SetExtra(p, IF extra[p] = Null THEN ifname[p] ELSE extra[p])
  /\ cand' = [cand EXCEPT ![p] = 1]
  /\ UNCHANGED <<card, call, list, ifname, macset, startmac, socket, mishap>>

(***************************************************************************)
(* madwifing_build_vap: the first name whose flags cannot be read, the VAP,*)
(* its link type.  A VAP whose link type cannot be set is left behind.     *)
(* setfuncmode forgets the card's name when the building fails.            *)
(***************************************************************************)
BuildFails(p) ==
  /\ Return(p, FALSE)
  /\ IF call[p] = "setfuncmode" THEN SetExtra(p, Null) ELSE UNCHANGED extra

(* Fault variant of Scan: goes one name too far.                           *)
ScanPastEnd(p) ==
  /\ At(p, "scan")
  /\ \/ Continue(p, "create") /\ UNCHANGED cand
     \/ /\ Exists(Lorcon[cand[p]])
        /\ cand' = [cand EXCEPT ![p] = @ + 1]
        /\ Continue(p, "scan")
  /\ UNCHANGED <<card, call, list, handle, socket, mishap>>

Scan(p) ==
  /\ At(p, "scan")
  /\ \/ /\ Continue(p, "create")
        /\ UNCHANGED <<cand, extra>>
     \/ /\ Exists(Lorcon[cand[p]]) /\ cand[p] < Len(Lorcon)
        /\ cand' = [cand EXCEPT ![p] = @ + 1]
        /\ Continue(p, "scan")
        /\ UNCHANGED extra
     \/ /\ Exists(Lorcon[cand[p]]) /\ cand[p] = Len(Lorcon)
        /\ BuildFails(p)
        /\ UNCHANGED cand
  /\ UNCHANGED <<card, call, list, ifname, macset, startmac, socket, mishap>>

CreateVap(p) ==
  /\ At(p, "create")
  /\ \/ /\ Parent(p) = Master /\ ~Exists(Lorcon[cand[p]])
        /\ owner' = [owner EXCEPT ![Lorcon[cand[p]]] = p]
        /\ Continue(p, "retype")
        /\ UNCHANGED extra
     \/ BuildFails(p) /\ UNCHANGED owner
  /\ UNCHANGED <<hw, local, ifname, macset, startmac, socket, mishap>>

RetypeVap(p) ==
  /\ At(p, "retype")
  /\ \/ /\ Exists(Lorcon[cand[p]])
        /\ SetIfname(p, Lorcon[cand[p]])
        /\ Continue(p, "open")
        /\ UNCHANGED <<extra, mishap>>
     \/ /\ BuildFails(p)
        /\ Mishap(p)
        /\ UNCHANGED ifname
  /\ UNCHANGED <<card, local, macset, startmac, socket>>

(* Fault variant of OpenVap: the results of ioctl and bind are not seen.   *)
OpenVapUnchecked(p) ==
  /\ At(p, "open")
  /\ \/ /\ raw' = [raw EXCEPT ![p] = "held"]
        /\ sock' = [sock EXCEPT ![p] = ifname[p]]
     \/ /\ raw' = [raw EXCEPT ![p] = "stale"]
        /\ UNCHANGED sock
  /\ Return(p, TRUE)
  /\ UNCHANGED <<card, local, handle, mishap>>

(* wtinj_open: nothing done, no socket, or a socket closed again; or bound.*)
OpenVap(p) ==
  /\ At(p, "open")
  /\ \/ /\ Exists(ifname[p])
        /\ raw' = [raw EXCEPT ![p] = "held"]
        /\ sock' = [sock EXCEPT ![p] = ifname[p]]
        /\ Return(p, TRUE)
     \/ /\ \E r \in {raw[p], "bad", "stale"} : raw' = [raw EXCEPT ![p] = r]
        /\ Return(p, FALSE)
        /\ UNCHANGED sock
  /\ UNCHANGED <<card, local, handle, mishap>>

(* madwifing_open does nothing and reports success: the socket is there if  *)
(* setfuncmode has made one.  tuntx opens without.                         *)
Open(p) ==
  /\ At(p, "idle") /\ phase[p] \in {"init", "ready", "closed"}
  /\ phase' = [phase EXCEPT ![p] = IF @ = "ready" THEN "open" ELSE "bare"]
  /\ UNCHANGED <<card, pc, local, reply, handle, socket, mishap>>
-----------------------------------------------------------------------------
(***************************************************************************)
(* tx80211_selfack records the address the first time; madwifing_selfack   *)
(* gives up the socket and all VAPs, changes the card's address with the   *)
(* card down, and builds and opens a new VAP.                              *)
(***************************************************************************)
(* Fault variant of Recorded: records the address each time.               *)
RecordedAgain(p) ==
  /\ macset' = [macset EXCEPT ![p] = TRUE]
  /\ startmac' = [startmac EXCEPT ![p] = hw]

Recorded(p) ==
  /\ macset' = [macset EXCEPT ![p] = TRUE]
  /\ startmac' = [startmac EXCEPT ![p] = IF macset[p] THEN @ ELSE hw]

SelfAck(p) ==
  /\ At(p, "idle") /\ phase[p] \in {"open", "bare"}
  /\ call' = [call EXCEPT ![p] = "selfack"]
  /\ \/ /\ ~macset[p]                        \* ifconfig_get_hwaddr failed
        /\ reply' = [reply EXCEPT ![p] = FALSE]
        /\ UNCHANGED <<pc, phase, macset, startmac, socket>>
     \/ /\ macset[p] \/ Present(ifname[p])
        /\ Recorded(p)
        /\ IF extra[p] = Null
             THEN /\ reply' = [reply EXCEPT ![p] = FALSE]
                  /\ UNCHANGED <<pc, phase, socket>>
             ELSE /\ CloseRaw(p)
                  /\ sock' = [sock EXCEPT ![p] = NoVap]
                  /\ Continue(p, "list")
  /\ UNCHANGED <<card, list, cand, ifname, extra, mishap>>

SetCardDown(p) ==
  /\ At(p, "down")
  /\ Continue(p, "sethw") \/ Return(p, FALSE)
  /\ UNCHANGED <<card, local, handle, socket, mishap>>

SetCardAddress(p, mac) ==
  /\ At(p, "sethw")
  /\ \/ hw' = mac /\ Continue(p, "up")
     \/ Return(p, FALSE) /\ UNCHANGED hw
  /\ UNCHANGED <<owner, local, handle, socket, mishap>>

SetCardUp(p) ==
  /\ At(p, "up")
  /\ Continue(p, "scan") \/ Return(p, FALSE)
  /\ UNCHANGED <<card, local, handle, socket, mishap>>
-----------------------------------------------------------------------------
(***************************************************************************)
(* tx80211_close puts the address back: ifname down, the address written to*)
(* the interface extra names, ifname up; then madwifing_close closes the   *)
(* socket and destroys the VAP, without looking whether that worked.       *)
(***************************************************************************)
Close(p) ==
  /\ At(p, "idle") /\ phase[p] \in {"open", "bare"}
  /\ call' = [call EXCEPT ![p] = "close"]
  /\ Continue(p, IF macset[p] THEN "restdown" ELSE "shut")
  /\ UNCHANGED <<card, list, cand, handle, socket, mishap>>

RestoreDown(p) ==
  /\ At(p, "restdown")
  /\ \/ Present(ifname[p]) /\ Continue(p, "restset")
     \/ Return(p, FALSE)
  /\ UNCHANGED <<card, local, handle, socket, mishap>>

RestoreAddress(p) ==
  /\ At(p, "restset")
  /\ \/ extra[p] # Null /\ hw' = startmac[p] /\ Continue(p, "restup")
     \/ extra[p] = Null /\ Continue(p, "crashed") /\ UNCHANGED hw
     \/ Return(p, FALSE) /\ UNCHANGED hw
  /\ UNCHANGED <<owner, local, handle, socket, mishap>>

RestoreUp(p) ==
  /\ At(p, "restup")
  /\ \/ Present(ifname[p]) /\ Continue(p, "shut")
     \/ Return(p, FALSE)
  /\ UNCHANGED <<card, local, handle, socket, mishap>>

(* Fault variant of MadwifingClose: ifname is put back first.              *)
MadwifingCloseSwapped(p) ==
  /\ At(p, "shut")
  /\ CloseRaw(p)
  /\ sock' = [sock EXCEPT ![p] = NoVap]
  /\ IF extra[p] = Null THEN UNCHANGED <<ifname, extra>>
                        ELSE SetIfname(p, extra[p]) /\ SetExtra(p, Null)
  /\ Return(p, TRUE)
  /\ UNCHANGED <<card, local, macset, startmac, mishap>>

MadwifingClose(p) ==
  /\ At(p, "shut")
  /\ CloseRaw(p)
  /\ \/ /\ extra[p] = Null
        /\ sock' = [sock EXCEPT ![p] = NoVap]
        /\ UNCHANGED <<owner, ifname, extra, mishap>>
     \/ /\ extra[p] # Null
        /\ SetIfname(p, extra[p])
        /\ SetExtra(p, Null)
        /\ \/ /\ Exists(ifname[p])
              /\ owner' = [owner EXCEPT ![ifname[p]] = Nobody]
              /\ sock' = [q \in Procs |-> CASE q = p -> NoVap
                                         [] q # p /\ sock[q] = ifname[p] -> Gone
                                         [] OTHER -> sock[q]]
              /\ UNCHANGED mishap
           \/ /\ sock' = [sock EXCEPT ![p] = NoVap]
              /\ Mishap(p)
              /\ UNCHANGED owner
  /\ Return(p, TRUE)
  /\ UNCHANGED <<hw, local, macset, startmac>>
-----------------------------------------------------------------------------
Call(p) == SetFuncmode(p) \/ Open(p) \/ SelfAck(p) \/ Close(p)

Step(p) ==
  \/ DevType(p) \/ ListVaps(p) \/ DestroyVaps(p) \/ Destroyed(p)
  \/ Scan(p) \/ CreateVap(p) \/ RetypeVap(p) \/ OpenVap(p)
  \/ SetCardDown(p) \/ (\E mac \in Macs : SetCardAddress(p, mac)) \/ SetCardUp(p)
  \/ RestoreDown(p) \/ RestoreAddress(p) \/ RestoreUp(p) \/ MadwifingClose(p)

AllDead == (\A p \in Procs : At(p, "crashed")) /\ UNCHANGED vars

Next == (\E p \in Procs : Call(p) \/ Step(p)) \/ AllDead

Spec == Init /\ [][Next]_vars

(* The kernel answers every request; a client need not make a call.        *)
FairSpec == Spec /\ \A p \in Procs : WF_vars(Step(p))
-----------------------------------------------------------------------------
(***************************************************************************)
(* What one process can rely on when it has the card to itself; OwnVapNamed*)
(* and ClosesItsOwn also beside others.                                    *)
(***************************************************************************)

(* Of a handle opened after a setfuncmode that succeeded, or about to be:   *)
(* after a setfuncmode, selfack or other call that reports success and     *)
(* until the next call, its socket is held and bound to the VAP ifname     *)
(* names, and that VAP is there and is the handle's own if it remembers the*)
(* card's name: through every failed attempt before (mwnginject.c          *)
(* madwifing_setfuncmode, madwifing_selfack).  lorcon.3:411 promises a     *)
(* socket of every open; one without a functional mode succeeds without    *)
(* ("bare").                                                               *)
OpenOnOwnVap ==
  \A p \in Procs :
    At(p, "idle") /\ reply[p] /\ phase[p] \in {"ready", "open"} =>
      /\ raw[p] = "held" /\ sock[p] = ifname[p]
      /\ Exists(ifname[p])
      /\ extra[p] # Null => owner[ifname[p]] = p

(* Between calls a process has at most one VAP on the card: the one ifname  *)
(* names, with the card's name remembered, so that the next setfuncmode,   *)
(* selfack or close destroys it; and none once the handle is closed.  So   *)
(* it is after a setfuncmode that built a VAP and could not open it, too.  *)
(* The exceptions are in "mishap": if a listing or destruction fails, or a *)
(* link type cannot be set, VAPs do stay that no variable names, until the *)
(* VAPs are listed again, although madwifing_close says of a "self-made    *)
(* vap" that it will "destroy it too" (mwnginject.c madwifing_setfuncmode  *)
(* and madwifing_close, madwifing_control.c madwifing_build_vap).          *)
OwnVapNamed ==
  \A p \in Procs, v \in Vaps :
    At(p, "idle") /\ owner[v] = p /\ ~mishap[p] =>
      v = ifname[p] /\ extra[p] = Master /\ phase[p] # "closed"

(* While no handle is open the card has its own address, however many       *)
(* selfacks the closed handles made and whichever of them failed half way  *)
(* (tx80211.c tx80211_selfack and tx80211_close).                           *)
AddressRestored ==
  (\A p \in Procs : phase[p] \notin {"open", "bare"}) => hw = HomeMac

(* madwifing_selfack and madwifing_close close raw_fd unseen.              *)
ClosesRaw(p) ==
  \/ At(p, "idle") /\ At(p, "list")'
  \/ At(p, "shut") /\ ~At(p, "shut")'

(* A number is closed that is not a socket of the handle's, descriptor 0 or *)
(* one that may have been given out again, only if the handle was opened   *)
(* without a setfuncmode that succeeded, as tuntx opens it, or the call    *)
(* before failed on a handle that has tried selfack (wtinject.c            *)
(* wtinj_close).                                                           *)
ClosesItsOwn ==
  [][\A p \in Procs :
       ClosesRaw(p) /\ raw[p] \in {"zero", "stale"} =>
         phase[p] = "bare" \/ (macset[p] /\ ~reply[p])]_vars

(* Every call returns or ends the process.                                  *)
CallsReturn ==
  \A p \in Procs : ~At(p, "idle") ~> At(p, "idle") \/ At(p, "crashed")
-----------------------------------------------------------------------------
(***************************************************************************)
(* What it cannot rely on.                                                 *)
(***************************************************************************)

(* A close destroys the VAP the handle itself made, not one that another   *)
(* process has made since under the same name.                             *)
CloseSparesOthers ==
  [][\A p, q \in Procs, v \in Vaps :
       At(p, "shut") /\ ~At(p, "shut")' /\ p # q /\ owner[v] = q => owner'[v] = q]_vars
=============================================================================
