------------------------------- MODULE Packasm -------------------------------
(***************************************************************************)
(* Packet lists as lorcon_packasm.c keeps them: components linked both     *)
(* ways on the heap, whose data is a copy the list owns or memory that the *)
(* user lends to it.  The user follows lorcon_packasm.h: lent memory is    *)
(* neither written nor freed before the list is, and no component is used  *)
(* after its list was freed.  malloc finds memory as long as there is some.*)
(***************************************************************************)
EXTENDS SequencesExt

CONSTANTS
  Nodes,   \* addresses of components
  Blocks,  \* addresses of data
  Values,  \* contents of data
  Null,
  Junk     \* what a field nobody has written since malloc can be: the flag
           \* freedata taken as true or false

ASSUME PackasmAssumption ==
  /\ Null \notin Nodes \cup Blocks \cup Values
  /\ Junk \subseteq BOOLEAN /\ Junk # {}

VARIABLES
  alloc,   \* the components that malloc gave out and free has not taken back
  known,   \* those the user may still use: the components of lists not freed
  prev, next, data, freedata,   \* their fields
  own,     \* data address -> who allocated it: the user, the library, nobody
  mem,     \* data address -> its content
  frame,   \* the packet the last call froze, or <<>>
  badfree  \* has the library freed what was not its to free

links  == <<prev, next>>
blocks == <<own, mem, badfree>>
vars   == <<alloc, known, links, data, freedata, blocks, frame>>

TypeOK ==
  /\ alloc \subseteq Nodes
  /\ known \subseteq alloc
  /\ prev \in [Nodes -> Nodes \cup {Null}]
  /\ next \in [Nodes -> Nodes \cup {Null}]
  /\ data \in [Nodes -> Blocks \cup {Null}]
  /\ freedata \in [Nodes -> BOOLEAN]
  /\ own \in [Blocks -> {"none", "user", "list"}]
  /\ mem \in [Blocks -> Values]
  /\ frame \in Seq(Values)
  /\ badfree \in BOOLEAN

Init ==
  /\ alloc = {}
  /\ known = {}
  /\ prev = [n \in Nodes |-> Null]
  /\ next = [n \in Nodes |-> Null]
  /\ data = [n \in Nodes |-> Null]
  /\ freedata = [n \in Nodes |-> FALSE]
  /\ own = [b \in Blocks |-> "none"]
  /\ mem \in [Blocks -> Values]
  /\ frame = <<>>
  /\ badfree = FALSE

(* The loops that seek the first and the last component of n's list, and    *)
(* the one that goes through the components from n on.  They meet only     *)
(* components of lists that are not freed.                                 *)
ListHead[n \in known] == IF prev[n] = Null THEN n ELSE ListHead[prev[n]]
ListEnd[n \in known]  == IF next[n] = Null THEN n ELSE ListEnd[next[n]]
Chain[n \in known]    == <<n>> \o (IF next[n] = Null THEN <<>> ELSE Chain[next[n]])

Malloc(c)   == c \in Nodes \ alloc /\ alloc' = alloc \cup {c} /\ known' = known \cup {c}

LcpaInit(c) ==
  /\ Malloc(c)
  /\ prev' = [prev EXCEPT ![c] = Null]
  /\ next' = [next EXCEPT ![c] = Null]
  /\ data' = [data EXCEPT ![c] = Null]
  /\ freedata' = [freedata EXCEPT ![c] = FALSE]
  /\ frame' = <<>>
  /\ UNCHANGED blocks
-----------------------------------------------------------------------------
(***************************************************************************)
(* Adding a component c to the list of n: the place it gets ...            *)
(***************************************************************************)
(* Fault variant of AtEnd: does not seek the end of the list.              *)
AtEndUnsought(n, c) ==
  /\ next' = [next EXCEPT ![n] = c, ![c] = Null]
  /\ prev' = [prev EXCEPT ![c] = n]

AtEnd(n, c) ==
  /\ next' = [next EXCEPT ![ListEnd[n]] = c, ![c] = Null]
  /\ prev' = [prev EXCEPT ![c] = ListEnd[n]]

(* The component that followed n keeps n for its prev.                     *)
After(n, c) ==
  /\ next' = [next EXCEPT ![c] = next[n], ![n] = c]
  /\ prev' = [prev EXCEPT ![c] = n]

(* ... and its data: a copy in newly allocated memory, or memory of the    *)
(* user's.  lcpa_append clears freedata, lcpa_insert does not write it.    *)
Copied(c, b, v) ==
  /\ own[b] = "none"
  /\ own' = [own EXCEPT ![b] = "list"]
  /\ mem' = [mem EXCEPT ![b] = v]
  /\ data' = [data EXCEPT ![c] = b]
  /\ freedata' = [freedata EXCEPT ![c] = TRUE]
  /\ UNCHANGED badfree

Lent(c, b, flag) ==
  /\ own[b] = "user"
  /\ data' = [data EXCEPT ![c] = b]
  /\ freedata' = [freedata EXCEPT ![c] = flag]
  /\ UNCHANGED blocks

AppendCopy(n, c, b, v) == Malloc(c) /\ AtEnd(n, c) /\ Copied(c, b, v) /\ frame' = <<>>
AppendLent(n, c, b)    == Malloc(c) /\ AtEnd(n, c) /\ Lent(c, b, FALSE) /\ frame' = <<>>
InsertCopy(n, c, b, v) == Malloc(c) /\ After(n, c) /\ Copied(c, b, v) /\ frame' = <<>>
InsertLent(n, c, b)    ==
  /\ Malloc(c) /\ After(n, c)
  /\ \E flag \in Junk : Lent(c, b, flag)
  /\ frame' = <<>>
-----------------------------------------------------------------------------
(***************************************************************************)
(* Replacing the data of a component, and freeing and freezing its list.   *)
(***************************************************************************)
(* free() of the data of a set of components.                              *)
OwnAfterFree(S) ==
  [b \in Blocks |-> IF \E n \in S : freedata[n] /\ data[n] = b THEN "none" ELSE own[b]]

IsBadFree(S) ==
  \E n \in S : freedata[n] /\
    \/ data[n] = Null \/ own[data[n]] # "list"
    \/ \E m \in S \ {n} : freedata[m] /\ data[m] = data[n]

ReplaceCopy(n, b, v) ==
  /\ OwnAfterFree({n})[b] = "none"
  /\ own' = [OwnAfterFree({n}) EXCEPT ![b] = "list"]
  /\ mem' = [mem EXCEPT ![b] = v]
  /\ badfree' = (badfree \/ IsBadFree({n}))
  /\ data' = [data EXCEPT ![n] = b]
  /\ freedata' = [freedata EXCEPT ![n] = TRUE]
  /\ frame' = <<>>
  /\ UNCHANGED <<alloc, known, links>>

(* Fault variants of ReplaceLent: leaves the flag, does not free the data. *)
ReplaceLentKeepsFlag(n, b) ==
  /\ own[b] = "user"
  /\ own' = OwnAfterFree({n})
  /\ badfree' = (badfree \/ IsBadFree({n}))
  /\ data' = [data EXCEPT ![n] = b]
  /\ frame' = <<>>
  /\ UNCHANGED <<alloc, known, links, freedata, mem>>

ReplaceLentLeaks(n, b) ==
  /\ own[b] = "user"
  /\ data' = [data EXCEPT ![n] = b]
  /\ freedata' = [freedata EXCEPT ![n] = FALSE]
  /\ frame' = <<>>
  /\ UNCHANGED <<alloc, known, links, blocks>>

ReplaceLent(n, b) ==
  /\ own[b] = "user"
  /\ own' = OwnAfterFree({n})
  /\ badfree' = (badfree \/ IsBadFree({n}))
  /\ data' = [data EXCEPT ![n] = b]
  /\ freedata' = [freedata EXCEPT ![n] = FALSE]
  /\ frame' = <<>>
  /\ UNCHANGED <<alloc, known, links, mem>>

(* Fault variant of LcpaFree: the loop runs from the end back.             *)
LcpaFreeBack(n) ==
  LET chain == Chain[ListHead[n]]
      freed == ToSet(Tail(chain))
  IN  /\ alloc' = alloc \ freed
      /\ known' = known \ ToSet(chain)
      /\ own' = OwnAfterFree(freed)
      /\ badfree' = (badfree \/ IsBadFree(freed))
      /\ frame' = <<>>
      /\ UNCHANGED <<links, data, freedata, mem>>

(* Each component is freed when the loop stands on the one after it, so    *)
(* the last one never is.                                                  *)
LcpaFree(n) ==
  LET chain == Chain[ListHead[n]]
      freed == ToSet(Front(chain))
  IN  /\ alloc' = alloc \ freed
      /\ known' = known \ ToSet(chain)
      /\ own' = OwnAfterFree(freed)
      /\ badfree' = (badfree \/ IsBadFree(freed))
      /\ frame' = <<>>
      /\ UNCHANGED <<links, data, freedata, mem>>

Contents(chain) == [k \in DOMAIN chain |-> IF data[chain[k]] = Null THEN Null
                                                                ELSE mem[data[chain[k]]]]

(* Fault variant of LcpaFreeze: does not step over the list's head.        *)
LcpaFreezeAll(n) ==
  /\ frame' = Contents(Chain[ListHead[n]])
  /\ UNCHANGED <<alloc, known, links, data, freedata, blocks>>

LcpaFreeze(n) ==
  /\ frame' = Contents(Tail(Chain[ListHead[n]]))
  /\ UNCHANGED <<alloc, known, links, data, freedata, blocks>>
-----------------------------------------------------------------------------
(***************************************************************************)
(* The user's memory.                                                      *)
(***************************************************************************)
UserAlloc(b, v) ==
  /\ own[b] = "none"
  /\ own' = [own EXCEPT ![b] = "user"]
  /\ mem' = [mem EXCEPT ![b] = v]
  /\ UNCHANGED <<alloc, known, links, data, freedata, badfree, frame>>

UserFree(b) ==
  /\ own[b] = "user"
  /\ \A n \in known : data[n] # b
  /\ own' = [own EXCEPT ![b] = "none"]
  /\ UNCHANGED <<alloc, known, links, data, freedata, mem, badfree, frame>>

Next ==
  \/ \E c \in Nodes : LcpaInit(c)
  \/ \E n \in known, c \in Nodes, b \in Blocks :
       \/ \E v \in Values : AppendCopy(n, c, b, v) \/ InsertCopy(n, c, b, v)
       \/ AppendLent(n, c, b)
       \/ InsertLent(n, c, b)
  \/ \E n \in known :
       \/ \E b \in Blocks, v \in Values : ReplaceCopy(n, b, v)
       \/ \E b \in Blocks : ReplaceLent(n, b)
       \/ LcpaFree(n)
       \/ LcpaFreeze(n)
  \/ \E b \in Blocks :
       \/ \E v \in Values : UserAlloc(b, v)
       \/ UserFree(b)

Spec == Init /\ [][Next]_vars
-----------------------------------------------------------------------------
(* The lists refine sequences of components: whatever component of a list   *)
(* a call is given, it works on the whole list, also after insertions,      *)
(* which leave prev links that skip components (lorcon_packasm.h: "in_pack  *)
(* may be any component of the list").                                      *)
Abstract ==
  INSTANCE PacketSeq WITH
    lists   <- {Chain[n] : n \in {m \in known : prev[m] = Null}},
    content <- [n \in Nodes |-> IF n \notin known \/ data[n] = Null THEN Null
                                                            ELSE mem[data[n]]]

RefinesSequences == Abstract!Spec

(* The library frees nothing that is the user's, and nothing twice.        *)
NoBadFree == ~badfree

(* Memory the library allocated for data is reachable through exactly one   *)
(* component that will free it: no replacement loses or shares a copy.     *)
CopyHasOneOwner ==
  \A b \in Blocks : own[b] = "list" =>
    \E n \in alloc : /\ freedata[n] /\ data[n] = b
                    /\ \A m \in alloc \ {n} : ~(freedata[m] /\ data[m] = b)

(* A freed list leaves its last component behind and no other, so that what*)
(* leaks is one component a list, whichever component lcpa_free is given:  *)
(* "the entire list will be removed" (lorcon_packasm.h) holds but for it.  *)
OnlyTheLastLeaks == \A n \in alloc \ known : next[n] = Null
=============================================================================
