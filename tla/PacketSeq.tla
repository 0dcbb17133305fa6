------------------------------ MODULE PacketSeq ------------------------------
(***************************************************************************)
(* What lorcon_packasm.h promises of packet lists, without their links: a  *)
(* list is a sequence of components, the first of which is no part of the  *)
(* packet; any component stands for its whole list.                        *)
(***************************************************************************)
EXTENDS SequencesExt

CONSTANTS
  Nodes,    \* components
  Values,   \* contents of a component
  Null

VARIABLES
  lists,    \* the lists that are not freed
  content,  \* what each of their components holds
  frame     \* the packet the last call froze, or <<>>

Parts     == UNION {ToSet(l) : l \in lists}
ListOf(n) == CHOOSE l \in lists : n \in ToSet(l)

Change(old, new) == lists' = (lists \ {old}) \cup {new}

Init ==
  /\ lists = {}
  /\ content = [n \in Nodes |-> Null]
  /\ frame = <<>>

NewList(c) ==
  /\ lists' = lists \cup {<<c>>}
  /\ UNCHANGED content
  /\ frame' = <<>>

(* At the end of n's list, wherever in it n is.                            *)
AppendPart(n, c, v) ==
  /\ Change(ListOf(n), Append(ListOf(n), c))
  /\ content' = [content EXCEPT ![c] = v]
  /\ frame' = <<>>

(* Right after n.                                                          *)
InsertPart(n, c, v) ==
  /\ \E k \in DOMAIN ListOf(n) :
       /\ ListOf(n)[k] = n
       /\ Change(ListOf(n), InsertAt(ListOf(n), k + 1, c))
  /\ content' = [content EXCEPT ![c] = v]
  /\ frame' = <<>>

ReplacePart(n, v) ==
  /\ content' = [content EXCEPT ![n] = v]
  /\ frame' = <<>>
  /\ UNCHANGED lists

FreeList(n) ==
  /\ lists' = lists \ {ListOf(n)}
  /\ content' = [m \in Nodes |-> IF m \in ToSet(ListOf(n)) THEN Null ELSE content[m]]
  /\ frame' = <<>>

FreezeList(n) ==
  /\ frame' = [k \in 1 .. Len(ListOf(n)) - 1 |-> content[ListOf(n)[k + 1]]]
  /\ UNCHANGED <<lists, content>>

Next ==
  \/ \E c \in Nodes \ Parts :
       \/ NewList(c)
       \/ \E n \in Parts, v \in Values : AppendPart(n, c, v) \/ InsertPart(n, c, v)
  \/ \E n \in Parts :
       \/ \E v \in Values : ReplacePart(n, v)
       \/ FreeList(n)
       \/ FreezeList(n)

Spec == Init /\ [][Next]_<<lists, content, frame>>
=============================================================================
