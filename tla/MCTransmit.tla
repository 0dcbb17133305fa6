------------------------------ MODULE MCTransmit ------------------------------
EXTENDS Transmit

(* Every name of the tables, of the card list and of the manual, one nobody *)
(* knows, and no name.                                                     *)
MCNames == UNION {KnownNames(p) : p \in Platforms}
             \cup {CardList[n].name : n \in DOMAIN CardList}
             \cup UNION {m[1] : m \in ManualNames} \cup {"unheard-of", Null}
=============================================================================
