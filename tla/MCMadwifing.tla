----------------------------- MODULE MCMadwifing -----------------------------
(* Instances of Madwifing for TLC. *)
EXTENDS Madwifing

MCLorcon == <<"lorcon0", "lorcon1">>
=============================================================================
