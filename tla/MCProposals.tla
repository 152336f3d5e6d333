---------------------------- MODULE MCProposals ----------------------------
(* Two groups: one with the existing gear, one with extra proposals. *)
EXTENDS Proposals, TLC

CONSTANTS s1, s2, gear, extra

MCGroupOf == s1 :> 1 @@ gear :> 1 @@ s2 :> 2 @@ extra :> 2
=============================================================================
