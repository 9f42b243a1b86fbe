---------------------------- MODULE MCAuthority ----------------------------
(* Three working copies.  Their devices differ in the run of an ordinary   *)
(* trust set; the second copy is a copy of the first one's profile in the  *)
(* others.                                                                 *)
EXTENDS Authority, TLC

CONSTANTS d1, d2, d3, r1, r2, r3

OwnDevices == {r1 :> d1 @@ r2 :> d2 @@ r3 :> d3}
CopiedProfile == {r1 :> d1 @@ r2 :> d1 @@ r3 :> d2}

ThreeIdentities == {[device |-> d, transport |-> d] : d \in {d1, d2, d3}}
TwoIdentities == {[device |-> d, transport |-> d] : d \in {d1, d2}}

Symmetry == Permutations(Operations)
=============================================================================
