------------------------------ MODULE MCSessions ------------------------------
(***************************************************************************)
(* Instances of Sessions for TLC.                                          *)
(***************************************************************************)
EXTENDS Sessions, TLC

CONSTANTS r1, r2, r3, r4, i1, i2, i3, alice, bob

Symmetry ==
    Permutations(Requests) \cup Permutations(Instances \ Scripts) \cup Permutations(Users)
===============================================================================
