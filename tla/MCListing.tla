------------------------------- MODULE MCListing -------------------------------
(***************************************************************************)
(* An instance of Listing for TLC.                                         *)
(***************************************************************************)
EXTENDS Listing

MCKeys == 1 .. 4
===============================================================================
