------------------------------- MODULE MC_Queries -------------------------------
(***************************************************************************)
(* Two classes of four handles, the upper one asked for; pages of two.     *)
(***************************************************************************)
EXTENDS Queries

HandleSpace == {2, 4, 5, 7}
=============================================================================
