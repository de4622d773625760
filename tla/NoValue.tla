------------------------------- MODULE NoValue -------------------------------
(* The value that stands for the absence of one (null, undefined) wherever   *)
(* components that are composed with each other need it.                     *)
CONSTANT None
=============================================================================
