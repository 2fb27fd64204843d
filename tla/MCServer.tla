------------------------------ MODULE MCServer ------------------------------
(***************************************************************************)
(* A small instance of Server for TLC: two requests that may want the same *)
(* artifact, and a store that is full with one of two.                     *)
(***************************************************************************)
EXTENDS Server
=============================================================================
