-------------------------- MODULE MCArtifactStore --------------------------
(***************************************************************************)
(* A small instance of ArtifactStore for TLC: more Puts than there is      *)
(* room for, and a clock that outlasts every deadline.  No symmetry is     *)
(* declared, because the run checks a refinement.                          *)
(***************************************************************************)
EXTENDS ArtifactStore
=============================================================================
