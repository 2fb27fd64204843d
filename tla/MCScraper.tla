----------------------------- MODULE MCScraper -----------------------------
(***************************************************************************)
(* Small instances of Scraper for TLC.  The .cfg files give the constants  *)
(* their values.                                                           *)
(***************************************************************************)
EXTENDS Scraper, TLC

\* Callers are interchangeable in every run whose Cancellable is empty or all.
Symmetry == Permutations(Caller)
=============================================================================
