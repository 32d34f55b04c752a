--------------------------- MODULE MCGocatorFacade ---------------------------
(* GocatorFacade for TLC. *)
EXTENDS GocatorFacadeProperties

\* One continuous, one single and one longer counted acquisition.
MCTargets == {0, 1, 2}
=============================================================================
