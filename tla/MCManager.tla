------------------------------- MODULE MCManager -------------------------------
(* An instance of Manager: two requests at once, a device that may be      *)
(* woken and one that may not, and the UPS as its collector reports it.    *)
EXTENDS ManagerProofs, TLC

CONSTANTS node, nas, browser, other

Configured == <<nas, node>>

Symmetric == Permutations({browser, other})
=============================================================================
