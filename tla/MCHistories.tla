------------------------------- MODULE MCHistories -------------------------------
(* Instances of Histories.                                                 *)
EXTENDS HistoriesProofs
=============================================================================
