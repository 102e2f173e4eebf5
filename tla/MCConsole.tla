------------------------------- MODULE MCConsole -------------------------------
(* Instances of Console.                                                   *)
EXTENDS ConsoleProofs, TLC

(* Tabs are interchangeable, and so are guests.                            *)
Interchangeable == Permutations(Tabs) \cup Permutations(VMs)
=============================================================================
