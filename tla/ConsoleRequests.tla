---------------------------- MODULE ConsoleRequests ---------------------------
(* What the parts of the console (internal/pveweb) have in common: the     *)
(* requests that are served at once, each in a goroutine, and the clock.   *)
EXTENDS Integers, Sequences, FiniteSets

CONSTANT Tabs              \* the requests in progress, by browser tab

VARIABLE now
=============================================================================
