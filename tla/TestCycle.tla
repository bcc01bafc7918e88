----------------------------- MODULE TestCycle -----------------------------
(***************************************************************************)
(* What one test driver and one publisher promise each other.  The driver  *)
(* starts tests one at a time; the publisher runs the one it was told to,  *)
(* and only when that run has ended does the driver take its results, once *)
(* and in order, complete and measured by the run it started.              *)
(*                                                                         *)
(* This is what rerun_test in the runtest.py files relies on: start_test,  *)
(* wait_for_testend, fetch_app_stats, and then the division of one number  *)
(* by another as if both came from the same run.                           *)
(***************************************************************************)
EXTENDS Naturals, Sequences

CONSTANTS MaxTests,  \* how many tests the driver asks for
          Keys       \* what a complete result contains

VARIABLES pub,       \* the publisher, as the driver may see it
          round,     \* the test being prepared, run or read
          results    \* what the driver has taken, one result per finished test

vars == <<pub, round, results>>

Init == pub = "idle" /\ round = 1 /\ results = <<>>

Start == /\ pub = "idle"
         /\ round \in 1..MaxTests
         /\ pub' = "running"
         /\ UNCHANGED <<round, results>>

Finish == /\ pub = "running"
          /\ pub' = "ended"
          /\ UNCHANGED <<round, results>>

\* A result maps every key to the test whose run measured it.
Collect == /\ pub = "ended"
           /\ results' = Append(results, [k \in Keys |-> round])
           /\ round' = round + 1
           /\ pub' = "idle"

Next == Start \/ Finish \/ Collect

Spec == Init /\ [][Next]_vars
=============================================================================
