----------------------------- MODULE RateSuite -----------------------------
(***************************************************************************)
(* What boundary_run promises the searches of a suite: each value they ask *)
(* for is answered by a run of its own, in the configuration of now.       *)
(* There is no cache here, nothing fails half way and is tried again, and  *)
(* nothing has to be launched first; a suite is only given up at some run. *)
(*                                                                         *)
(* One answer of another search there may be: the very first, if a search  *)
(* before has failed to make its first run.  It is a failure again.        *)
(***************************************************************************)
EXTENDS Scanner

VARIABLE searches     \* the search the suite is at

suite == <<svars, searches>>

Init == SearchInit /\ searches = 1

Measure == /\ spc = "ask"
           /\ \E a \in Honest : Heed(a)
           /\ UNCHANGED searches

\* A publisher that could send less than 70% of what all searches start with.
FailAgain == /\ spc = "ask" /\ searches > 1 /\ value = Start /\ scale = 1
             /\ \E n \in 1..Start, d \in 0..MaxDrop : \E r \in 0..n :
                  /\ 10 * n < 7 * Start
                  /\ Heed([status |-> FALSE, sent |-> n, rate |-> r, drop |-> d])
             /\ UNCHANGED searches

GiveUp == /\ spc = "ask" /\ spc' = "gaveup"
          /\ UNCHANGED <<kind, expected, search, maximum, scale, world, steady, searches>>

NextSearch == spc = "done" /\ searches' = searches + 1 /\ SearchAnew

Next == Measure \/ FailAgain \/ GiveUp \/ NextSearch

Spec == Init /\ [][Next]_suite
=============================================================================
