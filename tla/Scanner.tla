------------------------------ MODULE Scanner ------------------------------
(***************************************************************************)
(* The two searches of boundary.py for a rate: search, for the highest one *)
(* whose drop is no more than expected, and find_max_rate, for the highest *)
(* one there is.  Each asks for the result of a run at some value, and     *)
(* goes on from the answer.                                                *)
(*                                                                         *)
(* search halves floating-point numbers.  Here they are integers: whenever *)
(* it halves its step, the unit of value, step, best_rate, and of what     *)
(* they are compared with, is halved instead.  The sign of last_increase   *)
(* plays no part, so step is its absolute value.                           *)
(*                                                                         *)
(* What answers is a publisher that sends at the rate it is asked for, as  *)
(* far as it can, and subscribers whose drop exceeds what is expected      *)
(* above a threshold; or, if they are not steady, now and then.  The rate  *)
(* of a run is the one they receive at: that of the publisher where        *)
(* nothing drops, and any share of it where something does.                *)
(***************************************************************************)
EXTENDS Integers

CONSTANTS Start,        \* the value a search starts with
          Precision,    \* 1 / error_percentage
          MaxDrop,      \* bound: drops are 0..MaxDrop
          Thresholds,   \* where drops may begin to exceed what is expected
          Caps,         \* what the publisher may be able to send
          Shares,       \* the percentages of it that may arrive if there are drops
          MaxScale      \* bound: a search may divide its unit by so much

ASSUME ScannerAssumption ==
  /\ Start \in Nat \ {0} /\ Precision \in Nat \ {0} /\ MaxDrop \in Nat \ {0}
  /\ Thresholds \subseteq Nat /\ Caps \subseteq Nat \ {0} /\ Shares \subseteq 0..100
  /\ MaxScale \in Nat \ {0}

VARIABLES
  spc,                  \* "ask", "done", or what the run asked for is at
  kind,                 \* "search" or "max"
  expected,             \* expected_result
  value,
  step,                 \* abs(last_increase)
  toggled,              \* first_toggle
  best_res, best_rate,
  max_rate, last_rate,  \* of find_max_rate: max_value_rate and last_rate
  scale,                \* what the first unit has been divided by
  threshold, cap, steady,  \* what answers
  passed                \* history: the highest rate sent in a run that has passed, or 0

search  == <<value, step, toggled, best_res, best_rate, passed>>
maximum == <<max_rate, last_rate>>
world   == <<threshold, cap>>
svars   == <<spc, kind, expected, search, maximum, scale, world, steady>>

Abs(n)   == IF n < 0 THEN -n ELSE n
Higher(m, n) == IF m < n THEN n ELSE m

\* No more is received than sent, and all of it if nothing drops.
Answers == {a \in [status : BOOLEAN, sent : Nat, rate : Nat, drop : 0..MaxDrop] :
              a.rate <= a.sent /\ (a.drop = 0 => a.rate = a.sent)}

SearchInit ==
  /\ spc = "ask" /\ kind \in {"search", "max"} /\ expected \in 0..MaxDrop - 1
  /\ value = Start /\ step = Start /\ toggled = FALSE
  /\ best_res = -1 /\ best_rate = 0 /\ passed = 0
  /\ max_rate = 0 /\ last_rate = 0
  /\ scale = 1
  /\ threshold \in Thresholds /\ cap \in Caps /\ steady \in BOOLEAN

\* Another Scanner is made: of the search before, nothing is left.
SearchAnew ==
  /\ spc' = "ask" /\ kind' \in {"search", "max"} /\ expected' \in 0..MaxDrop - 1
  /\ value' = Start /\ step' = Start /\ toggled' = FALSE
  /\ best_res' = -1 /\ best_rate' = 0 /\ passed' = 0
  /\ max_rate' = 0 /\ last_rate' = 0
  /\ scale' = 1
  /\ threshold' \in Thresholds /\ cap' \in Caps /\ steady' \in BOOLEAN

-----------------------------------------------------------------------------
(* What a run at value answers.                                            *)

Rate == IF value < cap THEN value ELSE cap

\* boundary_resultfn: a run in which the publisher sends less than 70% of what it is
\* asked for is no result; the rate it returns is average_rate, that of the subscribers.
Answer(drop, rate) ==
  [status |-> 10 * Rate >= 7 * value, sent |-> Rate, rate |-> rate, drop |-> drop]

Received(drop) == IF drop = 0 THEN {Rate} ELSE {(Rate * share) \div 100 : share \in Shares}

Possible == {d \in 0..MaxDrop : steady => (d <= expected <=> value <= threshold)}
Honest   == UNION {{Answer(d, r) : r \in Received(d)} : d \in Possible}

-----------------------------------------------------------------------------
(* search.                                                                 *)

\* The closest result so far, as the code compares them.
Better(a) == \/ best_res = -1
             \/ Abs(expected - a.drop) < Abs(best_res - a.drop)
             \/ a.drop = best_res /\ a.rate > best_rate

BestRate(a) == IF Better(a) THEN a.rate ELSE best_rate
Passed(a)   == IF a.drop <= expected THEN Higher(passed, a.sent) ELSE passed

\* Mutant: the step is compared with the precision alone.
FoundAbsolute == Precision * step < 1

\* Mutant: the step it would go on with is compared.
FoundEarly == Precision * step < 2 * value

Found == Precision * step < value

\* As long as every run has passed: twice the value.
Double(a) == /\ a.drop <= expected /\ ~toggled
             /\ value' = 2 * value /\ step' = value
             /\ best_rate' = BestRate(a) /\ passed' = Passed(a)
             /\ UNCHANGED <<scale, world>>

\* Mutant: the whole step down.
NarrowWhole(a) == /\ toggled \/ a.drop > expected
                  /\ 2 * scale <= MaxScale
                  /\ scale' = 2 * scale
                  /\ value' = IF a.drop <= expected THEN 2 * value + step ELSE 2 * value - 2 * step
                  /\ step' = step
                  /\ best_rate' = 2 * BestRate(a) /\ passed' = 2 * Passed(a)
                  /\ threshold' = 2 * threshold /\ cap' = 2 * cap

\* Mutant: up only while no run has failed.
NarrowDown(a) == /\ toggled \/ a.drop > expected
                 /\ 2 * scale <= MaxScale
                 /\ scale' = 2 * scale
                 /\ value' = 2 * value - step
                 /\ step' = step
                 /\ best_rate' = 2 * BestRate(a) /\ passed' = 2 * Passed(a)
                 /\ threshold' = 2 * threshold /\ cap' = 2 * cap

\* From then on: half the step, up or down, in units half as large.
Narrow(a) == /\ toggled \/ a.drop > expected
             /\ 2 * scale <= MaxScale
             /\ scale' = 2 * scale
             /\ value' = IF a.drop <= expected THEN 2 * value + step ELSE 2 * value - step
             /\ step' = step
             /\ best_rate' = 2 * BestRate(a) /\ passed' = 2 * Passed(a)
             /\ threshold' = 2 * threshold /\ cap' = 2 * cap

Search(a) ==
  /\ kind = "search"
  /\ IF ~a.status
     THEN spc' = "done" /\ UNCHANGED <<search, scale, world>>
     ELSE /\ best_res' = IF Better(a) THEN a.drop ELSE best_res
          /\ toggled' = (toggled \/ a.drop > expected)
          /\ IF Found
             THEN /\ spc' = "done"
                  /\ best_rate' = BestRate(a) /\ passed' = Passed(a)
                  /\ UNCHANGED <<value, step, scale, world>>
             ELSE spc' = "ask" /\ (Double(a) \/ Narrow(a))
  /\ UNCHANGED <<kind, expected, maximum, steady>>

-----------------------------------------------------------------------------
(* find_max_rate.  It does not look at the status.                         *)

\* Less than 2% more than the run before; the first is compared with 0.1.
NoMore(a) == a.rate < 1 \/ 50 * (a.rate - last_rate) < last_rate

FindMax(a) ==
  /\ kind = "max"
  /\ max_rate' = Higher(max_rate, a.rate)
  /\ IF NoMore(a)
     THEN spc' = "done" /\ UNCHANGED <<value, last_rate>>
     ELSE spc' = "ask" /\ value' = 2 * value /\ last_rate' = a.rate
  /\ UNCHANGED <<kind, expected, step, toggled, best_res, best_rate, passed, scale,
                 world, steady>>

\* What the run function has returned is looked at, and the next value chosen.
Heed(a) == Search(a) \/ FindMax(a)

-----------------------------------------------------------------------------
(* Properties of every specification whose steps on these variables are    *)
(* steps of Heed.                                                          *)

\* Every variable of a search stays within the values the code gives it.
SearchTypeOK ==
  /\ kind \in {"search", "max"}
  /\ expected \in 0..MaxDrop - 1 /\ best_res \in -1..MaxDrop
  /\ value \in Nat /\ step \in Nat /\ best_rate \in Nat /\ passed \in Nat
  /\ max_rate \in Nat /\ last_rate \in Nat
  /\ toggled \in BOOLEAN /\ steady \in BOOLEAN
  /\ scale \in 1..MaxScale
  /\ threshold \in Nat /\ cap \in Nat \ {0}

\* search never asks for a rate of 0 or less, by which the publisher would divide
\* (zmq_pub.py:117), whatever the runs answer.
AsksPositive == value >= step /\ step > 0

\* Once a run has failed, the value asked for is never further from the threshold than
\* the last step was, and the highest rate sent that has passed no further than two steps,
\* if the publisher can send as much: nothing the search has excluded comes back, and
\* nothing it has measured is lost.
Bracketed ==
  kind = "search" /\ steady /\ toggled =>
    /\ Abs(threshold - value) <= step
    /\ threshold <= cap => passed <= threshold /\ threshold - passed <= 2 * step

\* Where nothing is expected to drop, the rate returned is the highest of the rates
\* that have passed, in whatever order and how unsteadily the runs have passed.  It need
\* not be where something is: after a run without drops any that drops too much is kept,
\* being closer to what is expected than to that one.
BestIsHighestPassed ==
  kind = "search" /\ expected = 0 /\ passed > 0 => best_res = 0 /\ best_rate = passed

\* A steady search for the highest rate without a drop finds it, if the publisher can send
\* as much and some rate is too high: what it returns is not above the threshold, and as
\* close to it as error_percentage of the last value asked for.
FindsThreshold ==
  /\ spc = "done" /\ kind = "search" /\ steady /\ toggled
  /\ expected = 0 /\ threshold <= cap
  => best_rate <= threshold /\ Precision * (threshold - best_rate) < value

\* A search for the highest rate there is returns no more than can be sent.  With steady
\* subscribers, and no drop at the first value it makes a run of its own at, it is more than
\* half of what can be sent or of what can be received without a drop, and all that can be
\* sent if twice as much can be received: no run ends the search before.
FindsMaximum(first) ==
  spc = "done" /\ kind = "max" =>
    /\ max_rate <= cap
    /\ steady /\ expected = 0 /\ first <= threshold =>
         /\ 2 * max_rate > threshold \/ 2 * max_rate > cap
         /\ 2 * cap <= threshold => max_rate = cap
=============================================================================
