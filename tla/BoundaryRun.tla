---------------------------- MODULE BoundaryRun ----------------------------
(***************************************************************************)
(* A test suite that searches for a rate several times with one driver:    *)
(* between the searches it changes the number or the kind of the           *)
(* subscribers, and each run a search asks for goes through boundary_run,  *)
(* with its cache and its retries.  The searches are those of module       *)
(* Scanner.                                                                *)
(*                                                                         *)
(* The driver is that of ZeroMQ (zmqtest/runtest.py), or that of RabbitMQ, *)
(* whose rerun_test also groups the subscribers (rmqtest/runtest.py).      *)
(* Applications and groups are those of module AppRegistry, cut down to    *)
(* whether they are there.  Every call a run makes to Marathon or to a     *)
(* task may raise; each exception so raised is counted as a fault of the   *)
(* value asked for.  The launch of the subscribers for RabbitMQ divides    *)
(* their number; without any there is a division by zero in the end, and   *)
(* with fewer than the groups take the groups are never made.              *)
(*                                                                         *)
(* All searches of a suite start at the same value, as those for slow and  *)
(* for reconnecting clients do (maxrate_test.py:97, 106, 117).             *)
(***************************************************************************)
EXTENDS Scanner

CONSTANTS MaxSearches,  \* bound: the searches of one suite
          MaxFaults,    \* bound: the exceptions while one value is asked for
          Subs,         \* what total_sub_apps may be set to
          PerGroup,     \* apps_in_group
          Needed        \* subscribers that rerun_test's groups take in all

ASSUME BoundaryAssumption ==
  /\ MaxSearches \in Nat \ {0} /\ MaxFaults \in Nat
  /\ Subs \subseteq Nat /\ PerGroup \in Nat \ {0} /\ Needed \in Nat

VARIABLES
  rabbit,       \* whether the driver is that of RabbitMQ
  searches,     \* suite: the search it is at, and so the configuration in force
  first_run,    \* boundary_first_run
  tries,        \* try_cnt
  cache,        \* boundary_run_result, each run with the search it was for
  apps,         \* the applications launched
  subs,         \* options.total_sub_apps
  groups,       \* whether app_group has the three groups of rerun_test
  faults        \* exceptions since this value was asked for

boundary == <<first_run, tries, cache>>
launched == <<apps, subs, groups>>
vars     == <<svars, rabbit, searches, boundary, launched, faults>>

\* A run is kept in the units it was made in.
Runs   == [value : Nat, scale : 1..MaxScale, search : 1..MaxSearches, answer : Answers]
Cached == {r \in cache : r.value * scale = value * r.scale}
Again(r) == [status |-> r.answer.status, drop |-> r.answer.drop,
             sent |-> (r.answer.sent * scale) \div r.scale,
             rate |-> (r.answer.rate * scale) \div r.scale]

Init ==
  /\ SearchInit
  /\ rabbit \in BOOLEAN /\ searches = 1
  /\ first_run = TRUE /\ tries = 0 /\ cache = {}
  /\ apps = {} /\ subs \in Subs /\ groups = FALSE
  /\ faults = 0

-----------------------------------------------------------------------------
(* boundary_run.                                                           *)

\* The value asked for is in the cache.
Recall == /\ spc = "ask"
          /\ \E r \in Cached : Heed(Again(r))
          /\ UNCHANGED <<rabbit, searches, boundary, launched, faults>>

\* Mutant: the tries are those of all values.
TryOn == /\ spc = "ask" /\ Cached = {}
         /\ tries' = tries /\ faults' = 0
         /\ spc' = IF first_run THEN "init" ELSE "rerun"
         /\ UNCHANGED <<kind, expected, search, maximum, scale, world, steady,
                        rabbit, searches, first_run, cache, launched>>

\* It is not: launch the applications or update those launched.
Try == /\ spc = "ask" /\ Cached = {}
       /\ tries' = 0 /\ faults' = 0
       /\ spc' = IF first_run THEN "init" ELSE "rerun"
       /\ UNCHANGED <<kind, expected, search, maximum, scale, world, steady,
                      rabbit, searches, first_run, cache, launched>>

Asking == UNCHANGED <<kind, expected, search, maximum, scale, world, steady,
                      rabbit, searches>>

\* run_test, its start_init: what an earlier test has left is deleted.
StartInit == /\ spc = "init" /\ spc' = "pub"
             /\ apps' = {}
             /\ Asking /\ UNCHANGED <<boundary, subs, groups, faults>>

\* launch_rmq_sub keeps the quotient in the options.
Divided == IF rabbit THEN subs \div PerGroup ELSE subs

\* The rest of run_test: create_hydra_app asserts that the app is not there yet.
Launch(a, next) ==
  /\ spc = a
  /\ IF a \in apps THEN spc' = "except" /\ UNCHANGED apps
                   ELSE spc' = next /\ apps' = apps \cup {a}
  /\ subs' = IF a = "sub" THEN Divided ELSE subs
  /\ Asking /\ UNCHANGED <<boundary, groups, faults>>

ThisRun(a) == [value |-> value, scale |-> scale, search |-> searches, answer |-> a]

\* With the driver of RabbitMQ a run fails if its groups exist already: they are not
\* created but 1, which has no _execute; or if there is nobody to divide by in its result.
Broken  == rabbit /\ (groups \/ subs = 0)
\* It picks instances for its groups for ever if there are not enough.
TooFew  == rabbit /\ ~Broken /\ subs < Needed

\* Mutant: the cache is not emptied.
RerunHoards ==
  /\ spc = "rerun"
  /\ IF Broken \/ TooFew
     THEN /\ spc' = IF Broken THEN "except" ELSE "picking"
          /\ cache' = cache
          /\ groups' = rabbit
          /\ Asking /\ UNCHANGED first_run
     ELSE \E a \in Honest :
            /\ cache' = cache \cup {ThisRun(a)}
            /\ groups' = rabbit
            /\ first_run' = FALSE
            /\ Heed(a)
            /\ UNCHANGED <<rabbit, searches>>
  /\ UNCHANGED <<tries, apps, subs, faults>>

\* rerun_test, to its end.  It empties the cache first (boundary_setup).
Rerun ==
  /\ spc = "rerun"
  /\ IF Broken \/ TooFew
     THEN /\ spc' = IF Broken THEN "except" ELSE "picking"
          /\ cache' = {}
          /\ groups' = rabbit
          /\ Asking /\ UNCHANGED first_run
     ELSE \E a \in Honest :
            /\ cache' = {ThisRun(a)}
            /\ groups' = rabbit
            /\ first_run' = FALSE
            /\ Heed(a)
            /\ UNCHANGED <<rabbit, searches>>
  /\ UNCHANGED <<tries, apps, subs, faults>>

\* What a call of delete_all_launched_apps that raises may have left of the applications.
Remains == {apps, apps \ {"pub"}, {}}

\* One of the calls of run_test or rerun_test raises.
Fault ==
  /\ spc \in {"init", "pub", "sub", "rerun"}
  /\ faults < MaxFaults /\ faults' = faults + 1
  /\ cache' = IF spc = "rerun" THEN {} ELSE cache
  /\ apps' \in CASE spc = "init"  -> Remains
                 [] spc = "rerun" -> {apps}
                 [] OTHER         -> {apps, apps \cup {spc}}
  /\ subs' = IF spc = "sub" THEN Divided ELSE subs
  /\ groups' \in {groups, IF spc = "rerun" THEN rabbit ELSE groups}
  /\ spc' = "except"
  /\ Asking /\ UNCHANGED <<first_run, tries>>

\* Mutant: one more try.
ExceptOneMore ==
  /\ spc = "except"
  /\ apps' = {}
  /\ first_run' = TRUE
  /\ tries' = tries + 1
  /\ spc' = IF tries + 1 > 5 THEN "gaveup" ELSE "init"
  /\ Asking /\ UNCHANGED <<cache, subs, groups, faults>>

\* Mutant: the next try updates again.
ExceptAsBefore ==
  /\ spc = "except"
  /\ apps' = {}
  /\ first_run' = first_run
  /\ tries' = tries + 1
  /\ spc' = IF tries + 1 > 4 THEN "gaveup" ELSE IF first_run THEN "init" ELSE "rerun"
  /\ Asking /\ UNCHANGED <<cache, subs, groups, faults>>

\* The except clause: delete what has been launched, and try again or give up.
Except ==
  /\ spc = "except"
  /\ apps' = {}
  /\ first_run' = TRUE
  /\ tries' = tries + 1
  /\ spc' = IF tries + 1 > 4 THEN "gaveup" ELSE "init"
  /\ Asking /\ UNCHANGED <<cache, subs, groups, faults>>

\* A call of delete_all_launched_apps raises.
DeleteFault ==
  /\ spc = "except"
  /\ faults < MaxFaults /\ faults' = faults + 1
  /\ apps' \in Remains
  /\ spc' = "raised"
  /\ Asking /\ UNCHANGED <<boundary, subs, groups>>

-----------------------------------------------------------------------------
\* The suite: another search, of other or of rescaled subscribers.  If nothing has been
\* received in the search for the maximum there is none: it would start at half of that.
NextSearch == /\ spc = "done" /\ searches < MaxSearches
              /\ kind = "max" => max_rate > 0
              /\ searches' = searches + 1
              /\ SearchAnew
              /\ UNCHANGED <<rabbit, boundary, launched, faults>>

Step == \/ Recall \/ Try \/ StartInit \/ Launch("pub", "sub") \/ Launch("sub", "rerun")
        \/ Rerun \/ Except \/ NextSearch

Next == Step \/ Fault \/ DeleteFault

Spec == Init /\ [][Next]_vars

\* One thread, none of whose calls is assumed to last for ever; nor to raise.
FairSpec == Spec /\ WF_vars(Step)

-----------------------------------------------------------------------------
(* Properties.                                                             *)

\* Every variable stays within the values the code gives it.
TypeOK ==
  /\ SearchTypeOK
  /\ spc \in {"ask", "init", "pub", "sub", "rerun", "picking", "except",
             "done", "gaveup", "raised"}
  /\ rabbit \in BOOLEAN /\ searches \in 1..MaxSearches
  /\ first_run \in BOOLEAN /\ tries \in 0..5 /\ cache \subseteq Runs
  /\ apps \subseteq {"pub", "sub"} /\ subs \in Nat /\ groups \in BOOLEAN
  /\ faults \in 0..MaxFaults

\* What boundary_first_run says of the applications is true whenever a run is asked
\* for: none is launched twice, and none is updated that is not there, whatever of the
\* tries before has failed, and wherever.
LaunchesMatchApps ==
  /\ spc \in {"ask", "done"} => apps = IF first_run THEN {} ELSE {"pub", "sub"}
  /\ spc = "pub" => apps = {}
  /\ spc = "sub" => apps = {"pub"}
  /\ spc = "rerun" => apps = {"pub", "sub"}

\* The searches see nothing of the cache, the retries and the launches: the suite implements
\* RateSuite, in which each value asked for is measured anew.  The run the cache keeps when
\* the subscribers are changed answers the next search only if it had failed, and then only
\* the first value the next search asks for.
Seen == IF spc \in {"ask", "done"} THEN spc
        ELSE IF spc \in {"gaveup", "raised"} THEN "gaveup" ELSE "ask"
Suite == INSTANCE RateSuite WITH spc <- Seen
ImplementsSuite == Suite!Spec

\* Both searches find what they search for, through the cache and any number of retries.
\* The first value of a search for the maximum may have been measured by another that has
\* failed with it: it then finds no less from its second value on, or returns the rate of
\* that failure.
Stale      == searches > 1 /\ 10 * max_rate < 7 * Start
FindsRates == /\ FindsThreshold
              /\ Stale \/ FindsMaximum(IF searches = 1 THEN Start ELSE 2 * Start)

\* A suite for ZeroMQ gives up only after five exceptions at one value (boundary.py:132),
\* however many there have been before; one for RabbitMQ also because of its groups, or
\* because its retries have divided the number of subscribers down to none.
GivesUpOnFaults == spc = "gaveup" => faults = 5 \/ Broken

\* Every search ends, or is given up: a steady one for which some rate passes, and
\* every one for the highest rate there is.  One for RabbitMQ may instead never find the
\* subscribers for its groups.
SearchEnds ==
  (kind = "max" \/ (steady /\ threshold > 0))
    ~> spc \in {"done", "gaveup", "raised"} \/ (rabbit /\ spc = "picking")

\* After a run, further ones update the applications launched (boundary.py:118,
\* "Update existing PUB and SUBs instead of launching new"): without an exception from
\* Marathon or a task, none has to be given up.
UpdatesExisting == spc = "gaveup" => faults > 0
=============================================================================
