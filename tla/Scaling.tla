------------------------------ MODULE Scaling ------------------------------
(***************************************************************************)
(* How HydraBase brings an application up, to a number of tasks and down   *)
(* (hydrabase.py, mmapi.py), and the two that may be at the other end:     *)
(* Marathon, and the mock which runs the tasks as processes of the script  *)
(* (mock_backend.py).                                                      *)
(*                                                                         *)
(* Large applications are scaled and deleted in batches, each of which is  *)
(* a request to Marathon and a wait for the number of running tasks to be  *)
(* just that.  Meanwhile tasks are launched, die and are replaced, and a   *)
(* call may be without an answer until its retries time out; whether it    *)
(* has been carried out is then not known.  Marathon refuses a change as   *)
(* long as another is being deployed (mmapi.py:101), and the refused call  *)
(* is tried again.                                                         *)
(*                                                                         *)
(* A request and the reading of the tasks just before it are one step: the *)
(* number asked for does not depend on what has been read.                 *)
(***************************************************************************)
EXTENDS Naturals

CONSTANTS Counts,                           \* scale_cnt
          instance_threshold, scale_batch,  \* scale_app: 500, its instance_batch 300
          threshold, delete_batch,          \* delete_app: 200, its instance_batch 100
          MaxDeaths,                        \* bound: tasks that die
          MaxTimeouts                       \* bound: calls that time out

ASSUME ScalingAssumption ==
  /\ Counts \subseteq Nat \ {0} /\ MaxDeaths \in Nat /\ MaxTimeouts \in Nat
  /\ instance_threshold \in Nat \ {0} /\ scale_batch \in Nat \ {0}
  /\ threshold \in Nat \ {0} /\ delete_batch \in 1..threshold

VARIABLES
  mock,         \* whether the backend is the mock
  app,          \* backend: whether the app is there, or is being deleted
  target,       \* Marathon: the tasks it should have
  running,      \* backend: tasks_running
  staged,       \* Marathon: the tasks it launches
  deploying,    \* Marathon: whether the last change is being deployed
  former,       \* Marathon: what was there before it, where its cancelling leads back
  deaths, timeouts,
  spc,          \* the script: where it is
  after,        \* what it goes on with when it has waited
  wanted,       \* wait_app_ready: running_count
  scale_cnt,    \* scale_app
  instances_launched, remaining,   \* scale_app, delete_app; first_batch is 0 launched
  deployments   \* delete_app: whether there is one in a.deployments, and it is over by now

counted == <<deaths, timeouts>>
backend == <<app, target, running, staged, deploying, former>>
batches == <<scale_cnt, instances_launched, remaining, deployments>>
script  == <<spc, after, wanted, batches>>
vars    == <<mock, backend, counted, script>>

Tasks == running + staged      \* len(get_app_tasks(name))

Init ==
  /\ mock \in BOOLEAN
  /\ app = "none" /\ target = 0 /\ running = 0 /\ staged = 0 /\ deploying = FALSE
  /\ former = [app |-> "none", target |-> 0]
  /\ deaths = 0 /\ timeouts = 0
  /\ spc = "idle" /\ after = "idle" /\ wanted = 0
  /\ scale_cnt = 0 /\ instances_launched = 0 /\ remaining = 0 /\ deployments = "none"

-----------------------------------------------------------------------------
(* Marathon, on its own.                                                   *)

Marathon == ~mock /\ app # "none"

Stage == /\ Marathon /\ Tasks < target
         /\ staged' = staged + 1
         /\ UNCHANGED <<mock, app, target, running, deploying, former, counted, script>>

Start == /\ Marathon /\ staged > 0
         /\ staged' = staged - 1 /\ running' = running + 1
         /\ UNCHANGED <<mock, app, target, deploying, former, counted, script>>

\* A task more than there should be.
Kill == /\ Marathon /\ Tasks > target
        /\ \/ running > 0 /\ running' = running - 1 /\ UNCHANGED staged
           \/ staged > 0 /\ staged' = staged - 1 /\ UNCHANGED running
        /\ UNCHANGED <<mock, app, target, deploying, former, counted, script>>

Deployed == /\ Marathon /\ deploying /\ running = target /\ staged = 0
            /\ deploying' = FALSE
            /\ app' = IF app = "deleting" THEN "none" ELSE app
            /\ deployments' = IF deployments = "under way" THEN "over" ELSE deployments
            /\ UNCHANGED <<mock, target, running, staged, former, counted, spc, after, wanted,
                           scale_cnt, instances_launched, remaining>>

Die == /\ Marathon /\ deaths < MaxDeaths /\ running > 0
       /\ deaths' = deaths + 1
       /\ running' = running - 1
       /\ UNCHANGED <<mock, app, target, staged, deploying, former, timeouts, script>>

-----------------------------------------------------------------------------
(* The calls to the backend.                                               *)

\* A change to the app, or its removal, that Marathon begins to deploy.
Deploy(state, n) == /\ app' = state /\ target' = n
                    /\ former' = [app |-> IF app = "there" THEN "there" ELSE "none",
                                  target |-> target]

\* MarathonIF.scale_app: refused, and tried again, while there is a deployment.
MarathonScale(n) == /\ ~mock /\ app = "there" /\ ~deploying
                    /\ Deploy("there", n) /\ deploying' = (n # target)
                    /\ UNCHANGED <<running, staged>>

\* MockMarathonIF.scale_app launches one more child, however many it should be.
MockScale == /\ mock /\ running = 1
             /\ running' = 2
             /\ UNCHANGED <<app, target, staged, deploying, former>>

WaitFor(n, next) == /\ spc' = "wait" /\ wanted' = n /\ after' = next

\* wait_app_ready sees as many tasks running as it waits for.
Ready == /\ spc = "wait" /\ app # "none" /\ running = wanted
         /\ spc' = after
         /\ UNCHANGED <<mock, backend, counted, after, wanted, batches>>

\* It sees more and asks again to have them scaled down; that of the mock does not.
TooMany == /\ spc = "wait" /\ ~mock /\ running > wanted
           /\ spc' = "scale down"
           /\ UNCHANGED <<mock, backend, counted, after, wanted, batches>>
ScaleDown == /\ spc = "scale down" /\ MarathonScale(wanted)
             /\ spc' = "wait"
             /\ UNCHANGED <<mock, counted, after, wanted, batches>>

Raise == spc' = "Exception" /\ UNCHANGED <<mock, deaths, after, wanted, batches>>

\* A call of the script raises: to Marathon when its time is up, ...
TimeOut ==
  /\ ~mock /\ timeouts < MaxTimeouts /\ timeouts' = timeouts + 1
  /\ spc \notin {"idle", "Exception", "AssertionError"}
  /\ Raise /\ UNCHANGED backend

\* ... at once where the tasks are read of an application that is no more, ...
NoSuchApp ==
  /\ app = "none"
  /\ spc \in {"wait", "scale down", "scale", "refresh", "delete", "one left"}
  /\ Raise /\ UNCHANGED <<backend, timeouts>>

\* ... with the change made that it asks for, ...
LateScale(n) == /\ timeouts < MaxTimeouts /\ timeouts' = timeouts + 1
                /\ MarathonScale(n) /\ Raise

\* ... and to the mock when it is to scale an application again: the name of the one
\* further child is taken (add_child).
MockRaises == /\ mock /\ running = 2 /\ Raise /\ UNCHANGED <<backend, timeouts>>

Request(n, next, launched, left) ==
  \/ /\ MarathonScale(n) \/ MockScale
     /\ WaitFor(n, next)
     /\ instances_launched' = launched /\ remaining' = left
     /\ UNCHANGED <<mock, counted, scale_cnt, deployments>>
  \/ LateScale(n)
  \/ MockRaises

-----------------------------------------------------------------------------
(* create_hydra_app, create_binary_app.                                    *)

Create ==
  /\ spc = "idle" /\ app = "none"
  /\ IF mock THEN app' = "there" /\ running' = 1 /\ UNCHANGED <<target, staged, deploying, former>>
             ELSE Deploy("there", 1) /\ deploying' = TRUE /\ UNCHANGED <<running, staged>>
  /\ \/ WaitFor(1, "idle") /\ UNCHANGED <<mock, counted, batches>>
     \/ ~mock /\ timeouts < MaxTimeouts /\ timeouts' = timeouts + 1 /\ Raise

-----------------------------------------------------------------------------
(* scale_app.                                                              *)

ScaleApp ==
  /\ spc = "idle" /\ app = "there"
  /\ spc' = "scale"
  /\ scale_cnt' \in Counts /\ instances_launched' = 0 /\ remaining' = 0
  /\ UNCHANGED <<mock, backend, counted, after, wanted, deployments>>

ScaleAtOnce ==
  /\ spc = "scale" /\ scale_cnt <= instance_threshold
  /\ Request(scale_cnt, "refresh", instances_launched, remaining)

InBatches == spc = "scale" /\ app # "none" /\ scale_cnt > instance_threshold

Scaled == /\ InBatches /\ Tasks = scale_cnt
          /\ spc' = "refresh"
          /\ UNCHANGED <<mock, backend, counted, after, wanted, batches>>

FirstBatch ==
  /\ InBatches /\ Tasks # scale_cnt /\ instances_launched = 0
  /\ Request(instance_threshold, "scale", instance_threshold, scale_cnt - instance_threshold)

\* Mutant: what remains is not counted down.
NextBatchUncounted ==
  /\ InBatches /\ Tasks # scale_cnt /\ instances_launched > 0 /\ remaining >= scale_batch
  /\ Request(instances_launched + scale_batch, "scale",
             instances_launched + scale_batch, remaining)

\* Mutant: the last batch is like the others.
NextBatchFull ==
  /\ InBatches /\ Tasks # scale_cnt /\ instances_launched > 0
  /\ Request(instances_launched + scale_batch, "scale",
             instances_launched + scale_batch, remaining - scale_batch)

NextBatch ==
  /\ InBatches /\ Tasks # scale_cnt /\ instances_launched > 0 /\ remaining >= scale_batch
  /\ Request(instances_launched + scale_batch, "scale",
             instances_launched + scale_batch, remaining - scale_batch)

\* Both asserts read the tasks once more.
LastBatch ==
  /\ InBatches /\ Tasks # scale_cnt /\ instances_launched > 0 /\ remaining < scale_batch
  /\ Request(instances_launched + remaining, "refresh", instances_launched, remaining)

Refresh ==
  /\ spc = "refresh" /\ app # "none"
  /\ spc' = IF Tasks = scale_cnt THEN "idle" ELSE "AssertionError"
  /\ UNCHANGED <<mock, backend, counted, after, wanted, batches>>

-----------------------------------------------------------------------------
(* delete_app.                                                             *)

Ended == {"idle", "Exception", "AssertionError"}

DeleteApp ==
  /\ spc \in Ended
  /\ deployments' = IF app # "none" /\ deploying THEN "under way" ELSE "none"
  /\ remaining' = running
  /\ spc' = IF app = "none" THEN "gone" ELSE IF running > threshold THEN "delete" ELSE "remove"
  /\ UNCHANGED <<mock, backend, counted, after, wanted, scale_cnt, instances_launched>>

OneLeft == /\ spc = "delete" /\ Tasks = 1
           /\ spc' = "remove"
           /\ UNCHANGED <<mock, backend, counted, after, wanted, batches>>

\* Mutant: all but one task at once.
DeleteBatchAll ==
  /\ spc = "delete" /\ Tasks # 1 /\ remaining >= delete_batch
  /\ Request(1, "delete", instances_launched, 1)

\* A number that the batches divide goes down to 0 tasks.
DeleteBatch ==
  /\ spc = "delete" /\ Tasks # 1 /\ remaining >= delete_batch
  /\ Request(remaining - delete_batch, "delete", instances_launched, remaining - delete_batch)

\* Mutant: the last batch leaves what remains.
DeleteLastNone ==
  /\ spc = "delete" /\ Tasks # 1 /\ remaining < delete_batch
  /\ Request(0, "one left", instances_launched, remaining)

DeleteLast ==
  /\ spc = "delete" /\ Tasks # 1 /\ remaining < delete_batch
  /\ Request(1, "one left", instances_launched, remaining)

AssertOneLeft ==
  /\ spc = "one left" /\ app # "none"
  /\ spc' = IF Tasks = 1 THEN "remove" ELSE "AssertionError"
  /\ UNCHANGED <<mock, backend, counted, after, wanted, batches>>

\* The deployments are those of the beginning.  Marathon cancels one that is still under
\* way by deploying what was there before it; that answers, or raises nevertheless.
Cancel ==
  /\ spc = "remove" /\ deployments = "under way" /\ Marathon /\ deploying
  /\ Deploy(IF former.app = "none" THEN "deleting" ELSE "there", former.target)
  /\ UNCHANGED <<running, staged, deploying>>
  /\ \/ /\ deployments' = "none"
        /\ UNCHANGED <<mock, counted, spc, after, wanted,
                       scale_cnt, instances_launched, remaining>>
     \/ timeouts < MaxTimeouts /\ timeouts' = timeouts + 1 /\ Raise

\* It knows one that is over no longer, and no handler is there for its answer.
CancelRaises ==
  /\ spc = "remove" /\ deployments = "over"
  /\ Raise /\ UNCHANGED <<backend, timeouts>>

\* delete_app_ifexisting: the app is deleted once no deployment locks it, and the answer
\* may come too late; one that the cancelled deployment has taken along is not there, or
\* asked to be deleted in vain until the time is up.
Delete == /\ ~mock /\ app = "there" /\ ~deploying
          /\ Deploy("deleting", 0) /\ deploying' = TRUE
          /\ UNCHANGED <<running, staged>>
MockDelete == /\ mock /\ app' = "none" /\ running' = 0
              /\ UNCHANGED <<target, staged, deploying, former>>

\* Mutant: the refusal of an app that is locked ends the call.
RemoveOnce ==
  /\ spc = "remove" /\ deployments = "none"
  /\ \/ /\ Delete \/ MockDelete \/ (app = "none" /\ UNCHANGED backend)
        /\ spc' = "gone" /\ UNCHANGED <<mock, counted, after, wanted, batches>>
     \/ Delete /\ timeouts < MaxTimeouts /\ timeouts' = timeouts + 1 /\ Raise
     \/ app = "none" /\ Raise /\ UNCHANGED <<backend, timeouts>>
     \/ deploying /\ Raise /\ UNCHANGED <<backend, timeouts>>

Remove ==
  /\ spc = "remove" /\ deployments = "none"
  /\ \/ /\ Delete \/ MockDelete \/ (app = "none" /\ UNCHANGED backend)
        /\ spc' = "gone" /\ UNCHANGED <<mock, counted, after, wanted, batches>>
     \/ Delete /\ timeouts < MaxTimeouts /\ timeouts' = timeouts + 1 /\ Raise
     \/ app = "none" /\ Raise /\ UNCHANGED <<backend, timeouts>>

\* wait_app_removal.
Gone == /\ spc = "gone" /\ app = "none"
        /\ spc' = "idle"
        /\ UNCHANGED <<mock, backend, counted, after, wanted, batches>>

-----------------------------------------------------------------------------
Working == \/ Ready \/ TooMany \/ ScaleDown \/ NoSuchApp
           \/ ScaleAtOnce \/ Scaled \/ FirstBatch \/ NextBatch \/ LastBatch \/ Refresh
           \/ OneLeft \/ DeleteBatch \/ DeleteLast \/ AssertOneLeft
           \/ Cancel \/ CancelRaises \/ Remove \/ Gone
Tasked  == Stage \/ Start \/ Kill \/ Deployed

Next == Working \/ Tasked \/ Die \/ TimeOut \/ Create \/ ScaleApp \/ DeleteApp

\* The script goes on while it can, and Marathon with what it has been asked for; tasks
\* need not die nor calls time out.
Spec == Init /\ [][Next]_vars /\ WF_vars(Working)
             /\ WF_vars(Stage) /\ WF_vars(Start) /\ WF_vars(Kill) /\ WF_vars(Deployed)

-----------------------------------------------------------------------------
(* Properties.                                                             *)

\* Every variable stays within the values the code gives it.
TypeOK ==
  /\ mock \in BOOLEAN /\ app \in {"none", "there", "deleting"}
  /\ target \in Nat /\ running \in Nat /\ staged \in Nat /\ deploying \in BOOLEAN
  /\ former \in [app : {"none", "there"}, target : Nat]
  /\ deaths \in 0..MaxDeaths /\ timeouts \in 0..MaxTimeouts
  /\ spc \in Ended \cup {"wait", "scale down", "scale", "refresh",
                       "delete", "one left", "remove", "gone"}
  /\ after \in {"idle", "scale", "refresh", "delete", "one left"}
  /\ wanted \in Nat /\ scale_cnt \in Nat
  /\ instances_launched \in Nat /\ remaining \in Nat
  /\ deployments \in {"none", "under way", "over"}

\* "Does incremental increase in scale to reduce amount of work zookeeper and marathon
\* need to do" (hydrabase.py:481): scaling up asks for no more tasks than the application
\* is to have, nor for more than a batch of them; and deleting kills no more, but for
\* those that replace lost ones and those of a deployment it has come upon.
InSmallSteps ==
  [][/\ spc = "scale" /\ target' > target =>
          target' <= scale_cnt
          /\ target' - target <= IF instances_launched = 0 THEN instance_threshold
                                                          ELSE scale_batch
     /\ ~mock /\ spc = "delete" /\ target' < Tasks /\ deployments = "none" =>
          Tasks - target' <= delete_batch + deaths]_vars

\* The counts the code asserts are right unless a task has died, or a call has timed
\* out: that Marathon goes from one batch to the next on its own does not disturb them.
AssertsNeedLoss == spc = "AssertionError" => deaths > 0 \/ timeouts > 0

Loss == deaths > 0 \/ timeouts > 0

\* "Scale an application to the given count" (hydrabase.py:476): scale_app returns with as
\* many tasks.  With the mock it does not, for any count but 2.
ScaleReaches == [](~mock /\ spc = "scale" => <>((spc = "idle" /\ Tasks = scale_cnt) \/ Loss))

\* "Delete an application" (hydrabase.py:293): the app goes, though a deployment is cancelled
\* on the way, unless one has ended by itself since it was read.
DeleteRemoves == [](spc = "remove" => <>(app = "none" \/ deployments = "over" \/ Loss))

\* Every call returns, though wait_app_ready waits for an exact number and without a limit
\* (mmapi.py:118) and each change for the one before it; and it has done what it is for.  It
\* may raise or fail an assert of a loss: a death or a call timed out.  Without one, only
\* delete_app raises, of a deployment that is over or of an app gone with the one it has
\* cancelled; and with the mock a call on an app with two children is stuck, unless it waits
\* for 2, or raises (mock_backend.py:235).
CallsReturn ==
  /\ [](spc \notin Ended =>
          <>(\/ spc = "idle"
             \/ spc \in Ended /\ Loss
             \/ spc = "Exception" /\ ~mock /\ (deployments = "over" \/ app = "none")
             \/ mock /\ running = 2 /\ (spc = "Exception" \/ (spc = "wait" /\ wanted # 2))))
  /\ ScaleReaches
  /\ DeleteRemoves
=============================================================================
