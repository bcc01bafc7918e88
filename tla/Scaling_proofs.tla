------------------------- MODULE Scaling_proofs -------------------------
(***************************************************************************)
(* Proofs about module Scaling, for any numbers of tasks, thresholds and   *)
(* batches, deaths and calls timed out.                                    *)
(***************************************************************************)
EXTENDS Scaling, TLAPS

Waiting == spc \in {"wait", "scale down"}

\* The script is at a place, or is to go on there when it has waited.
At(place) == spc = place \/ (Waiting /\ after = place)

\* The batches launched, and those that remain, make up what is asked for.
Launched ==
  At("scale") /\ instances_launched > 0 =>
    /\ instances_launched + remaining = scale_cnt
    /\ scale_cnt > instance_threshold
    /\ ~mock => target = instances_launched

\* What is waited for is what has been asked of Marathon, and what will be asserted.
Asked ==
  /\ Waiting /\ after = "refresh" => wanted = scale_cnt
  /\ Waiting /\ after = "one left" => wanted = 1
  /\ Waiting /\ ~mock => wanted = target

\* While nothing is deployed there are as many tasks as there should be, but for deaths.
Deploying ==
  /\ mock => staged = 0
  /\ ~mock =>
       /\ app = "none" => running = 0 /\ staged = 0 /\ target = 0
       /\ app = "deleting" => target = 0
       /\ former.app = "none" => former.target = 0
       /\ ~deploying => Tasks <= target /\ target <= running + deaths

\* The tasks still to be deleted are those counted, and some that have replaced lost ones.
Deleting ==
  At("delete") /\ ~mock /\ deployments = "none" =>
    /\ target <= remaining + deaths
    /\ Tasks <= target + delete_batch + deaths

\* As long as no task has died and no call timed out, nothing is under way but while the
\* script waits for it, or for what it has Marathon go back to.
Settled == running = target /\ staged = 0
Whole   == deaths = 0 /\ timeouts = 0

Expected ==
  /\ spc # "AssertionError"
  /\ spc = "refresh" => Tasks = scale_cnt
  /\ spc = "one left" => Tasks = 1
  /\ ~mock =>
       /\ spc \notin {"wait", "scale down", "gone", "remove"} => Settled
       /\ spc = "remove" => Settled \/ (deployments = "none" /\ deploying)
       /\ Waiting => staged = 0 \/ Tasks <= target
       /\ spc = "gone" => staged = 0 /\ target = 0

NoLoss == Whole => Expected

IInv == TypeOK /\ Launched /\ Asked /\ Deploying /\ Deleting /\ NoLoss

\* What the script asks for, and where it goes on from there.
Asking(n, next, launched, left) ==
  /\ next = "refresh" => n = scale_cnt
  /\ next = "one left" => n = 1
  /\ next = "scale" => /\ launched + left = scale_cnt /\ n = launched
                       /\ scale_cnt > instance_threshold
  /\ next = "delete" /\ deployments = "none" /\ ~mock =>
       n <= left + deaths /\ target <= n + delete_batch + deaths

LEMMA Numbers ==
  ASSUME ScalingAssumption, TypeOK
  PROVE  /\ deaths \in Nat /\ timeouts \in Nat /\ target \in Nat /\ running \in Nat
         /\ staged \in Nat /\ wanted \in Nat /\ scale_cnt \in Nat /\ remaining \in Nat
         /\ instances_launched \in Nat /\ delete_batch \in Nat /\ instance_threshold \in Nat
         /\ Counts \subseteq Nat /\ MaxDeaths \in Nat /\ MaxTimeouts \in Nat
<1>1. /\ Counts \subseteq Nat /\ MaxDeaths \in Nat /\ MaxTimeouts \in Nat
      /\ threshold \in Nat /\ instance_threshold \in Nat
  BY DEF ScalingAssumption
<1>2. delete_batch \in Nat  BY <1>1 DEF ScalingAssumption
<1>3. deaths \in 0..MaxDeaths /\ timeouts \in 0..MaxTimeouts  BY DEF TypeOK
<1>4. deaths \in Nat /\ timeouts \in Nat  BY <1>1, <1>3
<1>. QED BY <1>1, <1>2, <1>4 DEF TypeOK

LEMMA AtMost ==
  ASSUME NEW r \in Nat, NEW s \in Nat, NEW t \in Nat, NEW m \in Nat, NEW b \in Nat,
         NEW d \in Nat, r + s <= t, t <= m + b + d
  PROVE  r + s <= m + b + d
OBVIOUS

LEMMA InitHolds == ASSUME ScalingAssumption, Init PROVE IInv
<1>1. 0 \in 0..MaxDeaths /\ 0 \in 0..MaxTimeouts  BY DEF ScalingAssumption
<1>2. TypeOK  BY <1>1 DEF Init, TypeOK, Ended
<1>3. Launched /\ Asked  BY DEF Init, Launched, Asked, At, Waiting
<1>4. Deploying  BY DEF Init, Deploying, Tasks
<1>5. Deleting  BY DEF Init, Deleting, At, Waiting
<1>6. NoLoss  BY DEF Init, NoLoss, Expected, Waiting, Settled
<1>. QED BY <1>3, <1>4, <1>5, <1>6, <1>2 DEF IInv

-----------------------------------------------------------------------------
(* Each action keeps the invariant.                                        *)

LEMMA StageKeeps == ASSUME ScalingAssumption, IInv, Stage PROVE IInv'
<1>1. /\ ~mock /\ app # "none" /\ running + staged < target /\ staged' = staged + 1
      /\ mock' = mock /\ app' = app /\ target' = target /\ running' = running
      /\ deploying' = deploying /\ deaths' = deaths /\ timeouts' = timeouts
      /\ spc' = spc /\ after' = after /\ wanted' = wanted /\ scale_cnt' = scale_cnt
      /\ instances_launched' = instances_launched /\ remaining' = remaining
      /\ deployments' = deployments /\ former' = former
  BY DEF Stage, Marathon, Tasks, backend, counted, script, batches
<1>2. TypeOK'
  <2>1. staged' \in Nat  BY <1>1, Numbers DEF IInv
  <2>. QED BY <1>1, <2>1 DEF IInv, TypeOK, Ended
<1>3. Launched'
  BY <1>1 DEF IInv, Launched, At, Waiting
<1>4. Asked'
  BY <1>1 DEF IInv, Asked, Waiting
<1>5. Deploying'
  BY <1>1, Numbers DEF IInv, Deploying, Tasks
<1>6. Deleting'
  <2>. SUFFICES ASSUME At("delete")', ~mock', deployments' = "none"
                PROVE  target' <= remaining' + deaths' /\ Tasks' <= target' + delete_batch + deaths'
    BY DEF Deleting
  <2>1. target <= remaining + deaths /\ running + staged <= target + delete_batch + deaths
    BY <1>1 DEF IInv, Deleting, At, Waiting, Tasks
  <2>. QED BY <1>1, <2>1, Numbers DEF IInv, Tasks
<1>7. NoLoss'
  <2>. SUFFICES ASSUME Whole' PROVE Expected'  BY DEF NoLoss
  <2>1. Expected  BY <1>1, Numbers DEF IInv, NoLoss, Whole
  <2>2. running \in Nat /\ staged \in Nat /\ target \in Nat  BY Numbers DEF IInv
  <2>3. /\ spc \notin {"wait", "scale down", "gone", "remove"} => running = target /\ staged = 0
        /\ spc = "remove" => (running = target /\ staged = 0) \/ (deployments = "none" /\ deploying)
        /\ spc \in {"wait", "scale down"} => staged = 0 \/ running + staged <= target
        /\ spc = "gone" => staged = 0 /\ target = 0
    BY <1>1, <2>1 DEF Expected, Settled, Waiting, Tasks
  <2>4. /\ running + staged < target
        /\ staged' = staged + 1 /\ running' = running /\ target' = target
    BY <1>1
  <2>5. ~(running = target /\ staged = 0) /\ ~(staged = 0 /\ target = 0)  BY <2>2, <2>4
  <2>6. \/ spc \in {"wait", "scale down"}
        \/ spc = "remove" /\ deployments = "none" /\ deploying
    BY <2>3, <2>5
  <2>7. running' + staged' <= target'  BY <2>2, <2>4
  <2>. QED BY <1>1, <2>6, <2>7 DEF Expected, Waiting, Tasks
<1>. QED BY <1>2, <1>3, <1>4, <1>5, <1>6, <1>7 DEF IInv

LEMMA StartKeeps == ASSUME ScalingAssumption, IInv, Start PROVE IInv'
<1>1. /\ ~mock /\ app # "none" /\ staged > 0 /\ running' = running + 1
      /\ staged' = staged - 1
      /\ mock' = mock /\ app' = app /\ target' = target /\ deploying' = deploying
      /\ deaths' = deaths /\ timeouts' = timeouts /\ spc' = spc /\ after' = after
      /\ wanted' = wanted /\ scale_cnt' = scale_cnt
      /\ instances_launched' = instances_launched /\ remaining' = remaining
      /\ deployments' = deployments /\ former' = former
  BY DEF Start, Marathon, backend, counted, script, batches
<1>2. TypeOK'
  <2>1. staged' \in Nat /\ running' \in Nat  BY <1>1, Numbers DEF IInv
  <2>. QED BY <1>1, <2>1 DEF IInv, TypeOK, Ended
<1>3. Launched'
  BY <1>1 DEF IInv, Launched, At, Waiting
<1>4. Asked'
  BY <1>1 DEF IInv, Asked, Waiting
<1>5. Deploying'
  BY <1>1, Numbers DEF IInv, Deploying, Tasks
<1>6. Deleting'
  <2>. SUFFICES ASSUME At("delete")', ~mock', deployments' = "none"
                PROVE  target' <= remaining' + deaths' /\ Tasks' <= target' + delete_batch + deaths'
    BY DEF Deleting
  <2>1. target <= remaining + deaths /\ running + staged <= target + delete_batch + deaths
    BY <1>1 DEF IInv, Deleting, At, Waiting, Tasks
  <2>. QED BY <1>1, <2>1, Numbers DEF IInv, Tasks
<1>7. NoLoss'
  <2>. SUFFICES ASSUME Whole' PROVE Expected'  BY DEF NoLoss
  <2>1. Expected  BY <1>1, Numbers DEF IInv, NoLoss, Whole
  <2>2. running \in Nat /\ staged \in Nat /\ target \in Nat  BY Numbers DEF IInv
  <2>3. /\ spc \notin {"wait", "scale down", "gone", "remove"} => running = target /\ staged = 0
        /\ spc = "remove" => (running = target /\ staged = 0) \/ (deployments = "none" /\ deploying)
        /\ spc \in {"wait", "scale down"} => staged = 0 \/ running + staged <= target
        /\ spc = "gone" => staged = 0 /\ target = 0
    BY <1>1, <2>1 DEF Expected, Settled, Waiting, Tasks
  <2>4. /\ staged > 0
        /\ staged' = staged - 1 /\ running' = running + 1 /\ target' = target
    BY <1>1
  <2>5. staged # 0  BY <2>2, <2>4
  <2>6. \/ spc \in {"wait", "scale down"}
        \/ spc = "remove" /\ deployments = "none" /\ deploying
    BY <2>3, <2>5
  <2>7. spc # "remove" => running + staged <= target  BY <2>3, <2>5, <2>6
  <2>8. spc # "remove" => running' + staged' <= target'  BY <2>2, <2>4, <2>7
  <2>. QED BY <1>1, <2>6, <2>8 DEF Expected, Waiting, Tasks
<1>. QED BY <1>2, <1>3, <1>4, <1>5, <1>6, <1>7 DEF IInv

LEMMA KillKeeps == ASSUME ScalingAssumption, IInv, Kill PROVE IInv'
<1>1. /\ ~mock /\ app # "none" /\ running + staged > target
      /\ \/ running > 0 /\ running' = running - 1 /\ staged' = staged
         \/ staged > 0 /\ staged' = staged - 1 /\ running' = running
      /\ mock' = mock /\ app' = app /\ target' = target /\ deploying' = deploying
      /\ deaths' = deaths /\ timeouts' = timeouts /\ spc' = spc /\ after' = after
      /\ wanted' = wanted /\ scale_cnt' = scale_cnt
      /\ instances_launched' = instances_launched /\ remaining' = remaining
      /\ deployments' = deployments /\ former' = former
  BY DEF Kill, Marathon, Tasks, backend, counted, script, batches
<1>2. TypeOK'
  <2>1. staged' \in Nat /\ running' \in Nat  BY <1>1, Numbers DEF IInv
  <2>. QED BY <1>1, <2>1 DEF IInv, TypeOK, Ended
<1>3. Launched'
  BY <1>1 DEF IInv, Launched, At, Waiting
<1>4. Asked'
  BY <1>1 DEF IInv, Asked, Waiting
<1>5. Deploying'
  BY <1>1, Numbers DEF IInv, Deploying, Tasks
<1>6. Deleting'
  <2>. SUFFICES ASSUME At("delete")', ~mock', deployments' = "none"
                PROVE  target' <= remaining' + deaths' /\ Tasks' <= target' + delete_batch + deaths'
    BY DEF Deleting
  <2>1. target <= remaining + deaths /\ running + staged <= target + delete_batch + deaths
    BY <1>1 DEF IInv, Deleting, At, Waiting, Tasks
  <2>. QED BY <1>1, <2>1, Numbers DEF IInv, Tasks
<1>7. NoLoss'
  <2>. SUFFICES ASSUME Whole' PROVE Expected'  BY DEF NoLoss
  <2>1. Expected  BY <1>1, Numbers DEF IInv, NoLoss, Whole
  <2>2. running \in Nat /\ staged \in Nat /\ target \in Nat  BY Numbers DEF IInv
  <2>3. /\ spc \notin {"wait", "scale down", "gone", "remove"} => running = target /\ staged = 0
        /\ spc = "remove" => (running = target /\ staged = 0) \/ (deployments = "none" /\ deploying)
        /\ spc \in {"wait", "scale down"} => staged = 0 \/ running + staged <= target
        /\ spc = "gone" => staged = 0 /\ target = 0
    BY <1>1, <2>1 DEF Expected, Settled, Waiting, Tasks
  <2>4. /\ running + staged > target
        /\ staged' = staged \/ (staged > 0 /\ staged' = staged - 1)
    BY <1>1
  <2>5. /\ ~(running = target /\ staged = 0) /\ ~(running + staged <= target)
        /\ staged > 0 => staged # 0
    BY <2>2, <2>4
  <2>6. \/ /\ spc \in {"wait", "scale down", "gone"} /\ staged = 0
           /\ spc = "gone" => target = 0
        \/ spc = "remove" /\ deployments = "none" /\ deploying
    BY <2>3, <2>5
  <2>7. spc # "remove" => staged' = 0  BY <2>4, <2>5, <2>6
  <2>. QED BY <1>1, <2>6, <2>7 DEF Expected, Waiting
<1>. QED BY <1>2, <1>3, <1>4, <1>5, <1>6, <1>7 DEF IInv

LEMMA DeployedKeeps == ASSUME ScalingAssumption, IInv, Deployed PROVE IInv'
<1>1. /\ ~mock /\ running = target /\ staged = 0
      /\ app' = IF app = "deleting" THEN "none" ELSE app
      /\ deploying' = FALSE
      /\ mock' = mock /\ target' = target /\ running' = running /\ staged' = staged
      /\ deaths' = deaths /\ timeouts' = timeouts /\ spc' = spc /\ after' = after
      /\ wanted' = wanted /\ scale_cnt' = scale_cnt
      /\ instances_launched' = instances_launched /\ remaining' = remaining
      /\ former' = former
      /\ deployments' = IF deployments = "under way" THEN "over" ELSE deployments
  BY DEF Deployed, Marathon, backend, counted, script, batches
<1>2. TypeOK'
  BY <1>1 DEF IInv, TypeOK
<1>3. Launched'
  BY <1>1 DEF IInv, Launched, At, Waiting
<1>4. Asked'
  BY <1>1 DEF IInv, Asked, Waiting
<1>5. Deploying'
  <2>1. target \in Nat /\ deaths \in Nat  BY Numbers DEF IInv
  <2>2. app = "deleting" => target = 0  BY <1>1 DEF IInv, Deploying
  <2>3. app = "none" => target = 0  BY <1>1 DEF IInv, Deploying
  <2>4. former.app = "none" => former.target = 0  BY <1>1 DEF IInv, Deploying
  <2>5. running' = target /\ staged' = 0 /\ target' = target /\ deaths' = deaths
    BY <1>1
  <2>6. Tasks' <= target' /\ target' <= running' + deaths'  BY <2>1, <2>5 DEF Tasks
  <2>7. app' # "deleting" /\ (app' = "none" => target = 0)  BY <1>1, <2>2, <2>3
  <2>8. ~mock' /\ former' = former  BY <1>1
  <2>. QED BY <2>4, <2>5, <2>6, <2>7, <2>8 DEF Deploying
<1>6. Deleting'
  BY <1>1 DEF IInv, Deleting, At, Waiting, Tasks
<1>7. NoLoss'
  BY <1>1 DEF IInv, NoLoss, Expected, Whole, Waiting, Settled, Tasks
<1>. QED BY <1>2, <1>3, <1>4, <1>5, <1>6, <1>7 DEF IInv

LEMMA DieKeeps == ASSUME ScalingAssumption, IInv, Die PROVE IInv'
<1>1. /\ ~mock /\ app # "none" /\ deaths < MaxDeaths /\ running > 0
      /\ running' = running - 1 /\ deaths' = deaths + 1
      /\ mock' = mock /\ app' = app /\ target' = target /\ staged' = staged
      /\ deploying' = deploying /\ timeouts' = timeouts /\ spc' = spc
      /\ after' = after /\ wanted' = wanted /\ scale_cnt' = scale_cnt
      /\ instances_launched' = instances_launched /\ remaining' = remaining
      /\ deployments' = deployments /\ former' = former
  BY DEF Die, Marathon, backend, counted, script, batches
<1>2. TypeOK'
  <2>1. running' \in Nat /\ deaths' \in 0..MaxDeaths  BY <1>1, Numbers DEF IInv
  <2>. QED BY <1>1, <2>1 DEF IInv, TypeOK, Ended
<1>3. Launched'
  BY <1>1 DEF IInv, Launched, At, Waiting
<1>4. Asked'
  BY <1>1 DEF IInv, Asked, Waiting
<1>5. Deploying'
  BY <1>1, Numbers DEF IInv, Deploying, Tasks
<1>6. Deleting'
  <2>. SUFFICES ASSUME At("delete")', ~mock', deployments' = "none"
                PROVE  target' <= remaining' + deaths' /\ Tasks' <= target' + delete_batch + deaths'
    BY DEF Deleting
  <2>1. target <= remaining + deaths /\ running + staged <= target + delete_batch + deaths
    BY <1>1 DEF IInv, Deleting, At, Waiting, Tasks
  <2>. QED BY <1>1, <2>1, Numbers DEF IInv, Tasks
<1>7. NoLoss'
  <2>1. ~Whole'  BY <1>1, Numbers DEF IInv, Whole
  <2>. QED BY <2>1 DEF NoLoss
<1>. QED BY <1>2, <1>3, <1>4, <1>5, <1>6, <1>7 DEF IInv

LEMMA ReadyKeeps == ASSUME ScalingAssumption, IInv, Ready PROVE IInv'
<1>1. /\ spc = "wait" /\ app # "none" /\ running = wanted /\ spc' = after
      /\ mock' = mock /\ app' = app /\ target' = target /\ running' = running
      /\ staged' = staged /\ deploying' = deploying /\ deaths' = deaths
      /\ timeouts' = timeouts /\ after' = after /\ wanted' = wanted
      /\ scale_cnt' = scale_cnt /\ instances_launched' = instances_launched
      /\ remaining' = remaining /\ deployments' = deployments /\ former' = former
  BY DEF Ready, backend, counted, script, batches
<1>2. TypeOK'
  BY <1>1 DEF IInv, TypeOK, Ended
<1>3. Launched'
  BY <1>1 DEF IInv, Launched, At, Waiting
<1>4. Asked'
  BY <1>1 DEF IInv, Asked, Waiting
<1>5. Deploying'
  BY <1>1 DEF IInv, Deploying, Tasks
<1>6. Deleting'
  BY <1>1 DEF IInv, Deleting, At, Waiting, Tasks
<1>7. NoLoss'
  <2>. SUFFICES ASSUME Whole' PROVE Expected'  BY DEF NoLoss
  <2>1. Expected  BY <1>1, Numbers DEF IInv, NoLoss, Whole
  <2>2. running \in Nat /\ staged \in Nat /\ target \in Nat  BY Numbers DEF IInv
  <2>3. /\ after = "refresh" => wanted = scale_cnt
        /\ after = "one left" => wanted = 1
        /\ ~mock => wanted = target
    BY <1>1 DEF IInv, Asked, Waiting
  <2>4. CASE mock
    <3>1. mock' /\ staged' = 0  BY <1>1, <2>4 DEF IInv, Deploying
    <3>2. Tasks' = wanted  BY <1>1, <2>2, <3>1 DEF Tasks
    <3>3. after \in {"idle", "scale", "refresh", "delete", "one left"}  BY DEF IInv, TypeOK
    <3>. QED BY <1>1, <2>3, <3>1, <3>2, <3>3 DEF Expected, Waiting
  <2>5. CASE ~mock
    <3>1. wanted = target  BY <2>3, <2>5
    <3>2. staged = 0 \/ running + staged <= target
      BY <1>1, <2>1, <2>5 DEF Expected, Waiting, Tasks
    <3>3. running = target /\ staged = 0  BY <1>1, <2>2, <3>1, <3>2
    <3>4. running' = target' /\ staged' = 0 /\ running + staged = wanted
      BY <1>1, <2>2, <3>1, <3>3
    <3>5. Tasks' = wanted /\ Settled'  BY <1>1, <3>4 DEF Tasks, Settled
    <3>6. after \in {"idle", "scale", "refresh", "delete", "one left"}  BY DEF IInv, TypeOK
    <3>. QED BY <1>1, <2>3, <3>5, <3>6 DEF Expected, Waiting
  <2>. QED BY <2>4, <2>5
<1>. QED BY <1>2, <1>3, <1>4, <1>5, <1>6, <1>7 DEF IInv

LEMMA TooManyKeeps == ASSUME ScalingAssumption, IInv, TooMany PROVE IInv'
<1>1. /\ spc = "wait" /\ ~mock /\ running > wanted /\ spc' = "scale down"
      /\ mock' = mock /\ app' = app /\ target' = target /\ running' = running
      /\ staged' = staged /\ deploying' = deploying /\ deaths' = deaths
      /\ timeouts' = timeouts /\ after' = after /\ wanted' = wanted
      /\ scale_cnt' = scale_cnt /\ instances_launched' = instances_launched
      /\ remaining' = remaining /\ deployments' = deployments /\ former' = former
  BY DEF TooMany, backend, counted, script, batches
<1>2. TypeOK'
  BY <1>1 DEF IInv, TypeOK
<1>3. Launched'
  BY <1>1 DEF IInv, Launched, At, Waiting
<1>4. Asked'
  BY <1>1 DEF IInv, Asked, Waiting
<1>5. Deploying'
  BY <1>1 DEF IInv, Deploying, Tasks
<1>6. Deleting'
  BY <1>1 DEF IInv, Deleting, At, Waiting, Tasks
<1>7. NoLoss'
  BY <1>1 DEF IInv, NoLoss, Expected, Whole, Waiting, Settled, Tasks
<1>. QED BY <1>2, <1>3, <1>4, <1>5, <1>6, <1>7 DEF IInv

LEMMA ScaleDownKeeps == ASSUME ScalingAssumption, IInv, ScaleDown PROVE IInv'
<1>1. /\ spc = "scale down" /\ ~mock /\ app = "there" /\ ~deploying
      /\ target' = wanted /\ deploying' = (wanted # target) /\ spc' = "wait"
      /\ mock' = mock /\ app' = app /\ running' = running /\ staged' = staged
      /\ deaths' = deaths /\ timeouts' = timeouts /\ after' = after
      /\ wanted' = wanted /\ scale_cnt' = scale_cnt
      /\ instances_launched' = instances_launched /\ remaining' = remaining
      /\ deployments' = deployments
      /\ former' = [app |-> "there", target |-> target]
  BY DEF ScaleDown, MarathonScale, Deploy, backend, counted, script, batches
<1>2. TypeOK'
  BY <1>1 DEF IInv, TypeOK
<1>3. Launched'
  <2>1. wanted = target  BY <1>1 DEF IInv, Asked, Waiting
  <2>. QED BY <1>1, <2>1 DEF IInv, Launched, At, Waiting
<1>4. Asked'
  BY <1>1 DEF IInv, Asked, Waiting
<1>5. Deploying'
  BY <1>1 DEF IInv, Deploying, Tasks
<1>6. Deleting'
  <2>. SUFFICES ASSUME At("delete")', ~mock', deployments' = "none"
                PROVE  target' <= remaining' + deaths' /\ Tasks' <= target' + delete_batch + deaths'
    BY DEF Deleting
  <2>1. target <= remaining + deaths /\ running + staged <= target + delete_batch + deaths
    BY <1>1 DEF IInv, Deleting, At, Waiting, Tasks
  <2>2. wanted = target  BY <1>1 DEF IInv, Asked, Waiting
  <2>. QED BY <1>1, <2>1, <2>2, Numbers DEF IInv, Tasks
<1>7. NoLoss'
  <2>. SUFFICES ASSUME Whole' PROVE Expected'  BY DEF NoLoss
  <2>1. Expected  BY <1>1, Numbers DEF IInv, NoLoss, Whole
  <2>2. running \in Nat /\ staged \in Nat /\ target \in Nat  BY Numbers DEF IInv
  <2>3. /\ after = "refresh" => wanted = scale_cnt
        /\ after = "one left" => wanted = 1
        /\ ~mock => wanted = target
    BY <1>1 DEF IInv, Asked, Waiting
  <2>. QED BY <1>1, <2>1, <2>2, <2>3 DEF Expected, Waiting, Settled, Tasks
<1>. QED BY <1>2, <1>3, <1>4, <1>5, <1>6, <1>7 DEF IInv

LEMMA TimeOutKeeps == ASSUME ScalingAssumption, IInv, TimeOut PROVE IInv'
<1>1. /\ ~mock /\ timeouts < MaxTimeouts /\ timeouts' = timeouts + 1
      /\ spc' = "Exception"
      /\ mock' = mock /\ app' = app /\ target' = target /\ running' = running
      /\ staged' = staged /\ deploying' = deploying /\ deaths' = deaths
      /\ after' = after /\ wanted' = wanted /\ scale_cnt' = scale_cnt
      /\ instances_launched' = instances_launched /\ remaining' = remaining
      /\ deployments' = deployments /\ former' = former
  BY DEF TimeOut, Raise, backend, counted, script, batches
<1>2. TypeOK'
  <2>1. timeouts' \in 0..MaxTimeouts  BY <1>1, Numbers DEF IInv
  <2>. QED BY <1>1, <2>1 DEF IInv, TypeOK, Ended
<1>3. Launched'
  BY <1>1 DEF IInv, Launched, At, Waiting
<1>4. Asked'
  BY <1>1 DEF IInv, Asked, Waiting
<1>5. Deploying'
  BY <1>1 DEF IInv, Deploying, Tasks
<1>6. Deleting'
  BY <1>1 DEF IInv, Deleting, At, Waiting, Tasks
<1>7. NoLoss'
  <2>1. ~Whole'  BY <1>1, Numbers DEF IInv, Whole
  <2>. QED BY <2>1 DEF NoLoss
<1>. QED BY <1>2, <1>3, <1>4, <1>5, <1>6, <1>7 DEF IInv

LEMMA NoSuchAppKeeps == ASSUME ScalingAssumption, IInv, NoSuchApp PROVE IInv'
<1>1. /\ app = "none"
      /\ spc \in {"wait", "scale down", "scale", "refresh", "delete", "one left"}
      /\ spc' = "Exception"
      /\ mock' = mock /\ app' = app /\ target' = target /\ running' = running
      /\ staged' = staged /\ deploying' = deploying /\ deaths' = deaths
      /\ timeouts' = timeouts /\ after' = after /\ wanted' = wanted
      /\ scale_cnt' = scale_cnt /\ instances_launched' = instances_launched
      /\ remaining' = remaining /\ deployments' = deployments /\ former' = former
  BY DEF NoSuchApp, Raise, backend, counted, script, batches
<1>2. TypeOK'
  BY <1>1 DEF IInv, TypeOK, Ended
<1>3. Launched'
  BY <1>1 DEF IInv, Launched, At, Waiting
<1>4. Asked'
  BY <1>1 DEF IInv, Asked, Waiting
<1>5. Deploying'
  BY <1>1 DEF IInv, Deploying, Tasks
<1>6. Deleting'
  BY <1>1 DEF IInv, Deleting, At, Waiting, Tasks
<1>7. NoLoss'
  <2>. SUFFICES ASSUME Whole' PROVE Expected'  BY DEF NoLoss
  <2>1. Expected  BY <1>1, Numbers DEF IInv, NoLoss, Whole
  <2>2. running \in Nat /\ staged \in Nat /\ target \in Nat  BY Numbers DEF IInv
  <2>3. ~mock /\ app = "none" => running = 0 /\ staged = 0 /\ target = 0
    BY DEF IInv, Deploying
  <2>. QED BY <1>1, <2>1, <2>2, <2>3 DEF Expected, Waiting, Settled, Tasks
<1>. QED BY <1>2, <1>3, <1>4, <1>5, <1>6, <1>7 DEF IInv

LEMMA MarathonScaleKeeps ==
  ASSUME ScalingAssumption, IInv, spc \in {"scale", "delete"},
         NEW n \in Nat, NEW next \in {"scale", "refresh", "delete", "one left"},
         NEW launched \in Nat, NEW left \in Nat,
         Asking(n, next, launched, left), MarathonScale(n),
         WaitFor(n, next), instances_launched' = launched, remaining' = left,
         UNCHANGED <<mock, counted, scale_cnt, deployments>>
  PROVE  IInv'
<1>1. /\ spc \in {"scale", "delete"} /\ ~mock /\ app = "there" /\ ~deploying
      /\ target' = n /\ deploying' = (n # target) /\ spc' = "wait" /\ after' = next
      /\ wanted' = n /\ instances_launched' = launched /\ remaining' = left
      /\ mock' = mock /\ app' = app /\ running' = running /\ staged' = staged
      /\ deaths' = deaths /\ timeouts' = timeouts /\ scale_cnt' = scale_cnt
      /\ deployments' = deployments
      /\ former' = [app |-> "there", target |-> target]
  BY DEF MarathonScale, Deploy, WaitFor, counted
<1>2. TypeOK'
  BY <1>1 DEF IInv, TypeOK
<1>3. Launched'
  BY <1>1 DEF IInv, Launched, At, Waiting, Asking
<1>4. Asked'
  BY <1>1 DEF IInv, Asked, Waiting, Asking
<1>5. Deploying'
  <2>1. Tasks' = Tasks  BY <1>1 DEF Tasks
  <2>2. ~deploying' => target' = target  BY <1>1
  <2>3. Tasks <= target /\ target <= running + deaths  BY <1>1 DEF IInv, Deploying
  <2>4. mock' = FALSE /\ app' = "there" /\ running' = running /\ deaths' = deaths
    BY <1>1 DEF IInv, TypeOK
  <2>5. ~deploying' => Tasks' <= target' /\ target' <= running' + deaths'
    BY <2>1, <2>2, <2>3, <2>4
  <2>6. former'.app = "there"  BY <1>1
  <2>. QED BY <2>4, <2>5, <2>6 DEF Deploying
<1>6. Deleting'
  <2>1. SUFFICES ASSUME At("delete")', ~mock', deployments' = "none"
                PROVE  target' <= remaining' + deaths' /\ Tasks' <= target' + delete_batch + deaths'
    BY DEF Deleting
  <2>2. next = "delete" /\ deployments = "none" /\ ~mock  BY <1>1, <2>1 DEF At, Waiting
  <2>3. n <= left + deaths  BY <2>2 DEF Asking
  <2>4. target <= n + delete_batch + deaths  BY <2>2 DEF Asking
  <2>5. running + staged <= target  BY <1>1 DEF IInv, Deploying, Tasks
  <2>6. /\ running \in Nat /\ staged \in Nat /\ target \in Nat /\ deaths \in Nat
        /\ delete_batch \in Nat
    BY Numbers DEF IInv
  <2>7. running + staged <= n + delete_batch + deaths  BY <2>4, <2>5, <2>6, AtMost
  <2>. QED BY <1>1, <2>3, <2>7 DEF Tasks
<1>7. NoLoss'
  <2>. SUFFICES ASSUME Whole' PROVE Expected'  BY DEF NoLoss
  <2>1. Expected  BY <1>1, Numbers DEF IInv, NoLoss, Whole
  <2>2. running \in Nat /\ staged \in Nat /\ target \in Nat  BY Numbers DEF IInv
  <2>. QED BY <1>1, <2>1, <2>2 DEF Expected, Waiting, Settled, Tasks
<1>. QED BY <1>2, <1>3, <1>4, <1>5, <1>6, <1>7 DEF IInv

LEMMA MockScaleKeeps ==
  ASSUME ScalingAssumption, IInv, spc \in {"scale", "delete"},
         NEW n \in Nat, NEW next \in {"scale", "refresh", "delete", "one left"},
         NEW launched \in Nat, NEW left \in Nat,
         Asking(n, next, launched, left), MockScale,
         WaitFor(n, next), instances_launched' = launched, remaining' = left,
         UNCHANGED <<mock, counted, scale_cnt, deployments>>
  PROVE  IInv'
<1>1. /\ spc \in {"scale", "delete"} /\ mock /\ running = 1 /\ running' = 2
      /\ spc' = "wait" /\ after' = next /\ wanted' = n
      /\ instances_launched' = launched /\ remaining' = left
      /\ mock' = mock /\ app' = app /\ target' = target /\ staged' = staged
      /\ deploying' = deploying /\ deaths' = deaths /\ timeouts' = timeouts
      /\ scale_cnt' = scale_cnt /\ deployments' = deployments /\ former' = former
  BY DEF MockScale, WaitFor, counted
<1>2. TypeOK'
  BY <1>1 DEF IInv, TypeOK
<1>3. Launched'
  <2>1. At("scale")' => next = "scale"  BY <1>1 DEF At, Waiting
  <2>. QED BY <1>1, <2>1 DEF Launched, Asking
<1>4. Asked'
  <2>1. mock' = TRUE  BY <1>1 DEF IInv, TypeOK
  <2>. QED BY <1>1, <2>1 DEF Asked, Asking
<1>5. Deploying'
  <2>1. mock' = TRUE  BY <1>1 DEF IInv, TypeOK
  <2>2. staged' = 0  BY <1>1 DEF IInv, Deploying
  <2>. QED BY <2>1, <2>2 DEF Deploying
<1>6. Deleting'
  BY <1>1 DEF IInv, Deleting, At, Waiting, Tasks, Asking
<1>7. NoLoss'
  <2>1. mock' = TRUE  BY <1>1 DEF IInv, TypeOK
  <2>. QED BY <1>1, <2>1 DEF NoLoss, Expected
<1>. QED BY <1>2, <1>3, <1>4, <1>5, <1>6, <1>7 DEF IInv

LEMMA LateScaleKeeps ==
  ASSUME ScalingAssumption, IInv, spc \in {"scale", "delete"}, NEW n \in Nat, LateScale(n)
  PROVE  IInv'
<1>1. /\ spc \in {"scale", "delete"} /\ ~mock /\ app = "there" /\ ~deploying
      /\ timeouts < MaxTimeouts /\ target' = n /\ deploying' = (n # target)
      /\ timeouts' = timeouts + 1 /\ spc' = "Exception"
      /\ mock' = mock /\ app' = app /\ running' = running /\ staged' = staged
      /\ deaths' = deaths /\ after' = after /\ wanted' = wanted
      /\ scale_cnt' = scale_cnt /\ instances_launched' = instances_launched
      /\ remaining' = remaining /\ deployments' = deployments
      /\ former' = [app |-> "there", target |-> target]
  BY DEF LateScale, MarathonScale, Deploy, Raise, backend, counted, script, batches
<1>2. TypeOK'
  <2>1. timeouts' \in 0..MaxTimeouts  BY <1>1, Numbers DEF IInv
  <2>. QED BY <1>1, <2>1 DEF IInv, TypeOK, Ended
<1>3. Launched'
  BY <1>1 DEF IInv, Launched, At, Waiting
<1>4. Asked'
  BY <1>1 DEF IInv, Asked, Waiting
<1>5. Deploying'
  BY <1>1 DEF IInv, Deploying, Tasks
<1>6. Deleting'
  BY <1>1 DEF IInv, Deleting, At, Waiting, Tasks
<1>7. NoLoss'
  <2>1. ~Whole'  BY <1>1, Numbers DEF IInv, Whole
  <2>. QED BY <2>1 DEF NoLoss
<1>. QED BY <1>2, <1>3, <1>4, <1>5, <1>6, <1>7 DEF IInv

LEMMA MockRaisesKeeps ==
  ASSUME ScalingAssumption, IInv, spc \in {"scale", "delete"}, MockRaises
  PROVE  IInv'
<1>1. /\ spc \in {"scale", "delete"} /\ mock /\ spc' = "Exception"
      /\ mock' = mock /\ app' = app /\ target' = target /\ running' = running
      /\ staged' = staged /\ deploying' = deploying /\ deaths' = deaths
      /\ timeouts' = timeouts /\ after' = after /\ wanted' = wanted
      /\ scale_cnt' = scale_cnt /\ instances_launched' = instances_launched
      /\ remaining' = remaining /\ deployments' = deployments /\ former' = former
  BY DEF MockRaises, Raise, backend, counted, script, batches
<1>2. TypeOK'
  BY <1>1 DEF IInv, TypeOK, Ended
<1>3. Launched'
  BY <1>1 DEF IInv, Launched, At, Waiting
<1>4. Asked'
  BY <1>1 DEF IInv, Asked, Waiting
<1>5. Deploying'
  BY <1>1 DEF IInv, Deploying, Tasks
<1>6. Deleting'
  BY <1>1 DEF IInv, Deleting, At, Waiting, Tasks
<1>7. NoLoss'
  BY <1>1 DEF IInv, NoLoss, Expected, Whole, Waiting, Settled, Tasks
<1>. QED BY <1>2, <1>3, <1>4, <1>5, <1>6, <1>7 DEF IInv

LEMMA RequestKeeps ==
  ASSUME ScalingAssumption, IInv, spc \in {"scale", "delete"},
         NEW n \in Nat, NEW next \in {"scale", "refresh", "delete", "one left"},
         NEW launched \in Nat, NEW left \in Nat,
         Asking(n, next, launched, left), Request(n, next, launched, left)
  PROVE  IInv'
BY MarathonScaleKeeps, MockScaleKeeps, LateScaleKeeps, MockRaisesKeeps DEF Request

LEMMA ScaleAtOnceKeeps == ASSUME ScalingAssumption, IInv, ScaleAtOnce PROVE IInv'
<1>1. scale_cnt \in Nat /\ instances_launched \in Nat /\ remaining \in Nat
  BY DEF IInv, TypeOK
<1>2. spc = "scale" /\ Request(scale_cnt, "refresh", instances_launched, remaining)
  BY DEF ScaleAtOnce
<1>3. Asking(scale_cnt, "refresh", instances_launched, remaining)  BY DEF Asking
<1>. QED BY <1>1, <1>2, <1>3, RequestKeeps

LEMMA FirstBatchKeeps == ASSUME ScalingAssumption, IInv, FirstBatch PROVE IInv'
<1>1. /\ scale_cnt \in Nat /\ instance_threshold \in Nat
      /\ spc = "scale" /\ scale_cnt > instance_threshold
  BY DEF IInv, TypeOK, FirstBatch, InBatches, ScalingAssumption
<1>2. scale_cnt - instance_threshold \in Nat  BY <1>1
<1>3. Asking(instance_threshold, "scale", instance_threshold, scale_cnt - instance_threshold)
  BY <1>1 DEF Asking
<1>4. Request(instance_threshold, "scale", instance_threshold, scale_cnt - instance_threshold)
  BY DEF FirstBatch
<1>. QED BY <1>1, <1>2, <1>3, <1>4, RequestKeeps

LEMMA NextBatchKeeps == ASSUME ScalingAssumption, IInv, NextBatch PROVE IInv'
<1>1. /\ scale_cnt \in Nat /\ instances_launched \in Nat /\ remaining \in Nat
      /\ scale_batch \in Nat /\ instance_threshold \in Nat
  BY DEF IInv, TypeOK, ScalingAssumption
<1>2. /\ spc = "scale" /\ scale_cnt > instance_threshold
      /\ instances_launched > 0 /\ remaining >= scale_batch
  BY DEF NextBatch, InBatches
<1>3. instances_launched + remaining = scale_cnt  BY <1>2 DEF IInv, Launched, At
<1>4. /\ instances_launched + scale_batch \in Nat /\ remaining - scale_batch \in Nat
      /\ instances_launched + scale_batch + (remaining - scale_batch) = scale_cnt
  BY <1>1, <1>2, <1>3
<1>5. Asking(instances_launched + scale_batch, "scale",
             instances_launched + scale_batch, remaining - scale_batch)
  BY <1>2, <1>4 DEF Asking
<1>6. Request(instances_launched + scale_batch, "scale",
              instances_launched + scale_batch, remaining - scale_batch)
  BY DEF NextBatch
<1>. QED BY <1>2, <1>4, <1>5, <1>6, RequestKeeps

LEMMA LastBatchKeeps == ASSUME ScalingAssumption, IInv, LastBatch PROVE IInv'
<1>1. instances_launched \in Nat /\ remaining \in Nat  BY DEF IInv, TypeOK
<1>2. spc = "scale" /\ instances_launched > 0  BY DEF LastBatch, InBatches
<1>3. instances_launched + remaining = scale_cnt  BY <1>2 DEF IInv, Launched, At
<1>4. instances_launched + remaining \in Nat  BY <1>1
<1>5. Asking(instances_launched + remaining, "refresh", instances_launched, remaining)
  BY <1>3 DEF Asking
<1>6. Request(instances_launched + remaining, "refresh", instances_launched, remaining)
  BY DEF LastBatch
<1>. QED BY <1>1, <1>2, <1>4, <1>5, <1>6, RequestKeeps

LEMMA DeleteBatchKeeps == ASSUME ScalingAssumption, IInv, DeleteBatch PROVE IInv'
<1>1. /\ instances_launched \in Nat /\ remaining \in Nat /\ delete_batch \in Nat
      /\ target \in Nat /\ deaths \in Nat
  BY Numbers DEF IInv, TypeOK
<1>2. spc = "delete" /\ remaining >= delete_batch  BY DEF DeleteBatch
<1>3. remaining - delete_batch \in Nat  BY <1>1, <1>2
<1>4. deployments = "none" /\ ~mock => target <= remaining + deaths
  BY <1>2 DEF IInv, Deleting, At
<1>5. Asking(remaining - delete_batch, "delete", instances_launched, remaining - delete_batch)
  BY <1>1, <1>3, <1>4 DEF Asking
<1>6. Request(remaining - delete_batch, "delete", instances_launched, remaining - delete_batch)
  BY DEF DeleteBatch
<1>. QED BY <1>1, <1>2, <1>3, <1>5, <1>6, RequestKeeps

LEMMA DeleteLastKeeps == ASSUME ScalingAssumption, IInv, DeleteLast PROVE IInv'
<1>1. instances_launched \in Nat /\ remaining \in Nat /\ 1 \in Nat  BY DEF IInv, TypeOK
<1>2. spc = "delete" /\ Request(1, "one left", instances_launched, remaining)
  BY DEF DeleteLast
<1>3. Asking(1, "one left", instances_launched, remaining)  BY DEF Asking
<1>. QED BY <1>1, <1>2, <1>3, RequestKeeps

LEMMA CreateKeeps == ASSUME ScalingAssumption, IInv, Create PROVE IInv'
<1>1. /\ spc = "idle" /\ app = "none" /\ app' = "there"
      /\ IF mock THEN running' = 1 /\ target' = target /\ deploying' = deploying
                       /\ former' = former
              ELSE target' = 1 /\ deploying' = TRUE /\ running' = running
                   /\ former' = [app |-> "none", target |-> target]
      /\ \/ spc' = "wait" /\ wanted' = 1 /\ after' = "idle" /\ timeouts' = timeouts
         \/ /\ ~mock /\ timeouts < MaxTimeouts /\ timeouts' = timeouts + 1
            /\ spc' = "Exception" /\ wanted' = wanted /\ after' = after
      /\ mock' = mock /\ staged' = staged /\ deaths' = deaths
      /\ scale_cnt' = scale_cnt /\ instances_launched' = instances_launched
      /\ remaining' = remaining /\ deployments' = deployments
  BY DEF Create, Deploy, WaitFor, Raise, backend, counted, script, batches
<1>2. TypeOK'
  <2>1. timeouts' \in 0..MaxTimeouts
    <3>1. timeouts \in 0..MaxTimeouts  BY DEF IInv, TypeOK
    <3>. QED BY <1>1, <3>1, Numbers DEF IInv
  <2>2. spc' \in {"wait", "Exception"} /\ wanted' \in Nat /\ after' \in {"idle", after}
    BY <1>1, Numbers DEF IInv
  <2>3. running' \in {1, running} /\ target' \in {1, target}  BY <1>1
  <2>4. running' \in Nat /\ target' \in Nat  BY <2>3, Numbers DEF IInv
  <2>5. deploying' \in BOOLEAN
    <3>1. CASE mock
      <4>1. deploying' = deploying  BY <1>1, <3>1
      <4>. QED BY <4>1 DEF IInv, TypeOK
    <3>2. CASE ~mock
      <4>1. deploying' = TRUE  BY <1>1, <3>2
      <4>. QED BY <4>1
    <3>. QED BY <3>1, <3>2
  <2>6. former' \in [app : {"none", "there"}, target : Nat]
    <3>1. former \in [app : {"none", "there"}, target : Nat] /\ target \in Nat  BY DEF IInv, TypeOK
    <3>. QED BY <1>1, <3>1
  <2>. QED BY <1>1, <2>1, <2>2, <2>4, <2>5, <2>6 DEF IInv, TypeOK, Ended
<1>3. Launched'
  BY <1>1 DEF IInv, Launched, At, Waiting
<1>4. Asked'
  BY <1>1 DEF IInv, Asked, Waiting
<1>5. Deploying'
  BY <1>1 DEF IInv, Deploying, Tasks
<1>6. Deleting'
  BY <1>1 DEF IInv, Deleting, At, Waiting, Tasks
<1>7. NoLoss'
  <2>. SUFFICES ASSUME Whole' PROVE Expected'  BY DEF NoLoss
  <2>1. timeouts' # timeouts + 1 /\ deaths = 0  BY <1>1, Numbers DEF IInv, Whole
  <2>2. spc' = "wait"  BY <1>1, <2>1
  <2>3. ~mock /\ app = "none" => running = 0 /\ staged = 0 /\ target = 0
    BY DEF IInv, Deploying
  <2>. QED BY <1>1, <2>2, <2>3 DEF Expected, Waiting, Settled, Tasks
<1>. QED BY <1>2, <1>3, <1>4, <1>5, <1>6, <1>7 DEF IInv

LEMMA ScaleAppKeeps == ASSUME ScalingAssumption, IInv, ScaleApp PROVE IInv'
<1>1. /\ spc = "idle" /\ spc' = "scale" /\ instances_launched' = 0 /\ remaining' = 0
      /\ scale_cnt' \in Counts
      /\ mock' = mock /\ app' = app /\ target' = target /\ running' = running
      /\ staged' = staged /\ deploying' = deploying /\ deaths' = deaths
      /\ timeouts' = timeouts /\ after' = after /\ wanted' = wanted
      /\ deployments' = deployments /\ former' = former
  BY DEF ScaleApp, backend, counted, script, batches
<1>2. TypeOK'
  BY <1>1 DEF IInv, TypeOK
<1>3. Launched'
  BY <1>1 DEF IInv, Launched, At, Waiting
<1>4. Asked'
  BY <1>1 DEF IInv, Asked, Waiting
<1>5. Deploying'
  BY <1>1 DEF IInv, Deploying, Tasks
<1>6. Deleting'
  BY <1>1 DEF IInv, Deleting, At, Waiting, Tasks
<1>7. NoLoss'
  BY <1>1 DEF IInv, NoLoss, Expected, Whole, Waiting, Settled, Tasks
<1>. QED BY <1>2, <1>3, <1>4, <1>5, <1>6, <1>7 DEF IInv

LEMMA ScaledKeeps == ASSUME ScalingAssumption, IInv, Scaled PROVE IInv'
<1>1. /\ spc = "scale" /\ running + staged = scale_cnt /\ spc' = "refresh"
      /\ mock' = mock /\ app' = app /\ target' = target /\ running' = running
      /\ staged' = staged /\ deploying' = deploying /\ deaths' = deaths
      /\ timeouts' = timeouts /\ after' = after /\ wanted' = wanted
      /\ scale_cnt' = scale_cnt /\ instances_launched' = instances_launched
      /\ remaining' = remaining /\ deployments' = deployments /\ former' = former
  BY DEF Scaled, InBatches, Tasks, backend, counted, script, batches
<1>2. TypeOK'
  BY <1>1 DEF IInv, TypeOK
<1>3. Launched'
  BY <1>1 DEF IInv, Launched, At, Waiting
<1>4. Asked'
  BY <1>1 DEF IInv, Asked, Waiting
<1>5. Deploying'
  BY <1>1 DEF IInv, Deploying, Tasks
<1>6. Deleting'
  BY <1>1 DEF IInv, Deleting, At, Waiting, Tasks
<1>7. NoLoss'
  BY <1>1 DEF IInv, NoLoss, Expected, Whole, Waiting, Settled, Tasks
<1>. QED BY <1>2, <1>3, <1>4, <1>5, <1>6, <1>7 DEF IInv

LEMMA RefreshKeeps == ASSUME ScalingAssumption, IInv, Refresh PROVE IInv'
<1>1. /\ spc = "refresh"
      /\ spc' = IF running + staged = scale_cnt THEN "idle" ELSE "AssertionError"
      /\ mock' = mock /\ app' = app /\ target' = target /\ running' = running
      /\ staged' = staged /\ deploying' = deploying /\ deaths' = deaths
      /\ timeouts' = timeouts /\ after' = after /\ wanted' = wanted
      /\ scale_cnt' = scale_cnt /\ instances_launched' = instances_launched
      /\ remaining' = remaining /\ deployments' = deployments /\ former' = former
  BY DEF Refresh, Tasks, backend, counted, script, batches
<1>2. TypeOK'
  BY <1>1 DEF IInv, TypeOK, Ended
<1>3. Launched'
  BY <1>1 DEF IInv, Launched, At, Waiting
<1>4. Asked'
  BY <1>1 DEF IInv, Asked, Waiting
<1>5. Deploying'
  BY <1>1 DEF IInv, Deploying, Tasks
<1>6. Deleting'
  BY <1>1 DEF IInv, Deleting, At, Waiting, Tasks
<1>7. NoLoss'
  BY <1>1 DEF IInv, NoLoss, Expected, Whole, Waiting, Settled, Tasks
<1>. QED BY <1>2, <1>3, <1>4, <1>5, <1>6, <1>7 DEF IInv

LEMMA DeleteAppKeeps == ASSUME ScalingAssumption, IInv, DeleteApp PROVE IInv'
<1>1. /\ spc \in Ended
      /\ spc' = IF app = "none" THEN "gone"
               ELSE IF running > threshold THEN "delete" ELSE "remove"
      /\ remaining' = running /\ former' = former
      /\ deployments' = IF app # "none" /\ deploying THEN "under way" ELSE "none"
      /\ mock' = mock /\ app' = app /\ target' = target /\ running' = running
      /\ staged' = staged /\ deploying' = deploying /\ deaths' = deaths
      /\ timeouts' = timeouts /\ after' = after /\ wanted' = wanted
      /\ scale_cnt' = scale_cnt /\ instances_launched' = instances_launched
  BY DEF DeleteApp, backend, counted, script, batches
<1>2. TypeOK'
  BY <1>1 DEF IInv, TypeOK
<1>3. Launched'
  BY <1>1 DEF IInv, Launched, At, Waiting
<1>4. Asked'
  BY <1>1 DEF IInv, Asked, Waiting
<1>5. Deploying'
  BY <1>1 DEF IInv, Deploying, Tasks
<1>6. Deleting'
  <2>. SUFFICES ASSUME At("delete")', ~mock', deployments' = "none"
                PROVE  target' <= remaining' + deaths' /\ Tasks' <= target' + delete_batch + deaths'
    BY DEF Deleting
  <2>1. spc' = "delete" /\ ~mock /\ ~deploying
    BY <1>1 DEF At, Waiting, IInv, TypeOK, Ended
  <2>2. running + staged <= target /\ target <= running + deaths
    BY <2>1 DEF IInv, Deploying, Tasks
  <2>. QED BY <1>1, <2>2, Numbers DEF IInv, Tasks
<1>7. NoLoss'
  <2>. SUFFICES ASSUME Whole' PROVE Expected'  BY DEF NoLoss
  <2>1. Expected  BY <1>1, Numbers DEF IInv, NoLoss, Whole
  <2>2. running \in Nat /\ staged \in Nat /\ target \in Nat  BY Numbers DEF IInv
  <2>3. ~mock /\ app = "none" => running = 0 /\ staged = 0 /\ target = 0
    BY DEF IInv, Deploying
  <2>. QED BY <1>1, <2>1, <2>2, <2>3 DEF Expected, Waiting, Settled, Tasks, Ended
<1>. QED BY <1>2, <1>3, <1>4, <1>5, <1>6, <1>7 DEF IInv

LEMMA OneLeftKeeps == ASSUME ScalingAssumption, IInv, OneLeft PROVE IInv'
<1>1. /\ spc = "delete" /\ spc' = "remove"
      /\ mock' = mock /\ app' = app /\ target' = target /\ running' = running
      /\ staged' = staged /\ deploying' = deploying /\ deaths' = deaths
      /\ timeouts' = timeouts /\ after' = after /\ wanted' = wanted
      /\ scale_cnt' = scale_cnt /\ instances_launched' = instances_launched
      /\ remaining' = remaining /\ deployments' = deployments /\ former' = former
  BY DEF OneLeft, backend, counted, script, batches
<1>2. TypeOK'
  BY <1>1 DEF IInv, TypeOK
<1>3. Launched'
  BY <1>1 DEF IInv, Launched, At, Waiting
<1>4. Asked'
  BY <1>1 DEF IInv, Asked, Waiting
<1>5. Deploying'
  BY <1>1 DEF IInv, Deploying, Tasks
<1>6. Deleting'
  BY <1>1 DEF IInv, Deleting, At, Waiting, Tasks
<1>7. NoLoss'
  BY <1>1 DEF IInv, NoLoss, Expected, Whole, Waiting, Settled, Tasks
<1>. QED BY <1>2, <1>3, <1>4, <1>5, <1>6, <1>7 DEF IInv

LEMMA AssertOneLeftKeeps == ASSUME ScalingAssumption, IInv, AssertOneLeft PROVE IInv'
<1>1. /\ spc = "one left"
      /\ spc' = IF running + staged = 1 THEN "remove" ELSE "AssertionError"
      /\ mock' = mock /\ app' = app /\ target' = target /\ running' = running
      /\ staged' = staged /\ deploying' = deploying /\ deaths' = deaths
      /\ timeouts' = timeouts /\ after' = after /\ wanted' = wanted
      /\ scale_cnt' = scale_cnt /\ instances_launched' = instances_launched
      /\ remaining' = remaining /\ deployments' = deployments /\ former' = former
  BY DEF AssertOneLeft, Tasks, backend, counted, script, batches
<1>2. TypeOK'
  BY <1>1 DEF IInv, TypeOK, Ended
<1>3. Launched'
  BY <1>1 DEF IInv, Launched, At, Waiting
<1>4. Asked'
  BY <1>1 DEF IInv, Asked, Waiting
<1>5. Deploying'
  BY <1>1 DEF IInv, Deploying, Tasks
<1>6. Deleting'
  BY <1>1 DEF IInv, Deleting, At, Waiting, Tasks
<1>7. NoLoss'
  BY <1>1 DEF IInv, NoLoss, Expected, Whole, Waiting, Settled, Tasks
<1>. QED BY <1>2, <1>3, <1>4, <1>5, <1>6, <1>7 DEF IInv

LEMMA CancelKeeps == ASSUME ScalingAssumption, IInv, Cancel PROVE IInv'
<1>1. /\ spc = "remove" /\ ~mock /\ app # "none" /\ deploying /\ deployments = "under way"
      /\ app' = IF former.app = "none" THEN "deleting" ELSE "there"
      /\ target' = former.target
      /\ former' = [app |-> IF app = "there" THEN "there" ELSE "none", target |-> target]
      /\ \/ deployments' = "none" /\ spc' = "remove" /\ timeouts' = timeouts
         \/ /\ timeouts < MaxTimeouts /\ timeouts' = timeouts + 1
            /\ spc' = "Exception" /\ deployments' = deployments
      /\ mock' = mock /\ running' = running /\ staged' = staged /\ deploying' = deploying
      /\ deaths' = deaths
      /\ after' = after /\ wanted' = wanted /\ scale_cnt' = scale_cnt
      /\ instances_launched' = instances_launched /\ remaining' = remaining
  BY DEF Cancel, Marathon, Deploy, Raise, backend, counted, script, batches
<1>2. TypeOK'
  <2>1. former \in [app : {"none", "there"}, target : Nat] /\ target \in Nat
    BY DEF IInv, TypeOK
  <2>2. former' \in [app : {"none", "there"}, target : Nat]  BY <1>1, <2>1
  <2>3. app' \in {"deleting", "there"} /\ target' \in Nat  BY <1>1, <2>1
  <2>4. timeouts' \in 0..MaxTimeouts
    <3>1. timeouts \in 0..MaxTimeouts  BY DEF IInv, TypeOK
    <3>2. timeouts' = timeouts \/ (timeouts < MaxTimeouts /\ timeouts' = timeouts + 1)  BY <1>1
    <3>. QED BY <3>1, <3>2, Numbers DEF IInv
  <2>5. spc' \in {"remove", "Exception"} /\ deployments' \in {"none", "under way"}  BY <1>1
  <2>. QED BY <1>1, <2>2, <2>3, <2>4, <2>5 DEF IInv, TypeOK, Ended
<1>3. Launched'
  BY <1>1 DEF IInv, Launched, At, Waiting
<1>4. Asked'
  BY <1>1 DEF IInv, Asked, Waiting
<1>5. Deploying'
  <2>1. app = "deleting" => target = 0  BY <1>1 DEF IInv, Deploying
  <2>2. former.app = "none" => former.target = 0  BY <1>1 DEF IInv, Deploying
  <2>3. app \in {"there", "deleting"}  BY <1>1 DEF IInv, TypeOK
  <2>4. app' = "deleting" => target' = 0  BY <1>1, <2>2
  <2>5. former'.app = "none" => former'.target = 0  BY <1>1, <2>1, <2>3
  <2>6. app' # "none" /\ deploying' /\ ~mock'  BY <1>1
  <2>. QED BY <2>4, <2>5, <2>6 DEF Deploying
<1>6. Deleting'
  BY <1>1 DEF IInv, Deleting, At, Waiting, Tasks
<1>7. NoLoss'
  <2>. SUFFICES ASSUME Whole' PROVE Expected'  BY DEF NoLoss
  <2>1. timeouts' # timeouts + 1  BY Numbers DEF IInv, Whole
  <2>2. deployments' = "none" /\ spc' = "remove"  BY <1>1, <2>1
  <2>. QED BY <1>1, <2>2 DEF Expected, Waiting
<1>. QED BY <1>2, <1>3, <1>4, <1>5, <1>6, <1>7 DEF IInv

LEMMA CancelRaisesKeeps == ASSUME ScalingAssumption, IInv, CancelRaises PROVE IInv'
<1>1. /\ spc = "remove" /\ deployments = "over" /\ spc' = "Exception"
      /\ mock' = mock /\ app' = app /\ target' = target /\ running' = running
      /\ staged' = staged /\ deploying' = deploying /\ former' = former
      /\ deaths' = deaths /\ timeouts' = timeouts
      /\ after' = after /\ wanted' = wanted /\ scale_cnt' = scale_cnt
      /\ instances_launched' = instances_launched /\ remaining' = remaining
      /\ deployments' = deployments
  BY DEF CancelRaises, Raise, backend, counted, script, batches
<1>2. TypeOK'
  BY <1>1 DEF IInv, TypeOK, Ended
<1>3. Launched'
  BY <1>1 DEF IInv, Launched, At, Waiting
<1>4. Asked'
  BY <1>1 DEF IInv, Asked, Waiting
<1>5. Deploying'
  BY <1>1 DEF IInv, Deploying, Tasks
<1>6. Deleting'
  BY <1>1 DEF IInv, Deleting, At, Waiting, Tasks
<1>7. NoLoss'
  BY <1>1 DEF IInv, NoLoss, Expected, Whole, Waiting, Settled, Tasks
<1>. QED BY <1>2, <1>3, <1>4, <1>5, <1>6, <1>7 DEF IInv

LEMMA RemoveKeeps == ASSUME ScalingAssumption, IInv, Remove PROVE IInv'
<1>1. /\ spc = "remove" /\ deployments = "none"
      /\ \/ /\ ~mock /\ app = "there" /\ ~deploying
            /\ app' = "deleting" /\ target' = 0 /\ deploying' = TRUE /\ running' = running
            /\ former' = [app |-> "there", target |-> target]
            /\ \/ spc' = "gone" /\ timeouts' = timeouts
               \/ /\ timeouts < MaxTimeouts /\ timeouts' = timeouts + 1
                  /\ spc' = "Exception"
         \/ /\ mock /\ app' = "none" /\ running' = 0 /\ target' = target
            /\ deploying' = deploying /\ former' = former
            /\ spc' = "gone" /\ timeouts' = timeouts
         \/ /\ app = "none" /\ app' = app /\ running' = running /\ target' = target
            /\ deploying' = deploying /\ former' = former
            /\ spc' \in {"gone", "Exception"} /\ timeouts' = timeouts
      /\ mock' = mock /\ staged' = staged /\ deaths' = deaths
      /\ after' = after /\ wanted' = wanted /\ scale_cnt' = scale_cnt
      /\ instances_launched' = instances_launched /\ remaining' = remaining
      /\ deployments' = deployments
  BY DEF Remove, Delete, MockDelete, Deploy, Raise, backend, counted, script, batches
<1>2. TypeOK'
  <2>1. /\ app \in {"none", "there", "deleting"} /\ target \in Nat /\ running \in Nat
        /\ deploying \in BOOLEAN /\ former \in [app : {"none", "there"}, target : Nat]
        /\ timeouts \in 0..MaxTimeouts
    BY DEF IInv, TypeOK
  <2>2. spc' \in {"Exception", "gone"} /\ app' \in {"none", "there", "deleting"}  BY <1>1, <2>1
  <2>3. target' \in Nat /\ running' \in Nat  BY <1>1, <2>1
  <2>4. deploying' \in BOOLEAN  BY <1>1, <2>1
  <2>5. former' \in [app : {"none", "there"}, target : Nat]  BY <1>1, <2>1
  <2>6. timeouts' \in 0..MaxTimeouts  BY <1>1, <2>1, Numbers DEF IInv
  <2>. QED BY <1>1, <2>2, <2>3, <2>4, <2>5, <2>6 DEF IInv, TypeOK, Ended
<1>3. Launched'
  BY <1>1 DEF IInv, Launched, At, Waiting
<1>4. Asked'
  BY <1>1 DEF IInv, Asked, Waiting
<1>5. Deploying'
  <2>1. CASE mock
    <3>1. mock' = TRUE  BY <1>1, <2>1 DEF IInv, TypeOK
    <3>2. staged' = 0  BY <1>1, <2>1 DEF IInv, Deploying
    <3>. QED BY <3>1, <3>2 DEF Deploying
  <2>2. CASE ~mock
    <3>1. CASE app = "none"
      <4>1. /\ app' = app /\ running' = running /\ staged' = staged /\ target' = target
            /\ deploying' = deploying /\ former' = former /\ deaths' = deaths /\ mock' = mock
        BY <1>1, <2>2, <3>1
      <4>. QED BY <4>1 DEF IInv, Deploying, Tasks
    <3>2. CASE app # "none"
      <4>1. ~mock' /\ app' = "deleting" /\ target' = 0 /\ deploying' /\ former'.app = "there"
        BY <1>1, <2>2, <3>2
      <4>. QED BY <4>1 DEF Deploying
    <3>. QED BY <3>1, <3>2
  <2>. QED BY <2>1, <2>2
<1>6. Deleting'
  BY <1>1 DEF IInv, Deleting, At, Waiting, Tasks
<1>7. NoLoss'
  <2>. SUFFICES ASSUME Whole' PROVE Expected'  BY DEF NoLoss
  <2>1. Expected  BY <1>1, Numbers DEF IInv, NoLoss, Whole
  <2>2. /\ running \in Nat /\ staged \in Nat /\ target \in Nat
        /\ deaths = 0 /\ timeouts' # timeouts + 1
    BY <1>1, Numbers DEF IInv, Whole
  <2>3. CASE mock
    <3>1. mock' = TRUE  BY <1>1, <2>3 DEF IInv, TypeOK
    <3>2. spc' \in {"gone", "Exception"}  BY <1>1
    <3>. QED BY <3>1, <3>2 DEF Expected
  <2>4. CASE ~mock /\ app = "none"
    <3>1. running = 0 /\ staged = 0 /\ target = 0  BY <2>4 DEF IInv, Deploying
    <3>2. running' = 0 /\ staged' = 0 /\ target' = 0 /\ spc' \in {"gone", "Exception"}
      BY <1>1, <2>4, <3>1
    <3>. QED BY <3>2 DEF Expected, Settled, Waiting
  <2>5. CASE ~mock /\ app # "none"
    <3>1. spc' = "gone" /\ ~deploying /\ target' = 0  BY <1>1, <2>2, <2>5
    <3>2. staged = 0  BY <1>1, <2>1, <2>5, <3>1 DEF Expected, Settled
    <3>. QED BY <1>1, <3>1, <3>2 DEF Expected, Waiting
  <2>. QED BY <2>3, <2>4, <2>5
<1>. QED BY <1>2, <1>3, <1>4, <1>5, <1>6, <1>7 DEF IInv

LEMMA GoneKeeps == ASSUME ScalingAssumption, IInv, Gone PROVE IInv'
<1>1. /\ spc = "gone" /\ app = "none" /\ spc' = "idle"
      /\ mock' = mock /\ app' = app /\ target' = target /\ running' = running
      /\ staged' = staged /\ deploying' = deploying /\ deaths' = deaths
      /\ timeouts' = timeouts /\ after' = after /\ wanted' = wanted
      /\ scale_cnt' = scale_cnt /\ instances_launched' = instances_launched
      /\ remaining' = remaining /\ deployments' = deployments /\ former' = former
  BY DEF Gone, backend, counted, script, batches
<1>2. TypeOK'
  BY <1>1 DEF IInv, TypeOK, Ended
<1>3. Launched'
  BY <1>1 DEF IInv, Launched, At, Waiting
<1>4. Asked'
  BY <1>1 DEF IInv, Asked, Waiting
<1>5. Deploying'
  BY <1>1 DEF IInv, Deploying, Tasks
<1>6. Deleting'
  BY <1>1 DEF IInv, Deleting, At, Waiting, Tasks
<1>7. NoLoss'
  <2>. SUFFICES ASSUME Whole' PROVE Expected'  BY DEF NoLoss
  <2>1. Expected  BY <1>1, Numbers DEF IInv, NoLoss, Whole
  <2>2. running \in Nat /\ staged \in Nat /\ target \in Nat  BY Numbers DEF IInv
  <2>3. ~mock /\ app = "none" => running = 0 /\ staged = 0 /\ target = 0
    BY DEF IInv, Deploying
  <2>. QED BY <1>1, <2>1, <2>2, <2>3 DEF Expected, Waiting, Settled, Tasks
<1>. QED BY <1>2, <1>3, <1>4, <1>5, <1>6, <1>7 DEF IInv
LEMMA StutterKeeps == ASSUME IInv, UNCHANGED vars PROVE IInv'
<1>1. TypeOK'  BY DEF IInv, TypeOK, vars, backend, counted, script, batches
<1>2. Launched' /\ Asked' /\ Deleting'
  BY DEF IInv, Launched, Asked, Deleting, At, Waiting, Tasks, vars, backend, counted, script,
         batches
<1>3. Deploying' /\ NoLoss'
  BY DEF IInv, Deploying, NoLoss, Expected, Whole, Settled, Waiting, Tasks, vars, backend, counted,
         script, batches
<1>. QED BY <1>1, <1>2, <1>3 DEF IInv

-----------------------------------------------------------------------------
LEMMA Invariant == ASSUME ScalingAssumption PROVE Spec => []IInv
<1>1. Init => IInv  BY InitHolds
<1>2. ASSUME IInv, Working PROVE IInv'
  BY <1>2, ReadyKeeps, TooManyKeeps, ScaleDownKeeps, NoSuchAppKeeps, ScaleAtOnceKeeps,
     ScaledKeeps, FirstBatchKeeps, NextBatchKeeps, LastBatchKeeps, RefreshKeeps, OneLeftKeeps,
     DeleteBatchKeeps, DeleteLastKeeps, AssertOneLeftKeeps,
     CancelKeeps, CancelRaisesKeeps, RemoveKeeps, GoneKeeps
  DEF Working
<1>3. ASSUME IInv, Tasked PROVE IInv'
  BY <1>3, StageKeeps, StartKeeps, KillKeeps, DeployedKeeps DEF Tasked
<1>4. IInv /\ [Next]_vars => IInv'
  BY <1>2, <1>3, DieKeeps, TimeOutKeeps, CreateKeeps, ScaleAppKeeps, DeleteAppKeeps,
     StutterKeeps DEF Next
<1>. QED BY <1>1, <1>4, PTL DEF Spec

\* For any numbers, every variable of script and backend keeps its type (TypeOK).
THEOREM TypeCorrect == ASSUME ScalingAssumption PROVE Spec => []TypeOK
<1>1. IInv => TypeOK  BY DEF IInv
<1>. QED BY <1>1, Invariant, PTL

\* For any numbers, the asserts of scale_app and delete_app fail only after a death or a
\* timeout (AssertsNeedLoss).
THEOREM AssertsNeedLossAlways == ASSUME ScalingAssumption PROVE Spec => []AssertsNeedLoss
<1>1. ASSUME IInv PROVE AssertsNeedLoss
  BY <1>1, Numbers DEF IInv, NoLoss, Expected, Whole, AssertsNeedLoss
<1>. QED BY <1>1, Invariant, PTL

-----------------------------------------------------------------------------
(* What one request may change.                                            *)

LEMMA Requested ==
  ASSUME NEW n, NEW next, NEW launched, NEW left, Request(n, next, launched, left)
  PROVE  target' = target \/ (target' = n /\ ~mock /\ ~deploying)
BY DEF Request, MarathonScale, Deploy, MockScale, LateScale, MockRaises, backend

LEMMA OnlyRequestsScale ==
  ASSUME [Next]_vars, spc \in {"scale", "delete"}
  PROVE  \/ target' = target
         \/ spc = "scale" /\ (ScaleAtOnce \/ FirstBatch \/ NextBatch \/ LastBatch)
         \/ spc = "delete" /\ (DeleteBatch \/ DeleteLast)
<1>1. ASSUME UNCHANGED vars PROVE target' = target  BY <1>1 DEF vars, backend
<1>2. ASSUME Tasked PROVE target' = target
  BY <1>2 DEF Tasked, Stage, Start, Kill, Deployed
<1>3. ASSUME Die \/ TimeOut \/ ScaleApp \/ DeleteApp PROVE target' = target
  BY <1>3 DEF Die, TimeOut, ScaleApp, DeleteApp, backend
<1>4. ~Create  BY DEF Create
<1>5. ASSUME Ready \/ TooMany \/ NoSuchApp \/ Scaled \/ Refresh \/ OneLeft \/ AssertOneLeft \/ Gone
      PROVE  target' = target
  BY <1>5 DEF Ready, TooMany, NoSuchApp, Scaled, Refresh, OneLeft, AssertOneLeft, Gone, backend
<1>6. ~ScaleDown /\ ~Cancel /\ ~CancelRaises /\ ~Remove
  BY DEF ScaleDown, Cancel, CancelRaises, Remove
<1>7. /\ ScaleAtOnce \/ FirstBatch \/ NextBatch \/ LastBatch => spc = "scale"
      /\ DeleteBatch \/ DeleteLast => spc = "delete"
  BY DEF ScaleAtOnce, FirstBatch, NextBatch, LastBatch, InBatches, DeleteBatch, DeleteLast
<1>. QED BY <1>1, <1>2, <1>3, <1>4, <1>5, <1>6, <1>7 DEF Next, Working

\* Scaling up.
LEMMA ScalesUpInBatches ==
  ASSUME ScalingAssumption, IInv, spc = "scale", target' # target,
         ScaleAtOnce \/ FirstBatch \/ NextBatch \/ LastBatch
  PROVE  /\ target' <= scale_cnt
         /\ instances_launched = 0 => target' <= target + instance_threshold
         /\ instances_launched # 0 => target' <= target + scale_batch
<1>1. /\ scale_cnt \in Nat /\ target \in Nat /\ instances_launched \in Nat /\ remaining \in Nat
      /\ instance_threshold \in Nat /\ scale_batch \in Nat
  BY Numbers DEF IInv, ScalingAssumption
<1>2. instances_launched > 0 =>
        /\ instances_launched + remaining = scale_cnt /\ scale_cnt > instance_threshold
        /\ ~mock => target = instances_launched
  BY DEF IInv, Launched, At
<1>3. CASE ScaleAtOnce
  <2>1. scale_cnt <= instance_threshold /\ target' = scale_cnt
    BY <1>3, Requested DEF ScaleAtOnce
  <2>2. ~(scale_cnt > instance_threshold) /\ scale_cnt <= target + instance_threshold
    BY <1>1, <2>1
  <2>3. ~(instances_launched > 0)  BY <1>2, <2>2
  <2>4. instances_launched = 0  BY <1>1, <2>3
  <2>5. scale_cnt <= scale_cnt  BY <1>1
  <2>. QED BY <2>1, <2>2, <2>4, <2>5
<1>4. CASE FirstBatch
  <2>1. scale_cnt > instance_threshold /\ instances_launched = 0 /\ target' = instance_threshold
    BY <1>4, Requested DEF FirstBatch, InBatches
  <2>2. instance_threshold <= scale_cnt /\ instance_threshold <= target + instance_threshold
    BY <1>1, <2>1
  <2>. QED BY <2>1, <2>2
<1>5. CASE NextBatch
  <2>1. /\ instances_launched > 0 /\ remaining >= scale_batch
        /\ ~mock /\ target' = instances_launched + scale_batch
    BY <1>5, Requested DEF NextBatch
  <2>2. instances_launched + remaining = scale_cnt /\ target = instances_launched
    BY <1>2, <2>1
  <2>3. remaining >= scale_batch /\ instances_launched > 0  BY <2>1
  <2>4. /\ instances_launched + scale_batch <= scale_cnt
        /\ instances_launched + scale_batch <= target + scale_batch
        /\ instances_launched # 0
    BY <1>1, <2>2, <2>3
  <2>. QED BY <2>1, <2>4
<1>6. CASE LastBatch
  <2>1. /\ instances_launched > 0 /\ remaining < scale_batch
        /\ ~mock /\ target' = instances_launched + remaining
    BY <1>6, Requested DEF LastBatch
  <2>2. instances_launched + remaining = scale_cnt /\ target = instances_launched
    BY <1>2, <2>1
  <2>3. remaining < scale_batch /\ instances_launched > 0  BY <2>1
  <2>4. /\ instances_launched + remaining <= scale_cnt
        /\ instances_launched + remaining <= target + scale_batch
        /\ instances_launched # 0
    BY <1>1, <2>2, <2>3
  <2>. QED BY <2>1, <2>4
<1>. QED BY <1>3, <1>4, <1>5, <1>6

LEMMA LastOne ==
  ASSUME NEW t \in Nat, NEW s \in Nat, NEW m \in Nat, NEW b \in Nat, NEW d \in Nat,
         s <= t, t <= m + d, m < b
  PROVE  s <= 1 + (b + d)
OBVIOUS

LEMMA OneBatch ==
  ASSUME NEW t \in Nat, NEW s \in Nat, NEW m \in Nat, NEW b \in Nat, NEW d \in Nat,
         s <= t, t <= m + d, m >= b
  PROVE  s <= (m - b) + (b + d)
OBVIOUS

\* Deleting.
LEMMA DeletesInBatches ==
  ASSUME ScalingAssumption, IInv, spc = "delete", target' # target, deployments = "none",
         DeleteBatch \/ DeleteLast
  PROVE  Tasks <= target' + (delete_batch + deaths)
<1>1. /\ target \in Nat /\ remaining \in Nat /\ deaths \in Nat /\ delete_batch \in Nat
      /\ Tasks \in Nat
  BY Numbers DEF IInv, Tasks
<1>2. ~mock /\ ~deploying
  BY Requested DEF DeleteBatch, DeleteLast
<1>3. target <= remaining + deaths  BY <1>2 DEF IInv, Deleting, At
<1>4. Tasks <= target  BY <1>2 DEF IInv, Deploying
<1>5. CASE DeleteBatch
  <2>1. remaining >= delete_batch /\ target' = remaining - delete_batch
    BY <1>5, Requested DEF DeleteBatch
  <2>. QED BY <1>1, <1>3, <1>4, <2>1, OneBatch
<1>6. CASE DeleteLast
  <2>1. remaining < delete_batch /\ target' = 1
    BY <1>6, Requested DEF DeleteLast
  <2>. QED BY <1>1, <1>3, <1>4, <2>1, LastOne
<1>. QED BY <1>5, <1>6

LEMMA TargetIsNat == ASSUME ScalingAssumption, IInv' PROVE target' \in Nat
BY DEF IInv, TypeOK

LEMMA Difference ==
  ASSUME NEW a \in Nat, NEW b \in Nat, NEW c \in Nat
  PROVE  a <= b + c <=> a - b <= c
OBVIOUS

LEMMA Equals == ASSUME NEW a \in Nat, NEW b \in Nat, a > b PROVE a # b
OBVIOUS

LEMMA StepIsSmall ==
  ASSUME ScalingAssumption, IInv, IInv', [Next]_vars
  PROVE  /\ spc = "scale" /\ target' > target =>
              target' <= scale_cnt
              /\ target' - target <= IF instances_launched = 0 THEN instance_threshold
                                                              ELSE scale_batch
         /\ ~mock /\ spc = "delete" /\ target' < Tasks /\ deployments = "none" =>
              Tasks - target' <= delete_batch + deaths
<1>1. /\ target \in Nat /\ deaths \in Nat /\ delete_batch \in Nat /\ Tasks \in Nat
      /\ instance_threshold \in Nat /\ scale_batch \in Nat
  BY Numbers DEF IInv, Tasks, ScalingAssumption
<1>2. target' \in Nat  BY TargetIsNat
<1>3. ASSUME spc = "scale", target' > target
      PROVE  target' <= scale_cnt
             /\ target' - target <= IF instances_launched = 0 THEN instance_threshold
                                                             ELSE scale_batch
  <2>1. target' # target  BY <1>1, <1>2, <1>3, Equals
  <2>2. ScaleAtOnce \/ FirstBatch \/ NextBatch \/ LastBatch
    BY <1>3, <2>1, OnlyRequestsScale
  <2>3. /\ target' <= scale_cnt
        /\ instances_launched = 0 => target' <= target + instance_threshold
        /\ instances_launched # 0 => target' <= target + scale_batch
    BY <1>3, <2>1, <2>2, ScalesUpInBatches
  <2>4. CASE instances_launched = 0
    <3>1. target' - target <= instance_threshold  BY <1>1, <1>2, <2>3, <2>4, Difference
    <3>. QED BY <2>3, <2>4, <3>1
  <2>5. CASE instances_launched # 0
    <3>1. target' - target <= scale_batch  BY <1>1, <1>2, <2>3, <2>5, Difference
    <3>. QED BY <2>3, <2>5, <3>1
  <2>. QED BY <2>4, <2>5
<1>4. ASSUME ~mock, spc = "delete", deployments = "none"
      PROVE  Tasks - target' <= delete_batch + deaths
  <2>1. Tasks <= target' + (delete_batch + deaths)
    <3>1. CASE target' = target
      <4>1. Tasks <= target + delete_batch + deaths  BY <1>4 DEF IInv, Deleting, At
      <4>2. target + delete_batch + deaths = target + (delete_batch + deaths)  BY <1>1
      <4>. QED BY <3>1, <4>1, <4>2
    <3>2. CASE target' # target
      <4>1. DeleteBatch \/ DeleteLast  BY <1>4, <3>2, OnlyRequestsScale
      <4>. QED BY <1>4, <3>2, <4>1, DeletesInBatches
    <3>. QED BY <3>1, <3>2
  <2>2. delete_batch + deaths \in Nat  BY <1>1
  <2>. QED BY <1>1, <1>2, <2>1, <2>2, Difference
<1>. QED BY <1>3, <1>4

\* For any numbers, thresholds and batches, one request adds no more than a batch, and
\* takes away no more but for the tasks that replace lost ones (InSmallSteps).
THEOREM InSmallStepsAlways == ASSUME ScalingAssumption PROVE Spec => InSmallSteps
<1>1. Spec => []IInv  BY Invariant
<1>2. IInv /\ IInv' /\ [Next]_vars =>
        [/\ spc = "scale" /\ target' > target =>
              target' <= scale_cnt
              /\ target' - target <= IF instances_launched = 0 THEN instance_threshold
                                                              ELSE scale_batch
         /\ ~mock /\ spc = "delete" /\ target' < Tasks /\ deployments = "none" =>
              Tasks - target' <= delete_batch + deaths]_vars
  BY StepIsSmall
<1>. QED BY <1>1, <1>2, PTL DEF Spec, InSmallSteps
-----------------------------------------------------------------------------
(* What a deployment that loses nothing comes to.                          *)

\* What wait_app_ready waits for is what Marathon has been asked for last, whatever has
\* been lost and timed out before; a wait for another number would never end.
WaitsForTarget == Waiting /\ ~mock => wanted = target

THEOREM WaitsForTargetAlways == ASSUME ScalingAssumption PROVE Spec => []WaitsForTarget
<1>1. IInv => WaitsForTarget  BY DEF IInv, Asked, WaitsForTarget
<1>. QED BY <1>1, Invariant, PTL

\* As long as no task has died and no call timed out, the calls of HydraBase leave nothing
\* under way: when one has returned, all tasks that should be there are running, and none
\* is launched or killed any more.
QuietBetween == spc = "idle" /\ ~mock /\ deaths = 0 /\ timeouts = 0 =>
                  running = target /\ staged = 0

THEOREM QuietBetweenAlways == ASSUME ScalingAssumption PROVE Spec => []QuietBetween
<1>1. IInv => QuietBetween  BY DEF IInv, NoLoss, Whole, Expected, Settled, QuietBetween
<1>. QED BY <1>1, Invariant, PTL
=============================================================================
