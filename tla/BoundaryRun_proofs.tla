------------------------ MODULE BoundaryRun_proofs ------------------------
(***************************************************************************)
(* Proofs about module BoundaryRun, for all starts, precisions, drops,     *)
(* thresholds and caps, and any bounds.  The lemmas are about one answer   *)
(* given to a search, whatever has made it; the theorems about the suite.  *)
(***************************************************************************)
EXTENDS BoundaryRun, TLAPS

USE DEF Abs, Higher

\* The best result is one with a drop of 0 as soon as there is one: the part of the
\* invariant that BestIsHighestPassed rests on before and after the first rate passes.
BestSoFar ==
  kind = "search" /\ expected = 0 =>
    IF best_res = 0 THEN best_rate = passed ELSE passed = 0

\* Only the last of five tries is counted up to 5.
FewTries == spc # "gaveup" => tries <= 4

\* Where the driver of RabbitMQ is not broken for good, every try there has been for this
\* value is an exception from outside.
FaultsCounted ==
  \/ Broken
  \/ /\ spc \in {"init", "pub", "sub", "rerun"} => faults = tries
     /\ spc = "except" => faults = tries + 1
     /\ spc = "gaveup" => faults = 5

SInv == SearchTypeOK /\ AsksPositive /\ BestSoFar
IInv == SInv /\ TypeOK /\ LaunchesMatchApps /\ FewTries /\ FaultsCounted

-----------------------------------------------------------------------------
(* One answer.                                                             *)

\* A run that search has no use for changes nothing but where it is at.
LEMMA SearchFails ==
  ASSUME ScannerAssumption, SInv, NEW a \in Answers, Search(a), ~a.status
  PROVE  SInv' /\ spc' \in {"ask", "done"}
<1>1. /\ spc' = "done" /\ search' = search /\ scale' = scale /\ world' = world
      /\ kind' = kind /\ expected' = expected /\ maximum' = maximum /\ steady' = steady
  BY DEF Search, search, world, maximum
<1>. QED BY <1>1 DEF SInv, SearchTypeOK, AsksPositive, BestSoFar, search, world, maximum

\* What becomes of the best result, in units not yet halved.
LEMMA BestKept ==
  ASSUME ScannerAssumption, SInv, NEW a \in Answers, kind = "search", expected = 0,
         NEW res, res = IF Better(a) THEN a.drop ELSE best_res
  PROVE  IF res = 0 THEN BestRate(a) = Passed(a) ELSE Passed(a) = 0
<1>0. /\ a.drop \in 0..MaxDrop /\ a.rate \in Nat /\ a.sent \in Nat /\ MaxDrop \in Nat
      /\ a.drop = 0 => a.rate = a.sent
      /\ best_res \in -1..MaxDrop /\ best_rate \in Nat /\ passed \in Nat
  BY DEF SInv, SearchTypeOK, Answers, ScannerAssumption
<1>1. CASE best_res = 0 /\ a.drop = 0
  <2>1. best_rate = passed  BY <1>1 DEF SInv, BestSoFar
  <2>2. Better(a) <=> a.rate > best_rate  BY <1>0, <1>1 DEF Better
  <2>. QED BY <1>0, <1>1, <2>1, <2>2 DEF BestRate, Passed
<1>2. CASE best_res = 0 /\ a.drop # 0
  <2>1. best_rate = passed  BY <1>2 DEF SInv, BestSoFar
  <2>2. ~Better(a)  BY <1>0, <1>2 DEF Better
  <2>. QED BY <1>0, <1>2, <2>1, <2>2 DEF BestRate, Passed
<1>3. CASE best_res # 0 /\ a.drop = 0
  <2>1. passed = 0  BY <1>3 DEF SInv, BestSoFar
  <2>2. Better(a)  BY <1>0, <1>3 DEF Better
  <2>. QED BY <1>0, <1>3, <2>1, <2>2 DEF BestRate, Passed
<1>4. CASE best_res # 0 /\ a.drop # 0
  <2>1. passed = 0  BY <1>4 DEF SInv, BestSoFar
  <2>2. res # 0 /\ Passed(a) = 0  BY <1>0, <1>4, <2>1 DEF Passed
  <2>. QED BY <2>2
<1>. QED BY <1>1, <1>2, <1>3, <1>4

\* The results a search keeps are natural numbers.
LEMMA Kept ==
  ASSUME ScannerAssumption, SInv, NEW a \in Answers
  PROVE  /\ BestRate(a) \in Nat /\ Passed(a) \in Nat
         /\ (IF Better(a) THEN a.drop ELSE best_res) \in -1..MaxDrop
  BY DEF SInv, SearchTypeOK, Answers, ScannerAssumption, BestRate, Passed

LEMMA SearchGoesOn ==
  ASSUME ScannerAssumption, SInv, NEW a \in Answers, Search(a), a.status
  PROVE  SInv' /\ spc' \in {"ask", "done"}
<1> DEFINE res == IF Better(a) THEN a.drop ELSE best_res
<1>0. /\ kind = "search" /\ kind' = kind /\ expected' = expected /\ steady' = steady
      /\ max_rate' = max_rate /\ last_rate' = last_rate
      /\ best_res' = res /\ toggled' = (toggled \/ a.drop > expected)
  BY DEF Search, maximum
<1>1. /\ BestRate(a) \in Nat /\ Passed(a) \in Nat /\ res \in -1..MaxDrop
  BY Kept
<1>2. expected = 0 => IF res = 0 THEN BestRate(a) = Passed(a) ELSE Passed(a) = 0
  <2>1. ASSUME expected = 0
        PROVE  IF res = 0 THEN BestRate(a) = Passed(a) ELSE Passed(a) = 0
    BY BestKept, <1>0, <2>1
  <2>. QED BY <2>1
<1>3. /\ value \in Nat /\ step \in Nat /\ value >= step /\ step > 0
      /\ scale \in 1..MaxScale /\ threshold \in Nat /\ cap \in Nat \ {0} /\ MaxScale \in Nat
      /\ max_rate \in Nat /\ last_rate \in Nat /\ expected \in 0..MaxDrop - 1
      /\ steady \in BOOLEAN /\ toggled \in BOOLEAN
  BY DEF SInv, SearchTypeOK, AsksPositive, ScannerAssumption
<1>4. toggled' \in BOOLEAN  BY <1>0
<1>5. CASE Found
  <2>1. /\ spc' = "done" /\ best_rate' = BestRate(a) /\ passed' = Passed(a)
        /\ value' = value /\ step' = step /\ scale' = scale
        /\ threshold' = threshold /\ cap' = cap
    BY <1>5 DEF Search, world
  <2>2. SearchTypeOK'  BY <1>0, <1>1, <1>3, <1>4, <2>1 DEF SearchTypeOK
  <2>3. AsksPositive'  BY <1>3, <2>1 DEF AsksPositive
  <2>4. BestSoFar'  BY <1>0, <1>2, <2>1 DEF BestSoFar
  <2>. QED BY <2>1, <2>2, <2>3, <2>4 DEF SInv
<1>6. CASE ~Found /\ Double(a)
  <2>1. /\ spc' = "ask" /\ best_rate' = BestRate(a) /\ passed' = Passed(a)
        /\ value' = 2 * value /\ step' = value /\ scale' = scale
        /\ threshold' = threshold /\ cap' = cap
    BY <1>6 DEF Search, Double, world
  <2>2. SearchTypeOK'  BY <1>0, <1>1, <1>3, <1>4, <2>1 DEF SearchTypeOK
  <2>3. AsksPositive'  BY <1>3, <2>1 DEF AsksPositive
  <2>4. BestSoFar'  BY <1>0, <1>2, <2>1 DEF BestSoFar
  <2>. QED BY <2>1, <2>2, <2>3, <2>4 DEF SInv
<1>7. CASE ~Found /\ Narrow(a)
  <2>1. /\ spc' = "ask" /\ best_rate' = 2 * BestRate(a) /\ passed' = 2 * Passed(a)
        /\ value' \in {2 * value + step, 2 * value - step} /\ step' = step
        /\ scale' = 2 * scale /\ 2 * scale <= MaxScale
        /\ threshold' = 2 * threshold /\ cap' = 2 * cap
    BY <1>7 DEF Search, Narrow
  <2>2. /\ value' \in Nat /\ value' >= step  BY <1>3, <2>1
  <2>3. /\ best_rate' \in Nat /\ passed' \in Nat /\ scale' \in 1..MaxScale
        /\ threshold' \in Nat /\ cap' \in Nat \ {0}
    BY <1>1, <1>3, <2>1
  <2>4. SearchTypeOK'  BY <1>0, <1>1, <1>3, <1>4, <2>1, <2>2, <2>3 DEF SearchTypeOK
  <2>5. AsksPositive'  BY <1>3, <2>1, <2>2 DEF AsksPositive
  <2>6. BestSoFar'  BY <1>0, <1>1, <1>2, <2>1 DEF BestSoFar
  <2>. QED BY <2>1, <2>4, <2>5, <2>6 DEF SInv
<1>. QED BY <1>5, <1>6, <1>7 DEF Search

LEMMA FindMaxGoesOn ==
  ASSUME ScannerAssumption, SInv, NEW a \in Answers, FindMax(a)
  PROVE  SInv' /\ spc' \in {"ask", "done"}
<1>0. /\ kind' = kind /\ expected' = expected /\ step' = step /\ toggled' = toggled
      /\ best_res' = best_res /\ best_rate' = best_rate /\ passed' = passed
      /\ scale' = scale /\ threshold' = threshold /\ cap' = cap /\ steady' = steady
      /\ kind = "max"
      /\ max_rate' = Higher(max_rate, a.rate)
  BY DEF FindMax, world
<1>1. /\ spc' \in {"ask", "done"} /\ value' \in {value, 2 * value}
      /\ last_rate' \in {last_rate, a.rate}
  BY DEF FindMax
<1>2. a.rate \in Nat /\ value \in Nat /\ step \in Nat /\ value >= step /\ step > 0
      /\ max_rate \in Nat /\ last_rate \in Nat
  BY DEF SInv, SearchTypeOK, AsksPositive, Answers
<1>3. /\ value' \in Nat /\ value' >= step /\ max_rate' \in Nat /\ last_rate' \in Nat
  BY <1>0, <1>1, <1>2
<1>4. SearchTypeOK'  BY <1>0, <1>3 DEF SInv, SearchTypeOK
<1>5. AsksPositive'  BY <1>0, <1>2, <1>3 DEF AsksPositive
<1>6. BestSoFar'  BY <1>0 DEF BestSoFar
<1>. QED BY <1>1, <1>4, <1>5, <1>6 DEF SInv

\* Whatever a run has answered, its search goes on from there in order.
LEMMA HeedGoesOn ==
  ASSUME ScannerAssumption, SInv, NEW a \in Answers, Heed(a)
  PROVE  SInv' /\ spc' \in {"ask", "done"}
  BY SearchFails, SearchGoesOn, FindMaxGoesOn DEF Heed

-----------------------------------------------------------------------------
(* What answers.                                                           *)

LEMMA LessFactor ==
  ASSUME NEW k \in Nat, NEW m \in Nat, NEW n \in Nat, m <= n
  PROVE  k * m <= k * n /\ m * k <= n * k /\ k * m \in Nat /\ m * k \in Nat
<1>1. PICK d \in Nat : n = m + d  BY n - m \in Nat
<1>2. k * n = k * m + k * d /\ k * d \in Nat /\ k * m \in Nat  BY <1>1
<1>3. m * k = k * m /\ n * k = k * n  OBVIOUS
<1>. QED BY <1>2, <1>3

LEMMA LessQuotient ==
  ASSUME NEW k \in Nat, k >= 1, NEW m \in Nat, NEW n \in Nat, m <= n
  PROVE  m \div k \in Nat /\ n \div k \in Nat /\ m \div k <= n \div k
<1>1. PICK p \in Nat : p = m \div k  OBVIOUS
<1>2. PICK q \in Nat : q = n \div k  OBVIOUS
<1>3. k * p <= m /\ m < k * p + k /\ k * q <= n /\ n < k * q + k  BY <1>1, <1>2
<1>4. ASSUME q < p  PROVE FALSE
  <2>1. PICK d \in Nat : p = q + 1 + d  BY <1>4, p - q - 1 \in Nat
  <2>2. k * p = k * q + k + k * d /\ k * d \in Nat  BY <2>1
  <2>. QED BY <1>3, <2>2
<1>. QED BY <1>1, <1>2, <1>4

\* The answer of a run that is made now.
LEMMA AnswerType ==
  ASSUME ScannerAssumption, TypeOK, NEW a \in Honest
  PROVE  /\ a \in Answers /\ a.sent = Rate
         /\ a.status <=> 10 * Rate >= 7 * value
         /\ a.drop \in Possible
<1>1. value \in Nat /\ cap \in Nat /\ MaxDrop \in Nat
  BY DEF TypeOK, SearchTypeOK, ScannerAssumption
<1>2. Rate \in Nat  BY <1>1 DEF Rate
<1>3. PICK d \in Possible : \E r \in Received(d) : a = Answer(d, r)  BY DEF Honest
<1>4. PICK r \in Received(d) : a = Answer(d, r)  BY <1>3
<1>5. d \in 0..MaxDrop  BY DEF Possible
<1>6. r \in Nat /\ r <= Rate /\ (d = 0 => r = Rate)
  <2>1. CASE d = 0  BY <1>2, <2>1 DEF Received
  <2>2. CASE d # 0
    <3>1. PICK share \in Shares : r = (Rate * share) \div 100  BY <2>2 DEF Received
    <3>2. share \in Nat /\ share <= 100  BY DEF ScannerAssumption
    <3>3. Rate * share \in Nat /\ Rate * share <= Rate * 100
      BY <1>2, <3>2, LessFactor
    <3>. QED BY <1>2, <2>2, <3>1, <3>3
  <2>. QED BY <2>1, <2>2
<1>7. /\ a.status = (10 * Rate >= 7 * value) /\ a.sent = Rate /\ a.rate = r /\ a.drop = d
      /\ a \in [status : BOOLEAN, sent : Nat, rate : Nat, drop : 0..MaxDrop]
  BY <1>2, <1>4, <1>5, <1>6 DEF Answer
<1>. QED BY <1>6, <1>7 DEF Answers

\* The answer of one that is in the cache, in the units of now.
LEMMA AgainType ==
  ASSUME ScannerAssumption, TypeOK, NEW r \in Cached
  PROVE  Again(r) \in Answers
<1>1. /\ r.answer \in Answers /\ r.scale \in 1..MaxScale /\ scale \in 1..MaxScale
      /\ MaxScale \in Nat
  BY DEF TypeOK, SearchTypeOK, Cached, Runs, ScannerAssumption
<1>2. /\ r.answer.sent \in Nat /\ r.answer.rate \in Nat /\ r.answer.status \in BOOLEAN
      /\ r.answer.drop \in 0..MaxDrop /\ r.answer.rate <= r.answer.sent
      /\ r.answer.drop = 0 => r.answer.rate = r.answer.sent
      /\ r.answer = [status |-> r.answer.status, sent |-> r.answer.sent,
                     rate |-> r.answer.rate, drop |-> r.answer.drop]
      /\ scale \in Nat /\ r.scale \in Nat /\ r.scale >= 1
  BY <1>1 DEF Answers
<1>3. PICK n \in Nat, m \in Nat : n = r.answer.sent * scale /\ m = r.answer.rate * scale
  BY <1>2
<1>4. m <= n  BY <1>2, <1>3, LessFactor
<1>5. n \div r.scale \in Nat /\ m \div r.scale \in Nat /\ m \div r.scale <= n \div r.scale
  BY <1>2, <1>4, LessQuotient
<1>6. Again(r) = [status |-> r.answer.status, sent |-> n \div r.scale,
                  rate |-> m \div r.scale, drop |-> r.answer.drop]
  BY <1>3 DEF Again
<1>7. r.answer.drop = 0 => m = n  BY <1>2, <1>3
<1>. QED BY <1>2, <1>5, <1>6, <1>7 DEF Answers

LEMMA InitIsFine ==
  ASSUME ScannerAssumption, BoundaryAssumption, Init
  PROVE  IInv
<1>1. /\ spc = "ask" /\ kind \in {"search", "max"} /\ expected \in 0..MaxDrop - 1
      /\ value = Start /\ step = Start /\ toggled = FALSE
      /\ best_res = -1 /\ best_rate = 0 /\ passed = 0
      /\ max_rate = 0 /\ last_rate = 0 /\ scale = 1 /\ steady \in BOOLEAN
      /\ threshold \in Nat /\ cap \in Nat \ {0}
      /\ Start \in Nat \ {0} /\ MaxDrop \in Nat \ {0} /\ MaxScale \in Nat \ {0}
  BY DEF Init, SearchInit, ScannerAssumption
<1>2. best_res \in -1..MaxDrop /\ scale \in 1..MaxScale
  <2>1. best_res \in -1..MaxDrop  BY <1>1
  <2>2. scale \in 1..MaxScale  BY <1>1
  <2>. QED BY <2>1, <2>2
<1>3. value \in Nat /\ step \in Nat /\ best_rate \in Nat /\ passed \in Nat
      /\ max_rate \in Nat /\ last_rate \in Nat /\ toggled \in BOOLEAN
  BY <1>1
<1>4. SearchTypeOK  BY <1>1, <1>2, <1>3 DEF SearchTypeOK
<1>5. AsksPositive /\ BestSoFar  BY <1>1 DEF AsksPositive, BestSoFar
<1>6. /\ rabbit \in BOOLEAN /\ searches = 1 /\ first_run = TRUE /\ tries = 0 /\ cache = {}
      /\ apps = {} /\ subs \in Nat /\ groups = FALSE /\ faults = 0
      /\ MaxSearches \in Nat \ {0} /\ MaxFaults \in Nat
  BY DEF Init, BoundaryAssumption
<1>7. searches \in 1..MaxSearches /\ tries \in 0..5 /\ faults \in 0..MaxFaults
  BY <1>6
<1>8. TypeOK  BY <1>1, <1>4, <1>6, <1>7 DEF TypeOK
<1>9. LaunchesMatchApps /\ FewTries /\ FaultsCounted
  BY <1>1, <1>6 DEF LaunchesMatchApps, FewTries, FaultsCounted
<1>. QED BY <1>4, <1>5, <1>8, <1>9 DEF IInv, SInv

-----------------------------------------------------------------------------
(* One step of the suite.                                                  *)

\* A step that leaves the search alone keeps what is known of it.
LEMMA SearchKept ==
  ASSUME SInv, UNCHANGED <<kind, expected, search, maximum, scale, world, steady>>
  PROVE  SInv'
  BY DEF SInv, SearchTypeOK, AsksPositive, BestSoFar, search, maximum, world

LEMMA RecallKeeps ==
  ASSUME ScannerAssumption, BoundaryAssumption, IInv, Recall
  PROVE  IInv'
<1>1. PICK r \in Cached : Heed(Again(r))  BY DEF Recall
<1>2. Again(r) \in Answers  BY AgainType DEF IInv
<1>3. SInv' /\ spc' \in {"ask", "done"}
  <2>1. SInv  BY DEF IInv
  <2>. QED BY <1>1, <1>2, <2>1, HeedGoesOn
<1>4. /\ spc = "ask" /\ rabbit' = rabbit /\ searches' = searches /\ first_run' = first_run
      /\ tries' = tries /\ cache' = cache /\ apps' = apps /\ subs' = subs
      /\ groups' = groups /\ faults' = faults
  BY DEF Recall, boundary, launched
<1>5. TypeOK'  BY <1>3, <1>4 DEF IInv, SInv, TypeOK
<1>6. LaunchesMatchApps' /\ FewTries' /\ FaultsCounted'
  BY <1>3, <1>4 DEF IInv, LaunchesMatchApps, FewTries, FaultsCounted
<1>. QED BY <1>3, <1>5, <1>6 DEF IInv

LEMMA TryKeeps ==
  ASSUME ScannerAssumption, BoundaryAssumption, IInv, Try
  PROVE  IInv'
<1>1. SInv'  BY SearchKept DEF IInv, Try
<1>2. /\ spc = "ask" /\ spc' = IF first_run THEN "init" ELSE "rerun"
      /\ rabbit' = rabbit /\ searches' = searches /\ first_run' = first_run
      /\ tries' = 0 /\ faults' = 0 /\ cache' = cache /\ apps' = apps /\ subs' = subs
      /\ groups' = groups
  BY DEF Try, launched
<1>3. TypeOK'  BY <1>1, <1>2 DEF IInv, SInv, TypeOK, BoundaryAssumption
<1>4. LaunchesMatchApps' /\ FewTries' /\ FaultsCounted'
  BY <1>2 DEF IInv, LaunchesMatchApps, FewTries, FaultsCounted
<1>. QED BY <1>1, <1>3, <1>4 DEF IInv

LEMMA StartInitKeeps ==
  ASSUME ScannerAssumption, BoundaryAssumption, IInv, StartInit
  PROVE  IInv'
<1>1. SInv'  BY SearchKept DEF IInv, StartInit, Asking
<1>2. /\ spc = "init" /\ spc' = "pub" /\ apps' = {}
      /\ rabbit' = rabbit /\ searches' = searches /\ first_run' = first_run
      /\ tries' = tries /\ faults' = faults /\ cache' = cache /\ groups' = groups
      /\ subs' = subs
  BY DEF StartInit, Asking, boundary
<1>3. TypeOK'  BY <1>1, <1>2 DEF IInv, SInv, TypeOK
<1>4. LaunchesMatchApps' /\ FewTries'
  BY <1>2 DEF IInv, LaunchesMatchApps, FewTries
<1>5. FaultsCounted'  BY <1>2 DEF IInv, FaultsCounted, Broken
<1>. QED BY <1>1, <1>3, <1>4, <1>5 DEF IInv

\* Dividing what is not there leaves nothing.
LEMMA DividedIsFine ==
  ASSUME BoundaryAssumption, TypeOK
  PROVE  Divided \in Nat /\ (subs = 0 => Divided = 0)
<1>1. subs \in Nat /\ PerGroup \in Nat /\ PerGroup > 0
  BY DEF TypeOK, BoundaryAssumption
<1>2. subs \div PerGroup \in Nat  BY <1>1
<1>3. subs = 0 => subs \div PerGroup = 0  BY <1>1
<1>. QED BY <1>1, <1>2, <1>3 DEF Divided

LEMMA LaunchPubKeeps ==
  ASSUME ScannerAssumption, BoundaryAssumption, IInv, Launch("pub", "sub")
  PROVE  IInv'
<1>1. SInv'  BY SearchKept DEF IInv, Launch, Asking
<1>2. /\ spc = "pub" /\ apps = {}  BY DEF Launch, IInv, LaunchesMatchApps
<1>3. /\ spc' = "sub" /\ apps' = {"pub"}
      /\ rabbit' = rabbit /\ searches' = searches /\ first_run' = first_run
      /\ tries' = tries /\ faults' = faults /\ cache' = cache /\ groups' = groups
      /\ subs' = subs
  BY <1>2 DEF Launch, Asking, boundary
<1>4. TypeOK'  BY <1>1, <1>3 DEF IInv, SInv, TypeOK
<1>5. LaunchesMatchApps' /\ FewTries'
  BY <1>2, <1>3 DEF IInv, LaunchesMatchApps, FewTries
<1>6. FaultsCounted'  BY <1>2, <1>3 DEF IInv, FaultsCounted, Broken
<1>. QED BY <1>1, <1>4, <1>5, <1>6 DEF IInv

LEMMA LaunchSubKeeps ==
  ASSUME ScannerAssumption, BoundaryAssumption, IInv, Launch("sub", "rerun")
  PROVE  IInv'
<1>1. SInv'  BY SearchKept DEF IInv, Launch, Asking
<1>2. /\ spc = "sub" /\ apps = {"pub"}  BY DEF Launch, IInv, LaunchesMatchApps
<1>3. /\ spc' = "rerun" /\ apps' = {"pub", "sub"}
      /\ rabbit' = rabbit /\ searches' = searches /\ first_run' = first_run
      /\ tries' = tries /\ faults' = faults /\ cache' = cache /\ groups' = groups
      /\ subs' = Divided
  BY <1>2 DEF Launch, Asking, boundary
<1>4. TypeOK'  BY <1>1, <1>3, DividedIsFine DEF IInv, SInv, TypeOK
<1>5. LaunchesMatchApps' /\ FewTries'
  BY <1>2, <1>3 DEF IInv, LaunchesMatchApps, FewTries
<1>6. FaultsCounted'  BY <1>2, <1>3, DividedIsFine DEF IInv, FaultsCounted, Broken
<1>. QED BY <1>1, <1>4, <1>5, <1>6 DEF IInv

LEMMA RerunKeeps ==
  ASSUME ScannerAssumption, BoundaryAssumption, IInv, Rerun
  PROVE  IInv'
<1>1. /\ spc = "rerun" /\ apps = {"pub", "sub"} /\ tries \in 0..4
      /\ tries' = tries /\ apps' = apps /\ subs' = subs /\ faults' = faults
  BY DEF Rerun, IInv, LaunchesMatchApps, FewTries, TypeOK
<1>2. CASE Broken \/ TooFew
  <2>1. SInv'  BY <1>2, SearchKept DEF IInv, Rerun, Asking
  <2>2. /\ spc' \in {"except", "picking"} /\ (~Broken => spc' = "picking")
        /\ cache' = {} /\ rabbit' = rabbit /\ searches' = searches
        /\ first_run' = first_run /\ groups' = rabbit
    BY <1>2 DEF Rerun, Asking
  <2>3. TypeOK'  BY <1>1, <2>1, <2>2 DEF IInv, SInv, TypeOK
  <2>4. LaunchesMatchApps' /\ FewTries'  BY <1>1, <2>2 DEF LaunchesMatchApps, FewTries
  <2>5. FaultsCounted'  BY <1>1, <2>2 DEF FaultsCounted, Broken
  <2>. QED BY <2>1, <2>3, <2>4, <2>5 DEF IInv
<1>3. CASE ~(Broken \/ TooFew)
  <2>1. PICK a \in Honest : /\ cache' = {ThisRun(a)} /\ Heed(a)
                            /\ groups' = rabbit /\ first_run' = FALSE
                            /\ rabbit' = rabbit /\ searches' = searches
    BY <1>3 DEF Rerun
  <2>2. a \in Answers  BY AnswerType DEF IInv
  <2>3. SInv' /\ spc' \in {"ask", "done"}
    <3>1. SInv  BY DEF IInv
    <3>. QED BY <2>1, <2>2, <3>1, HeedGoesOn
  <2>4. ThisRun(a) \in Runs
    BY <2>2 DEF ThisRun, Runs, IInv, TypeOK, SearchTypeOK
  <2>5. TypeOK'  BY <1>1, <2>1, <2>3, <2>4 DEF IInv, SInv, TypeOK
  <2>6. LaunchesMatchApps' /\ FewTries'
    BY <1>1, <2>1, <2>3 DEF LaunchesMatchApps, FewTries
  <2>7. FaultsCounted'  BY <2>3 DEF FaultsCounted
  <2>. QED BY <2>3, <2>5, <2>6, <2>7 DEF IInv
<1>. QED BY <1>2, <1>3

LEMMA FaultKeeps ==
  ASSUME ScannerAssumption, BoundaryAssumption, IInv, Fault
  PROVE  IInv'
<1>1. SInv'  BY SearchKept DEF IInv, Fault, Asking
<1>2. /\ spc \in {"init", "pub", "sub", "rerun"} /\ spc' = "except"
      /\ faults' = faults + 1 /\ faults < MaxFaults
      /\ cache' \in {{}, cache} /\ rabbit' = rabbit /\ searches' = searches
      /\ first_run' = first_run /\ tries' = tries
      /\ subs' \in {subs, Divided} /\ groups' \in {groups, rabbit}
  BY DEF Fault, Asking
<1>3. apps' \subseteq {"pub", "sub"}
  <2>1. apps \subseteq {"pub", "sub"}  BY DEF IInv, TypeOK
  <2>2. CASE spc = "init"  BY <2>1, <2>2 DEF Fault, Remains
  <2>3. CASE spc = "rerun"  BY <2>1, <2>3 DEF Fault
  <2>4. CASE spc \in {"pub", "sub"}
    <3>1. apps' \in {apps, apps \cup {spc}}  BY <2>4 DEF Fault
    <3>. QED BY <2>1, <2>4, <3>1
  <2>. QED BY <1>2, <2>2, <2>3, <2>4
<1>4. /\ cache' \subseteq Runs /\ groups' \in BOOLEAN /\ tries \in 0..5 /\ subs' \in Nat
  BY <1>2, DividedIsFine DEF IInv, TypeOK
<1>5. faults' \in 0..MaxFaults  BY <1>2 DEF IInv, TypeOK, BoundaryAssumption
<1>6. TypeOK'  BY <1>1, <1>2, <1>3, <1>4, <1>5 DEF IInv, SInv, TypeOK
<1>7. LaunchesMatchApps'  BY <1>2 DEF LaunchesMatchApps
<1>8. FewTries'  BY <1>2 DEF IInv, FewTries
<1>9. FaultsCounted'
  <2>1. Broken => Broken'  BY <1>2, DividedIsFine DEF IInv, Broken
  <2>2. ~Broken => faults = tries  BY <1>2 DEF IInv, FaultsCounted
  <2>. QED BY <1>2, <2>1, <2>2 DEF FaultsCounted
<1>. QED BY <1>1, <1>6, <1>7, <1>8, <1>9 DEF IInv

LEMMA ExceptKeeps ==
  ASSUME ScannerAssumption, BoundaryAssumption, IInv, Except
  PROVE  IInv'
<1>1. SInv'  BY SearchKept DEF IInv, Except, Asking
<1>2. /\ spc = "except" /\ apps' = {} /\ first_run' = TRUE /\ tries' = tries + 1
      /\ spc' = IF tries + 1 > 4 THEN "gaveup" ELSE "init"
      /\ cache' = cache /\ groups' = groups /\ faults' = faults /\ subs' = subs
      /\ rabbit' = rabbit /\ searches' = searches
  BY DEF Except, Asking
<1>3. tries \in 0..4  BY <1>2 DEF IInv, TypeOK, FewTries
<1>4. TypeOK'  BY <1>1, <1>2, <1>3 DEF IInv, SInv, TypeOK
<1>5. LaunchesMatchApps'  BY <1>2 DEF LaunchesMatchApps
<1>6. FewTries'  BY <1>2, <1>3 DEF FewTries
<1>7. FaultsCounted'
  <2>1. Broken => Broken'  BY <1>2 DEF Broken
  <2>2. ~Broken => faults = tries + 1  BY <1>2 DEF IInv, FaultsCounted
  <2>. QED BY <1>2, <1>3, <2>1, <2>2 DEF FaultsCounted
<1>. QED BY <1>1, <1>4, <1>5, <1>6, <1>7 DEF IInv

LEMMA DeleteFaultKeeps ==
  ASSUME ScannerAssumption, BoundaryAssumption, IInv, DeleteFault
  PROVE  IInv'
<1>1. SInv'  BY SearchKept DEF IInv, DeleteFault, Asking
<1>2. /\ spc = "except" /\ spc' = "raised" /\ faults' = faults + 1 /\ faults < MaxFaults
      /\ apps' \subseteq apps /\ first_run' = first_run /\ tries' = tries /\ subs' = subs
      /\ cache' = cache /\ groups' = groups /\ rabbit' = rabbit /\ searches' = searches
  BY DEF DeleteFault, Asking, boundary, Remains
<1>3. faults' \in 0..MaxFaults  BY <1>2 DEF IInv, TypeOK, BoundaryAssumption
<1>4. TypeOK'  BY <1>1, <1>2, <1>3 DEF IInv, SInv, TypeOK
<1>5. LaunchesMatchApps'  BY <1>2 DEF LaunchesMatchApps
<1>6. FewTries'  BY <1>2 DEF IInv, FewTries
<1>7. FaultsCounted'  BY <1>2 DEF FaultsCounted
<1>. QED BY <1>1, <1>4, <1>5, <1>6, <1>7 DEF IInv

LEMMA NextSearchKeeps ==
  ASSUME ScannerAssumption, BoundaryAssumption, IInv, NextSearch
  PROVE  IInv'
<1>1. /\ spc' = "ask" /\ kind' \in {"search", "max"} /\ expected' \in 0..MaxDrop - 1
      /\ value' = Start /\ step' = Start /\ toggled' = FALSE
      /\ best_res' = -1 /\ best_rate' = 0 /\ passed' = 0
      /\ max_rate' = 0 /\ last_rate' = 0 /\ scale' = 1 /\ steady' \in BOOLEAN
      /\ threshold' \in Nat /\ cap' \in Nat \ {0}
      /\ Start \in Nat \ {0} /\ MaxDrop \in Nat \ {0} /\ MaxScale \in Nat \ {0}
  BY DEF NextSearch, SearchAnew, ScannerAssumption
<1>2. best_res' \in -1..MaxDrop /\ scale' \in 1..MaxScale
  <2>1. best_res' \in -1..MaxDrop  BY <1>1
  <2>2. scale' \in 1..MaxScale  BY <1>1
  <2>. QED BY <2>1, <2>2
<1>3. value' \in Nat /\ step' \in Nat /\ best_rate' \in Nat /\ passed' \in Nat
      /\ max_rate' \in Nat /\ last_rate' \in Nat /\ toggled' \in BOOLEAN
  BY <1>1
<1>4. SearchTypeOK'  BY <1>1, <1>2, <1>3 DEF SearchTypeOK
<1>5. AsksPositive' /\ BestSoFar'  BY <1>1 DEF AsksPositive, BestSoFar
<1>6. /\ spc = "done" /\ searches < MaxSearches /\ searches' = searches + 1
      /\ rabbit' = rabbit /\ first_run' = first_run /\ tries' = tries /\ cache' = cache
      /\ apps' = apps /\ subs' = subs /\ groups' = groups /\ faults' = faults
  BY DEF NextSearch, boundary, launched
<1>7. searches' \in 1..MaxSearches  BY <1>6 DEF IInv, TypeOK, BoundaryAssumption
<1>8. TypeOK'  BY <1>1, <1>4, <1>6, <1>7 DEF IInv, TypeOK
<1>9. LaunchesMatchApps' /\ FewTries' /\ FaultsCounted'
  BY <1>1, <1>6 DEF IInv, LaunchesMatchApps, FewTries, FaultsCounted
<1>. QED BY <1>4, <1>5, <1>8, <1>9 DEF IInv, SInv

LEMMA StutterKeeps ==
  ASSUME IInv, UNCHANGED vars
  PROVE  IInv'
<1>1. /\ UNCHANGED <<kind, expected, search, maximum, scale, world, steady>>
      /\ spc' = spc /\ rabbit' = rabbit /\ searches' = searches /\ first_run' = first_run
      /\ tries' = tries /\ cache' = cache /\ apps' = apps /\ subs' = subs
      /\ groups' = groups /\ faults' = faults
  BY DEF vars, svars, boundary, launched
<1>2. SInv'  BY <1>1, SearchKept DEF IInv
<1>3. TypeOK' /\ LaunchesMatchApps' /\ FewTries'
  BY <1>1, <1>2 DEF IInv, SInv, TypeOK, LaunchesMatchApps, FewTries
<1>4. FaultsCounted'  BY <1>1 DEF IInv, FaultsCounted, Broken
<1>. QED BY <1>2, <1>3, <1>4 DEF IInv

-----------------------------------------------------------------------------
(* The bracket of a search, and what its answers come from.                *)

\* Where every search begins; and, since a step is never larger than what it has been taken
\* away by, where no search ever comes back to.
First == /\ value = Start /\ step = Start /\ scale = 1
         /\ toggled = FALSE /\ last_rate = 0 /\ max_rate = 0
Far   == \/ value - Start * scale >= step
         \/ kind = "search" /\ toggled /\ Start * scale - value >= step
Away  == First \/ Far

\* The threshold is within a step of the value, from the first failure on; before it, only
\* the last value that has passed is known.
Upper ==
  kind = "search" =>
    IF toggled THEN steady => Abs(threshold - value) <= step
               ELSE value = step \/ (value = 2 * step /\ (steady => step <= threshold))

\* The highest rate that has passed is the lower end of the interval that is searched.
Lower ==
  kind = "search" /\ steady /\ threshold <= cap =>
    /\ value - step <= passed /\ passed <= threshold
    /\ spc = "done" /\ toggled => threshold - passed <= step

\* No value below one the publisher has reached is beyond it: from the first failure on
\* only the size of the step ends a search.
Reach   == kind = "search" /\ toggled /\ spc # "done" => 7 * (value + step) <= 10 * cap
Settled == kind = "search" /\ toggled /\ spc = "done" => Found

\* The threshold grows with the unit, and the step does not: the search cannot go on for ever.
Short ==
  kind = "search" /\ steady /\ threshold > 0 =>
    /\ scale <= threshold
    /\ toggled /\ spc # "done" => threshold <= 2 * (Precision * step + step)

BInv == Upper /\ Lower /\ Reach /\ Settled /\ Short

\* The answer of a run made at the value asked for.
OfNow(a) ==
  /\ a.sent = Rate
  /\ a.status <=> 10 * Rate >= 7 * value
  /\ steady => (a.drop <= expected <=> value <= threshold)

\* The Start of a search, in the units of a run.
AtStart(r) == r.value = Start * r.scale

\* One run at most is cached.  While a search asks, it is one of its own at another value,
\* or one of a search before: that one may be recalled only as long as the search is at its
\* start, and has failed if it can.
Fresh ==
  /\ \A q, r \in cache : q = r
  /\ \A r \in cache :
       /\ r.search <= searches
       /\ 1 <= r.answer.sent /\ r.answer.sent <= r.value
       /\ ~r.answer.status => 10 * r.answer.sent < 7 * r.value
       /\ AtStart(r) => r.scale = 1
       /\ spc = "ask" =>
            \/ r.search = searches /\ r.value * scale # value * r.scale
            \/ /\ r.search # searches
               /\ AtStart(r) => ~r.answer.status
               /\ First \/ AtStart(r)
       /\ spc = "done" /\ AtStart(r) => ~r.answer.status \/ (kind = "max" /\ max_rate = 0)

JInv == (spc # "done" => Away) /\ Fresh /\ BInv

-----------------------------------------------------------------------------
(* One answer, and the bracket.                                            *)

\* What is known of the variables of a search, in one place.
LEMMA SearchNumbers ==
  ASSUME ScannerAssumption, SInv
  PROVE  /\ value \in Nat /\ step \in Nat /\ value >= step /\ step > 0
         /\ scale \in Nat /\ scale >= 1 /\ threshold \in Nat /\ cap \in Nat /\ cap >= 1
         /\ passed \in Nat /\ last_rate \in Nat /\ expected \in Nat
         /\ steady \in BOOLEAN /\ toggled \in BOOLEAN
         /\ Start \in Nat /\ Start >= 1 /\ Precision \in Nat /\ Precision >= 1
         /\ Precision * step \in Nat /\ Precision * step >= step
<1>1. /\ value \in Nat /\ step \in Nat /\ value >= step /\ step > 0
      /\ scale \in 1..MaxScale /\ MaxScale \in Nat
      /\ threshold \in Nat /\ cap \in Nat \ {0}
      /\ passed \in Nat /\ last_rate \in Nat /\ expected \in 0..MaxDrop - 1 /\ MaxDrop \in Nat
      /\ steady \in BOOLEAN /\ toggled \in BOOLEAN
      /\ Start \in Nat \ {0} /\ Precision \in Nat \ {0}
  BY DEF SInv, SearchTypeOK, AsksPositive, ScannerAssumption
<1>2. scale \in Nat /\ scale >= 1 /\ expected \in Nat  BY <1>1
<1>3. Precision * step \in Nat /\ Precision * step >= step  BY <1>1
<1>. QED BY <1>1, <1>2, <1>3

\* From the first failure on the publisher reaches what it is asked for.
LEMMA ReachesAll ==
  ASSUME ScannerAssumption, SInv, Reach, spc # "done", kind = "search", toggled
  PROVE  10 * Rate >= 7 * value
<1>1. /\ value \in Nat /\ step \in Nat /\ cap \in Nat  BY SearchNumbers
<1>2. 7 * (value + step) <= 10 * cap  BY DEF Reach
<1>3. CASE value < cap  BY <1>1, <1>3 DEF Rate
<1>4. CASE ~(value < cap)  BY <1>1, <1>2, <1>4 DEF Rate
<1>. QED BY <1>3, <1>4

\* A run the publisher has not managed ends the search where it is.
LEMMA EndsAsItIs ==
  ASSUME ScannerAssumption, SInv, BInv, spc # "done",
         NEW a \in Answers, Search(a), ~a.status, ~toggled
  PROVE  BInv'
<1>1. /\ spc' = "done" /\ value' = value /\ step' = step /\ toggled' = toggled
      /\ passed' = passed /\ scale' = scale /\ threshold' = threshold /\ cap' = cap
      /\ kind' = kind /\ steady' = steady
  BY DEF Search, search, world
<1>2. Upper' /\ Lower' /\ Reach' /\ Settled' /\ Short'
  BY <1>1 DEF BInv, Upper, Lower, Reach, Settled, Short
<1>. QED BY <1>2 DEF BInv

\* What passes is the value itself, unless the publisher sends less.
LEMMA PassedIs ==
  ASSUME ScannerAssumption, SInv, NEW a \in Answers, OfNow(a)
  PROVE  /\ Passed(a) \in Nat /\ Passed(a) >= passed
         /\ a.drop > expected => Passed(a) = passed
         /\ steady /\ threshold <= cap /\ passed <= threshold =>
              Passed(a) <= threshold /\ (a.drop <= expected => Passed(a) >= value)
<1>1. /\ value \in Nat /\ cap \in Nat /\ threshold \in Nat /\ passed \in Nat
      /\ expected \in Nat
  BY SearchNumbers
<1>2. a.sent = Rate /\ a.drop \in Nat  BY DEF OfNow, Answers, ScannerAssumption
<1>3. Rate \in Nat /\ Rate <= value /\ (value <= cap => Rate = value)  BY <1>1 DEF Rate
<1>4. Passed(a) \in Nat /\ Passed(a) >= passed  BY <1>1, <1>2, <1>3 DEF Passed
<1>5. a.drop > expected => Passed(a) = passed  BY <1>1, <1>2 DEF Passed
<1>6. ASSUME steady, threshold <= cap, passed <= threshold
      PROVE  Passed(a) <= threshold /\ (a.drop <= expected => Passed(a) >= value)
  <2>1. CASE a.drop <= expected
    <3>1. value <= threshold  BY <1>6, <2>1 DEF OfNow
    <3>2. Rate = value  BY <1>1, <1>3, <1>6, <3>1
    <3>. QED BY <1>1, <1>2, <1>6, <2>1, <3>1, <3>2 DEF Passed
  <2>2. CASE ~(a.drop <= expected)  BY <1>6, <2>2 DEF Passed
  <2>. QED BY <2>1, <2>2
<1>. QED BY <1>4, <1>5, <1>6

LEMMA GoesOnInBracket ==
  ASSUME ScannerAssumption, SInv, BInv, spc # "done",
         NEW a \in Answers, OfNow(a), Search(a), a.status
  PROVE  BInv'
<1> DEFINE up == a.drop <= expected
           pass == Passed(a)
<1>0. /\ value \in Nat /\ step \in Nat /\ value >= step /\ step > 0
      /\ scale \in Nat /\ scale >= 1 /\ threshold \in Nat /\ cap \in Nat
      /\ passed \in Nat /\ steady \in BOOLEAN /\ toggled \in BOOLEAN
      /\ Precision * step \in Nat /\ Precision * step >= step
      /\ expected \in Nat /\ a.drop \in Nat
  BY SearchNumbers DEF Answers, ScannerAssumption
<1>1. /\ kind = "search" /\ kind' = kind /\ steady' = steady
      /\ toggled' = (toggled \/ ~up)
  BY <1>0 DEF Search
<1>2. steady => (up <=> value <= threshold)  BY DEF OfNow
<1>3. 7 * value <= 10 * cap
  <2>1. 10 * Rate >= 7 * value  BY DEF OfNow
  <2>. QED BY <1>0, <2>1 DEF Rate
<1>4. /\ pass \in Nat /\ pass >= passed
      /\ steady /\ threshold <= cap =>
           /\ value - step <= pass /\ pass <= threshold
           /\ up => pass >= value
  BY <1>0, <1>1, PassedIs DEF BInv, Lower
<1>5. /\ toggled => (steady => Abs(threshold - value) <= step)
      /\ ~toggled => value = step \/ (value = 2 * step /\ (steady => step <= threshold))
  BY <1>1 DEF BInv, Upper
\* Measured by the step that has led to the value, the threshold is as near as that.
<1>6. steady /\ (toggled \/ ~up) => threshold <= value + step /\ value <= threshold + step
  BY <1>0, <1>2, <1>5
<1>7. CASE Found
  <2>1. /\ spc' = "done" /\ passed' = pass
        /\ value' = value /\ step' = step /\ scale' = scale
        /\ threshold' = threshold /\ cap' = cap
    BY <1>7 DEF Search, world
  <2>2. Upper'  BY <1>0, <1>1, <1>5, <1>6, <2>1 DEF Upper
  <2>3. Lower'
    <3>1. steady /\ threshold <= cap /\ (toggled \/ ~up) => threshold - pass <= step
      <4>1. CASE up  BY <1>0, <1>4, <1>6, <4>1
      <4>2. CASE ~up  BY <1>0, <1>2, <1>4, <4>2
      <4>. QED BY <4>1, <4>2
    <3>. QED BY <1>1, <1>4, <2>1, <3>1 DEF Lower
  <2>4. Reach'  BY <2>1 DEF Reach
  <2>5. Settled'  BY <1>7, <2>1 DEF Settled, Found
  <2>6. Short'  BY <1>1, <2>1 DEF BInv, Short
  <2>. QED BY <2>2, <2>3, <2>4, <2>5, <2>6 DEF BInv
<1>8. CASE ~Found /\ Double(a)
  <2>1. /\ spc' = "ask" /\ passed' = pass /\ up /\ ~toggled /\ ~toggled'
        /\ value' = 2 * value /\ step' = value /\ scale' = scale
        /\ threshold' = threshold /\ cap' = cap
    BY <1>0, <1>1, <1>8 DEF Search, Double, world
  <2>2. Upper'  BY <1>1, <1>2, <2>1 DEF Upper
  <2>3. Lower'  BY <1>0, <1>1, <1>4, <2>1 DEF Lower
  <2>4. Reach' /\ Settled'  BY <2>1 DEF Reach, Settled
  <2>5. Short'  BY <1>1, <2>1 DEF BInv, Short
  <2>. QED BY <2>2, <2>3, <2>4, <2>5 DEF BInv
<1>9. CASE ~Found /\ Narrow(a)
  <2>1. /\ spc' = "ask" /\ passed' = 2 * pass /\ step' = step /\ (toggled \/ ~up)
        /\ value' = IF up THEN 2 * value + step ELSE 2 * value - step
        /\ scale' = 2 * scale /\ threshold' = 2 * threshold /\ cap' = 2 * cap
    BY <1>0, <1>9 DEF Search, Narrow
  <2>2. toggled'  BY <1>1, <2>1
  <2>3. Upper'
    <3>1. ASSUME steady  PROVE Abs(2 * threshold - value') <= step
      <4>1. CASE up  BY <1>0, <1>2, <1>6, <2>1, <3>1, <4>1
      <4>2. CASE ~up  BY <1>0, <1>2, <1>6, <2>1, <3>1, <4>2
      <4>. QED BY <4>1, <4>2
    <3>. QED BY <1>1, <2>1, <2>2, <3>1 DEF Upper
  <2>4. Lower'
    <3>1. ASSUME steady, threshold <= cap  PROVE value' - step <= 2 * pass
      <4>1. CASE up  BY <1>0, <1>4, <2>1, <3>1, <4>1
      <4>2. CASE ~up  BY <1>0, <1>4, <2>1, <3>1, <4>2
      <4>. QED BY <4>1, <4>2
    <3>2. 2 * threshold <= 2 * cap => threshold <= cap  BY <1>0
    <3>. QED BY <1>0, <1>1, <1>4, <2>1, <3>1, <3>2 DEF Lower
  <2>5. Reach'
    <3>1. CASE up
      <4>1. 7 * (value + step) <= 10 * cap  BY <1>1, <2>1, <3>1 DEF BInv, Reach
      <4>. QED BY <1>0, <2>1, <3>1, <4>1 DEF Reach
    <3>2. CASE ~up  BY <1>0, <1>3, <2>1, <3>2 DEF Reach
    <3>. QED BY <3>1, <3>2
  <2>6. Settled'  BY <2>1 DEF Settled
  <2>7. Short'
    <3>1. value <= Precision * step  BY <1>0, <1>9 DEF Found
    <3>2. steady => 2 * threshold <= 2 * (Precision * step + step)
      BY <1>0, <1>6, <2>1, <3>1
    <3>3. steady /\ threshold > 0 => scale <= threshold  BY <1>1 DEF BInv, Short
    <3>4. Precision * step' = Precision * step  BY <2>1
    <3>. QED BY <1>0, <1>1, <2>1, <3>2, <3>3, <3>4 DEF Short
  <2>. QED BY <2>3, <2>4, <2>5, <2>6, <2>7 DEF BInv
<1>. QED BY <1>7, <1>8, <1>9 DEF Search

\* Whatever the answer of its run, and of a failed run at its start, the bracket of a
\* search stays one.
LEMMA BracketKept ==
  ASSUME ScannerAssumption, SInv, BInv, spc # "done", NEW a \in Answers, Heed(a),
         OfNow(a) \/ (First /\ ~a.status)
  PROVE  BInv'
<1>1. CASE Search(a) /\ ~a.status
  <2>1. ~toggled
    <3>1. CASE First  BY <3>1 DEF First
    <3>2. CASE OfNow(a)
      <4>1. kind = "search" /\ toggled \in BOOLEAN  BY <1>1, SearchNumbers DEF Search
      <4>2. ~(10 * Rate >= 7 * value)  BY <1>1, <3>2 DEF OfNow
      <4>3. Reach  BY DEF BInv
      <4>. QED BY <4>1, <4>2, <4>3, ReachesAll
    <3>. QED BY <3>1, <3>2
  <2>. QED BY <1>1, <2>1, EndsAsItIs
<1>2. CASE Search(a) /\ a.status
  <2>1. OfNow(a)  BY <1>2
  <2>. QED BY <1>2, <2>1, GoesOnInBracket
<1>3. CASE FindMax(a)
  <2>1. kind' = "max"  BY <1>3 DEF FindMax
  <2>. QED BY <2>1 DEF BInv, Upper, Lower, Reach, Settled, Short
<1>. QED BY <1>1, <1>2, <1>3 DEF Heed

-----------------------------------------------------------------------------
(* One answer, and the values asked for.                                   *)

\* A search that goes on asks for another value, and never for its first again.
LEMMA Moves ==
  ASSUME ScannerAssumption, SInv, Away, NEW a \in Answers, Heed(a), spc' = "ask"
  PROVE  Far' /\ value * scale' # value' * scale
<1>0. /\ value \in Nat /\ step \in Nat /\ value >= step /\ step > 0
      /\ scale \in Nat /\ scale >= 1 /\ Start \in Nat /\ Start >= 1
      /\ toggled \in BOOLEAN /\ expected \in Nat /\ a.drop \in Nat
  BY SearchNumbers DEF Answers, ScannerAssumption
<1>1. /\ Start * scale \in Nat /\ value * scale \in Nat /\ step * scale \in Nat
      /\ step * scale >= 1 /\ value * scale >= 1
  BY <1>0
<1>2. /\ Start * (2 * scale) = 2 * (Start * scale)
      /\ value * (2 * scale) = 2 * (value * scale)
      /\ (2 * value) * scale = 2 * (value * scale)
      /\ (2 * value + step) * scale = 2 * (value * scale) + step * scale
      /\ (2 * value - step) * scale = 2 * (value * scale) - step * scale
  BY <1>0
<1>3. First => value = Start * scale /\ step = value /\ ~toggled
  BY <1>0 DEF First
<1>4. CASE Search(a) /\ Double(a)
  <2>1. value' = 2 * value /\ step' = value /\ scale' = scale /\ ~toggled
    BY <1>4 DEF Double
  <2>2. value >= Start * scale  BY <1>0, <1>1, <1>3, <2>1 DEF Away, Far
  <2>3. Far'  BY <1>0, <1>1, <2>1, <2>2 DEF Far
  <2>. QED BY <1>1, <1>2, <2>1, <2>3
<1>5. CASE Search(a) /\ Narrow(a) /\ a.status
  <2>1. /\ value' = IF a.drop <= expected THEN 2 * value + step ELSE 2 * value - step
        /\ step' = step /\ scale' = 2 * scale
        /\ kind = "search" /\ kind' = kind
        /\ toggled' = (toggled \/ a.drop > expected) /\ (toggled \/ a.drop > expected)
    BY <1>5 DEF Narrow, Search
  <2>2. CASE a.drop <= expected
    <3>1. value' = 2 * value + step /\ toggled /\ toggled'  BY <1>0, <2>1, <2>2
    <3>2. Far  BY <1>3, <3>1 DEF Away
    <3>3. Far'  BY <1>0, <1>1, <1>2, <2>1, <3>1, <3>2 DEF Far
    <3>. QED BY <1>1, <1>2, <2>1, <3>1, <3>3
  <2>3. CASE ~(a.drop <= expected)
    <3>1. value' = 2 * value - step /\ toggled'  BY <1>0, <2>1, <2>3
    <3>2. Far'  BY <1>0, <1>1, <1>2, <1>3, <2>1, <3>1 DEF Away, Far
    <3>. QED BY <1>1, <1>2, <2>1, <3>1, <3>2
  <2>. QED BY <2>2, <2>3
<1>6. CASE FindMax(a)
  <2>1. /\ value' = 2 * value /\ step' = step /\ scale' = scale /\ kind = "max"
    BY <1>6 DEF FindMax, world
  <2>2. Far'  BY <1>0, <1>1, <1>3, <2>1 DEF Away, Far
  <2>. QED BY <1>1, <1>2, <2>1, <2>2
<1>. QED BY <1>4, <1>5, <1>6 DEF Heed, Search

\* No search ends with its first run but for a failure, or for receiving nothing.
LEMMA FirstGoesOn ==
  ASSUME ScannerAssumption, SInv, First, NEW a \in Answers, Heed(a), a.status, spc' = "done"
  PROVE  kind' = "max" /\ max_rate' = 0
<1>0. /\ step = Start /\ value = Start /\ last_rate = 0 /\ max_rate = 0
      /\ Start \in Nat /\ Start >= 1 /\ Precision \in Nat /\ Precision >= 1
      /\ Precision * step \in Nat /\ Precision * step >= step
  BY SearchNumbers DEF First
<1>1. ~Found  BY <1>0 DEF Found
<1>2. FindMax(a)  BY <1>1 DEF Heed, Search
<1>3. a.rate \in Nat  BY DEF Answers
<1>4. NoMore(a)  BY <1>2 DEF FindMax
<1>5. a.rate = 0  BY <1>0, <1>3, <1>4 DEF NoMore
<1>. QED BY <1>0, <1>2, <1>5 DEF FindMax

\* Where a search is not at its start, it is not at a value equal to it.
LEMMA NotBack ==
  ASSUME ScannerAssumption, SInv, Away, value = Start * scale
  PROVE  First
  BY SearchNumbers DEF Away, Far

-----------------------------------------------------------------------------
(* The cache.                                                              *)

\* What boundary_run may find in its cache: a run that has failed, of another search, for
\* the first value of this one.
LEMMA RecallsFailure ==
  ASSUME ScannerAssumption, BoundaryAssumption, IInv, JInv, spc = "ask", NEW r \in Cached
  PROVE  /\ First /\ AtStart(r) /\ r.scale = 1 /\ r.search # searches /\ searches > 1
         /\ r.answer \in Answers /\ ~r.answer.status
         /\ Again(r) = [status |-> FALSE, sent |-> r.answer.sent, rate |-> r.answer.rate,
                        drop |-> r.answer.drop]
         /\ r.answer.sent \in 1..Start /\ 10 * r.answer.sent < 7 * Start
         /\ r.answer.rate \in 0..r.answer.sent
<1>0. /\ r \in cache /\ r.value * scale = value * r.scale
      /\ r \in Runs /\ searches \in Nat
  BY DEF Cached, IInv, TypeOK, BoundaryAssumption
<1>1. /\ r.value \in Nat /\ r.scale \in 1..MaxScale /\ r.search \in 1..MaxSearches
      /\ r.answer \in Answers /\ MaxScale \in Nat /\ MaxSearches \in Nat
  BY <1>0 DEF Runs, ScannerAssumption, BoundaryAssumption
<1>2. /\ r.search # searches /\ (AtStart(r) => ~r.answer.status) /\ (First \/ AtStart(r))
      /\ r.search <= searches /\ (AtStart(r) => r.scale = 1)
      /\ 1 <= r.answer.sent /\ r.answer.sent <= r.value
      /\ (~r.answer.status => 10 * r.answer.sent < 7 * r.value)
  BY <1>0 DEF JInv, Fresh
<1>3. /\ value \in Nat /\ scale \in Nat /\ scale >= 1 /\ Start \in Nat
  BY SearchNumbers DEF IInv
<1>4. r.scale \in Nat /\ r.scale >= 1  BY <1>1
<1>5. First /\ AtStart(r)
  <2>1. CASE First
    <3>1. value = Start /\ scale = 1  BY <2>1 DEF First
    <3>2. r.value * 1 = Start * r.scale  BY <1>0, <3>1
    <3>3. r.value * 1 = r.value  BY <1>1
    <3>. QED BY <2>1, <3>2, <3>3 DEF AtStart
  <2>2. CASE AtStart(r)
    <3>1. r.value = Start /\ r.scale = 1
      <4>1. r.scale = 1 /\ r.value = Start * r.scale  BY <1>2, <2>2 DEF AtStart
      <4>2. Start * 1 = Start  BY <1>3
      <4>. QED BY <4>1, <4>2
    <3>2. Start * scale = value * 1  BY <1>0, <3>1
    <3>3. value = Start * scale  BY <1>3, <3>2
    <3>. QED BY <2>2, <3>3, NotBack DEF IInv, JInv
  <2>. QED BY <1>2, <2>1, <2>2
<1>6. r.value = Start /\ r.scale = 1 /\ scale = 1 /\ ~r.answer.status
  <2>1. r.scale = 1 /\ r.value = Start * r.scale /\ scale = 1  BY <1>2, <1>5 DEF AtStart, First
  <2>2. Start * 1 = Start  BY <1>3
  <2>. QED BY <1>2, <1>5, <2>1, <2>2
<1>7. /\ r.answer.sent \in Nat /\ r.answer.rate \in Nat /\ r.answer.status = FALSE
      /\ r.answer.rate <= r.answer.sent
      /\ r.answer = [status |-> r.answer.status, sent |-> r.answer.sent,
                     rate |-> r.answer.rate, drop |-> r.answer.drop]
  BY <1>1, <1>6 DEF Answers
<1>8. /\ (r.answer.sent * scale) \div r.scale = r.answer.sent
      /\ (r.answer.rate * scale) \div r.scale = r.answer.rate
  <2>1. \A n \in Nat : n * 1 = n /\ n \div 1 = n  OBVIOUS
  <2>. QED BY <1>6, <1>7, <2>1
<1>9. Again(r) = [status |-> FALSE, sent |-> r.answer.sent, rate |-> r.answer.rate,
                  drop |-> r.answer.drop]
  BY <1>1, <1>7, <1>8 DEF Again, Answers
<1>10. searches > 1  BY <1>0, <1>1, <1>2
<1>11. /\ r.answer.sent \in 1..Start /\ 10 * r.answer.sent < 7 * Start
       /\ r.answer.rate \in 0..r.answer.sent
  BY <1>2, <1>3, <1>6, <1>7
<1>. QED BY <1>1, <1>2, <1>5, <1>6, <1>9, <1>10, <1>11

\* The answer of a run made now is that of the value asked for.
LEMMA AnswerHonest ==
  ASSUME ScannerAssumption, IInv, NEW a \in Honest
  PROVE  /\ a \in Answers /\ OfNow(a) /\ 1 <= a.sent /\ a.sent <= value
         /\ ~a.status => 10 * a.sent < 7 * value
<1>1. /\ value \in Nat /\ value >= 1 /\ cap \in Nat /\ cap >= 1
  <2>1. value \in Nat /\ step \in Nat /\ value >= step /\ step > 0 /\ cap \in Nat /\ cap >= 1
    BY SearchNumbers DEF IInv
  <2>. QED BY <2>1
<1>2. /\ a \in Answers /\ a.sent = Rate /\ (a.status <=> 10 * Rate >= 7 * value)
      /\ a.drop \in Possible
  BY AnswerType DEF IInv
<1>3. Rate \in Nat /\ 1 <= Rate /\ Rate <= value  BY <1>1 DEF Rate
<1>4. steady => (a.drop <= expected <=> value <= threshold)  BY <1>2 DEF Possible
<1>5. OfNow(a)  BY <1>2, <1>4 DEF OfNow
<1>. QED BY <1>1, <1>2, <1>3, <1>5

-----------------------------------------------------------------------------
(* One step of the suite, for its searches and their cache.                *)

LEMMA StartsFresh ==
  ASSUME ScannerAssumption, BoundaryAssumption, Init
  PROVE  JInv
<1>1. /\ spc = "ask" /\ value = Start /\ step = Start /\ scale = 1 /\ toggled = FALSE
      /\ last_rate = 0 /\ max_rate = 0 /\ passed = 0 /\ cache = {}
      /\ threshold \in Nat /\ Start \in Nat
  BY DEF Init, SearchInit, ScannerAssumption
<1>2. Away  BY <1>1 DEF Away, First
<1>3. Fresh  BY <1>1 DEF Fresh
<1>4. BInv  BY <1>1 DEF BInv, Upper, Lower, Reach, Settled, Short
<1>. QED BY <1>2, <1>3, <1>4 DEF JInv

\* While a run is under way its search waits, and of the cache nothing is added.
LEMMA WaitsFresh ==
  ASSUME JInv, spc # "done", spc' \notin {"ask", "done"}, searches' = searches,
         UNCHANGED <<kind, expected, search, maximum, scale, world, steady>>,
         cache' \in {cache, {}}
  PROVE  JInv'
<1>1. /\ kind' = kind /\ value' = value /\ step' = step /\ toggled' = toggled
      /\ passed' = passed /\ last_rate' = last_rate /\ max_rate' = max_rate /\ scale' = scale
      /\ threshold' = threshold /\ cap' = cap /\ steady' = steady
  BY DEF search, maximum, world
<1>2. Away'  BY <1>1 DEF JInv, Away, First, Far
<1>3. Fresh'
  <2>1. \A r : AtStart(r)' <=> AtStart(r)  BY DEF AtStart
  <2>. QED BY <1>1, <2>1 DEF JInv, Fresh
<1>4. BInv'  BY <1>1 DEF JInv, BInv, Upper, Lower, Reach, Settled, Short
<1>. QED BY <1>2, <1>3, <1>4 DEF JInv

LEMMA RecallFresh ==
  ASSUME ScannerAssumption, BoundaryAssumption, IInv, JInv, Recall
  PROVE  JInv'
<1>1. PICK r \in Cached : Heed(Again(r))  BY DEF Recall
<1>2. spc = "ask" /\ cache' = cache /\ searches' = searches  BY DEF Recall, boundary
<1>3. /\ First /\ AtStart(r) /\ r.search # searches /\ ~r.answer.status
      /\ ~Again(r).status
  <2>1. Again(r) = [status |-> FALSE, sent |-> r.answer.sent, rate |-> r.answer.rate,
                    drop |-> r.answer.drop]
    BY <1>2, RecallsFailure
  <2>2. ~Again(r).status  BY <2>1
  <2>. QED BY <1>2, <2>2, RecallsFailure
<1>4. SInv /\ Again(r) \in Answers  BY AgainType DEF IInv
<1>5. spc' \in {"ask", "done"}  BY <1>1, <1>4, HeedGoesOn
<1>6. spc' # "done" => Away'
  BY <1>1, <1>2, <1>4, <1>5, Moves DEF JInv, Away
<1>7. Fresh'
  <2>1. r \in cache /\ \A q \in cache : q = r  BY DEF Cached, JInv, Fresh
  <2>2. AtStart(r)'  BY <1>3 DEF AtStart
  <2>3. /\ r.search <= searches /\ 1 <= r.answer.sent /\ r.answer.sent <= r.value
        /\ 10 * r.answer.sent < 7 * r.value /\ r.scale = 1
    BY <1>3, <2>1 DEF JInv, Fresh
  <2>. QED BY <1>2, <1>3, <2>1, <2>2, <2>3 DEF Fresh
<1>8. BInv'  BY <1>1, <1>2, <1>3, <1>4, BracketKept DEF JInv
<1>. QED BY <1>6, <1>7, <1>8 DEF JInv

\* A run that is made now, of which the search asks for another value or is at its end.
LEMMA RunFresh ==
  ASSUME ScannerAssumption, BoundaryAssumption, IInv, JInv, spc = "rerun",
         NEW a \in Honest, Heed(a), cache' = {ThisRun(a)}, searches' = searches
  PROVE  JInv'
<1>0. PICK r : r = ThisRun(a)  OBVIOUS
<1>1. SInv /\ a \in Answers /\ Away /\ BInv /\ searches \in Nat
  BY AnswerType DEF IInv, JInv, TypeOK, BoundaryAssumption
<1>2. /\ OfNow(a) /\ 1 <= a.sent /\ a.sent <= value
      /\ ~a.status => 10 * a.sent < 7 * value
  BY AnswerHonest
<1>3. spc' \in {"ask", "done"}  BY <1>1, HeedGoesOn
<1>4. spc' = "ask" => Far' /\ value * scale' # value' * scale  BY <1>1, Moves
<1>5. spc' # "done" => Away'  BY <1>3, <1>4 DEF Away
<1>6. BInv'  BY <1>1, <1>2, BracketKept
<1>7. r.value = value /\ r.scale = scale /\ r.search = searches /\ r.answer = a
  BY <1>0 DEF ThisRun
<1>8. AtStart(r)' => First
  BY <1>1, <1>7, NotBack DEF AtStart
<1>9. AtStart(r)' => r.scale = 1  BY <1>7, <1>8 DEF First
<1>10. spc' = "done" /\ AtStart(r)' =>
         ~r.answer.status \/ (kind' = "max" /\ max_rate' = 0)
  BY <1>1, <1>2, <1>7, <1>8, FirstGoesOn
<1>11. Fresh'
  <2>1. r.search <= searches'  BY <1>1, <1>7
  <2>2. cache' = {r}  BY <1>0
  <2>. QED BY <1>2, <1>4, <1>7, <1>9, <1>10, <2>1, <2>2 DEF Fresh
<1>. QED BY <1>5, <1>6, <1>11 DEF JInv

LEMMA RerunFresh ==
  ASSUME ScannerAssumption, BoundaryAssumption, IInv, JInv, Rerun
  PROVE  JInv'
<1>1. CASE Broken \/ TooFew
  <2>1. /\ spc = "rerun" /\ spc' \in {"except", "picking"} /\ cache' = {} /\ searches' = searches
        /\ UNCHANGED <<kind, expected, search, maximum, scale, world, steady>>
    BY <1>1 DEF Rerun, Asking
  <2>. QED BY <2>1, WaitsFresh
<1>2. CASE ~(Broken \/ TooFew)
  <2>1. spc = "rerun"  BY DEF Rerun
  <2>2. PICK a \in Honest : cache' = {ThisRun(a)} /\ Heed(a) /\ searches' = searches
    BY <1>2 DEF Rerun
  <2>. QED BY <2>1, <2>2, RunFresh
<1>. QED BY <1>1, <1>2

LEMMA NextSearchFresh ==
  ASSUME ScannerAssumption, BoundaryAssumption, IInv, JInv, NextSearch
  PROVE  JInv'
<1>1. /\ spc = "done" /\ spc' = "ask" /\ searches' = searches + 1 /\ cache' = cache
      /\ kind = "max" => max_rate > 0
      /\ max_rate \in Nat /\ max_rate' = 0
      /\ value' = Start /\ step' = Start /\ scale' = 1 /\ toggled' = FALSE
      /\ last_rate' = 0 /\ passed' = 0 /\ threshold' \in Nat /\ Start \in Nat
      /\ searches \in Nat
  BY DEF NextSearch, SearchAnew, boundary, ScannerAssumption, IInv, TypeOK, SearchTypeOK,
         BoundaryAssumption
<1>2. First'  BY <1>1 DEF First
<1>3. Fresh'
  <2>1. \A r : AtStart(r)' <=> AtStart(r)  BY DEF AtStart
  <2>2. ASSUME NEW r \in cache
        PROVE  /\ r.search <= searches + 1 /\ r.search # searches + 1
               /\ AtStart(r) => ~r.answer.status
    <3>1. r.search <= searches /\ (AtStart(r) => ~r.answer.status)
      BY <1>1, <2>2 DEF JInv, Fresh
    <3>2. r.search \in Nat
      BY <2>2 DEF IInv, TypeOK, Runs, BoundaryAssumption
    <3>. QED BY <1>1, <3>1, <3>2
  <2>. QED BY <1>1, <1>2, <2>1, <2>2 DEF JInv, Fresh
<1>4. BInv'  BY <1>1 DEF BInv, Upper, Lower, Reach, Settled, Short
<1>. QED BY <1>2, <1>3, <1>4 DEF JInv, Away

LEMMA StepFresh ==
  ASSUME ScannerAssumption, BoundaryAssumption, IInv, JInv, [Next]_vars
  PROVE  JInv'
<1>1. CASE Recall  BY <1>1, RecallFresh
<1>2. CASE Try
  <2>1. spc' \in {"init", "rerun"}  BY <1>2 DEF Try
  <2>. QED BY <1>2, <2>1, WaitsFresh DEF Try
<1>3. CASE StartInit
  BY <1>3, WaitsFresh DEF StartInit, Asking, boundary
<1>4. CASE Launch("pub", "sub")
  BY <1>4, WaitsFresh DEF Launch, Asking, boundary
<1>5. CASE Launch("sub", "rerun")
  BY <1>5, WaitsFresh DEF Launch, Asking, boundary
<1>6. CASE Rerun  BY <1>6, RerunFresh
<1>7. CASE Except
  <2>1. spc' \in {"gaveup", "init"}  BY <1>7 DEF Except
  <2>. QED BY <1>7, <2>1, WaitsFresh DEF Except, Asking
<1>8. CASE NextSearch  BY <1>8, NextSearchFresh
<1>9. CASE Fault
  BY <1>9, WaitsFresh DEF Fault, Asking
<1>10. CASE DeleteFault
  BY <1>10, WaitsFresh DEF DeleteFault, Asking, boundary
<1>11. CASE UNCHANGED vars
  <2>1. /\ kind' = kind /\ value' = value /\ step' = step /\ toggled' = toggled
        /\ passed' = passed /\ last_rate' = last_rate /\ max_rate' = max_rate /\ scale' = scale
        /\ threshold' = threshold /\ cap' = cap /\ steady' = steady
        /\ spc' = spc /\ cache' = cache /\ searches' = searches
    BY <1>11 DEF vars, svars, search, maximum, world, boundary
  <2>2. spc' # "done" => Away'  BY <2>1 DEF JInv, Away, First, Far
  <2>3. Fresh'
    <3>1. \A r : AtStart(r)' <=> AtStart(r)  BY DEF AtStart
    <3>2. First' <=> First  BY <2>1 DEF First
    <3>. QED BY <2>1, <3>1, <3>2 DEF JInv, Fresh
  <2>4. BInv'  BY <2>1 DEF JInv, BInv, Upper, Lower, Reach, Settled, Short, Found
  <2>. QED BY <2>2, <2>3, <2>4 DEF JInv
<1>. QED BY <1>1, <1>2, <1>3, <1>4, <1>5, <1>6, <1>7, <1>8, <1>9, <1>10, <1>11
     DEF Next, Step

-----------------------------------------------------------------------------
(* The theorems.                                                           *)

\* The invariant the others are parts of holds in every state of the suite.
THEOREM Invariant == Spec => []IInv
<1>1. Init => IInv  BY InitIsFine, ScannerAssumption, BoundaryAssumption
<1>2. IInv /\ [Next]_vars => IInv'
  <2>1. ASSUME IInv, [Next]_vars  PROVE IInv'
    <3>1. CASE Next
      BY <2>1, <3>1, RecallKeeps, TryKeeps, StartInitKeeps, LaunchPubKeeps, LaunchSubKeeps,
         RerunKeeps, FaultKeeps, ExceptKeeps, DeleteFaultKeeps, NextSearchKeeps,
         ScannerAssumption, BoundaryAssumption DEF Next, Step
    <3>2. CASE UNCHANGED vars  BY <2>1, <3>2, StutterKeeps
    <3>. QED BY <2>1, <3>1, <3>2
  <2>. QED BY <2>1
<1>. QED BY <1>1, <1>2, PTL DEF Spec

\* Every variable stays within the values boundary.py gives it.
THEOREM TypeCorrect == Spec => []TypeOK
<1>1. IInv => TypeOK  BY DEF IInv
<1>. QED BY <1>1, Invariant, PTL

\* For any start and any answers, no search asks the publisher for a rate of 0 or less.
THEOREM AsksPositiveAlways == Spec => []AsksPositive
<1>1. IInv => AsksPositive  BY DEF IInv, SInv
<1>. QED BY <1>1, Invariant, PTL

\* For any start and any answers, steady or not, a search for no drop returns the highest
\* of the rates that have passed.
THEOREM BestIsHighestPassedAlways == Spec => []BestIsHighestPassed
<1>1. ASSUME IInv, kind = "search", expected = 0, passed > 0
      PROVE  best_res = 0 /\ best_rate = passed
  <2>1. passed # 0  BY <1>1 DEF IInv, SInv, SearchTypeOK
  <2>. QED BY <1>1, <2>1 DEF IInv, SInv, BestSoFar
<1>2. IInv => BestIsHighestPassed  BY <1>1 DEF BestIsHighestPassed
<1>. QED BY <1>2, Invariant, PTL

\* Whatever fails, and wherever, no application is launched twice and none is updated
\* that is not there.
THEOREM LaunchesMatchAppsAlways == Spec => []LaunchesMatchApps
<1>1. IInv => LaunchesMatchApps  BY DEF IInv
<1>. QED BY <1>1, Invariant, PTL

\* However many exceptions there have been, and for whatever number of subscribers, a suite
\* is given up for five of them at one value, or for a driver that cannot work again.
THEOREM GivesUpOnFaultsAlways == Spec => []GivesUpOnFaults
<1>1. IInv => GivesUpOnFaults  BY DEF IInv, FaultsCounted, GivesUpOnFaults
<1>. QED BY <1>1, Invariant, PTL

\* With the driver of ZeroMQ no suite is given up without an exception from Marathon or a
\* task, as rerun_test promises (UpdatesExisting): that BoundaryRunRabbit.cfg finds one is
\* for the groups of the driver of RabbitMQ alone.
UpdatesByZmq == ~rabbit => UpdatesExisting

THEOREM UpdatesByZmqAlways == Spec => []UpdatesByZmq
<1>1. GivesUpOnFaults => UpdatesByZmq
  BY DEF GivesUpOnFaults, Broken, UpdatesByZmq, UpdatesExisting
<1>. QED BY <1>1, GivesUpOnFaultsAlways, PTL

\* The two invariants together hold in every state of the suite.
THEOREM InvariantOfSearches == Spec => [](IInv /\ JInv)
<1>1. Init => IInv /\ JInv
  BY InitIsFine, StartsFresh, ScannerAssumption, BoundaryAssumption
<1>2. IInv /\ JInv /\ [Next]_vars => JInv'
  BY StepFresh, ScannerAssumption, BoundaryAssumption
<1>. QED BY <1>1, <1>2, Invariant, PTL DEF Spec

\* For any start, precision and threshold, a steady search that has failed once keeps the
\* threshold within its last step, and within two of the highest rate that has passed.
THEOREM BracketedAlways == Spec => []Bracketed
<1>1. ASSUME IInv, JInv, kind = "search", steady, toggled
      PROVE  /\ Abs(threshold - value) <= step
             /\ threshold <= cap => passed <= threshold /\ threshold - passed <= 2 * step
  <2>1. /\ value \in Nat /\ step \in Nat /\ threshold \in Nat /\ passed \in Nat /\ cap \in Nat
    BY <1>1, SearchNumbers, ScannerAssumption DEF IInv
  <2>2. Abs(threshold - value) <= step  BY <1>1 DEF JInv, BInv, Upper
  <2>3. threshold <= cap => value - step <= passed /\ passed <= threshold
    BY <1>1 DEF JInv, BInv, Lower
  <2>. QED BY <2>1, <2>2, <2>3
<1>2. IInv /\ JInv => Bracketed  BY <1>1 DEF Bracketed
<1>. QED BY <1>2, InvariantOfSearches, PTL

\* For any start, precision and threshold, a steady search for no drop ends with a rate that
\* is not above the threshold and as close to it as error_percentage.
THEOREM FindsThresholdAlways == Spec => []FindsThreshold
<1>1. ASSUME IInv, JInv, spc = "done", kind = "search", steady, toggled, expected = 0,
             threshold <= cap
      PROVE  best_rate <= threshold /\ Precision * (threshold - best_rate) < value
  <2>1. /\ value \in Nat /\ step \in Nat /\ threshold \in Nat /\ passed \in Nat
        /\ Precision \in Nat /\ Precision * step \in Nat /\ Precision * step >= step
    BY <1>1, SearchNumbers, ScannerAssumption DEF IInv
  <2>2. value - step <= passed /\ passed <= threshold /\ threshold - passed <= step
    BY <1>1 DEF JInv, BInv, Lower
  <2>3. Precision * step < value  BY <1>1 DEF JInv, BInv, Settled, Found
  <2>4. passed # 0  BY <2>1, <2>2, <2>3
  <2>5. best_rate = passed  BY <1>1, <2>1, <2>4 DEF IInv, SInv, BestSoFar
  <2>6. Precision * (threshold - passed) <= Precision * step
    <3>1. PICK n \in Nat : n = threshold - passed /\ n <= step  BY <2>1, <2>2
    <3>2. Precision * n <= Precision * step  BY <2>1, <3>1
    <3>. QED BY <3>1, <3>2
  <2>7. Precision * (threshold - passed) \in Int  BY <2>1
  <2>. QED BY <2>1, <2>2, <2>3, <2>5, <2>6, <2>7
<1>2. IInv /\ JInv => FindsThreshold  BY <1>1 DEF FindsThreshold
<1>. QED BY <1>2, InvariantOfSearches, PTL

\* For any start and precision, a steady search with a threshold above 0 halves its unit a
\* bounded number of times: it goes on only while the unit, which doubles each time, is below
\* a bound the step sets, which does not grow.
THEOREM HalvingsAreFew ==
  Spec => [](kind = "search" /\ steady /\ threshold > 0 /\ toggled /\ spc # "done"
               => scale <= 2 * (Precision + 1) * step)
<1>1. ASSUME IInv, JInv, kind = "search", steady, threshold > 0, toggled, spc # "done"
      PROVE  scale <= 2 * (Precision + 1) * step
  <2>1. /\ scale \in Nat /\ step \in Nat /\ threshold \in Nat /\ Precision \in Nat
    BY <1>1, SearchNumbers, ScannerAssumption DEF IInv
  <2>2. scale <= threshold /\ threshold <= 2 * (Precision * step + step)
    BY <1>1 DEF JInv, BInv, Short
  <2>3. 2 * (Precision * step + step) = 2 * (Precision + 1) * step  BY <2>1
  <2>4. Precision * step \in Nat  BY <2>1
  <2>. QED BY <2>1, <2>2, <2>3, <2>4
<1>2. IInv /\ JInv =>
        (kind = "search" /\ steady /\ threshold > 0 /\ toggled /\ spc # "done"
           => scale <= 2 * (Precision + 1) * step)
  BY <1>1
<1>. QED BY <1>2, InvariantOfSearches, PTL

\* For any start and any bounds, no rate of one search is taken from a run made for another,
\* but of one that has failed.
THEOREM NoRateOfAnother ==
  Spec => [](spc = "ask" =>
               \A r \in Cached : r.search # searches /\ AtStart(r) /\ ~r.answer.status)
<1>1. IInv /\ JInv => (spc = "ask" =>
        \A r \in Cached : r.search # searches /\ AtStart(r) /\ ~r.answer.status)
  BY RecallsFailure, ScannerAssumption, BoundaryAssumption
<1>. QED BY <1>1, InvariantOfSearches, PTL

-----------------------------------------------------------------------------
(* Refinement.                                                             *)

\* What answers is the same for both specifications.
LEMMA SameWorld == Suite!Honest = Honest
<1>1. Suite!Rate = Rate  BY DEF Suite!Rate, Rate
<1>2. /\ Suite!Possible = Possible
      /\ \A d : Suite!Received(d) = Received(d)
      /\ \A d, r : Suite!Answer(d, r) = Answer(d, r)
  BY <1>1 DEF Suite!Possible, Possible, Suite!Received, Received, Suite!Answer, Answer
<1>. QED BY <1>2 DEF Suite!Honest, Honest

\* What is left alone in one is left alone in the other.
LEMMA SameTuples ==
  /\ search' = search <=> Suite!search' = Suite!search
  /\ maximum' = maximum <=> Suite!maximum' = Suite!maximum
  /\ world' = world <=> Suite!world' = Suite!world
  BY DEF Suite!search, search, Suite!maximum, maximum, Suite!world, world

\* So is what a search makes of an answer, as far as the suite sees where it is at.
LEMMA SameHeed ==
  ASSUME NEW a, Heed(a), spc' \in {"ask", "done"}
  PROVE  Suite!Heed(a)
<1>0. Seen' = spc'  BY DEF Seen
<1>1. /\ Suite!Better(a) <=> Better(a)
      /\ Suite!Found <=> Found
      /\ Suite!NoMore(a) <=> NoMore(a)
      /\ Suite!Higher(max_rate, a.rate) = Higher(max_rate, a.rate)
      /\ Suite!Passed(a) = Passed(a)
  BY DEF Suite!Better, Better, Suite!Abs, Suite!Found, Found, Suite!NoMore, NoMore,
         Suite!Higher, Suite!Passed, Passed
<1>2. Suite!BestRate(a) = BestRate(a)  BY <1>1 DEF Suite!BestRate, BestRate
<1>3. CASE Search(a)
  <2>1. Double(a) => Suite!Double(a)
    BY <1>1, <1>2, SameTuples DEF Double, Suite!Double
  <2>2. Narrow(a) => Suite!Narrow(a)
    BY <1>1, <1>2, SameTuples DEF Narrow, Suite!Narrow
  <2>3. CASE ~a.status
    BY <1>0, <1>3, <2>3, SameTuples DEF Search, Suite!Search, Suite!Heed
  <2>4. CASE a.status /\ Found
    BY <1>0, <1>1, <1>2, <1>3, <2>4, SameTuples DEF Search, Suite!Search, Suite!Heed
  <2>5. CASE a.status /\ ~Found
    BY <1>0, <1>1, <1>3, <2>1, <2>2, <2>5, SameTuples DEF Search, Suite!Search, Suite!Heed
  <2>. QED BY <2>3, <2>4, <2>5
<1>4. CASE FindMax(a)
  BY <1>0, <1>1, <1>4, SameTuples DEF FindMax, Suite!FindMax, Suite!Heed
<1>. QED BY <1>3, <1>4 DEF Heed

\* A step of boundary_run between a question and its answer is not seen.
LEMMA Unseen ==
  ASSUME UNCHANGED <<kind, expected, search, maximum, scale, world, steady, searches>>,
         Seen' = Seen
  PROVE  UNCHANGED Suite!suite
  BY SameTuples DEF Suite!suite, Suite!svars

\* Exceptions end a suite as any other end does.
LEMMA GivenUp ==
  ASSUME spc = "except", spc' \in {"gaveup", "raised"}, Asking
  PROVE  Suite!GiveUp
<1>1. Seen = "ask" /\ Seen' = "gaveup"  BY DEF Seen
<1>. QED BY <1>1, SameTuples DEF Asking, Suite!GiveUp

LEMMA RecallSeen ==
  ASSUME ScannerAssumption, BoundaryAssumption, IInv, JInv, Recall
  PROVE  Suite!FailAgain
<1>1. PICK r \in Cached : Heed(Again(r))  BY DEF Recall
<1>2. spc = "ask" /\ searches' = searches  BY DEF Recall
<1>3. /\ First /\ searches > 1 /\ r.answer \in Answers
      /\ Again(r) = [status |-> FALSE, sent |-> r.answer.sent, rate |-> r.answer.rate,
                     drop |-> r.answer.drop]
      /\ r.answer.sent \in 1..Start /\ 10 * r.answer.sent < 7 * Start
      /\ r.answer.rate \in 0..r.answer.sent
  BY <1>2, RecallsFailure
<1>4. SInv /\ Again(r) \in Answers  BY AgainType DEF IInv
<1>5. spc' \in {"ask", "done"}  BY <1>1, <1>4, HeedGoesOn
<1>6. Suite!Heed([status |-> FALSE, sent |-> r.answer.sent, rate |-> r.answer.rate,
                  drop |-> r.answer.drop])
  BY <1>1, <1>3, <1>5, SameHeed
<1>7. Seen = "ask" /\ value = Start /\ scale = 1  BY <1>2, <1>3 DEF Seen, First
<1>8. r.answer.drop \in 0..MaxDrop  BY <1>3 DEF Answers
<1>. QED BY <1>2, <1>3, <1>6, <1>7, <1>8 DEF Suite!FailAgain

LEMMA RerunSeen ==
  ASSUME ScannerAssumption, BoundaryAssumption, IInv, Rerun
  PROVE  Suite!Measure \/ UNCHANGED Suite!suite
<1>1. spc = "rerun" /\ Seen = "ask"  BY DEF Rerun, Seen
<1>2. CASE Broken \/ TooFew
  <2>1. spc' \in {"except", "picking"} /\ Asking  BY <1>2 DEF Rerun
  <2>2. Seen' = Seen  BY <1>1, <2>1 DEF Seen
  <2>. QED BY <2>1, <2>2, Unseen DEF Asking
<1>3. CASE ~(Broken \/ TooFew)
  <2>1. PICK a \in Honest : Heed(a) /\ searches' = searches
    BY <1>3 DEF Rerun
  <2>2. SInv /\ a \in Answers  BY AnswerType DEF IInv
  <2>3. Suite!Heed(a)  BY <2>1, <2>2, HeedGoesOn, SameHeed
  <2>. QED BY <1>1, <2>1, <2>3, SameWorld DEF Suite!Measure
<1>. QED BY <1>2, <1>3

LEMMA NextSearchSeen == NextSearch => Suite!NextSearch
<1>. SUFFICES ASSUME NextSearch PROVE Suite!NextSearch  OBVIOUS
<1>1. spc = "done" /\ spc' = "ask" /\ searches' = searches + 1 /\ SearchAnew
  BY DEF NextSearch, SearchAnew
<1>2. Seen = "done" /\ Seen' = "ask"  BY <1>1 DEF Seen
<1>3. Suite!SearchAnew  BY <1>1, <1>2 DEF SearchAnew, Suite!SearchAnew
<1>. QED BY <1>1, <1>2, <1>3 DEF Suite!NextSearch

\* A step of boundary_run is one run measured, one failure recalled, the end of the suite,
\* or nothing its searches see.
LEMMA StepSeen ==
  ASSUME ScannerAssumption, BoundaryAssumption, IInv, JInv, [Next]_vars
  PROVE  [Suite!Next]_Suite!suite
<1>1. CASE Recall  BY <1>1, RecallSeen DEF Suite!Next
<1>2. CASE Try
  <2>1. spc = "ask" /\ spc' \in {"init", "rerun"}  BY <1>2 DEF Try
  <2>2. Seen' = Seen  BY <2>1 DEF Seen
  <2>. QED BY <1>2, <2>2, Unseen DEF Try
<1>3. CASE StartInit \/ Launch("pub", "sub") \/ Launch("sub", "rerun") \/ Fault
  <2>1. /\ spc \in {"init", "pub", "sub", "rerun"} /\ Asking
        /\ spc' \in {"pub", "sub", "rerun", "except"}
    BY <1>3 DEF StartInit, Launch, Fault
  <2>2. Seen' = Seen  BY <2>1 DEF Seen
  <2>. QED BY <2>1, <2>2, Unseen DEF Asking
<1>4. CASE Rerun  BY <1>4, RerunSeen DEF Suite!Next
<1>5. CASE Except \/ DeleteFault
  <2>1. spc = "except" /\ spc' \in {"init", "gaveup", "raised"} /\ Asking
    BY <1>5 DEF Except, DeleteFault
  <2>2. CASE spc' = "init"
    <3>1. Seen' = Seen  BY <2>1, <2>2 DEF Seen
    <3>. QED BY <2>1, <3>1, Unseen DEF Asking
  <2>3. CASE spc' # "init"  BY <2>1, <2>3, GivenUp DEF Suite!Next
  <2>. QED BY <2>2, <2>3
<1>6. CASE NextSearch  BY <1>6, NextSearchSeen DEF Suite!Next
<1>7. CASE UNCHANGED vars
  <2>1. Seen' = Seen  BY <1>7 DEF vars, svars, Seen
  <2>. QED BY <1>7, <2>1, Unseen DEF vars, svars
<1>. QED BY <1>1, <1>2, <1>3, <1>4, <1>5, <1>6, <1>7 DEF Next, Step

\* For any start, precision, drops and bounds, a suite of searches over one driver and one
\* cache implements RateSuite: whatever is cached, tried again or launched in between, each
\* value is answered by a run of its own, but for a failure of a first run.
THEOREM RefinesRateSuite == Spec => ImplementsSuite
<1>1. Init => Suite!Init
  <2>. SUFFICES ASSUME Init PROVE Suite!Init  OBVIOUS
  <2>1. spc = "ask" /\ SearchInit /\ searches = 1  BY DEF Init, SearchInit
  <2>2. Seen = "ask"  BY <2>1 DEF Seen
  <2>3. Suite!SearchInit  BY <2>1, <2>2 DEF SearchInit, Suite!SearchInit
  <2>. QED BY <2>1, <2>3 DEF Suite!Init
<1>2. IInv /\ JInv /\ [Next]_vars => [Suite!Next]_Suite!suite
  BY StepSeen, ScannerAssumption, BoundaryAssumption
<1>. QED BY <1>1, <1>2, InvariantOfSearches, PTL DEF Spec, Suite!Spec, ImplementsSuite

-----------------------------------------------------------------------------
(* The highest rate there is.                                              *)

\* What is needed for find_max_rate to find what it can: steady subscribers, that do not
\* drop at the first value of which a run is sure to be made for it.
Early == /\ steady /\ expected = 0
         /\ (IF searches = 1 THEN Start ELSE 2 * Start) <= threshold

\* It has then found so much, or has last been told all that can be sent at half of the
\* value it asks for, which does not drop yet.
Enough == /\ 2 * max_rate > threshold \/ 2 * max_rate > cap
          /\ 2 * cap <= threshold => max_rate >= cap
Half   == /\ value <= 2 * threshold /\ last_rate <= max_rate
          /\ \/ 2 * last_rate = value /\ value <= 2 * cap
             \/ last_rate = cap /\ 2 * cap <= value

\* The second value it asks for, after the failure of another search at the first.
Second == /\ value = 2 * Start /\ searches > 1
          /\ last_rate = max_rate /\ 10 * last_rate < 7 * Start

MaxInv ==
  kind = "max" =>
    /\ scale = 1 /\ (max_rate <= cap \/ Stale)
    /\ IF spc = "done" THEN Stale \/ (Early => Enough)
                       ELSE First \/ Second \/ (Early => Half \/ Enough)

\* What the answer of a run of its own, or the failure of another's at its first value,
\* makes of it.
LEMMA MaxKept ==
  ASSUME ScannerAssumption, BoundaryAssumption, IInv, MaxInv, spc # "done",
         searches' = searches, NEW a \in Answers, Heed(a),
         OfNow(a) \/ (First /\ searches > 1 /\ 10 * a.sent < 7 * Start)
  PROVE  MaxInv'
<1>1. CASE Search(a)  BY <1>1 DEF Search, MaxInv
<1>2. CASE FindMax(a)
  <2>1. /\ kind = "max" /\ scale' = scale /\ cap' = cap /\ threshold' = threshold
        /\ steady' = steady /\ expected' = expected
        /\ max_rate' = Higher(max_rate, a.rate)
        /\ NoMore(a) => spc' = "done" /\ value' = value /\ last_rate' = last_rate
        /\ ~NoMore(a) => spc' = "ask" /\ value' = 2 * value /\ last_rate' = a.rate
    BY <1>2 DEF FindMax, world
  <2>2. /\ value \in Nat /\ value >= 1 /\ last_rate \in Nat /\ cap \in Nat /\ cap >= 1
        /\ a.rate \in Nat /\ a.sent \in Nat /\ a.rate <= a.sent
        /\ a.drop \in Nat /\ (a.drop = 0 => a.rate = a.sent)
        /\ max_rate \in Nat /\ Start \in Nat /\ Start >= 1 /\ threshold \in Nat
        /\ max_rate' \in Nat /\ max_rate' >= max_rate /\ max_rate' >= a.rate
        /\ searches \in Nat /\ steady \in BOOLEAN
    BY <2>1, SearchNumbers
       DEF Answers, IInv, SInv, SearchTypeOK, AsksPositive, TypeOK, ScannerAssumption,
           BoundaryAssumption
  <2>3. /\ Rate \in Nat /\ Rate <= cap
        /\ IF value < cap THEN Rate = value ELSE Rate = cap
    BY <2>2 DEF Rate
  <2>4. max_rate' <= cap \/ Stale'
    <3>1. CASE OfNow(a)
      BY <2>1, <2>2, <2>3, <3>1 DEF OfNow, MaxInv, Stale
    <3>2. CASE First /\ searches > 1 /\ 10 * a.sent < 7 * Start
      BY <2>1, <2>2, <3>2 DEF First, Stale
    <3>. QED BY <3>1, <3>2
  <2>5. Early' <=> Early  BY <2>1 DEF Early
  <2>6. ASSUME Enough  PROVE Enough'
    BY <2>1, <2>2, <2>6 DEF Enough
  <2>7. CASE First /\ ~OfNow(a)
    <3>1. value = Start /\ last_rate = 0 /\ max_rate = 0 /\ max_rate' = a.rate
      BY <2>1, <2>2, <2>7 DEF First
    <3>2. searches > 1 /\ 10 * a.rate < 7 * Start  BY <2>2, <2>7
    <3>3. CASE NoMore(a)
      BY <2>1, <2>4, <3>1, <3>2, <3>3 DEF MaxInv, Stale
    <3>4. CASE ~NoMore(a)
      BY <2>1, <2>4, <3>1, <3>2, <3>4 DEF MaxInv, Second
    <3>. QED BY <3>3, <3>4
  <2>8. CASE OfNow(a)
    <3>1. ASSUME Early, value <= threshold  PROVE a.rate = Rate
      BY <2>2, <2>8, <3>1 DEF OfNow, Early
    <3>2. ASSUME Early, ~NoMore(a)  PROVE Half' \/ Enough'
      <4>1. CASE value <= threshold
        <5>1. value' = 2 * value /\ last_rate' = Rate  BY <2>1, <3>1, <3>2, <4>1
        <5>. QED BY <2>1, <2>2, <2>3, <3>1, <3>2, <4>1, <5>1 DEF Half
      <4>2. CASE ~(value <= threshold)
        <5>1. Half \/ Enough
          <6>1. ~First /\ ~Second  BY <2>2, <3>2, <4>2 DEF Early, First, Second
          <6>. QED BY <2>1, <3>2, <6>1 DEF MaxInv
        <5>2. Half => Enough  BY <2>2, <4>2 DEF Half, Enough
        <5>. QED BY <2>6, <5>1, <5>2
      <4>. QED BY <4>1, <4>2
    <3>3. ASSUME Early, NoMore(a)  PROVE Stale' \/ Enough'
      <4>1. CASE ~(value <= threshold)
        <5>1. Half \/ Enough
          <6>1. ~First /\ ~Second  BY <2>2, <3>3, <4>1 DEF Early, First, Second
          <6>. QED BY <2>1, <3>3, <6>1 DEF MaxInv
        <5>2. Half => Enough  BY <2>2, <4>1 DEF Half, Enough
        <5>. QED BY <2>6, <5>1, <5>2
      <4>2. CASE value <= threshold
        <5>1. a.rate = Rate  BY <3>1, <3>3, <4>2
        <5>2. a.rate < 1 \/ 50 * (a.rate - last_rate) < last_rate  BY <3>3 DEF NoMore
        <5>3. a.rate = cap => Enough'
          BY <2>1, <2>2 DEF Enough
        <5>4. CASE First
          BY <2>2, <2>3, <5>1, <5>2, <5>4 DEF First
        <5>5. CASE Second
          BY <2>2, <2>3, <5>1, <5>2, <5>3, <5>5 DEF Second
        <5>6. CASE Half
          BY <2>2, <2>3, <5>1, <5>2, <5>3, <5>6 DEF Half
        <5>7. CASE Enough  BY <2>6, <5>7
        <5>. QED BY <2>1, <3>3, <5>4, <5>5, <5>6, <5>7 DEF MaxInv
      <4>. QED BY <4>1, <4>2
    <3>4. scale' = 1  BY <2>1 DEF MaxInv
    <3>5. CASE NoMore(a)
      <4>1. spc' = "done"  BY <2>1, <3>5
      <4>. QED BY <2>1, <2>4, <2>5, <3>3, <3>4, <3>5, <4>1 DEF MaxInv
    <3>6. CASE ~NoMore(a)
      <4>1. spc' = "ask"  BY <2>1, <3>6
      <4>. QED BY <2>1, <2>4, <2>5, <3>2, <3>4, <3>6, <4>1 DEF MaxInv
    <3>. QED BY <3>5, <3>6
  <2>. QED BY <2>7, <2>8
<1>. QED BY <1>1, <1>2 DEF Heed

\* A step that gives no answer leaves a search as it is.
LEMMA MaxWaits ==
  ASSUME MaxInv, UNCHANGED <<kind, expected, search, maximum, scale, world, steady, searches>>,
         (spc' = "done") <=> (spc = "done")
  PROVE  MaxInv'
<1>1. /\ kind' = kind /\ scale' = scale /\ last_rate' = last_rate /\ value' = value
      /\ max_rate' = max_rate /\ cap' = cap /\ searches' = searches /\ step' = step
      /\ toggled' = toggled /\ threshold' = threshold /\ steady' = steady
      /\ expected' = expected
  BY DEF search, maximum, world
<1>2. /\ Stale' <=> Stale
      /\ Early' <=> Early
      /\ Enough' <=> Enough
      /\ Half' <=> Half
      /\ First' <=> First
      /\ Second' <=> Second
  BY <1>1 DEF Stale, Early, Enough, Half, First, Second
<1>. QED BY <1>1, <1>2 DEF MaxInv

LEMMA StepMax ==
  ASSUME ScannerAssumption, BoundaryAssumption, IInv, JInv, MaxInv, [Next]_vars
  PROVE  MaxInv'
<1>1. CASE Recall
  <2>1. spc = "ask" /\ searches' = searches  BY <1>1 DEF Recall
  <2>2. PICK r \in Cached : Heed(Again(r))  BY <1>1 DEF Recall
  <2>3. /\ First /\ searches > 1 /\ 10 * r.answer.sent < 7 * Start
        /\ Again(r) = [status |-> FALSE, sent |-> r.answer.sent, rate |-> r.answer.rate,
                       drop |-> r.answer.drop]
    BY <2>1, RecallsFailure
  <2>4. Again(r).sent = r.answer.sent  BY <2>3
  <2>5. Again(r) \in Answers  BY AgainType DEF IInv
  <2>6. PICK a \in Answers : a = Again(r)  BY <2>5
  <2>. QED BY <2>1, <2>2, <2>3, <2>4, <2>6, MaxKept
<1>2. CASE Rerun
  <2>1. spc = "rerun"  BY <1>2 DEF Rerun
  <2>2. CASE Broken \/ TooFew
    <3>1. spc' \in {"except", "picking"} /\ Asking  BY <1>2, <2>2 DEF Rerun
    <3>. QED BY <2>1, <3>1, MaxWaits DEF Asking
  <2>3. CASE ~(Broken \/ TooFew)
    <3>1. PICK a \in Honest : Heed(a) /\ searches' = searches
      BY <1>2, <2>3 DEF Rerun
    <3>2. a \in Answers /\ OfNow(a)  BY AnswerHonest
    <3>. QED BY <2>1, <3>1, <3>2, MaxKept
  <2>. QED BY <2>2, <2>3
<1>3. CASE NextSearch
  <2>1. /\ spc' = "ask" /\ scale' = 1 /\ last_rate' = 0 /\ max_rate' = 0 /\ value' = Start
        /\ step' = Start /\ toggled' = FALSE /\ cap' \in Nat
    BY <1>3 DEF NextSearch, SearchAnew, ScannerAssumption
  <2>. QED BY <2>1 DEF MaxInv, First
<1>4. CASE Try
  <2>1. spc = "ask" /\ spc' \in {"init", "rerun"}  BY <1>4 DEF Try
  <2>. QED BY <1>4, <2>1, MaxWaits DEF Try
<1>5. CASE StartInit \/ Launch("pub", "sub") \/ Launch("sub", "rerun") \/ Fault
            \/ Except \/ DeleteFault
  <2>1. Asking /\ spc # "done" /\ spc' # "done"
    BY <1>5 DEF StartInit, Launch, Fault, Except, DeleteFault
  <2>. QED BY <2>1, MaxWaits DEF Asking
<1>6. CASE UNCHANGED vars  BY <1>6, MaxWaits DEF vars, svars
<1>. QED BY <1>1, <1>2, <1>3, <1>4, <1>5, <1>6 DEF Next, Step

\* For any start, any cap and threshold and any shares received, steady or not, find_max_rate
\* ends with no more than can be sent and, where its first runs do not drop, with more than
\* half of what can be received; and search as FindsThresholdAlways says.
THEOREM FindsRatesAlways == Spec => []FindsRates
<1>1. Init => MaxInv
  <2>. SUFFICES ASSUME Init PROVE MaxInv  OBVIOUS
  <2>1. /\ spc = "ask" /\ scale = 1 /\ last_rate = 0 /\ max_rate = 0 /\ value = Start
        /\ step = Start /\ toggled = FALSE /\ cap \in Nat
    BY ScannerAssumption DEF Init, SearchInit, ScannerAssumption
  <2>. QED BY <2>1 DEF MaxInv, First
<1>2. IInv /\ JInv /\ MaxInv /\ [Next]_vars => MaxInv'
  BY StepMax, ScannerAssumption, BoundaryAssumption
<1>3. IInv /\ MaxInv => Stale \/ FindsMaximum(IF searches = 1 THEN Start ELSE 2 * Start)
  <2>1. IInv => max_rate \in Nat /\ cap \in Nat  BY DEF IInv, SInv, SearchTypeOK
  <2>. QED BY <2>1 DEF MaxInv, FindsMaximum, Early, Enough
<1>4. Spec => []MaxInv  BY <1>1, <1>2, InvariantOfSearches, PTL DEF Spec
<1>. QED BY <1>3, <1>4, InvariantOfSearches, FindsThresholdAlways, PTL DEF FindsRates
=============================================================================
