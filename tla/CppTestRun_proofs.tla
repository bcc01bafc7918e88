------------------------- MODULE CppTestRun_proofs -------------------------
(***************************************************************************)
(* The C++ publisher for every set of batch sizes, every width of its      *)
(* counter and every number of tests: no request waits for more than one   *)
(* batch or more than one sleep; and driver and publisher together give    *)
(* each test its own results and implement TestCycle.                      *)
(*                                                                         *)
(* The bound is not inductive: it holds because the counter remembers what *)
(* has been sent.  Once it has passed the point to break off, nothing has  *)
(* been sent since the last poll; before that point, no more than it says. *)
(* Neither depends on the driver, not even on a batch size changed in the  *)
(* middle of a test.  That results are a test's own needs an invariant on  *)
(* the driver as well, OwnInv, in the second half.                         *)
(***************************************************************************)
EXTENDS CppTestRun, TLAPS

\* The driver sends nothing but for one of its MaxTests tests.
RoundInv == mpc \in Commands => round <= MaxTests

\* What the counter knows between one poll and the next.
CounterKnows ==
  /\ cpc = "turn" => sent = 0 /\ slept = 0
  /\ config.batch >= 2 /\ cpc = "send" =>
       /\ cnt + 1 < config.batch => sent <= cnt + 1 /\ slept <= 1
       /\ cnt + 1 >= config.batch => sent = 0 /\ slept = 0

IInv == TypeOK /\ RoundInv /\ CounterKnows /\ PollsEveryBatch

-----------------------------------------------------------------------------
LEMMA EmptyIsStats == Empty \in Stats
<1>1. Empty = [k \in {} |-> 0]  BY DEF Empty
<1>2. [k \in {} |-> 0] \in [{} -> 0..MaxTests]  BY CppAssumption
<1>3. {} \in SUBSET Keys  OBVIOUS
<1>4. QED  BY <1>1, <1>2, <1>3 DEF Stats

LEMMA MeasuredIsStats ==
  ASSUME NEW t \in 0..MaxTests
  PROVE  [k \in Keys |-> t] \in Stats
BY DEF Stats

\* The numbers the loop works with.
LoopType == /\ cnt \in 0..IntRange - 1 /\ config.batch \in 0..IntRange - 1
            /\ sent \in 0..IntRange /\ slept \in 0..IntRange
            /\ IntRange \in Nat /\ IntRange > 3

LEMMA TypeGivesLoopType ==
  ASSUME TypeOK
  PROVE  LoopType
BY CppAssumption DEF TypeOK, LoopType, Configs

LEMMA ReplyIsMessage ==
  ASSUME chan \in Messages, NEW s \in Ended \cup {"", "running", "starting", Refused},
         NEW d \in Stats, Reply(s, d)
  PROVE  chan' \in Messages
BY DEF Reply, Messages

LEMMA BeforeIs ==
  ASSUME LoopType
  PROVE  /\ config.batch >= 1 => Before = config.batch - 1
         /\ Count = IF cnt = IntRange - 1 THEN 0 ELSE cnt + 1
         /\ Count \in 0..IntRange - 1
<1>1. IntRange \in Nat /\ IntRange > 3 /\ cnt \in 0..IntRange - 1 /\ config.batch \in 0..IntRange - 1
  BY DEF LoopType
<1>2. \A x \in Nat : x < IntRange => x % IntRange = x  BY <1>1
<1>3. \A x \in Nat : x < IntRange => (x + IntRange) % IntRange = x  BY <1>1
<1>4. config.batch >= 1 => Before = config.batch - 1
  <2>1. config.batch + IntRange - 1 = (config.batch - 1) + IntRange  BY <1>1
  <2>2. QED  BY <1>1, <1>3, <2>1 DEF Before
<1>5. Count = IF cnt = IntRange - 1 THEN 0 ELSE cnt + 1
  <2>1. CASE cnt = IntRange - 1  BY <1>1, <1>3, <2>1 DEF Count
  <2>2. CASE cnt # IntRange - 1  BY <1>1, <1>2, <2>2 DEF Count
  <2>3. QED  BY <2>1, <2>2
<1>6. QED  BY <1>1, <1>4, <1>5

LEMMA InitIInv == Init => IInv
<1> SUFFICES ASSUME Init PROVE IInv  OBVIOUS
<1>1. /\ mpc = "updateconfig" /\ round = 1 /\ read1 = Empty /\ results = <<>>
      /\ cpc = "poll" /\ cnt = 0 /\ late = FALSE /\ sent = 0 /\ slept = 0
      /\ publishing = FALSE /\ start_publishing = FALSE
      /\ config = Default /\ stats = Empty /\ tests = 0
  BY DEF Init
<1>2. Default \in Configs /\ Default.batch \in Nat
  <2>1. (CHOOSE b \in Batches : TRUE) \in Batches  BY CppAssumption
  <2>2. 0 \in 0..MaxTests  BY CppAssumption
  <2>3. \A b \in Batches : b \in Nat  BY CppAssumption
  <2>4. Default.batch = CHOOSE b \in Batches : TRUE  BY DEF Default
  <2>5. Default \in Configs  BY <2>1, <2>2 DEF Default, Configs
  <2>6. QED  BY <2>1, <2>3, <2>4, <2>5
<1>3. chan \in Messages
  BY <1>2, EmptyIsStats DEF Init, Messages
<1>4. TypeOK
  <2>1. <<>> \in Seq(Stats)  OBVIOUS
  <2>2. 0 \in 0..IntRange /\ 0 \in 0..IntRange - 1 /\ 1 \in 1..MaxTests + 1
    BY CppAssumption
  <2>3. QED  BY <1>1, <1>2, <1>3, <2>1, <2>2, EmptyIsStats DEF TypeOK, Commands
<1>5. RoundInv /\ CounterKnows /\ PollsEveryBatch
  BY <1>1, <1>2, CppAssumption DEF RoundInv, CounterKnows, PollsEveryBatch
<1>6. QED  BY <1>4, <1>5 DEF IInv

\* The driver keeps its types and leaves the publisher alone.
LEMMA DriverKeepsIInv ==
  ASSUME IInv, Driver
  PROVE  IInv'
<1> USE DEF IInv
<1>1. UNCHANGED <<control, loop>>
  BY DEF Driver, Send, Configured, Started, Polled, ReadFirst, ReadSecond, Replied, TimeOut
<1>2. chan' \in Messages
  <2>1. CASE Send
    <3>1. mpc \in Commands /\ round \in 0..MaxTests
      BY <2>1, CppAssumption DEF Send, TypeOK, RoundInv
    <3>2. PICK b \in Batches : chan' = [chan EXCEPT !.dir = "request", !.cmd = mpc,
                                                   !.conf = [test |-> round, batch |-> b]]
      BY <2>1 DEF Send
    <3>3. [test |-> round, batch |-> b] \in Configs  BY <3>1 DEF Configs
    <3>4. QED  BY <3>1, <3>2, <3>3 DEF TypeOK, Messages
  <2>2. CASE \E c \in Commands : Replied(c)
    BY <2>2, EmptyIsStats DEF Replied, TypeOK, Messages
  <2>3. CASE TimeOut  BY <2>3 DEF TimeOut, TypeOK
  <2>4. QED
    BY <2>1, <2>2, <2>3 DEF Driver, Configured, Started, Polled, ReadFirst, ReadSecond, Commands
<1>3. chan.stats \in Stats  BY DEF TypeOK, Messages
<1>4. /\ mpc' \in Commands \cup {"finished", "timedout", "raised"}
      /\ round' \in 1..MaxTests + 1
      /\ RoundInv'
  <2>1. CASE Send \/ Configured \/ Started \/ Polled \/ ReadFirst \/ TimeOut
    <3>1. round' = round /\ mpc' \in Commands \cup {"timedout", "raised"} /\ mpc \in Commands
      BY <2>1 DEF Send, Configured, Started, Polled, ReadFirst, TimeOut, Replied, driver, Commands
    <3>2. QED  BY <3>1 DEF TypeOK, RoundInv
  <2>2. CASE ReadSecond
    <3>1. mpc = "getstats2" /\ round \in 1..MaxTests
      BY <2>2, CppAssumption DEF ReadSecond, Replied, TypeOK, RoundInv, Commands
    <3>2. \/ round' = round /\ mpc' \in {"raised", "getstats2"}
          \/ /\ round' = round + 1
             /\ mpc' = IF round < MaxTests THEN "updateconfig" ELSE "finished"
      BY <2>2 DEF ReadSecond
    <3>3. QED  BY <3>1, <3>2, CppAssumption DEF RoundInv, Commands
  <2>3. QED  BY <2>1, <2>2 DEF Driver
<1>5. read1' \in Stats /\ results' \in Seq(Stats)
  <2>1. read1' \in {read1, chan.stats, Empty} /\ (results' = results \/ results' = Append(results, read1))
    BY DEF Driver, Send, Configured, Started, Polled, ReadFirst, ReadSecond, TimeOut, driver
  <2>2. read1 \in Stats /\ results \in Seq(Stats)  BY DEF TypeOK
  <2>3. Append(results, read1) \in Seq(Stats)  BY <2>2
  <2>4. QED  BY <1>3, <2>1, <2>2, <2>3, EmptyIsStats
<1>6. TypeOK'  BY <1>1, <1>2, <1>4, <1>5 DEF TypeOK, control, loop
<1>7. CounterKnows' /\ PollsEveryBatch'
  BY <1>1 DEF CounterKnows, PollsEveryBatch, control, loop
<1>8. QED  BY <1>4, <1>6, <1>7

LEMMA PollKeepsIInv ==
  ASSUME IInv, Poll
  PROVE  IInv'
<1> USE DEF IInv
<1>1. cpc' = "turn" /\ sent' = 0 /\ slept' = 0 /\ UNCHANGED <<driver, cnt, late>>
  BY DEF Poll
<1>2. stats \in Stats /\ chan \in Messages /\ chan.conf \in Configs
  BY DEF TypeOK, Messages
<1>3. Status \in Ended \cup {"", "running", "starting", Refused}  BY DEF Status, Ended
<1>4. /\ chan' \in Messages /\ config' \in Configs /\ tests' \in Nat
      /\ start_publishing' \in BOOLEAN /\ UNCHANGED <<publishing, stats>>
  <2>1. CASE UpdateConfig
    BY <1>2, <2>1, ReplyIsMessage, EmptyIsStats DEF UpdateConfig, TypeOK
  <2>2. CASE TestStart
    <3>1. \E s \in {Refused, ""} : Reply(s, Empty)  BY <2>2 DEF TestStart
    <3>2. chan' \in Messages  BY <1>2, <3>1, ReplyIsMessage, EmptyIsStats
    <3>3. /\ UNCHANGED <<publishing, config, stats>>
          /\ \/ UNCHANGED <<start_publishing, tests>>
             \/ start_publishing' = TRUE /\ tests' = tests + 1
      BY <2>2 DEF TestStart
    <3>4. config \in Configs /\ tests \in Nat /\ start_publishing \in BOOLEAN  BY DEF TypeOK
    <3>5. tests' \in Nat /\ start_publishing' \in BOOLEAN
      <4>1. CASE UNCHANGED <<start_publishing, tests>>  BY <3>4, <4>1
      <4>2. CASE start_publishing' = TRUE /\ tests' = tests + 1
        <5>1. tests + 1 \in Nat  BY <3>4
        <5>2. QED  BY <4>2, <5>1
      <4>3. QED  BY <3>3, <4>1, <4>2
    <3>6. QED  BY <3>2, <3>3, <3>4, <3>5
  <2>3. CASE TestStatus \/ GetStats
    BY <1>2, <1>3, <2>3, ReplyIsMessage, EmptyIsStats DEF TestStatus, GetStats, control, TypeOK
  <2>4. CASE UNCHANGED <<chan, control>>  BY <2>4 DEF control, TypeOK
  <2>5. QED  BY <2>1, <2>2, <2>3, <2>4 DEF Poll
<1>5. 0 \in 0..IntRange  BY CppAssumption
<1>6. TypeOK'  BY <1>1, <1>4, <1>5 DEF TypeOK, driver
<1>7. RoundInv' /\ CounterKnows'  BY <1>1 DEF RoundInv, CounterKnows, driver
<1>8. PollsEveryBatch'
  <2>1. config'.batch \in Nat
    <3>1. \A b \in Batches : b \in Nat  BY CppAssumption
    <3>2. \A c \in Configs : c.batch \in Batches  BY DEF Configs
    <3>3. QED  BY <1>4, <3>1, <3>2
  <2>2. QED  BY <1>1, <2>1 DEF PollsEveryBatch
<1>9. QED  BY <1>6, <1>7, <1>8

LEMMA NextIInv == IInv /\ [Next]_vars => IInv'
<1> SUFFICES ASSUME IInv, [Next]_vars PROVE IInv'  OBVIOUS
<1> USE DEF IInv
<1>0. LoopType  BY TypeGivesLoopType
<1>1. CASE Driver  BY <1>1, DriverKeepsIInv
<1>2. CASE Poll  BY <1>2, PollKeepsIInv
<1>3. CASE Begin
  <2>1. /\ cnt' = 0 /\ cpc' = "send" /\ cpc = "turn" /\ late' = FALSE /\ stats' = Empty
        /\ publishing' = TRUE
        /\ UNCHANGED <<driver, chan, start_publishing, config, tests, sent, slept>>
    BY <1>3 DEF Begin
  <2>2. sent = 0 /\ slept = 0  BY <2>1 DEF CounterKnows
  <2>3. 0 \in 0..IntRange - 1  BY <1>0 DEF LoopType
  <2>4. TypeOK'  BY <2>1, <2>3, EmptyIsStats DEF TypeOK, driver
  <2>5. RoundInv'  BY <2>1 DEF RoundInv, driver
  <2>6. CounterKnows' /\ PollsEveryBatch'
    BY <1>0, <2>1, <2>2 DEF CounterKnows, PollsEveryBatch, LoopType
  <2>7. QED  BY <2>4, <2>5, <2>6
<1>4. CASE Stop \/ Go \/ Elapse
  <2>1. UNCHANGED <<driver, chan, config, tests, start_publishing, cnt, sent, slept>>
    BY <1>4 DEF Stop, Go, Elapse, control
  <2>2. \/ cpc' = "poll"
        \/ cpc' = cpc
        \/ cpc = "turn" /\ cpc' = "send"
    BY <1>4 DEF Stop, Go, Elapse
  <2>3. publishing' \in BOOLEAN /\ late' \in BOOLEAN /\ stats' \in Stats
    <3>1. config.test \in 0..MaxTests  BY DEF TypeOK, Configs
    <3>2. QED  BY <1>4, <3>1, MeasuredIsStats DEF Stop, Go, Elapse, control, TypeOK
  <2>4. TypeOK'  BY <2>1, <2>2, <2>3 DEF TypeOK, driver
  <2>5. RoundInv'  BY <2>1 DEF RoundInv, driver
  <2>6. CounterKnows' /\ PollsEveryBatch'
    BY <1>0, <2>1, <2>2 DEF CounterKnows, PollsEveryBatch, LoopType
  <2>7. QED  BY <2>4, <2>5, <2>6
<1>5. CASE BreakOff \/ Over
  <2>1. /\ cnt' = Count /\ cpc' = "poll" /\ start_publishing' \in BOOLEAN
        /\ UNCHANGED <<driver, chan, publishing, config, stats, tests, late, sent, slept>>
    BY <1>5 DEF BreakOff, Over, control, TypeOK
  <2>2. TypeOK'  BY <1>0, <2>1, BeforeIs DEF TypeOK, driver
  <2>3. RoundInv' /\ CounterKnows' /\ PollsEveryBatch'
    BY <2>1 DEF RoundInv, CounterKnows, PollsEveryBatch, driver
  <2>4. QED  BY <2>2, <2>3
<1>6. CASE Pause
  <2>1. /\ cpc = "send" /\ cpc' = cpc /\ cnt' = 0 /\ Count > Before
        /\ sent' = More(sent) /\ slept' = More(slept)
        /\ UNCHANGED <<driver, chan, control, late>>
    BY <1>6 DEF Pause, BatchFull
  <2>2. /\ 0 \in 0..IntRange - 1 /\ More(sent) \in 0..IntRange /\ More(slept) \in 0..IntRange
    BY <1>0 DEF LoopType, More
  <2>3. TypeOK'  BY <2>1, <2>2 DEF TypeOK, driver, control
  <2>4. ASSUME config.batch >= 2 PROVE sent' = 1 /\ slept' = 1
    <3>1. Before = config.batch - 1 /\ (Count = 0 \/ Count = cnt + 1)
      BY <1>0, <2>4, BeforeIs DEF LoopType
    <3>2. cnt + 1 >= config.batch  BY <1>0, <2>1, <2>4, <3>1 DEF LoopType
    <3>3. sent = 0 /\ slept = 0  BY <2>1, <2>4, <3>2 DEF CounterKnows
    <3>4. QED  BY <1>0, <2>1, <3>3 DEF More, LoopType
  <2>5. CounterKnows' /\ PollsEveryBatch'
    BY <1>0, <2>1, <2>4 DEF CounterKnows, PollsEveryBatch, LoopType, control
  <2>6. RoundInv'  BY <2>1 DEF RoundInv, driver
  <2>7. QED  BY <2>3, <2>5, <2>6
<1>7. CASE Burst
  <2>1. /\ cpc = "send" /\ cpc' = cpc /\ cnt' = Count /\ Count # Before /\ ~BatchFull
        /\ sent' = More(sent) /\ UNCHANGED <<driver, chan, control, late, slept>>
    BY <1>7 DEF Burst
  <2>2. Count \in 0..IntRange - 1 /\ More(sent) \in 0..IntRange
    BY <1>0, BeforeIs DEF LoopType, More
  <2>3. TypeOK'  BY <2>1, <2>2 DEF TypeOK, driver, control
  <2>4. ASSUME config.batch >= 2
        PROVE  Count + 1 < config.batch /\ sent' <= Count + 1 /\ slept <= 1
    <3>1. /\ Before = config.batch - 1
          /\ Count = IF cnt = IntRange - 1 THEN 0 ELSE cnt + 1
      BY <1>0, <2>4, BeforeIs DEF LoopType
    <3>2. Count + 1 < config.batch  BY <1>0, <2>1, <2>2, <2>4, <3>1 DEF LoopType, BatchFull
    <3>3. CASE cnt + 1 < config.batch
      <4>1. sent <= cnt + 1 /\ slept <= 1  BY <2>1, <2>4, <3>3 DEF CounterKnows
      <4>2. sent' <= sent + 1 /\ sent' \in Nat  BY <1>0, <2>1 DEF More, LoopType
      <4>3. Count = cnt + 1  BY <1>0, <3>1, <3>3 DEF LoopType
      <4>4. QED  BY <1>0, <3>2, <4>1, <4>2, <4>3 DEF LoopType
    <3>4. CASE cnt + 1 >= config.batch
      <4>1. sent = 0 /\ slept = 0  BY <2>1, <2>4, <3>4 DEF CounterKnows
      <4>2. sent' = 1  BY <1>0, <2>1, <4>1 DEF More, LoopType
      <4>3. QED  BY <2>2, <3>2, <4>1, <4>2
    <3>5. QED  BY <1>0, <3>3, <3>4 DEF LoopType
  <2>5. CounterKnows' /\ PollsEveryBatch'
    <3>1. cnt' = Count /\ config' = config /\ slept' = slept /\ cpc' = "send"
      BY <2>1 DEF control
    <3>2. sent' \in Nat  BY <2>1, <2>2
    <3>3. QED  BY <1>0, <2>2, <2>4, <3>1, <3>2 DEF CounterKnows, PollsEveryBatch, LoopType
  <2>6. RoundInv'  BY <2>1 DEF RoundInv, driver
  <2>7. QED  BY <2>3, <2>5, <2>6
<1>8. CASE UNCHANGED vars
  BY <1>8 DEF vars, driver, control, loop, TypeOK, RoundInv, CounterKnows, PollsEveryBatch
<1>9. QED
  BY <1>1, <1>2, <1>3, <1>4, <1>5, <1>6, <1>7, <1>8 DEF Next, Publisher

LEMMA Inductive == Spec => []IInv
<1>1. QED  BY InitIInv, NextIInv, PTL DEF Spec

\* For any batch sizes and any width of the counter, every variable keeps its type.
THEOREM TypeCorrect == Spec => []TypeOK
<1>1. IInv => TypeOK  BY DEF IInv
<1>2. QED  BY <1>1, Inductive, PTL

\* For any batch sizes and any width of the counter, a request to the C++ publisher
\* waits for at most one batch and one sleep (zmq_pub.cc:231-253).
THEOREM PollsEveryBatchAlways == Spec => []PollsEveryBatch
<1>1. IInv => PollsEveryBatch  BY DEF IInv
<1>2. QED  BY <1>1, Inductive, PTL

-----------------------------------------------------------------------------
(* Whose results the driver keeps.  That the publisher is still ending a   *)
(* test when the driver has heard of its end does no harm, because it      *)
(* stops the test in the very turn it has answered in.                     *)

\* The command the driver is at; one that has timed out is still in flight.
At == IF mpc = "timedout" THEN chan.cmd ELSE mpc

Measured(t) == [k \in Keys |-> t]

Reading == At \in {"getstats", "getstats2"}
Replying == chan.dir = "reply"

\* The test of this round has been started.
InTest == (At = "teststart" /\ Replying) \/ At = "teststatus" \/ Reading

\* The driver has heard that it has ended.
HeardOver == (At = "teststatus" /\ Replying /\ chan.status \in Ended) \/ Reading

\* One request of the current round at a time; nothing has raised.
ChanInv ==
  /\ chan.dir # "none" =>
       chan.cmd \in Commands /\ mpc \in {chan.cmd, "timedout"} /\ chan.conf.test = round
  /\ mpc = "timedout" => chan.dir # "none"
  /\ mpc # "raised"
  /\ mpc \in Commands \cup {"timedout"} => round <= MaxTests

\* Which test and configuration is in place, by the driver's position.
TestInv ==
  /\ InTest => tests = round
  /\ ~InTest => tests = round - 1 /\ ~publishing /\ ~start_publishing
  /\ InTest \/ At = "teststart" \/ (At = "updateconfig" /\ Replying) => config.test = round

\* What the publisher does of it, and what the driver hears.
EndInv ==
  /\ cpc = "send" => publishing /\ start_publishing
  /\ InTest /\ ~publishing /\ ~start_publishing => stats = Measured(round)
  /\ HeardOver => ~start_publishing /\ (publishing => cpc = "turn")

ReadInv ==
  /\ At = "teststart" /\ Replying => chan.status # Refused
  /\ Reading /\ Replying => ~publishing /\ chan.stats = Measured(round)
  /\ At = "getstats2" => read1 = Measured(round)

ResultsInv == Len(results) = round - 1 /\ ResultsAreOwn

OwnInv == ChanInv /\ TestInv /\ EndInv /\ ReadInv /\ ResultsInv

LEMMA InitOwn == Init => OwnInv
<1> SUFFICES ASSUME Init PROVE OwnInv  OBVIOUS
<1>1. /\ mpc = "updateconfig" /\ round = 1 /\ results = <<>> /\ chan.dir = "none"
      /\ cpc = "poll" /\ publishing = FALSE /\ start_publishing = FALSE /\ tests = 0
  BY DEF Init
<1>2. ~InTest /\ ~HeardOver /\ ~Reading /\ At = "updateconfig"
  BY <1>1 DEF InTest, HeardOver, Reading, Replying, At
<1>3. ChanInv  BY <1>1, CppAssumption DEF ChanInv, Commands
<1>4. TestInv  BY <1>1, <1>2 DEF TestInv, Replying
<1>5. EndInv  BY <1>1, <1>2 DEF EndInv
<1>6. ReadInv  BY <1>1, <1>2 DEF ReadInv, Replying
<1>7. ResultsInv  BY <1>1 DEF ResultsInv, ResultsAreOwn
<1>. QED BY <1>3, <1>4, <1>5, <1>6, <1>7 DEF OwnInv

\* What is not the driver's, the pair's or the publisher's test leaves everything as it is.
LEMMA LoopKeepsOwn ==
  ASSUME OwnInv, UNCHANGED <<driver, chan, control>>, cpc' \in {cpc, "turn"}
  PROVE  OwnInv'
<1>1. /\ mpc' = mpc /\ round' = round /\ read1' = read1 /\ results' = results /\ chan' = chan
      /\ publishing' = publishing /\ start_publishing' = start_publishing
      /\ config' = config /\ stats' = stats /\ tests' = tests
  BY DEF driver, control
<1>2. At' = At /\ (InTest' <=> InTest) /\ (HeardOver' <=> HeardOver) /\ (Reading' <=> Reading)
      /\ (Replying' <=> Replying)
  BY <1>1 DEF At, InTest, HeardOver, Reading, Replying
<1>3. ChanInv'  BY <1>1 DEF OwnInv, ChanInv
<1>4. TestInv'  BY <1>1, <1>2 DEF OwnInv, TestInv
<1>5. EndInv'
  <2>1. cpc' = "send" => cpc = "send"  OBVIOUS
  <2>. QED BY <1>1, <1>2, <2>1 DEF OwnInv, EndInv, Measured
<1>6. ReadInv'  BY <1>1, <1>2 DEF OwnInv, ReadInv, Measured
<1>7. ResultsInv'  BY <1>1 DEF OwnInv, ResultsInv, ResultsAreOwn
<1>. QED BY <1>3, <1>4, <1>5, <1>6, <1>7 DEF OwnInv

-----------------------------------------------------------------------------
(* The driver.                                                             *)

LEMMA SendOwn == ASSUME IInv, OwnInv, Send PROVE OwnInv'
<1>1. mpc \in Commands /\ chan.dir = "none" /\ UNCHANGED <<driver, control, loop>>
  BY DEF Send
<1>2. chan'.dir = "request" /\ chan'.cmd = mpc /\ chan'.conf.test = round
  <2>1. chan \in Messages  BY DEF IInv, TypeOK
  <2>2. PICK b \in Batches : chan' = [chan EXCEPT !.dir = "request", !.cmd = mpc,
                                                 !.conf = [test |-> round, batch |-> b]]
    BY DEF Send
  <2>. QED BY <2>1, <2>2 DEF Messages
<1>3. /\ mpc' = mpc /\ round' = round /\ read1' = read1 /\ results' = results
      /\ publishing' = publishing /\ start_publishing' = start_publishing
      /\ config' = config /\ stats' = stats /\ tests' = tests /\ cpc' = cpc
  BY <1>1 DEF driver, control, loop
<1>4. At = mpc /\ At' = mpc /\ ~Replying /\ ~Replying'
  BY <1>1, <1>2, <1>3 DEF At, Commands, Replying
<1>5. (InTest' <=> InTest) /\ (HeardOver' <=> HeardOver) /\ (Reading' <=> Reading)
  BY <1>4 DEF InTest, HeardOver, Reading
<1>6. ChanInv'  BY <1>1, <1>2, <1>3 DEF OwnInv, ChanInv, Commands
<1>7. TestInv'  BY <1>3, <1>4, <1>5 DEF OwnInv, TestInv
<1>8. EndInv'  BY <1>3, <1>5 DEF OwnInv, EndInv, Measured
<1>9. ReadInv'  BY <1>3, <1>4, <1>5 DEF OwnInv, ReadInv, Measured
<1>10. ResultsInv'  BY <1>3 DEF OwnInv, ResultsInv, ResultsAreOwn
<1>. QED BY <1>6, <1>7, <1>8, <1>9, <1>10 DEF OwnInv

LEMMA TimeOutOwn == ASSUME IInv, OwnInv, TimeOut PROVE OwnInv'
<1>1. mpc \in Commands /\ chan.dir = "request" /\ mpc' = "timedout"
      /\ UNCHANGED <<round, read1, results, chan, control, loop>>
  BY DEF TimeOut
<1>2. /\ round' = round /\ read1' = read1 /\ results' = results /\ chan' = chan
      /\ publishing' = publishing /\ start_publishing' = start_publishing
      /\ config' = config /\ stats' = stats /\ tests' = tests /\ cpc' = cpc
  BY <1>1 DEF control, loop
<1>3. mpc = chan.cmd /\ chan.conf.test = round  BY <1>1 DEF OwnInv, ChanInv, Commands
<1>4. At = mpc /\ At' = mpc /\ (Replying' <=> Replying)
  BY <1>1, <1>2, <1>3 DEF At, Commands, Replying
<1>5. (InTest' <=> InTest) /\ (HeardOver' <=> HeardOver) /\ (Reading' <=> Reading)
  BY <1>2, <1>4 DEF InTest, HeardOver, Reading
<1>6. ChanInv'  BY <1>1, <1>2, <1>3 DEF OwnInv, ChanInv
<1>7. TestInv'  BY <1>2, <1>4, <1>5 DEF OwnInv, TestInv
<1>8. EndInv'  BY <1>2, <1>5 DEF OwnInv, EndInv, Measured
<1>9. ReadInv'  BY <1>2, <1>4, <1>5 DEF OwnInv, ReadInv, Measured
<1>10. ResultsInv'  BY <1>2 DEF OwnInv, ResultsInv, ResultsAreOwn
<1>. QED BY <1>6, <1>7, <1>8, <1>9, <1>10 DEF OwnInv

\* What is common to the four replies after which the same test goes on.
LEMMA RepliedOwn ==
  ASSUME IInv, OwnInv, NEW c \in Commands, NEW d \in Commands, Replied(c), mpc' = d,
         UNCHANGED <<round, results>>,
         c = "updateconfig" <=> d = "teststart",
         d # "updateconfig",
         d \in {"getstats", "getstats2"} => HeardOver,
         d = "getstats2" => read1' = Measured(round)
  PROVE  OwnInv'
<1>1. mpc = c /\ chan.dir = "reply" /\ chan'.dir = "none" /\ UNCHANGED <<control, loop>>
  <2>1. chan \in Messages  BY DEF IInv, TypeOK
  <2>. QED BY <2>1 DEF Replied, Messages
<1>2. /\ publishing' = publishing /\ start_publishing' = start_publishing
      /\ config' = config /\ stats' = stats /\ tests' = tests /\ cpc' = cpc
      /\ round' = round /\ results' = results
  BY <1>1 DEF control, loop
<1>3. At = c /\ At' = d /\ Replying /\ ~Replying'
  BY <1>1 DEF At, Commands, Replying
<1>4. /\ InTest <=> c # "updateconfig"
      /\ InTest' <=> d # "teststart"
      /\ HeardOver' <=> d \in {"getstats", "getstats2"}
      /\ Reading' <=> d \in {"getstats", "getstats2"}
  BY <1>3 DEF InTest, HeardOver, Reading, Commands
<1>5. ChanInv'  BY <1>1 DEF OwnInv, ChanInv, Commands
<1>6. TestInv'  BY <1>2, <1>3, <1>4 DEF OwnInv, TestInv
<1>7. EndInv'
  <2>1. (InTest' => InTest) /\ (HeardOver' => HeardOver)  BY <1>4
  <2>. QED BY <1>2, <2>1 DEF OwnInv, EndInv, Measured
<1>8. ReadInv'  BY <1>2, <1>3 DEF ReadInv, Measured
<1>9. ResultsInv'  BY <1>2 DEF OwnInv, ResultsInv, ResultsAreOwn
<1>. QED BY <1>5, <1>6, <1>7, <1>8, <1>9 DEF OwnInv

LEMMA RefusedNever ==
  ASSUME OwnInv, Replied("teststart") PROVE chan.status # Refused
<1>1. mpc = "teststart" /\ chan.dir = "reply"  BY DEF Replied
<1>2. At = "teststart" /\ Replying  BY <1>1 DEF At, Replying
<1>. QED BY <1>2 DEF OwnInv, ReadInv

\* What the reads of a test return.
LEMMA ReadsOwn ==
  ASSUME OwnInv, NEW c \in {"getstats", "getstats2"}, Replied(c)
  PROVE  /\ HeardOver /\ InTest /\ ~publishing /\ ~start_publishing
         /\ tests = round /\ chan.stats = Measured(round)
         /\ c = "getstats2" => read1 = Measured(round)
<1>1. mpc = c /\ chan.dir = "reply"  BY DEF Replied
<1>2. At = c /\ Replying  BY <1>1 DEF At, Replying
<1>3. Reading /\ HeardOver /\ InTest  BY <1>2 DEF Reading, HeardOver, InTest
<1>4. ~publishing /\ chan.stats = Measured(round) /\ (c = "getstats2" => read1 = Measured(round))
  BY <1>2, <1>3 DEF OwnInv, ReadInv
<1>5. ~start_publishing  BY <1>3 DEF OwnInv, EndInv
<1>6. tests = round  BY <1>3 DEF OwnInv, TestInv
<1>. QED BY <1>3, <1>4, <1>5, <1>6

LEMMA MeasuredHasCount ==
  ASSUME NEW t
  PROVE  "msg_cnt" \in DOMAIN Measured(t) /\ Measured(t)["msg_cnt"] = t
BY DEF Measured, Keys

\* The second read always matches the first: the test is collected.
LEMMA ReadSecondIs ==
  ASSUME OwnInv, ReadSecond
  PROVE  /\ results' = Append(results, read1) /\ round' = round + 1
         /\ mpc' = IF round < MaxTests THEN "updateconfig" ELSE "finished"
<1>1. Replied("getstats2")  BY DEF ReadSecond
<1>2. chan.stats = Measured(round) /\ read1 = Measured(round)  BY <1>1, ReadsOwn
<1>3. "msg_cnt" \in DOMAIN read1 \cap DOMAIN chan.stats /\ read1["msg_cnt"] = chan.stats["msg_cnt"]
  BY <1>2, MeasuredHasCount
<1>. QED BY <1>3 DEF ReadSecond

LEMMA ReadSecondOwn == ASSUME IInv, OwnInv, ReadSecond PROVE OwnInv'
<1>1. /\ results' = Append(results, read1) /\ round' = round + 1
      /\ mpc' = IF round < MaxTests THEN "updateconfig" ELSE "finished"
  BY ReadSecondIs
<1>2. Replied("getstats2")  BY DEF ReadSecond
<1>3. /\ ~publishing /\ ~start_publishing /\ tests = round /\ read1 = Measured(round)
  BY <1>2, ReadsOwn
<1>4. /\ publishing' = publishing /\ start_publishing' = start_publishing /\ tests' = tests
      /\ cpc' = cpc /\ chan'.dir = "none"
  <2>1. chan \in Messages  BY DEF IInv, TypeOK
  <2>. QED BY <1>2, <2>1 DEF Replied, Messages, control, loop
<1>5. round \in Nat /\ results \in Seq(Stats)  BY CppAssumption DEF IInv, TypeOK
<1>6. At' \in {"updateconfig", "finished"} /\ ~Replying'
  BY <1>1, <1>4 DEF At, Replying
<1>7. ~InTest' /\ ~HeardOver' /\ ~Reading'  BY <1>6 DEF InTest, HeardOver, Reading
<1>8. ChanInv'
  <2>1. (mpc' = "updateconfig" /\ round' <= MaxTests) \/ mpc' = "finished"
    BY <1>1, <1>5, CppAssumption
  <2>. QED BY <1>4, <2>1 DEF ChanInv, Commands
<1>9. TestInv'
  <2>1. tests' = round' - 1  BY <1>1, <1>3, <1>4, <1>5
  <2>. QED BY <1>3, <1>4, <1>6, <1>7, <2>1 DEF TestInv
<1>10. EndInv'
  <2>1. cpc # "send"  BY <1>3 DEF OwnInv, EndInv
  <2>. QED BY <1>4, <1>7, <2>1 DEF EndInv
<1>11. ReadInv'  BY <1>6, <1>7 DEF ReadInv, Reading
<1>12. ResultsInv'
  <2>1. Len(results) = round - 1 /\ ResultsAreOwn  BY DEF OwnInv, ResultsInv
  <2>2. read1 \in Stats  BY DEF IInv, TypeOK
  <2>3. Len(results') = round' - 1  BY <1>1, <1>5, <2>1, <2>2
  <2>4. ASSUME NEW t \in 1..Len(results')
        PROVE  DOMAIN results'[t] = Keys /\ \A k \in Keys : results'[t][k] = t
    <3>1. CASE t <= Len(results)
      <4>1. t \in 1..Len(results) /\ results'[t] = results[t]  BY <1>1, <1>5, <2>2, <3>1
      <4>. QED BY <2>1, <4>1 DEF ResultsAreOwn
    <3>2. CASE ~(t <= Len(results))
      <4>1. t = round /\ results'[t] = read1  BY <1>1, <1>5, <2>1, <2>2, <2>3, <3>2
      <4>. QED BY <1>3, <4>1 DEF Measured
    <3>. QED BY <3>1, <3>2
  <2>. QED BY <2>3, <2>4 DEF ResultsInv, ResultsAreOwn
<1>. QED BY <1>8, <1>9, <1>10, <1>11, <1>12 DEF OwnInv

LEMMA DriverOwn == ASSUME IInv, OwnInv, Driver PROVE OwnInv'
<1>1. CASE Configured
  BY <1>1, RepliedOwn DEF Configured, Commands
<1>2. CASE Started
  <2>1. Replied("teststart") /\ UNCHANGED <<round, results>>  BY <1>2 DEF Started
  <2>2. mpc' = "teststatus"  BY <1>2, <2>1, RefusedNever DEF Started
  <2>. QED BY <2>1, <2>2, RepliedOwn DEF Commands
<1>3. CASE Polled
  <2>1. Replied("teststatus") /\ UNCHANGED <<round, results>>  BY <1>3 DEF Polled
  <2>2. CASE chan.status \in Ended
    <3>1. mpc' = "getstats"  BY <1>3, <2>2 DEF Polled
    <3>2. mpc = "teststatus" /\ chan.dir = "reply"  BY <2>1 DEF Replied
    <3>3. HeardOver  BY <2>2, <3>2 DEF HeardOver, At, Replying
    <3>. QED BY <2>1, <3>1, <3>3, RepliedOwn DEF Commands
  <2>3. CASE chan.status \notin Ended
    <3>1. mpc' = "teststatus"  BY <1>3, <2>3 DEF Polled
    <3>. QED BY <2>1, <3>1, RepliedOwn DEF Commands
  <2>. QED BY <2>2, <2>3
<1>4. CASE ReadFirst
  <2>1. Replied("getstats") /\ read1' = chan.stats /\ mpc' = "getstats2"
        /\ UNCHANGED <<round, results>>
    BY <1>4 DEF ReadFirst
  <2>2. HeardOver /\ chan.stats = Measured(round)  BY <2>1, ReadsOwn
  <2>. QED BY <2>1, <2>2, RepliedOwn DEF Commands
<1>. QED BY <1>1, <1>2, <1>3, <1>4, SendOwn, TimeOutOwn, ReadSecondOwn DEF Driver

-----------------------------------------------------------------------------
(* The publisher.                                                          *)

\* What is common to the answers.
LEMMA AnsweredIs ==
  ASSUME IInv, OwnInv, NEW s, NEW d, Reply(s, d), chan.dir = "request", UNCHANGED driver
  PROVE  /\ chan'.dir = "reply" /\ chan'.status = s /\ chan'.stats = d
         /\ chan'.cmd = chan.cmd /\ chan'.conf = chan.conf
         /\ At = chan.cmd /\ At' = chan.cmd /\ ~Replying /\ Replying'
         /\ chan.cmd \in Commands /\ mpc \in {chan.cmd, "timedout"}
         /\ chan.conf.test = round /\ ChanInv' /\ ResultsInv'
         /\ round' = round /\ read1' = read1
<1>1. chan \in Messages  BY DEF IInv, TypeOK
<1>2. /\ chan'.dir = "reply" /\ chan'.status = s /\ chan'.stats = d
      /\ chan'.cmd = chan.cmd /\ chan'.conf = chan.conf
  BY <1>1 DEF Reply, Messages
<1>3. /\ chan.cmd \in Commands /\ mpc \in {chan.cmd, "timedout"} /\ chan.conf.test = round
      /\ mpc # "raised" /\ (mpc \in Commands \cup {"timedout"} => round <= MaxTests)
  BY DEF OwnInv, ChanInv
<1>4. mpc' = mpc /\ round' = round /\ read1' = read1 /\ results' = results  BY DEF driver
<1>5. At = chan.cmd /\ At' = chan.cmd  BY <1>2, <1>3, <1>4 DEF At
<1>6. ~Replying /\ Replying'  BY <1>2 DEF Replying
<1>7. ChanInv'  BY <1>2, <1>3, <1>4 DEF ChanInv
<1>8. ResultsInv'  BY <1>4 DEF OwnInv, ResultsInv, ResultsAreOwn
<1>. QED BY <1>2, <1>3, <1>4, <1>5, <1>6, <1>7, <1>8

\* The configuration of the round comes into force while no test is under way.
LEMMA UpdateConfigOwn ==
  ASSUME IInv, OwnInv, UpdateConfig, chan.dir = "request", UNCHANGED driver, cpc' = "turn"
  PROVE  OwnInv'
<1>1. /\ chan.cmd = "updateconfig" /\ config' = chan.conf /\ Reply("", Empty)
      /\ UNCHANGED <<publishing, start_publishing, stats, tests>>
  BY DEF UpdateConfig
<1>2. /\ At = "updateconfig" /\ At' = "updateconfig" /\ chan.conf.test = round
      /\ ChanInv' /\ ResultsInv' /\ round' = round
  BY <1>1, AnsweredIs
<1>3. ~InTest /\ ~InTest' /\ ~HeardOver' /\ ~Reading'
  BY <1>2 DEF InTest, HeardOver, Reading
<1>4. TestInv'
  <2>1. tests = round - 1 /\ ~publishing /\ ~start_publishing  BY <1>3 DEF OwnInv, TestInv
  <2>. QED BY <1>1, <1>2, <1>3, <2>1 DEF TestInv
<1>5. EndInv'  BY <1>3 DEF EndInv
<1>6. ReadInv'  BY <1>2, <1>3 DEF ReadInv
<1>. QED BY <1>2, <1>4, <1>5, <1>6 DEF OwnInv

\* No teststart comes before the test of the round before has been stopped.
LEMMA TestStartIs ==
  ASSUME IInv, OwnInv, TestStart, chan.dir = "request", UNCHANGED driver
  PROVE  /\ ~publishing /\ ~start_publishing /\ tests = round - 1
         /\ Reply("", Empty) /\ start_publishing' = TRUE /\ tests' = tests + 1
         /\ UNCHANGED <<publishing, config, stats>>
<1>1. chan.cmd = "teststart"  BY DEF TestStart
<1>2. At = "teststart" /\ ~Replying
  BY <1>1 DEF OwnInv, ChanInv, At, Replying, Commands
<1>3. ~InTest  BY <1>2 DEF InTest, Reading
<1>4. ~publishing /\ ~start_publishing /\ tests = round - 1  BY <1>3 DEF OwnInv, TestInv
<1>. QED BY <1>4 DEF TestStart

LEMMA TestStartOwn ==
  ASSUME IInv, OwnInv, TestStart, chan.dir = "request", UNCHANGED driver, cpc' = "turn"
  PROVE  OwnInv'
<1>1. /\ tests = round - 1 /\ Reply("", Empty) /\ start_publishing' = TRUE
      /\ tests' = tests + 1 /\ UNCHANGED <<publishing, config, stats>>
  BY TestStartIs
<1>2. chan.cmd = "teststart"  BY DEF TestStart
<1>3. /\ At = "teststart" /\ At' = "teststart" /\ Replying' /\ chan'.status = ""
      /\ ChanInv' /\ ResultsInv' /\ round' = round
  BY <1>1, <1>2, AnsweredIs
<1>4. InTest' /\ ~HeardOver' /\ ~Reading'
  BY <1>3 DEF InTest, HeardOver, Reading
<1>5. TestInv'
  <2>1. round \in Nat  BY CppAssumption DEF IInv, TypeOK
  <2>2. tests = round - 1 /\ tests' = tests + 1 /\ round' = round  BY <1>1, <1>3
  <2>3. tests' = round'  BY <2>1, <2>2
  <2>4. config'.test = round'  BY <1>1, <1>3 DEF OwnInv, TestInv
  <2>. QED BY <1>4, <2>3, <2>4 DEF TestInv
<1>6. EndInv'  BY <1>1, <1>4 DEF EndInv
<1>7. ReadInv'  BY <1>3, <1>4 DEF ReadInv, Refused
<1>. QED BY <1>3, <1>5, <1>6, <1>7 DEF OwnInv

\* A status of 'stopping' is given in a turn that goes on to stop the test.
LEMMA TestStatusOwn ==
  ASSUME IInv, OwnInv, TestStatus, chan.dir = "request", UNCHANGED driver,
         cpc' = "turn"
  PROVE  OwnInv'
<1>1. chan.cmd = "teststatus" /\ Reply(Status, Empty) /\ UNCHANGED control
  BY DEF TestStatus
<1>2. /\ publishing' = publishing /\ start_publishing' = start_publishing
      /\ config' = config /\ stats' = stats /\ tests' = tests
  BY <1>1 DEF control
<1>3. /\ At = "teststatus" /\ At' = "teststatus" /\ chan'.status = Status
      /\ ChanInv' /\ ResultsInv' /\ round' = round
  BY <1>1, AnsweredIs
<1>4. InTest /\ InTest' /\ ~Reading'  BY <1>3 DEF InTest, Reading
<1>5. TestInv'  BY <1>2, <1>3, <1>4 DEF OwnInv, TestInv
<1>6. EndInv'
  <2>1. HeardOver' => Status \in Ended  BY <1>3, <1>4 DEF HeardOver, Ended
  <2>2. start_publishing => Status \in {"running", "starting"}
    BY DEF Status, IInv, TypeOK
  <2>3. HeardOver' => ~start_publishing  BY <2>1, <2>2 DEF Ended
  <2>. QED BY <1>2, <1>3, <1>4, <2>3 DEF OwnInv, EndInv, Measured
<1>7. ReadInv'  BY <1>3, <1>4 DEF ReadInv
<1>. QED BY <1>3, <1>5, <1>6, <1>7 DEF OwnInv

\* The stats are asked for when the test has been stopped, and they are of this round.
LEMMA GetStatsOwn ==
  ASSUME IInv, OwnInv, GetStats, chan.dir = "request", UNCHANGED driver,
         cpc = "poll", cpc' = "turn"
  PROVE  OwnInv'
<1>1. chan.cmd \in {"getstats", "getstats2"} /\ Reply("", stats) /\ UNCHANGED control
  BY DEF GetStats
<1>2. /\ publishing' = publishing /\ start_publishing' = start_publishing
      /\ config' = config /\ stats' = stats /\ tests' = tests
  BY <1>1 DEF control
<1>3. /\ At = chan.cmd /\ At' = chan.cmd /\ chan'.stats = stats
      /\ ChanInv' /\ ResultsInv' /\ round' = round /\ read1' = read1
  BY <1>1, AnsweredIs
<1>4. InTest /\ InTest' /\ HeardOver /\ HeardOver' /\ Reading /\ Reading'
  BY <1>1, <1>3 DEF InTest, HeardOver, Reading
<1>5. ~start_publishing /\ ~publishing  BY <1>4 DEF OwnInv, EndInv
<1>6. stats = Measured(round)  BY <1>4, <1>5 DEF OwnInv, EndInv
<1>7. TestInv'  BY <1>2, <1>3, <1>4 DEF OwnInv, TestInv
<1>8. EndInv'  BY <1>2, <1>3, <1>4, <1>5, <1>6 DEF EndInv, Measured
<1>9. ReadInv'
  <2>1. At' # "teststart"  BY <1>1, <1>3
  <2>2. Measured(round)' = Measured(round)  BY <1>3 DEF Measured
  <2>3. At = "getstats2" => read1 = Measured(round)  BY DEF OwnInv, ReadInv
  <2>. QED BY <1>2, <1>3, <1>5, <1>6, <2>1, <2>2, <2>3 DEF ReadInv
<1>. QED BY <1>3, <1>7, <1>8, <1>9 DEF OwnInv

LEMMA PollOwn == ASSUME IInv, OwnInv, Poll PROVE OwnInv'
<1>1. cpc = "poll" /\ cpc' = "turn" /\ UNCHANGED driver  BY DEF Poll
<1>2. CASE chan.dir = "request"
  <2>1. UpdateConfig \/ TestStart \/ TestStatus \/ GetStats  BY <1>2 DEF Poll
  <2>. QED BY <1>1, <1>2, <2>1, UpdateConfigOwn, TestStartOwn, TestStatusOwn, GetStatsOwn
<1>3. CASE chan.dir # "request"
  <2>1. UNCHANGED <<chan, control>>  BY <1>3 DEF Poll
  <2>. QED BY <1>1, <2>1, LoopKeepsOwn
<1>. QED BY <1>2, <1>3

\* A step of the publisher that leaves the pair alone.
LEMMA BetweenKeepsOwn ==
  ASSUME OwnInv, UNCHANGED <<driver, chan, config, tests>>, InTest,
         EndInv', HeardOver => UNCHANGED stats \/ stats' = Measured(round),
         Reading /\ Replying => ~publishing'
  PROVE  OwnInv'
<1>1. mpc' = mpc /\ round' = round /\ read1' = read1 /\ results' = results /\ chan' = chan
  BY DEF driver
<1>2. At' = At /\ (InTest' <=> InTest) /\ (Reading' <=> Reading) /\ (Replying' <=> Replying)
  BY <1>1 DEF At, InTest, Reading, Replying
<1>3. ChanInv'  BY <1>1 DEF OwnInv, ChanInv
<1>4. TestInv'  BY <1>1, <1>2 DEF OwnInv, TestInv
<1>5. ReadInv'  BY <1>1, <1>2 DEF OwnInv, ReadInv, Measured
<1>6. ResultsInv'  BY <1>1 DEF OwnInv, ResultsInv, ResultsAreOwn
<1>. QED BY <1>3, <1>4, <1>5, <1>6 DEF OwnInv

LEMMA HeardOverStays ==
  ASSUME UNCHANGED <<driver, chan>>
  PROVE  (HeardOver' <=> HeardOver) /\ (InTest' <=> InTest) /\ Measured(round)' = Measured(round)
BY DEF driver, HeardOver, InTest, Reading, Replying, At, Measured

LEMMA BeginOwn == ASSUME IInv, OwnInv, Begin PROVE OwnInv'
<1>1. /\ start_publishing /\ publishing' = TRUE /\ start_publishing' = start_publishing
      /\ UNCHANGED <<driver, chan, config, tests>>
  BY DEF Begin
<1>2. InTest  BY <1>1 DEF OwnInv, TestInv
<1>3. ~HeardOver  BY <1>1 DEF OwnInv, EndInv
<1>4. EndInv'  BY <1>1, <1>3, HeardOverStays DEF EndInv
<1>5. ~Reading  BY <1>3 DEF HeardOver
<1>. QED BY <1>1, <1>2, <1>3, <1>4, <1>5, BetweenKeepsOwn

LEMMA StopOwn == ASSUME IInv, OwnInv, Stop PROVE OwnInv'
<1>1. /\ publishing /\ ~start_publishing /\ publishing' = FALSE /\ cpc' = "poll"
      /\ stats' = [k \in Keys |-> config.test]
      /\ start_publishing' = start_publishing /\ UNCHANGED <<driver, chan, config, tests>>
  BY DEF Stop
<1>2. InTest  BY <1>1 DEF OwnInv, TestInv
<1>3. stats' = Measured(round)  BY <1>1, <1>2 DEF OwnInv, TestInv, Measured
<1>4. EndInv'  BY <1>1, <1>3, HeardOverStays DEF EndInv
<1>. QED BY <1>1, <1>2, <1>3, <1>4, BetweenKeepsOwn

LEMMA OverOwn == ASSUME IInv, OwnInv, Over PROVE OwnInv'
<1>1. /\ cpc = "send" /\ start_publishing' = FALSE /\ cpc' = "poll"
      /\ publishing' = publishing /\ stats' = stats
      /\ UNCHANGED <<driver, chan, config, tests>>
  BY DEF Over
<1>2. publishing /\ start_publishing  BY <1>1 DEF OwnInv, EndInv
<1>3. InTest  BY <1>2 DEF OwnInv, TestInv
<1>4. ~HeardOver  BY <1>2 DEF OwnInv, EndInv
<1>5. EndInv'  BY <1>1, <1>2, <1>4, HeardOverStays DEF EndInv
<1>6. ~Reading  BY <1>4 DEF HeardOver
<1>. QED BY <1>1, <1>3, <1>4, <1>5, <1>6, BetweenKeepsOwn

LEMMA SendingOwn == ASSUME IInv, OwnInv, BreakOff \/ Pause \/ Burst PROVE OwnInv'
<1>1. /\ cpc = "send" /\ cpc' \in {"send", "poll"} /\ UNCHANGED <<driver, chan, control>>
  BY DEF BreakOff, Pause, Burst
<1>2. publishing /\ start_publishing  BY <1>1 DEF OwnInv, EndInv
<1>3. publishing' /\ start_publishing' /\ stats' = stats /\ UNCHANGED <<config, tests>>
  BY <1>1, <1>2 DEF control
<1>4. InTest  BY <1>2 DEF OwnInv, TestInv
<1>5. ~HeardOver  BY <1>2 DEF OwnInv, EndInv
<1>6. EndInv'  BY <1>1, <1>3, <1>5, HeardOverStays DEF EndInv
<1>7. ~Reading  BY <1>5 DEF HeardOver
<1>. QED BY <1>1, <1>3, <1>4, <1>5, <1>6, <1>7, BetweenKeepsOwn

LEMMA GoOwn == ASSUME IInv, OwnInv, Go PROVE OwnInv'
<1>1. /\ publishing = start_publishing /\ cpc' = (IF publishing THEN "send" ELSE "poll")
      /\ UNCHANGED <<driver, chan, control>>
  BY DEF Go
<1>2. /\ mpc' = mpc /\ round' = round /\ read1' = read1 /\ results' = results /\ chan' = chan
      /\ publishing' = publishing /\ start_publishing' = start_publishing
      /\ config' = config /\ stats' = stats /\ tests' = tests
  BY <1>1 DEF driver, control
<1>3. At' = At /\ (InTest' <=> InTest) /\ (HeardOver' <=> HeardOver) /\ (Reading' <=> Reading)
      /\ (Replying' <=> Replying)
  BY <1>2 DEF At, InTest, HeardOver, Reading, Replying
<1>4. ChanInv'  BY <1>2 DEF OwnInv, ChanInv
<1>5. TestInv'  BY <1>2, <1>3 DEF OwnInv, TestInv
<1>6. EndInv'
  <2>1. cpc' = "send" => publishing /\ start_publishing  BY <1>1
  <2>2. HeardOver => ~start_publishing /\ ~publishing  BY <1>1 DEF OwnInv, EndInv
  <2>. QED BY <1>2, <1>3, <2>1, <2>2 DEF OwnInv, EndInv, Measured
<1>7. ReadInv'  BY <1>2, <1>3 DEF OwnInv, ReadInv, Measured
<1>8. ResultsInv'  BY <1>2 DEF OwnInv, ResultsInv, ResultsAreOwn
<1>. QED BY <1>4, <1>5, <1>6, <1>7, <1>8 DEF OwnInv

LEMMA NextOwn == ASSUME IInv, OwnInv, [Next]_vars PROVE OwnInv'
<1>1. CASE Elapse  BY <1>1, LoopKeepsOwn DEF Elapse
<1>2. CASE UNCHANGED vars  BY <1>2, LoopKeepsOwn DEF vars, loop
<1>. QED
  BY <1>1, <1>2, DriverOwn, PollOwn, BeginOwn, StopOwn, OverOwn, SendingOwn, GoOwn
  DEF Next, Publisher

LEMMA InductiveOwn == Spec => []OwnInv
<1>1. Init => OwnInv  BY InitOwn
<1>2. IInv /\ OwnInv /\ [Next]_vars => OwnInv'  BY NextOwn
<1>. QED BY <1>1, <1>2, Inductive, PTL DEF Spec

\* For any batch sizes and any number of tests, the driver's t-th result was measured
\* by its t-th test, whole.
THEOREM ResultsAreOwnAlways == Spec => []ResultsAreOwn
<1>1. OwnInv => ResultsAreOwn  BY DEF OwnInv, ResultsInv
<1>. QED BY <1>1, InductiveOwn, PTL

\* For any batch sizes and any number of tests, no teststart is refused, and no stats are
\* read that lack msg_cnt.
THEOREM NothingRaisedAlways == Spec => []NothingRaised
<1>1. OwnInv => NothingRaised  BY DEF OwnInv, ChanInv, NothingRaised
<1>. QED BY <1>1, InductiveOwn, PTL

\* The publisher loses no start: when it has accepted a test's teststart and is at rest
\* again, it has run that test, and its stats are those of all of it.  (The publisher in
\* Python may lose one; TestRunLostStart.cfg.)
RestsOnlyAfterTest ==
  tests = round /\ ~publishing /\ ~start_publishing => stats = Measured(round)

THEOREM RestsOnlyAfterTestAlways == Spec => []RestsOnlyAfterTest
<1>1. ASSUME IInv, OwnInv PROVE RestsOnlyAfterTest
  <2>1. round \in Nat  BY <1>1, CppAssumption DEF IInv, TypeOK
  <2>2. tests = round => InTest  BY <1>1, <2>1 DEF OwnInv, TestInv
  <2>. QED BY <1>1, <2>2 DEF OwnInv, EndInv, RestsOnlyAfterTest
<1>. QED BY <1>1, Inductive, InductiveOwn, PTL

-----------------------------------------------------------------------------
(* Refinement.                                                             *)

LEMMA InitImplements == Init => Cycle!Init
<1> SUFFICES ASSUME Init PROVE Cycle!Init  OBVIOUS
<1>1. tests = 0 /\ round = 1 /\ results = <<>>  BY DEF Init
<1>. QED BY <1>1 DEF Cycle!Init

\* The answer to a teststart starts the abstract test, the end of its duration ends it,
\* and the second read collects it; every other step is invisible.
LEMMA NextImplements == ASSUME IInv, OwnInv, [Next]_vars PROVE [Cycle!Next]_Cycle!vars
<1>. DEFINE pub == IF tests # round THEN "idle" ELSE IF start_publishing THEN "running" ELSE "ended"
<1>0. round \in Nat /\ round \in 1..MaxTests + 1 /\ MaxTests \in Nat
  BY CppAssumption DEF IInv, TypeOK
<1>1. ASSUME tests' = tests, round' = round, results' = results,
             start_publishing' = start_publishing
      PROVE  UNCHANGED Cycle!vars
  BY <1>1 DEF Cycle!vars
<1>2. CASE TestStart /\ Poll /\ chan.dir = "request"
  <2>1. UNCHANGED driver  BY <1>2 DEF Poll
  <2>2. tests = round - 1 /\ start_publishing' = TRUE /\ tests' = tests + 1
    BY <1>2, <2>1, TestStartIs
  <2>3. round' = round /\ results' = results  BY <2>1 DEF driver
  <2>4. tests # round /\ tests' = round'  BY <1>0, <2>2, <2>3
  <2>5. pub = "idle" /\ pub' = "running"  BY <2>2, <2>4
  <2>6. round \in 1..MaxTests
    <3>1. chan.cmd = "teststart" /\ mpc \in {chan.cmd, "timedout"}
      BY <1>2 DEF TestStart, OwnInv, ChanInv
    <3>2. mpc \in Commands \cup {"timedout"}  BY <3>1 DEF Commands
    <3>. QED BY <1>0, <3>2 DEF OwnInv, ChanInv
  <2>7. Cycle!Start  BY <2>3, <2>5, <2>6 DEF Cycle!Start
  <2>. QED BY <2>7 DEF Cycle!Next
<1>3. CASE Over
  <2>1. /\ cpc = "send" /\ start_publishing' = FALSE /\ tests' = tests
        /\ round' = round /\ results' = results
    BY <1>3 DEF Over, driver
  <2>2. start_publishing  BY <2>1 DEF OwnInv, EndInv
  <2>3. tests = round  BY <2>2 DEF OwnInv, TestInv
  <2>4. pub = "running" /\ pub' = "ended"  BY <2>1, <2>2, <2>3
  <2>5. Cycle!Finish  BY <2>1, <2>4 DEF Cycle!Finish
  <2>. QED BY <2>5 DEF Cycle!Next
<1>4. CASE ReadSecond
  <2>1. Replied("getstats2")  BY <1>4 DEF ReadSecond
  <2>2. ~start_publishing /\ tests = round /\ read1 = Measured(round)
    BY <2>1, ReadsOwn
  <2>3. results' = Append(results, read1) /\ round' = round + 1  BY <1>4, ReadSecondIs
  <2>4. tests' = tests /\ start_publishing' = start_publishing
    BY <2>1 DEF Replied, control
  <2>5. tests' # round'  BY <1>0, <2>2, <2>3, <2>4
  <2>6. pub = "ended" /\ pub' = "idle"  BY <2>2, <2>5
  <2>7. Cycle!Collect  BY <2>2, <2>3, <2>6 DEF Cycle!Collect, Measured
  <2>. QED BY <2>7 DEF Cycle!Next
<1>5. CASE Send \/ Configured \/ Started \/ Polled \/ ReadFirst \/ TimeOut
  <2>1. round' = round /\ results' = results /\ UNCHANGED control
    BY <1>5 DEF Send, Configured, Started, Polled, ReadFirst, TimeOut, Replied, driver
  <2>. QED BY <1>1, <2>1 DEF control
<1>6. CASE Poll
  <2>1. CASE chan.dir = "request"
    <3>1. UpdateConfig \/ TestStart \/ TestStatus \/ GetStats  BY <1>6, <2>1 DEF Poll
    <3>2. CASE UpdateConfig \/ TestStatus \/ GetStats
      <4>1. tests' = tests /\ start_publishing' = start_publishing
        BY <3>2 DEF UpdateConfig, TestStatus, GetStats, control
      <4>2. round' = round /\ results' = results  BY <1>6 DEF Poll, driver
      <4>. QED BY <1>1, <4>1, <4>2
    <3>. QED BY <1>2, <1>6, <2>1, <3>1, <3>2
  <2>2. CASE chan.dir # "request"
    <3>1. UNCHANGED <<driver, control>>  BY <1>6, <2>2 DEF Poll
    <3>. QED BY <1>1, <3>1 DEF driver, control
  <2>. QED BY <2>1, <2>2
<1>7. CASE Begin \/ Stop \/ Go \/ BreakOff \/ Pause \/ Burst \/ Elapse \/ UNCHANGED vars
  <2>1. /\ tests' = tests /\ start_publishing' = start_publishing
        /\ round' = round /\ results' = results
    BY <1>7 DEF Begin, Stop, Go, BreakOff, Pause, Burst, Elapse, vars, driver, control
  <2>. QED BY <1>1, <2>1
<1>. QED BY <1>3, <1>4, <1>5, <1>6, <1>7 DEF Next, Driver, Publisher

\* For any batch sizes and any number of tests, driver and C++ publisher together
\* implement TestCycle: a test is started once, ends once, and is collected once, complete.
THEOREM RefinesTestCycle == Spec => ImplementsCycle
<1>1. Init => Cycle!Init  BY InitImplements
<1>2. IInv /\ OwnInv /\ [Next]_vars => [Cycle!Next]_Cycle!vars  BY NextImplements
<1>. QED BY <1>1, <1>2, Inductive, InductiveOwn, PTL DEF Spec, Cycle!Spec, ImplementsCycle
=============================================================================
