----------------------------- MODULE CppTestRun -----------------------------
(***************************************************************************)
(* The test driver against the C++ publisher (zmq_pub.cc, launched when    *)
(* --c_pub is given).  It has one thread: each turn of its main loop       *)
(* answers at most one request, then starts or stops a test, then sends    *)
(* until its batch counter makes it break off, just before it sleeps.      *)
(*                                                                         *)
(* The driver is the one of module TestRun; here it also picks a batch     *)
(* size for each test, and a teststart may be refused.  As there, a        *)
(* measured value stands for the test under whose configuration it was     *)
(* measured.  std::time(0) is abstracted to whether the test's duration is *)
(* over; the delay of a sleep plays no part.                               *)
(***************************************************************************)
EXTENDS Naturals, Sequences

CONSTANTS MaxTests,    \* bound: the tests one driver runs
          Batches,     \* the values of --msg_batch
          IntRange     \* the values of a uint32_t: 2^32 in the code

ASSUME CppAssumption == /\ MaxTests \in Nat \ {0}
                        /\ IntRange \in Nat /\ IntRange > 3
                        /\ Batches \subseteq 0..IntRange - 1 /\ Batches # {}

VARIABLES
  mpc,          \* driver: the command it is at, or how it ended
  round,        \* driver: the test it is at
  read1,        \* driver: what the first of the two getstats returned
  results,      \* driver: the stats kept, one record per finished test
  chan,         \* the REQ/REP pair
  cpc,          \* publisher: where in its main loop it is
  publishing, start_publishing,       \* TestControl
  config,       \* TestControl: test_duration, msg_requested_rate and msg_batch
  stats,        \* TestControl: intStats and floatStats
  cnt,          \* the batch counter
  late,         \* duration > test_duration, were it looked at now
  tests,        \* how many teststarts have been accepted
  sent,         \* messages sent since the last zmq_poll
  slept         \* sleeps since the last zmq_poll

driver  == <<mpc, round, read1, results>>
control == <<publishing, start_publishing, config, stats, tests>>
loop    == <<cpc, cnt, late, sent, slept>>
vars    == <<driver, chan, control, loop>>

Keys     == {"time:end", "rate", "msg_cnt"}
Stats    == UNION {[K -> 0..MaxTests] : K \in SUBSET Keys}
Empty    == <<>>
Configs  == [test : 0..MaxTests, batch : Batches]
Commands == {"updateconfig", "teststart", "teststatus", "getstats", "getstats2"}
Ended    == {"done", "stopping", "stopped"}
Refused  == "error"
Messages == [dir : {"none", "request", "reply"}, cmd : Commands \cup {"none"},
             conf : Configs,
             status : Ended \cup {"", "running", "starting", Refused}, stats : Stats]

Default == [test |-> 0, batch |-> CHOOSE b \in Batches : TRUE]

Init ==
  /\ mpc = "updateconfig" /\ round = 1 /\ read1 = Empty /\ results = <<>>
  /\ chan = [dir |-> "none", cmd |-> "none", conf |-> Default, status |-> "", stats |-> Empty]
  /\ cpc = "poll" /\ cnt = 0 /\ late = FALSE /\ sent = 0 /\ slept = 0
  /\ publishing = FALSE /\ start_publishing = FALSE
  /\ config = Default
  /\ stats = Empty /\ tests = 0

-----------------------------------------------------------------------------
(* The driver.                                                             *)

Send == /\ mpc \in Commands
        /\ chan.dir = "none"
        /\ \E b \in Batches :
             /\ mpc # "updateconfig" => b = chan.conf.batch
             /\ chan' = [chan EXCEPT !.dir = "request", !.cmd = mpc,
                                     !.conf = [test |-> round, batch |-> b]]
        /\ UNCHANGED <<driver, control, loop>>

Replied(c) == /\ mpc = c
              /\ chan.dir = "reply"
              /\ chan' = [chan EXCEPT !.dir = "none", !.status = "", !.stats = Empty]
              /\ UNCHANGED <<control, loop>>

Configured == Replied("updateconfig") /\ mpc' = "teststart" /\ UNCHANGED <<round, read1, results>>

\* start_test asserts that the status of the reply is 'ok'.
Started == /\ Replied("teststart")
           /\ mpc' = IF chan.status = Refused THEN "raised" ELSE "teststatus"
           /\ UNCHANGED <<round, read1, results>>

Polled == /\ Replied("teststatus")
          /\ mpc' = IF chan.status \in Ended THEN "getstats" ELSE "teststatus"
          /\ UNCHANGED <<round, read1, results>>

ReadFirst == /\ Replied("getstats")
             /\ read1' = chan.stats
             /\ mpc' = "getstats2"
             /\ UNCHANGED <<round, results>>

ReadSecond ==
  /\ Replied("getstats2")
  /\ IF "msg_cnt" \notin DOMAIN read1 \cap DOMAIN chan.stats
     THEN mpc' = "raised" /\ UNCHANGED <<round, read1, results>>
     ELSE IF read1["msg_cnt"] # chan.stats["msg_cnt"]
     THEN mpc' = "getstats2" /\ read1' = chan.stats /\ UNCHANGED <<round, results>>
     ELSE /\ results' = Append(results, read1)
          /\ read1' = Empty
          /\ round' = round + 1
          /\ mpc' = IF round < MaxTests THEN "updateconfig" ELSE "finished"

TimeOut == /\ mpc \in Commands
           /\ chan.dir = "request"
           /\ mpc' = "timedout"
           /\ UNCHANGED <<round, read1, results, chan, control, loop>>

Driver == \/ Send \/ Configured \/ Started \/ Polled \/ ReadFirst \/ ReadSecond
          \/ TimeOut

-----------------------------------------------------------------------------
(* The publisher.                                                          *)

Reply(s, d) == chan' = [chan EXCEPT !.dir = "reply", !.status = s, !.stats = d]

\* process_message, one command each.
UpdateConfig == /\ chan.cmd = "updateconfig"
                /\ config' = chan.conf
                /\ Reply("", Empty)
                /\ UNCHANGED <<publishing, start_publishing, stats, tests>>

TestStartAtOnce == /\ chan.cmd = "teststart"
                   /\ IF publishing \/ start_publishing
                      THEN Reply(Refused, Empty) /\ UNCHANGED <<publishing, tests>>
                      ELSE Reply("", Empty) /\ publishing' = TRUE /\ tests' = tests + 1
                   /\ UNCHANGED <<start_publishing, config, stats>>

TestStart == /\ chan.cmd = "teststart"
             /\ IF publishing \/ start_publishing
                THEN Reply(Refused, Empty) /\ UNCHANGED <<start_publishing, tests>>
                ELSE Reply("", Empty) /\ start_publishing' = TRUE /\ tests' = tests + 1
             /\ UNCHANGED <<publishing, config, stats>>

Status == CASE publishing /\ start_publishing   -> "running"
            [] publishing /\ ~start_publishing  -> "stopping"
            [] ~publishing /\ start_publishing  -> "starting"
            [] OTHER                            -> "stopped"

TestStatus == /\ chan.cmd = "teststatus" /\ Reply(Status, Empty) /\ UNCHANGED control

GetStats == /\ chan.cmd \in {"getstats", "getstats2"}
            /\ Reply("", stats)
            /\ UNCHANGED control

\* zmq_poll with no timeout, then recv and send if there was a request.
Poll == /\ cpc = "poll"
        /\ IF chan.dir = "request"
           THEN UpdateConfig \/ TestStart \/ TestStatus \/ GetStats
           ELSE UNCHANGED <<chan, control>>
        /\ cpc' = "turn" /\ sent' = 0 /\ slept' = 0
        /\ UNCHANGED <<driver, cnt, late>>

\* start_test
Begin == /\ cpc = "turn" /\ ~publishing /\ start_publishing
         /\ publishing' = TRUE
         /\ stats' = Empty
         /\ cnt' = 0 /\ late' = FALSE
         /\ cpc' = "send"
         /\ UNCHANGED <<driver, chan, start_publishing, config, tests, sent, slept>>

\* stop_test
Stop == /\ cpc = "turn" /\ publishing /\ ~start_publishing
        /\ publishing' = FALSE
        /\ stats' = [k \in Keys |-> config.test]
        /\ cpc' = "poll"
        /\ UNCHANGED <<driver, chan, start_publishing, config, tests, cnt, late, sent, slept>>

\* Neither: back to the batch, or idle for a second.
Go == /\ cpc = "turn" /\ publishing = start_publishing
      /\ cpc' = IF publishing THEN "send" ELSE "poll"
      /\ UNCHANGED <<driver, chan, control, cnt, late, sent, slept>>

CountOn == cnt + 1
Count  == (cnt + 1) % IntRange

BeforeFull == config.batch
Before == (config.batch + IntRange - 1) % IntRange      \* msg_batch - 1
More(n) == IF n < IntRange THEN n + 1 ELSE n

\* Break once before the sleep, to let poll run.
BreakOff == /\ cpc = "send" /\ Count = Before
            /\ cnt' = Count
            /\ cpc' = "poll"
            /\ UNCHANGED <<driver, chan, control, late, sent, slept>>

BatchFull == Count > Before /\ Count >= config.batch

OverAndOver == /\ cpc = "send" /\ BatchFull /\ late
               /\ cnt' = Count /\ cpc' = "poll"
               /\ UNCHANGED <<driver, chan, control, late, sent, slept>>

OverNoStop == /\ cpc = "send" /\ BatchFull /\ late
              /\ start_publishing' = FALSE /\ publishing' = FALSE
              /\ cnt' = Count
              /\ cpc' = "poll"
              /\ UNCHANGED <<driver, chan, config, stats, tests, late, sent, slept>>

\* The duration is over.
Over == /\ cpc = "send" /\ BatchFull /\ late
        /\ start_publishing' = FALSE
        /\ cnt' = Count
        /\ cpc' = "poll"
        /\ UNCHANGED <<driver, chan, publishing, config, stats, tests, late, sent, slept>>

\* It is not: sleep off the delay, begin another batch with one message.
Pause == /\ cpc = "send" /\ BatchFull /\ ~late
         /\ cnt' = 0
         /\ sent' = More(sent) /\ slept' = More(slept)
         /\ UNCHANGED <<driver, chan, control, cpc, late>>

Burst == /\ cpc = "send" /\ Count # Before /\ ~BatchFull
         /\ cnt' = Count
         /\ sent' = More(sent)
         /\ UNCHANGED <<driver, chan, control, cpc, late, slept>>

Publisher == Poll \/ Begin \/ Stop \/ Go \/ BreakOff \/ Over \/ Pause \/ Burst

\* The clock.
Elapse == /\ publishing /\ start_publishing /\ ~late
          /\ late' = TRUE
          /\ UNCHANGED <<driver, chan, control, cpc, cnt, sent, slept>>

-----------------------------------------------------------------------------
Next == Driver \/ Publisher \/ Elapse

Spec == Init /\ [][Next]_vars

\* Two processes that keep running, and a clock.
FairSpec == Spec /\ WF_vars(Driver) /\ WF_vars(Publisher) /\ WF_vars(Elapse)

-----------------------------------------------------------------------------
(* Properties.                                                             *)

\* Every variable stays within the values the code gives it.
TypeOK ==
  /\ mpc \in Commands \cup {"finished", "timedout", "raised"}
  /\ round \in 1..MaxTests + 1
  /\ read1 \in Stats /\ results \in Seq(Stats)
  /\ chan \in Messages
  /\ cpc \in {"poll", "turn", "send"}
  /\ publishing \in BOOLEAN /\ start_publishing \in BOOLEAN /\ late \in BOOLEAN
  /\ config \in Configs
  /\ stats \in Stats
  /\ cnt \in 0..IntRange - 1
  /\ tests \in Nat
  /\ sent \in 0..IntRange /\ slept \in 0..IntRange

\* What the driver keeps for its t-th test was measured by that test, whole: the
\* 'stopping' it is told precedes stop_test, but the getstats it sends next is
\* answered only in a later turn.
ResultsAreOwn ==
  \A t \in 1..Len(results) : DOMAIN results[t] = Keys /\ \A k \in Keys : results[t][k] = t

\* No teststart is refused, and no stats are read that lack msg_cnt.
NothingRaised == mpc # "raised"

\* A request never waits for more than one batch, nor for more than one sleep,
\* whatever the batch, as long as there is one to break off before its end.
PollsEveryBatch == config.batch >= 2 => sent < config.batch /\ slept <= 1

\* Every test ends, or times out.  With a batch of 0 the counter never reaches the
\* check of the duration: such a test runs for ever.
EveryTestEnds ==
  \A t \in 1..MaxTests :
    (round = t) ~> (round > t \/ mpc = "timedout" \/ (config.batch = 0 /\ tests = t))

\* Driver and C++ publisher implement the cycle the Python publisher implements.
Cycle == INSTANCE TestCycle WITH
  pub <- IF tests # round THEN "idle" ELSE IF start_publishing THEN "running" ELSE "ended"
ImplementsCycle == Cycle!Spec
=============================================================================
